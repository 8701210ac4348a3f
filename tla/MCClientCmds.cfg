\* svn add and svn revert on up to three targets over two paths.
CONSTANTS
  p1 = p1
  p2 = p2
  Paths <- MCPaths
  MaxTargets = 3

SPECIFICATION Spec

\* The subcommand returns: its final states have no successor.
CHECK_DEADLOCK FALSE

INVARIANT TypeOK
INVARIANT CommandEffect
