\* Every buffer of up to six bytes through strip_prefix_from_buffer: the
\* result, and that the loop ends.  Six bytes hold two prefixed lines, a
\* partial prefix and the stale tails of two memmoves.
CONSTANTS
  Bytes <- MCBytes
  Prefix <- MCPrefix
  NL <- MCNL
  MaxLen = 6

SPECIFICATION Spec

\* The function returns: its final states have no successor.
CHECK_DEADLOCK FALSE

INVARIANT TypeOK
INVARIANT StripsPrefixedLines
PROPERTY Terminates
