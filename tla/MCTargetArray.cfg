\* args_to_target_array on every argument list of up to three targets and
\* every --targets file of up to one entry.
CONSTANTS
  Null = Null
  MaxArgs = 3
  MaxFile = 1
  MaxNum = 2

SPECIFICATION Spec

\* The call returns: its final states have no successor.
CHECK_DEADLOCK FALSE

INVARIANT TypeOK
