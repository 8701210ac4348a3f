\* The memmove size of strip_prefix_from_buffer on every buffer of up to six bytes.
CONSTANTS
  Bytes <- MCBytes
  Prefix <- MCPrefix
  NL <- MCNL
  MaxLen = 6

SPECIFICATION Spec

\* The function returns: its final states have no successor.
CHECK_DEADLOCK FALSE

INVARIANT NoMemmoveOverrun
