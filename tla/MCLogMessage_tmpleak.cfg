\* Temp-file cleanup on every return of edit_externally.
CONSTANTS
  Null = Null
  Chars <- MCChars
  Spaces <- MCSpaces
  Prefix <- MCPrefix
  NL <- MCNL
  MaxMsgLen = 2

SPECIFICATION Spec

\* The call returns: its final states have no successor.
CHECK_DEADLOCK FALSE

INVARIANT TmpRemovedOnEveryReturn
