\* The white-space-only test of get_log_message against its comment.
CONSTANTS
  Null = Null
  Chars <- MCChars
  Spaces <- MCSpaces
  Prefix <- MCPrefix
  NL <- MCNL
  MaxMsgLen = 2

SPECIFICATION Spec

\* The call returns: its final states have no successor.
CHECK_DEADLOCK FALSE

INVARIANT BlankMessageRejected
