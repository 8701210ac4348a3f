\* One call of svn_cl__get_log_message under every environment failure.
CONSTANTS
  Null = Null
  Chars <- MCChars
  Spaces <- MCSpaces
  Prefix <- MCPrefix
  NL <- MCNL
  MaxMsgLen = 2

SPECIFICATION Spec

\* The call returns: its final states have no successor.
CHECK_DEADLOCK FALSE

INVARIANT TypeOK
INVARIANT MessageFromUser
