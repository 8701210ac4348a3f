---------------------------- MODULE MCLogMessage ----------------------------
(* Model-checking instance of LogMessage: messages of up to two bytes over *)
(* a space, a newline and "S", with the one-byte prefix "S": a message may *)
(* be blank, be all prefixed lines, or keep a line after the strip.        *)
EXTENDS LogMessage

MCChars == {" ", "S", "\n"}
MCSpaces == {" ", "\n"}
MCPrefix == <<"S">>
MCNL == "\n"
=============================================================================
