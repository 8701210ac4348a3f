----------------------------- MODULE MCListParse -----------------------------
(* Model-checking instance of ListParse: buffers of up to five bytes over   *)
(* a letter, a space and a newline; enough for blank lines, runs of white  *)
(* space at both ends and two items.                                       *)
EXTENDS ListParse

MCBytes == {"a", " ", "\n"}
MCSpaces == {" ", "\n"}
MCNewlines == {"\n"}
=============================================================================
