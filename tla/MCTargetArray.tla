---------------------------- MODULE MCTargetArray ----------------------------
(* Model-checking instance of TargetArray: up to three command line        *)
(* arguments, enough for a third "@REV", and one --targets entry.         *)
EXTENDS TargetArray
=============================================================================
