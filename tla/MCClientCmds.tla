---------------------------- MODULE MCClientCmds -----------------------------
(* Model-checking instance of ClientCmds: two paths in every schedule and  *)
(* up to three targets, so a path may be named twice and a failure may    *)
(* fall before, between or after handled targets.                         *)
EXTENDS ClientCmds

CONSTANTS p1, p2

MCPaths == {p1, p2}
=============================================================================
