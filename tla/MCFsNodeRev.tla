----------------------------- MODULE MCFsNodeRev -----------------------------
(* Model-checking instance of FsNodeRev: two writers, one or two paths.   *)
EXTENDS FsNodeRev

CONSTANTS t1, t2, p1, p2

MCTxns == {t1, t2}
MCPaths == {p1}
=============================================================================
