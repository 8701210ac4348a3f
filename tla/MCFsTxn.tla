------------------------------ MODULE MCFsTxn ------------------------------
(* Model-checking instance of FsTxn: two writers, one path, two contents. *)
EXTENDS FsTxn

CONSTANTS t1, t2, p1, c1, c2, k1, k2, k3

MCTxns == {t1, t2}
MCPaths == {p1}
MCContents == {c1, c2}
MCRepKeys == {k1, k2, k3}
=============================================================================
