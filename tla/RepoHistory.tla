---------------------------- MODULE RepoHistory ----------------------------
(***************************************************************************)
(* What the FSFS revision store promises its readers (spec.md 3, 4.5, 8):  *)
(* an append-only, dense sequence of immutable snapshots numbered from 0,  *)
(* where revision 0 is the empty root.  A commit appends exactly one       *)
(* snapshot; nothing ever changes a snapshot already published.  FsTxn is  *)
(* shown to implement this module under a refinement mapping.             *)
(***************************************************************************)
EXTENDS Naturals

CONSTANTS Paths,     \* the file paths of the tree
          Contents,  \* the file contents a path may hold
          Absent,    \* marks a path not present in a snapshot
          MaxRev     \* the largest revision number explored

\* What a reader can observe at a path: some content, or nothing.
View == Contents \cup {Absent}

VARIABLES head,      \* the youngest published revision
          history    \* revision number -> the snapshot a reader sees

vars == <<head, history>>

Init == /\ head = 0
        /\ history = [r \in {0} |-> [p \in Paths |-> Absent]]

\* One commit publishes one new snapshot, numbered head + 1.
Commit == /\ head < MaxRev
          /\ \E snap \in [Paths -> View] :
               /\ head' = head + 1
               /\ history' = [r \in 0..head + 1 |->
                                IF r <= head THEN history[r] ELSE snap]

Spec == Init /\ [][Commit]_vars
=============================================================================
