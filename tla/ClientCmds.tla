----------------------------- MODULE ClientCmds -----------------------------
(***************************************************************************)
(* svn_cl__add (clients/cmdline/add-cmd.c) and svn_cl__revert              *)
(* (clients/cmdline/revert-cmd.c): loop over the targets of the command    *)
(* line and call svn_client_add or svn_client_revert on each.             *)
(*                                                                         *)
(* The working copy is abstracted to the schedule of each path.  The      *)
(* library calls are single steps: add fails with SVN_ERR_ENTRY_EXISTS    *)
(* on a path already under version control, and either call may fail with *)
(* any other error (I/O, a locked working copy) before it changes         *)
(* anything.  The targets are the array args_to_target_array returns     *)
(* (TargetArray), here any short sequence of paths, possibly empty.       *)
(***************************************************************************)
EXTENDS Naturals, Sequences, SequencesExt

CONSTANTS Paths,       \* the working-copy paths named on the command line
          MaxTargets   \* bound: the most targets explored

\* A path's state in the working copy.
Schedules == {"unversioned", "added", "normal", "modified"}

VARIABLES cmd,      \* the subcommand run
          targets,  \* the targets array
          wc0,      \* the working copy when the command started
          wc,       \* the working copy
          i,        \* the loop index, 1-based
          pc,
          result    \* the error the subcommand returns

vars == <<cmd, targets, wc0, wc, i, pc, result>>

TypeOK ==
  /\ cmd \in {"add", "revert"}
  /\ targets \in Seq(Paths) /\ Len(targets) <= MaxTargets
  /\ wc0 \in [Paths -> Schedules] /\ wc \in [Paths -> Schedules]
  /\ i \in 1..MaxTargets + 1
  /\ pc \in {"loop", "done"}
  /\ result \in {"none", "ok", "arg_parsing", "error"}

Init ==
  /\ cmd \in {"add", "revert"}
  /\ targets \in BoundedSeq(Paths, MaxTargets)
  /\ wc0 \in [Paths -> Schedules]
  /\ wc = wc0
  /\ i = 1
  /\ pc = "loop"
  /\ result = "none"

\* What a successful svn_client_add or svn_client_revert does to a path.
Added(s) == IF s = "unversioned" THEN "added" ELSE s
Reverted(s) == CASE s = "added" -> "unversioned"
                 [] s = "modified" -> "normal"
                 [] OTHER -> s

\* Mutant: SVN_ERR_ENTRY_EXISTS is returned like any other error.
AddTargetReturnsExists ==
  /\ pc = "loop" /\ cmd = "add" /\ i <= Len(targets)
  /\ LET p == targets[i] IN
       \/ /\ wc[p] = "unversioned"
          /\ wc' = [wc EXCEPT ![p] = Added(@)]
          /\ i' = i + 1
          /\ UNCHANGED <<pc, result>>
       \/ /\ wc[p] # "unversioned"
          /\ result' = "entry_exists"
          /\ pc' = "done"
          /\ UNCHANGED <<wc, i>>
       \/ /\ result' = "error"
          /\ pc' = "done"
          /\ UNCHANGED <<wc, i>>
  /\ UNCHANGED <<cmd, targets, wc0>>

\* Mutant: every error is reported as a warning and the loop goes on.
AddTargetIgnoresErrors ==
  /\ pc = "loop" /\ cmd = "add" /\ i <= Len(targets)
  /\ LET p == targets[i] IN
       \/ /\ wc[p] = "unversioned"
          /\ wc' = [wc EXCEPT ![p] = Added(@)]
          /\ i' = i + 1
          /\ UNCHANGED <<pc, result>>
       \/ /\ wc[p] # "unversioned"
          /\ i' = i + 1
          /\ UNCHANGED <<wc, pc, result>>
       \/ /\ i' = i + 1
          /\ UNCHANGED <<wc, pc, result>>
  /\ UNCHANGED <<cmd, targets, wc0>>

\* if (targets->nelts) ... else: subcommand help and
\* SVN_ERR_CL_ARG_PARSING_ERROR.  Revert has no implicit "." target.
NoTargets ==
  /\ pc = "loop" /\ i = 1 /\ targets = <<>>
  /\ result' = "arg_parsing"
  /\ pc' = "done"
  /\ UNCHANGED <<cmd, targets, wc0, wc, i>>

\* The loop ends with every target done: SVN_NO_ERROR.
LoopDone ==
  /\ pc = "loop" /\ targets # <<>> /\ i > Len(targets)
  /\ result' = "ok"
  /\ pc' = "done"
  /\ UNCHANGED <<cmd, targets, wc0, wc, i>>

\* err = svn_client_add (target, ...): on SVN_ERR_ENTRY_EXISTS a warning
\* is printed and the error cleared; any other error is returned at once.
AddTarget ==
  /\ pc = "loop" /\ cmd = "add" /\ i <= Len(targets)
  /\ LET p == targets[i] IN
       \/ /\ wc[p] = "unversioned"
          /\ wc' = [wc EXCEPT ![p] = Added(@)]
          /\ i' = i + 1
          /\ UNCHANGED <<pc, result>>
       \/ /\ wc[p] # "unversioned"
          /\ i' = i + 1
          /\ UNCHANGED <<wc, pc, result>>
       \/ /\ result' = "error"
          /\ pc' = "done"
          /\ UNCHANGED <<wc, i>>
  /\ UNCHANGED <<cmd, targets, wc0>>

\* SVN_ERR (svn_client_revert (target, ...)): any error is returned at once.
RevertTarget ==
  /\ pc = "loop" /\ cmd = "revert" /\ i <= Len(targets)
  /\ LET p == targets[i] IN
       \/ /\ wc' = [wc EXCEPT ![p] = Reverted(@)]
          /\ i' = i + 1
          /\ UNCHANGED <<pc, result>>
       \/ /\ result' = "error"
          /\ pc' = "done"
          /\ UNCHANGED <<wc, i>>
  /\ UNCHANGED <<cmd, targets, wc0>>

Next == NoTargets \/ LoopDone \/ AddTarget \/ RevertTarget

Spec == Init /\ [][Next]_vars

-----------------------------------------------------------------------------
(* Properties.                                                              *)

\* The paths the loop has handled: the targets before index i.
Handled == {targets[k] : k \in 1..i - 1}

\* What the subcommand does to one path.
Effect(s) == IF cmd = "add" THEN Added(s) ELSE Reverted(s)

\* When the subcommand returns, the targets before the one that failed
\* have been added or reverted, the rest are as they were (nothing is
\* rolled back, nothing skipped), and it returns SVN_NO_ERROR exactly when
\* there were targets and every one was handled; an existing entry is
\* only a warning to add.
CommandEffect ==
  pc = "done" =>
    /\ wc = [p \in Paths |-> IF p \in Handled THEN Effect(wc0[p]) ELSE wc0[p]]
    /\ (result = "ok") <=> (targets # <<>> /\ i = Len(targets) + 1)
=============================================================================
