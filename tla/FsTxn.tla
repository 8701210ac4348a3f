------------------------------- MODULE FsTxn -------------------------------
(***************************************************************************)
(* The FSFS storage engine's transaction and commit protocol               *)
(* (libsvn_fs_fs/fs_fs.h, libsvn_fs/reps-strings.h, spec.md 4.1-4.6).      *)
(*                                                                         *)
(* Only the interface of the engine is in the repository; the behaviour    *)
(* behind each declaration is taken from its header comment and from the   *)
(* spec.  The tree is flattened to a map path -> representation key;       *)
(* directories, node ids and deltas are abstracted away (see README).      *)
(*                                                                         *)
(* Each writer t in Txns is one process driving one transaction at a time. *)
(* A commit is the sequence of steps svn_fs_fs__commit takes inside        *)
(* svn_fs_fs__with_write_lock: lock, out-of-date check, finalize the       *)
(* transaction's mutable representations, move the revision file into      *)
(* place, advance 'current', purge and unlock.  A crash of the committing  *)
(* process may happen between any two of these steps; recover rebuilds    *)
(* 'current' from the revision files on disk.                              *)
(***************************************************************************)
EXTENDS Naturals, FiniteSets

CONSTANTS Txns,      \* the writer processes, one transaction each at a time
          Paths,     \* the file paths of the tree
          Contents,  \* the file contents a path may hold
          RepKeys,   \* the representation keys the store can allocate
          MaxRev,    \* bound: the largest revision number a commit may create
          None,      \* no lock holder / no owner / no content
          Absent     \* a path with no node in a tree

VARIABLES youngest,  \* the revision number stored in the 'current' file
          revFile,   \* revision -> the revision file on disk
          reps,      \* representation key -> the representation store entry
          txn,       \* writer -> its transaction record
          lock       \* the holder of the repository write lock, or None

vars == <<youngest, revFile, reps, txn, lock>>

Revs == 0..MaxRev
Tree == [Paths -> RepKeys \cup {Absent}]
RepStates == {"free", "mutable", "immutable"}

\* Writer states: "idle" with no transaction (before the first begin, after
\* a commit or an abort has purged it); "open" while the transaction may be
\* mutated; the commit steps; "outofdate" after a failed commit.
CommitSteps == {"locked", "checked", "finalized", "moved", "published"}
TxnStates == {"idle", "open", "outofdate"} \cup CommitSteps

EmptyTree == [p \in Paths |-> Absent]
NoTxn == [state |-> "idle", base |-> 0, tree |-> EmptyTree, changed |-> {}]
FreeRep == [state |-> "free", owner |-> None, content |-> None]

TypeOK ==
  /\ youngest \in Revs
  /\ revFile \in [Revs -> [exists : BOOLEAN, tree : Tree, changed : SUBSET Paths]]
  /\ reps \in [RepKeys -> [state : RepStates, owner : Txns \cup {None},
                          content : Contents \cup {None}]]
  /\ txn \in [Txns -> [state : TxnStates, base : Revs, tree : Tree,
                       changed : SUBSET Paths]]
  /\ lock \in Txns \cup {None}

-----------------------------------------------------------------------------
(* Reading.                                                                 *)

\* The content a reader gets for a representation key.
ReadRep(k) == IF k = Absent THEN Absent ELSE reps[k].content

\* The snapshot a reader of revision r sees (svn_fs_fs__rev_get_root and
\* svn_fs_fs__get_contents on each path).
ReadRev(r) == [p \in Paths |-> ReadRep(revFile[r].tree[p])]

\* svn_fs_fs__youngest_rev reads 'current'; recover rebuilds it from the last
\* revision file present.  Revision files are only ever created at
\* youngest + 1, so those present form a prefix of Revs.
LastRevFile == CHOOSE r \in Revs : revFile[r].exists
                                   /\ \A s \in Revs : revFile[s].exists => s <= r

Init ==
  /\ youngest = 0
  /\ revFile = [r \in Revs |-> [exists |-> r = 0, tree |-> EmptyTree,
                                changed |-> {}]]
  /\ reps = [k \in RepKeys |-> FreeRep]
  /\ txn = [t \in Txns |-> NoTxn]
  /\ lock = None

\* svn_fs__rep_is_mutable, for a key that may be Absent.
IsMutable(k) == k # Absent /\ reps[k].state = "mutable"

-----------------------------------------------------------------------------
(* Transaction lifecycle outside the commit.                                *)

\* svn_fs_fs__begin_txn: a new transaction based on the youngest revision;
\* its root aliases the base revision's root, no content is copied.
BeginTxn(t) ==
  /\ txn[t].state = "idle"
  /\ txn' = [txn EXCEPT ![t] = [state |-> "open", base |-> youngest,
                                 tree |-> revFile[youngest].tree,
                                 changed |-> {}]]
  /\ UNCHANGED <<youngest, revFile, reps, lock>>

\* svn_fs_fs__set_contents on path p, through svn_fs__get_mutable_rep: a key
\* that is already mutable is written in place, any other gets a fresh
\* mutable key (copy-on-write); then svn_fs_fs__add_change records p.
SetContents(t, p, c) ==
  LET k == txn[t].tree[p] IN
  /\ txn[t].state = "open"
  /\ \/ /\ IsMutable(k)
        /\ reps' = [reps EXCEPT ![k].content = c]
        /\ txn' = [txn EXCEPT ![t].changed = @ \cup {p}]
     \/ /\ ~IsMutable(k)
        /\ \E n \in RepKeys :
             /\ reps[n].state = "free"
             /\ reps' = [reps EXCEPT ![n] = [state |-> "mutable", owner |-> t,
                                             content |-> c]]
             /\ txn' = [txn EXCEPT ![t].tree[p] = n,
                                   ![t].changed = @ \cup {p}]
  /\ UNCHANGED <<youngest, revFile, lock>>

\* Deleting path p: svn_fs_fs__delete_node_revision reclaims the node's
\* representation only when it is mutable; svn_fs_fs__add_change records p.
DeletePath(t, p) ==
  LET k == txn[t].tree[p] IN
  /\ txn[t].state = "open"
  /\ k # Absent
  /\ reps' = IF IsMutable(k) THEN [reps EXCEPT ![k] = FreeRep]
                                          ELSE reps
  /\ txn' = [txn EXCEPT ![t].tree[p] = Absent, ![t].changed = @ \cup {p}]
  /\ UNCHANGED <<youngest, revFile, lock>>

\* The representations that abort reclaims: the transaction's own mutable ones.
AbortReclaims(t) == {k \in RepKeys : reps[k].state = "mutable" /\ reps[k].owner = t}

\* Faulty variant: abort reclaims every representation its tree refers to,
\* the shared immutable ones of the base revision included.
AbortTxnFreesShared(t) ==
  /\ txn[t].state \in {"open", "outofdate"}
  /\ reps' = [k \in RepKeys |-> IF \E p \in Paths : txn[t].tree[p] = k
                                THEN FreeRep ELSE reps[k]]
  /\ txn' = [txn EXCEPT ![t] = NoTxn]
  /\ UNCHANGED <<youngest, revFile, lock>>

\* svn_fs_fs__abort_txn followed by svn_fs_fs__purge_txn.
AbortTxn(t) ==
  /\ txn[t].state \in {"open", "outofdate"}
  /\ reps' = [k \in RepKeys |-> IF k \in AbortReclaims(t) THEN FreeRep ELSE reps[k]]
  /\ txn' = [txn EXCEPT ![t] = NoTxn]
  /\ UNCHANGED <<youngest, revFile, lock>>

-----------------------------------------------------------------------------
(* The commit, inside svn_fs_fs__with_write_lock.                          *)

\* Acquire the repository write lock.
CommitLock(t) ==
  /\ txn[t].state = "open"
  /\ lock = None
  /\ youngest < MaxRev
  /\ lock' = t
  /\ txn' = [txn EXCEPT ![t].state = "locked"]
  /\ UNCHANGED <<youngest, revFile, reps>>

\* Faulty variant: the base revision is not compared with the youngest.
CommitCheckNoBase(t) ==
  /\ txn[t].state = "locked"
  /\ txn' = [txn EXCEPT ![t].state = "checked"]
  /\ UNCHANGED <<youngest, revFile, reps, lock>>

\* Faulty variant: the out-of-date error returns without releasing the lock.
CommitCheckKeepsLock(t) ==
  /\ txn[t].state = "locked"
  /\ \/ /\ txn[t].base = youngest
        /\ txn' = [txn EXCEPT ![t].state = "checked"]
     \/ /\ txn[t].base # youngest
        /\ txn' = [txn EXCEPT ![t].state = "outofdate"]
  /\ UNCHANGED <<youngest, revFile, reps, lock>>

\* The out-of-date check: the base must still be the youngest revision,
\* else SVN_ERR_FS_TXN_OUT_OF_DATE, and the lock is released on that path.
CommitCheck(t) ==
  /\ txn[t].state = "locked"
  /\ \/ /\ txn[t].base = youngest
        /\ txn' = [txn EXCEPT ![t].state = "checked"]
        /\ UNCHANGED lock
     \/ /\ txn[t].base # youngest
        /\ txn' = [txn EXCEPT ![t].state = "outofdate"]
        /\ lock' = None
  /\ UNCHANGED <<youngest, revFile, reps>>

\* The representations finalization freezes: every mutable one of t.
Finalizes(t) == {k \in RepKeys : reps[k].state = "mutable" /\ reps[k].owner = t}

\* Faulty variant: the step is taken but no representation is frozen.
CommitFinalizeNothing(t) ==
  /\ txn[t].state = "checked"
  /\ txn' = [txn EXCEPT ![t].state = "finalized"]
  /\ UNCHANGED <<youngest, revFile, reps, lock>>

\* Finalize every mutable representation of the transaction: it becomes
\* immutable and may from now on be shared.
CommitFinalize(t) ==
  /\ txn[t].state = "checked"
  /\ reps' = [k \in RepKeys |-> IF k \in Finalizes(t)
                                  THEN [reps[k] EXCEPT !.state = "immutable"]
                                  ELSE reps[k]]
  /\ txn' = [txn EXCEPT ![t].state = "finalized"]
  /\ UNCHANGED <<youngest, revFile, lock>>

\* The revision number the commit writes.
NewRev == youngest + 1

\* Faulty variant: 'current' is advanced before the revision file is in
\* place (the two steps swapped).
CommitPublishEarly(t) ==
  /\ txn[t].state = "finalized"
  /\ youngest' = youngest + 1
  /\ txn' = [txn EXCEPT ![t].state = "moved"]
  /\ UNCHANGED <<revFile, reps, lock>>

\* Faulty variant: off by one, the file is written over the youngest revision.
CommitMoveOverYoungest(t) ==
  /\ txn[t].state = "finalized"
  /\ revFile' = [revFile EXCEPT ![youngest] = [exists |-> TRUE,
                                                tree |-> txn[t].tree,
                                                changed |-> txn[t].changed]]
  /\ txn' = [txn EXCEPT ![t].state = "moved"]
  /\ UNCHANGED <<youngest, reps, lock>>

\* svn_fs_fs__move_into_place: the complete revision file appears atomically
\* (a rename), replacing any file left there by a crashed commit.
CommitMoveIntoPlace(t) ==
  /\ txn[t].state = "finalized"
  /\ revFile' = [revFile EXCEPT ![NewRev] = [exists |-> TRUE,
                                              tree |-> txn[t].tree,
                                              changed |-> txn[t].changed]]
  /\ txn' = [txn EXCEPT ![t].state = "moved"]
  /\ UNCHANGED <<youngest, reps, lock>>

\* Advance 'current': the one step that publishes the revision.
CommitPublish(t) ==
  /\ txn[t].state = "moved"
  /\ youngest' = youngest + 1
  /\ txn' = [txn EXCEPT ![t].state = "published"]
  /\ UNCHANGED <<revFile, reps, lock>>

\* svn_fs_fs__purge_txn, then leaving the body releases the write lock.
CommitPurge(t) ==
  /\ txn[t].state = "published"
  /\ lock' = None
  /\ txn' = [txn EXCEPT ![t] = NoTxn]
  /\ UNCHANGED <<youngest, revFile, reps>>

CommitStep(t) ==
  \/ CommitCheck(t) \/ CommitFinalize(t) \/ CommitMoveIntoPlace(t)
  \/ CommitPublish(t) \/ CommitPurge(t)

-----------------------------------------------------------------------------
(* Failure and recovery.                                                    *)

\* The committing process dies between two steps.  The OS releases its lock
\* file; the transaction stays in the transactions area and can be opened
\* again; whatever was written to disk stays.
Crash(t) ==
  /\ txn[t].state \in CommitSteps
  /\ lock' = None
  /\ txn' = [txn EXCEPT ![t].state = "open"]
  /\ UNCHANGED <<youngest, revFile, reps>>

\* Faulty variant: recover stores the next revision number, not the last.
RecoverNextRev ==
  /\ lock = None
  /\ youngest' = LastRevFile + 1
  /\ UNCHANGED <<revFile, reps, txn, lock>>

\* svn_fs_fs__recover, under the write lock: 'current' is rebuilt from the
\* youngest revision file on disk.
Recover ==
  /\ lock = None
  /\ youngest' = LastRevFile
  /\ UNCHANGED <<revFile, reps, txn, lock>>

Next ==
  \/ \E t \in Txns :
       \/ BeginTxn(t) \/ AbortTxn(t) \/ CommitLock(t) \/ CommitStep(t)
       \/ Crash(t)
       \/ \E p \in Paths : \/ DeletePath(t, p)
                           \/ \E c \in Contents : SetContents(t, p, c)
  \/ Recover

\* Once a writer holds the lock, its process runs the commit body to the end
\* unless it crashes: the steps are plain sequential code.
Fairness == \A t \in Txns : WF_vars(CommitStep(t))

Spec == Init /\ [][Next]_vars /\ Fairness

-----------------------------------------------------------------------------
(* Properties.                                                              *)

\* Out-of-date detection (spec.md 4.4, 8): every path whose node differs
\* between published revision r-1 and r is in r's changed-paths list.  A
\* commit built on a stale base would silently undo the intervening
\* revision's changes without listing them; CommitCheck prevents it.
ChangedPathsComplete ==
  \A r \in 1..youngest : \A p \in Paths :
    revFile[r].tree[p] # revFile[r - 1].tree[p] => p \in revFile[r].changed

\* 'current' never names a revision whose file is not completely on disk,
\* across crashes between MoveIntoPlace and Publish and recoveries.
YoungestOnDisk == \A r \in 0..youngest : revFile[r].exists

\* A mutable representation belongs to exactly one open transaction: no
\* revision file on disk and no other writer's tree refers to it, so a
\* write in place can never reach published or foreign data.
MutableRepsPrivate ==
  \A k \in RepKeys : reps[k].state = "mutable" =>
    /\ \A r \in Revs : revFile[r].exists => \A p \in Paths : revFile[r].tree[p] # k
    /\ \A u \in Txns \ {reps[k].owner} : \A p \in Paths : txn[u].tree[p] # k

\* with_write_lock releases the lock on every exit path: whoever holds it,
\* the lock is eventually free again.
LockReleased == (lock # None) ~> (lock = None)

\* FsTxn implements RepoHistory: readers see an append-only history.
Abstract == INSTANCE RepoHistory WITH
              head <- youngest,
              history <- [r \in 0..youngest |-> ReadRev(r)]

RefinesRepoHistory == Abstract!Spec
=============================================================================
