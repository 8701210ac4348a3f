------------------------------ MODULE FsNodeRev ------------------------------
(***************************************************************************)
(* Node-revision identity in the FSFS engine (libsvn_fs_fs/fs_fs.h,        *)
(* spec.md 2, 4.2, 4.4, 6): node-revision ids (node_id, copy_id, txn or    *)
(* rev), create_node, create_successor, reserve_copy_id,                   *)
(* delete_node_revision, the folded change list, and the renumbering of a  *)
(* transaction's ids at commit from the counters kept in 'current'.        *)
(*                                                                         *)
(* As in FsTxn only the interface is in the repository.  The tree is       *)
(* flattened to path -> node-revision id; contents, properties and         *)
(* directories are left out, so put_node_revision on a node that is        *)
(* already mutable changes nothing here.  FsTxn checks the representations *)
(* and the lock; this module checks the ids the same commit protocol       *)
(* hands out, with the same crash and recover.                             *)
(*                                                                         *)
(* An id part (node id, copy id, or where the node-revision lives) is a    *)
(* tag [txn, n]: txn = None for a permanent number n (a revision number   *)
(* for the third part), txn = t for the n-th id transaction t allocated    *)
(* itself, which commit replaces by a permanent one.                       *)
(***************************************************************************)
EXTENDS Naturals, FiniteSets, FiniteSetsExt

CONSTANTS Txns,     \* the writer processes, one transaction each at a time
          Paths,    \* the file paths of the tree
          MaxRev,   \* bound: the largest revision number a commit may create
          MaxIds,   \* bound: node ids, and copy ids, one transaction allocates
          None,     \* no lock holder / no predecessor / no change
          Absent    \* a path with no node in a tree

VARIABLES current,  \* the 'current' file: youngest rev, next node and copy id
          revFile,  \* revision -> the revision file on disk
          txn,      \* writer -> its transaction record
          lock      \* the holder of the repository write lock, or None

vars == <<current, revFile, txn, lock>>

Revs == 0..MaxRev
IdNums == 0..(1 + MaxRev * MaxIds)
Tag == [txn : Txns \cup {None}, n : IdNums]
Perm(n) == [txn |-> None, n |-> n]
Local(t, n) == [txn |-> t, n |-> n]
\* Where a mutable node-revision of transaction t lives: t's own area.
Mut(t) == Local(t, 0)

NodeRevIds == [node : Tag, copy : Tag, at : Tag]
NodeRevs == [id : NodeRevIds, pred : NodeRevIds \cup {None},
             copyfrom : Revs \cup {None}]
Changes == [kind : {"add", "delete", "replace", "modify"},
            copyfrom : Revs \cup {None}]
Tree == [Paths -> NodeRevIds \cup {Absent}]

CommitSteps == {"locked", "checked", "moved", "published"}
TxnStates == {"idle", "open", "outofdate"} \cup CommitSteps

EmptyTree == [p \in Paths |-> Absent]
NoChanges == [p \in Paths |-> None]
NoTxn == [state |-> "idle", base |-> 0, tree |-> EmptyTree, nodes |-> {},
          next |-> [node |-> 0, copy |-> 0], changes |-> NoChanges]

TypeOK ==
  /\ current \in [rev : Revs, node : IdNums, copy : IdNums]
  /\ revFile \in [Revs -> [exists : BOOLEAN, tree : Tree,
                           nodes : SUBSET NodeRevs,
                           changes : [Paths -> Changes \cup {None}]]]
  /\ \A t \in Txns :
       /\ txn[t].state \in TxnStates
       /\ txn[t].base \in Revs
       /\ txn[t].tree \in Tree
       /\ txn[t].nodes \subseteq NodeRevs
       /\ txn[t].next \in [node : 0..MaxIds, copy : 0..MaxIds]
       /\ txn[t].changes \in [Paths -> Changes \cup {None}]
  /\ lock \in Txns \cup {None}

\* Revision 0: an empty tree; 'current' holds "0 1 1" (the root is node 0,
\* copy 0, so both counters start at 1).
Init ==
  /\ current = [rev |-> 0, node |-> 1, copy |-> 1]
  /\ revFile = [r \in Revs |-> [exists |-> r = 0, tree |-> EmptyTree,
                                nodes |-> {}, changes |-> NoChanges]]
  /\ txn = [t \in Txns |-> NoTxn]
  /\ lock = None

\* svn_fs_fs__get_node_revision can read id from the transaction area.
IsMutable(t, id) == id # Absent /\ id.at = Mut(t)

\* Faulty variant: a delete after an add is kept as a delete.
FoldChangeDeleteKept(old, new) ==
  IF old = None THEN new
  ELSE CASE new.kind = "modify" -> old
         [] new.kind \in {"add", "replace"} ->
              [kind |-> "replace", copyfrom |-> new.copyfrom]
         [] new.kind = "delete" -> [kind |-> "delete", copyfrom |-> None]

\* The change list as svn_fs_fs__txn_changes_fetch folds it: a later change
\* to a path merges into the earlier one.  A modify keeps the earlier kind;
\* an add over a delete is a replace; a delete undoes an add, and is a
\* delete over anything else.
FoldChange(old, new) ==
  IF old = None THEN new
  ELSE CASE new.kind = "modify" -> old
         [] new.kind \in {"add", "replace"} ->
              [kind |-> "replace", copyfrom |-> new.copyfrom]
         [] new.kind = "delete" ->
              IF old.kind = "add" THEN None
              ELSE [kind |-> "delete", copyfrom |-> None]

\* svn_fs_fs__add_change for path p of t's transaction.
AddChange(t, p, kind, from) ==
  FoldChange(txn[t].changes[p], [kind |-> kind, copyfrom |-> from])

\* svn_fs_fs__create_node: a brand-new node whose node id is the next one
\* of the transaction, with the copy id of its parent (the root's, 0).
NewNode(t) == [node |-> Local(t, txn[t].next.node), copy |-> Perm(0),
               at |-> Mut(t)]

\* Faulty variant: the successor always inherits the predecessor's copy id.
SuccessorInheritsCopy(t, old, copyId) ==
  [node |-> old.node, copy |-> old.copy, at |-> Mut(t)]

\* svn_fs_fs__create_successor: same node id as OLD; COPY_ID if non-NULL,
\* otherwise the predecessor's copy id; mutable in t.
Successor(t, old, copyId) ==
  [node |-> old.node, copy |-> IF copyId = None THEN old.copy ELSE copyId,
   at |-> Mut(t)]

-----------------------------------------------------------------------------
(* Transaction lifecycle outside the commit.                                *)

\* svn_fs_fs__begin_txn: the new transaction's tree is the youngest
\* revision's; its id counters start at 0.
BeginTxn(t) ==
  /\ txn[t].state = "idle"
  /\ txn' = [txn EXCEPT ![t] = [NoTxn EXCEPT !.state = "open",
                                             !.base = current.rev,
                                             !.tree = revFile[current.rev].tree]]
  /\ UNCHANGED <<current, revFile, lock>>

\* Adding a file at p: svn_fs_fs__create_node, the directory entry, and
\* svn_fs_fs__add_change (add).
AddFile(t, p) ==
  /\ txn[t].state = "open"
  /\ txn[t].tree[p] = Absent
  /\ txn[t].next.node < MaxIds
  /\ LET id == NewNode(t) IN
       txn' = [txn EXCEPT
                 ![t].tree[p] = id,
                 ![t].nodes = @ \cup {[id |-> id, pred |-> None, copyfrom |-> None]},
                 ![t].next.node = @ + 1,
                 ![t].changes[p] = AddChange(t, p, "add", None)]
  /\ UNCHANGED <<current, revFile, lock>>

\* Copying path q of revision r to p: svn_fs_fs__reserve_copy_id, then
\* svn_fs_fs__create_successor of the source with that copy id, and
\* svn_fs_fs__add_change (add, copyfrom r).
CopyFile(t, p, q, r) ==
  /\ txn[t].state = "open"
  /\ txn[t].tree[p] = Absent
  /\ r <= txn[t].base
  /\ revFile[r].tree[q] # Absent
  /\ txn[t].next.copy < MaxIds
  /\ LET src == revFile[r].tree[q]
         id == Successor(t, src, Local(t, txn[t].next.copy))
     IN txn' = [txn EXCEPT
                  ![t].tree[p] = id,
                  ![t].nodes = @ \cup {[id |-> id, pred |-> src, copyfrom |-> r]},
                  ![t].next.copy = @ + 1,
                  ![t].changes[p] = AddChange(t, p, "add", r)]
  /\ UNCHANGED <<current, revFile, lock>>

\* Changing the file at p: a node already mutable in t is rewritten in
\* place (svn_fs_fs__put_node_revision); any other is made mutable by
\* svn_fs_fs__create_successor with a NULL copy id.  Then add_change.
ModifyFile(t, p) ==
  /\ txn[t].state = "open"
  /\ txn[t].tree[p] # Absent
  /\ LET old == txn[t].tree[p]
         id == IF IsMutable(t, old) THEN old ELSE Successor(t, old, None)
     IN txn' = [txn EXCEPT
                  ![t].tree[p] = id,
                  ![t].nodes = IF IsMutable(t, old) THEN @
                               ELSE @ \cup {[id |-> id, pred |-> old, copyfrom |-> None]},
                  ![t].changes[p] = AddChange(t, p, "modify", None)]
  /\ UNCHANGED <<current, revFile, lock>>

\* Deleting p: the entry is removed, svn_fs_fs__delete_node_revision
\* reclaims the node-revision if it is mutable (an immutable one is only
\* unlinked), and add_change (delete).
DeletePath(t, p) ==
  /\ txn[t].state = "open"
  /\ txn[t].tree[p] # Absent
  /\ LET old == txn[t].tree[p] IN
       txn' = [txn EXCEPT
                 ![t].tree[p] = Absent,
                 ![t].nodes = {x \in @ : x.id # old},
                 ![t].changes[p] = AddChange(t, p, "delete", None)]
  /\ UNCHANGED <<current, revFile, lock>>

\* svn_fs_fs__abort_txn and svn_fs_fs__purge_txn: the mutable
\* node-revisions and the txn-local id counters go with the transaction.
AbortTxn(t) ==
  /\ txn[t].state \in {"open", "outofdate"}
  /\ txn' = [txn EXCEPT ![t] = NoTxn]
  /\ UNCHANGED <<current, revFile, lock>>
-----------------------------------------------------------------------------
(* The commit, inside svn_fs_fs__with_write_lock.                          *)

\* Acquire the repository write lock.
CommitLock(t) ==
  /\ txn[t].state = "open"
  /\ lock = None
  /\ current.rev < MaxRev
  /\ lock' = t
  /\ txn' = [txn EXCEPT ![t].state = "locked"]
  /\ UNCHANGED <<current, revFile>>

\* The out-of-date check; the error path releases the lock.
CommitCheck(t) ==
  /\ txn[t].state = "locked"
  /\ \/ /\ txn[t].base = current.rev
        /\ txn' = [txn EXCEPT ![t].state = "checked"]
        /\ UNCHANGED lock
     \/ /\ txn[t].base # current.rev
        /\ txn' = [txn EXCEPT ![t].state = "outofdate"]
        /\ lock' = None
  /\ UNCHANGED <<current, revFile>>

\* A txn-local id part becomes permanent: the n-th id t allocated is the
\* counter read from 'current' plus n.
FinalTag(t, g, start) == IF g.txn = t THEN Perm(start + g.n) ELSE g

\* The permanent id of a node-revision of t in the new revision.
FinalId(t, id) ==
  IF id = Absent THEN Absent
  ELSE [node |-> FinalTag(t, id.node, current.node),
        copy |-> FinalTag(t, id.copy, current.copy),
        at |-> IF id.at = Mut(t) THEN Perm(current.rev + 1) ELSE id.at]

\* The revision file written from t's transaction.
FinalRev(t) ==
  [exists |-> TRUE,
   tree |-> [p \in Paths |-> FinalId(t, txn[t].tree[p])],
   nodes |-> {[x EXCEPT !.id = FinalId(t, x.id)] : x \in txn[t].nodes},
   changes |-> txn[t].changes]

\* Faulty variant: off by one, the file is written over the youngest revision.
CommitMoveOverYoungest(t) ==
  /\ txn[t].state = "checked"
  /\ revFile' = [revFile EXCEPT ![current.rev] = FinalRev(t)]
  /\ txn' = [txn EXCEPT ![t].state = "moved"]
  /\ UNCHANGED <<current, lock>>

\* Write the revision with permanent ids, taken from the counters in
\* 'current' read under the lock, and svn_fs_fs__move_into_place it as
\* revision youngest + 1, over any file a crashed commit left there.
CommitMoveIntoPlace(t) ==
  /\ txn[t].state = "checked"
  /\ revFile' = [revFile EXCEPT ![current.rev + 1] = FinalRev(t)]
  /\ txn' = [txn EXCEPT ![t].state = "moved"]
  /\ UNCHANGED <<current, lock>>

\* Write 'current': the new youngest revision and both counters advanced
\* past the ids the transaction used, in one atomic file replacement.
CommitPublish(t) ==
  /\ txn[t].state = "moved"
  /\ current' = [rev |-> current.rev + 1,
                 node |-> current.node + txn[t].next.node,
                 copy |-> current.copy + txn[t].next.copy]
  /\ txn' = [txn EXCEPT ![t].state = "published"]
  /\ UNCHANGED <<revFile, lock>>

\* svn_fs_fs__purge_txn, then leaving the body releases the write lock.
CommitPurge(t) ==
  /\ txn[t].state = "published"
  /\ lock' = None
  /\ txn' = [txn EXCEPT ![t] = NoTxn]
  /\ UNCHANGED <<current, revFile>>

CommitStep(t) ==
  \/ CommitCheck(t) \/ CommitMoveIntoPlace(t) \/ CommitPublish(t)
  \/ CommitPurge(t)

-----------------------------------------------------------------------------
(* Failure and recovery.                                                    *)

\* The committing process dies between two steps: its lock is released,
\* the transaction stays and can be committed again.
Crash(t) ==
  /\ txn[t].state \in CommitSteps
  /\ lock' = None
  /\ txn' = [txn EXCEPT ![t].state = "open"]
  /\ UNCHANGED <<current, revFile>>

\* The youngest revision file on disk; files only appear at youngest + 1.
LastRevFile == Max({r \in Revs : revFile[r].exists})

\* The largest permanent number of an id part in revisions 0..last.
MaxIdNum(part) ==
  Max({0} \cup {x.id[part].n : x \in UNION {revFile[r].nodes : r \in 0..LastRevFile}})

\* Faulty variant: recover keeps the counters 'current' had.
RecoverKeepsIds ==
  /\ lock = None
  /\ current' = [current EXCEPT !.rev = LastRevFile]
  /\ UNCHANGED <<revFile, txn, lock>>

\* Faulty variant: recover stores the next revision number, not the last.
RecoverNextRev ==
  /\ lock = None
  /\ current' = [rev |-> LastRevFile + 1, node |-> MaxIdNum("node") + 1,
                 copy |-> MaxIdNum("copy") + 1]
  /\ UNCHANGED <<revFile, txn, lock>>

\* svn_fs_fs__recover, under the write lock: 'current' is rebuilt from the
\* revision files, the youngest one and, scanning every node-revision of
\* every revision, the next free node id and copy id.
Recover ==
  /\ lock = None
  /\ current' = [rev |-> LastRevFile, node |-> MaxIdNum("node") + 1,
                 copy |-> MaxIdNum("copy") + 1]
  /\ UNCHANGED <<revFile, txn, lock>>

Next ==
  \/ \E t \in Txns :
       \/ BeginTxn(t) \/ AbortTxn(t) \/ CommitLock(t) \/ CommitStep(t)
       \/ Crash(t)
       \/ \E p \in Paths :
            \/ AddFile(t, p) \/ ModifyFile(t, p) \/ DeletePath(t, p)
            \/ \E q \in Paths, r \in Revs : CopyFile(t, p, q, r)
  \/ Recover

Spec == Init /\ [][Next]_vars
-----------------------------------------------------------------------------
(* Properties.                                                              *)

\* The node-revisions of the published revisions.
Published == UNION {revFile[r].nodes : r \in 0..current.rev}

\* The revision a permanent node-revision id lives in.
RevOf(id) == id.at.n

\* No node-revision of a revision before r has tag g as its part.
Fresh(part, g, r) == \A s \in 0..r - 1 : \A y \in revFile[s].nodes : y.id[part] # g

\* A node id stands for one line of history: among the published
\* node-revisions, exactly one is its origin (made by create_node, with no
\* predecessor).  Two commits that hand out the same counter value, for
\* instance after recover rebuilt 'current' from a stale scan, give two
\* unrelated nodes the same node id.
NodeIdsUnique ==
  /\ \A x, y \in Published :
       x.pred = None /\ y.pred = None /\ x.id.node = y.id.node => x = y
  /\ \A x \in Published : \E y \in Published : y.id.node = x.id.node /\ y.pred = None

\* Every successor (create_successor) keeps its predecessor's node id, the
\* predecessor is published in an earlier revision, and its copy id is the
\* predecessor's unless it was made by a copy, which starts a copy id no
\* earlier revision used.
SuccessorLineage ==
  \A x \in Published : x.pred # None =>
    /\ \E y \in Published : y.id = x.pred /\ RevOf(y.id) < RevOf(x.id)
    /\ x.id.node = x.pred.node
    /\ IF x.copyfrom = None THEN x.id.copy = x.pred.copy
       ELSE Fresh("copy", x.id.copy, RevOf(x.id))

\* The folded change list of revision r says what happened to each path's
\* node between revisions r-1 and r: untouched paths keep their id, a
\* modify is a successor of the same node and copy, a delete removes an
\* existing path, an add fills an empty one and a replace an existing one,
\* with a new node id, or with a new copy id when copied.
ChangeMatches(r, p) ==
  LET old == revFile[r - 1].tree[p]
      new == revFile[r].tree[p]
      c == revFile[r].changes[p]
  IN CASE c = None -> new = old
       [] c.kind = "modify" ->
            /\ old # Absent /\ new # Absent /\ new # old
            /\ new.node = old.node /\ new.copy = old.copy
       [] c.kind = "delete" -> old # Absent /\ new = Absent
       [] c.kind \in {"add", "replace"} ->
            /\ (old = Absent) <=> (c.kind = "add")
            /\ new # Absent
            /\ IF c.copyfrom = None THEN Fresh("node", new.node, r)
               ELSE Fresh("copy", new.copy, r)

ChangesMatchIds == \A r \in 1..current.rev : \A p \in Paths : ChangeMatches(r, p)

\* The ids a reader can meet in a published revision: permanent ones.
PermIds == LET perm == {Perm(n) : n \in IdNums}
           IN [node : perm, copy : perm, at : perm]

\* What a reader of revision r finds at each path (svn_fs_fs__rev_get_root,
\* then the directory entry): a node-revision id.
Abstract == INSTANCE RepoHistory WITH
              Contents <- PermIds,
              head <- current.rev,
              history <- [r \in 0..current.rev |-> revFile[r].tree]

\* The id store implements the append-only history readers are promised:
\* 'current' advances by one per commit or recover, revision 0 is empty,
\* and the id a published revision shows at a path never changes, even
\* when a crashed commit's file is overwritten or recover publishes it.
RefinesRepoHistory == Abstract!Spec
=============================================================================
