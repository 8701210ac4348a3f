# TLA+ models of the Subversion snapshot

This directory holds TLA+ models of the code under `src/`. TLC checks them.
The snapshot has two kinds of code:

- **Headers only.** These are the FSFS storage engine (`libsvn_fs_fs/fs_fs.h`), the representation store (`libsvn_fs/reps-strings.h`), the working-copy database (`libsvn_wc/wc_db.h`) and a JNI helper (`bindings/java/jni/schedule.h`). There are no function bodies. The behaviour of each declaration comes from its header comment and from `spec.md`.
- **Full C source** for parts of the command-line client: `clients/cmdline/util.c`, `add-cmd.c` and `revert-cmd.c`. These are modelled statement by statement.

## Inventory

| Part | Source | State | Operations | Module |
|---|---|---|---|---|
| Transactions and commit | `fs_fs.h` 182-317, 366-462 | transactions (base revision, tree, changed paths), revision files, `current` | begin, set contents, delete, abort + purge, commit (lock, out-of-date check, finalize, move into place, publish, purge, unlock) | `FsTxn` |
| Representation store | `reps-strings.h` 41-52 | each key is free, mutable (owned by one txn) or immutable | get_mutable_rep (copy-on-write), finalize (only the `/* stabilize_rep */` placeholder at line 72 exists in the snapshot) | `FsTxn` |
| Node-revision ids | `fs_fs.h` 47-61, 221-324, 366-382 | txn-local and permanent ids (node id, copy id, txn or rev), each revision's node-revisions and folded change list, the id counters in `current` | create_node, create_successor, reserve_copy_id, put/delete_node_revision, add_change and its folding, renumbering at commit, crash, recover | `FsNodeRev` |
| Write lock | `fs_fs.h` 411-419 | the holder | with_write_lock: take, release on every exit | `FsTxn` |
| Revision store, recovery | `fs_fs.h` 39-45, 80-91, 385-409 | revision files, `current` | move_into_place, advance `current`, recover | `FsTxn`, abstract `RepoHistory` |
| Log message | `util.c` 362-523, 585-715 | pc, baton message, temp file, edited text, reply | get_log_message loop, edit_externally, prompt | `LogMessage` |
| Prefix stripping | `util.c` 526-579 | byte array, len, ptr, first_prefix | the in-place memmove loop | `StripPrefix` (used by `LogMessage`) |
| Target array | `util.c` 141-278 | argv, --targets, targets, firstrev/secondrev | command-line loop, concatenation, revision extraction, parse_path | `TargetArray` |
| List splitting | `util.c` 280-349 | start, end, array | stringlist_to_array, newlinelist_to_array | `ListParse` |
| add / revert | `add-cmd.c`, `revert-cmd.c` | working-copy schedules, loop index | per-target client call and its error handling | `ClientCmds` |
| Argument helpers | `util.c` 51-127 | mode, count, args array, result | push_implicit_dot_target, parse_num_args, parse_all_args | `TargetArray` |
| wc_db, JNI Schedule | `wc_db.h`, `schedule.h` | - | - | not modelled (see below) |

How the parts connect:

- `LogMessage` calls `strip_prefix_from_buffer` through `INSTANCE StripPrefix`. It uses the reference `Stripped` that the StripPrefix runs check the C loop against.
- The subcommands in `ClientCmds` take the array that `TargetArray` builds as their input.
- `FsTxn` and `FsNodeRev` are both shown to refine `RepoHistory`, which is what readers of the repository are promised. FsTxn maps each revision to the contents at each path, FsNodeRev to the node-revision ids.
- `FsNodeRev` follows the same commit protocol as `FsTxn` (lock, out-of-date check, move into place, publish `current`, purge, crash, recover). It tracks the ids that protocol hands out instead of the representations. The two are separate modules because FsTxn's state space (1.5M states) leaves no room for more variables.

## Modules

### FsTxn and RepoHistory

`RepoHistory` is the abstract specification. It is a dense history of snapshots, append-only, where revision 0 is empty. One commit appends one snapshot.

`FsTxn` is the engine:

- `txn[t]` is writer t's transaction. `reps[k]` is representation k. `revFile[r]` is revision file r on disk. `youngest` is the `current` file. `lock` is the write lock.
- The tree is flattened to path → representation key. Directories, node ids and deltas are abstracted away.
- `svn_fs_fs__commit` is split into the steps it takes under `with_write_lock`, one action per step. A `Crash` may fall between any two steps. It frees the lock and returns the transaction to "open". `Recover` rebuilds `current` from the revision files.
- `RefinesRepoHistory` checks the refinement mapping `head <- youngest`, `history <- [r |-> ReadRev(r)]`.

### FsNodeRev

A node-revision id has three parts: node id, copy id, and where it lives (a revision, or a transaction's area). Each part is a tag `[txn, n]`. A permanent tag has `txn = None`. A tag with `txn = t` is the n-th id transaction t allocated itself.

- `create_node` takes the transaction's next node id. `reserve_copy_id` takes its next copy id. `create_successor` keeps the predecessor's node id and takes the given copy id, or the predecessor's when it is NULL.
- A change to a node that is already mutable is `put_node_revision` and allocates nothing. Deleting a mutable node reclaims it (`delete_node_revision`).
- `add_change` keeps one folded change per path, as `txn_changes_fetch` returns it: a modify keeps the earlier kind, an add over a delete is a replace, and a delete after an add removes the entry.
- At commit, under the lock, every txn-local part becomes permanent: counter from `current` plus n. `CommitPublish` writes the new youngest revision and both advanced counters in one step. `Recover` rebuilds all three from the revision files, scanning every node-revision for the largest ids.

`RefinesRepoHistory` maps `head <- current.rev` and `history <- [r |-> revFile[r].tree]`. A reader sees the node-revision id at each path, so `Contents` is the set of permanent ids. FsTxn checks the same abstract specification with file contents.

The counters follow spec.md section 6 ("next-available node/copy id counters" in `current`). Later FSFS formats put the revision into each new id instead; the model checks the counter scheme.

### LogMessage

`pc` follows the code. Each environment failure is a nondeterministic outcome of its step: no editor, open failure, write failure, editor failure, reopen or read failure, and the prompt. The commit-item loop only formats the template, so it is left out. A failed template write jumps to cleanup, as the code does (see the known issues).

The `-F` file data and the `-m` text are the variables `optFiledata` and `optMessage`. Init draws each from the messages or NULL. The baton's message is `MakeLogMsgBaton(optFiledata, optMessage)`, which is `svn_cl__make_log_msg_baton`: the `-F` data wins over `-m`. `base_dir` only places the temp file, so it is left out. `MessageFromUser` states that a returned message is the `-F` data if it was given, then the `-m` text, then the editor's text or the empty message from c)ontinue. A mutant that prefers `-m` breaks it.

### StripPrefix

The buffer is an array indexed as in C, including the bytes left past `len` by earlier memmoves. `strncmp` and `strchr` read those bytes. The two inner scans are RECURSIVE operators. `Stripped` is the reference: "remove all lines that begin with PREFIX".

### TargetArray

A target is abstracted to the properties the function tests:

- URL or path;
- whether its basename is the admin directory;
- whether it has an `@REV` suffix, and whether that suffix parses.

When `parse_path` fails, it leaves its outputs unassigned. The caller then reads them, so the model takes any value there.

A subcommand first takes its own arguments off `os->argv` (`parse_num_args` for N of them, `parse_all_args` for the rest, or neither), then builds the target array, then `push_implicit_dot_target` adds "." if the array is empty and the subcommand asks for it. `Init` picks the mode, N and the dot flag.

The passing run checks only the type invariant, whose mutant drops the NULL checks on the revisions. A property that restates what these helpers return would repeat their definitions, because each helper call is one step. The comments that the code contradicts (`util.c:61-63`, `181-183`, and the third `@REV`) are listed under known issues. Each would need a violation run of its own, and every run slot is in use.

### ListParse

Both split loops are modelled one iteration per step. The references are `Words` and `NonBlankLines`.

### ClientCmds

The working copy is abstracted to one schedule per path. `svn_client_add` and `svn_client_revert` are atomic steps that may fail with an error. `add` on a versioned path fails with `ENTRY_EXISTS`.

## Runs

| Run | Checks | Result |
|---|---|---|
| `MCFsTxn.cfg` | TypeOK, ChangedPathsComplete, YoungestOnDisk, MutableRepsPrivate, LockReleased (liveness), RefinesRepoHistory | pass, ~1.5M states, under 2 min |
| `MCFsNodeRev.cfg` | TypeOK, NodeIdsUnique, SuccessorLineage, ChangesMatchIds, RefinesRepoHistory | pass, ~236K states, about 15 s |
| `MCLogMessage.cfg` | TypeOK, MessageFromUser | pass |
| `MCLogMessage_blank.cfg` | BlankMessageRejected | **violated**: the white-space scan starts at the NUL (util.c:676) |
| `MCLogMessage_tmpleak.cfg` | TmpRemovedOnEveryReturn | **violated**: editor failure returns before cleanup (util.c:436) |
| `MCStripPrefix.cfg` | TypeOK, StripsPrefixedLines, Terminates (liveness) | pass (buffers ≤ 6 bytes, ~35 s) |
| `MCStripPrefix_overrun.cfg` | NoMemmoveOverrun | **violated** by `"SV\nS"`: memmove with a negative size (util.c:568) |
| `MCListParse.cfg` | TypeOK, NewlineListItems, Terminates | pass |
| `MCListParse_words.cfg` | StringListItems | **violated**: trailing white space gives an empty item (util.c:290-305) |
| `MCTargetArray.cfg` | TypeOK | pass, ~570K states |
| `MCTargetArray_badrev.cfg` | BadRevisionNotTarget | **violated**: the error of parse_path is ignored (util.c:241) |
| `MCClientCmds.cfg` | TypeOK, CommandEffect | pass |

`PROJECT.json` gives a mutant for every property of every passing run: a plausible code bug that TLC then reports. These mutant operators appear in the modules just before the definitions they replace.

### Bounds

- **FsTxn**: two writers, one path, two contents, three rep keys, revisions up to 2. This allows two concurrent transactions, a stale base, copy-on-write plus an in-place write, and a crash between any two steps of two successive commits. A second path made the state space more than six times larger without adding an interleaving.
- **FsNodeRev**: two writers, one path, revisions up to 2, at most 2 node ids and 2 copy ids per transaction. Two ids allow add-delete-add and two copies in one transaction. Two commits allow a successor of a committed node, a copy from an older revision, and a crash after move-into-place followed by recover and a further commit. With two paths, or a third revision, the run takes over 6 minutes.
- **LogMessage**: messages of up to 2 bytes over space, newline and the prefix byte. That covers blank messages, messages that are only prefixed lines, and messages that keep text.
- **StripPrefix**: a two-byte prefix, so a line can match it partly, and buffers of up to 6 bytes, which is enough for two cuts and for the shortest overrun (4 bytes). With 8 bytes the safety properties alone still pass in seconds, but TLC's liveness checking of this module stalls at 7 bytes.
- **ListParse**: buffers of up to 5 bytes.
- **TargetArray**: up to 3 arguments, enough for a third `@REV`, plus 1 --targets entry. Subcommands take up to 2 arguments of their own (MaxNum), so parse_num_args both succeeds and runs out of words.
- **ClientCmds**: up to 3 targets over 2 paths, so duplicates occur and a failure can fall between handled targets.

### Fairness

- **FsNodeRev**: no fairness. Its properties are safety and refinement; FsTxn checks that the lock is released.
- **FsTxn**: weak fairness on each writer's commit steps only. The body of `with_write_lock` is straight-line code that runs unless the process crashes. Beginning, editing and committing are left to the writer.
- **StripPrefix, ListParse**: weak fairness on `Next`. These are sequential loops with no blocking.
- **ClientCmds**: no fairness. Its one property is safety; that a loop over a finite array returns was not worth a property.
- **LogMessage**: no fairness. It waits on the user.

## Not modelled, and the plan

- **Directory entries and the dir cache, txn and revision properties, uuid, hotcopy, upgrade, the node-origin index (`fs_fs.h`).** Node-revision ids are in FsNodeRev. The node-origin index is an optional cache that is never authoritative (spec.md section 5). No property of it could fail in a model that leaves out its I/O errors. Properties, uuid and hotcopy have no rules beyond their one-line comments.
- **wc_db.h.** These are declarations without docstrings, and the header says the API is in flux. spec.md covers only the repository engine. Nothing here says what the operations do, so a model of them would be invented, not translated.
- **print_commit_info, JNI Schedule.** Output and object conversion only, with no state. (`make_log_msg_baton`, which sat beside `print_commit_info`, is modelled in LogMessage.)
- **`reps-strings.h`: `string_from_rep`, `rep_read_range`.** These read bytes out of a representation. The representations are mutable only inside the one transaction that owns them, and spec.md section 5 says edits within a transaction are sequential. So no read can race a write, and nothing here needs a model checker.
- **Composition of TargetArray and ClientCmds.** `add` and `revert` take `args_to_target_array (os, opt_state, FALSE, pool)` (`add-cmd.c:48`, `revert-cmd.c:44`). ClientCmds starts from any short array of paths, which covers every array that call returns: TargetArray abstracts a word to its kind, not its name. Composing them would not add a behaviour.

Everything under `src/` with a function body is now mapped, except `print_commit_info` and the local declarations. The rest of the source is headers. The ones left out are out of scope in spec.md or have no comments to translate. Nothing more of the source can be modelled faithfully within the present bounds. The remaining hazards without a property (`util.c:68`, `226`, `260`, `415`, `444`, `608`, `688`) each need a violation run of their own, or a fact about the environment or the callers that this source does not contain. Their entries in PROJECT.json give the reason.

## Known issues not given a run

- **`util.c:415-421, 499`.** A failed or short template write creates an error and jumps to `cleanup`, which returns SVN_NO_ERROR. The error is dropped, and the caller opens the prompt as if the message were unchanged. This is plain from reading those lines together. LogMessage models the jump.
- **`util.c:68`.** `push_implicit_dot_target` tests whether the array is empty. Its comment says "if the user passes no args". When every argument was an admin directory that `args_to_target_array` filtered out, the subcommand acts on "." without saying so. `ReturnTargets` models the test as the code has it.
- **`util.c:608`.** `!(commit_items || commit_items->nelts)` dereferences a NULL `commit_items`, and it starts the editor for an empty array. LogMessage models both branches. None of the callers are in the snapshot, so it is unknown whether such input occurs.
- **`util.c:226`.** `--targets` entries are not filtered for admin directories and are not canonicalized, although the comment at `util.c:181-183` says they are handled "just as if they were passed on the command line". `ConcatFile` appends them as given.
- **`util.c:260`.** A third `@REV` target is stripped of its revision, and then the loop breaks. That revision is dropped silently, and later targets keep their suffix. `ExtractRevision` models the break.
