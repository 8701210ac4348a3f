---------------------------- MODULE TargetArray -----------------------------
(***************************************************************************)
(* svn_cl__args_to_target_array and parse_path (clients/cmdline/util.c):   *)
(* the targets of a subcommand, from the command line and from the file    *)
(* given with --targets, with "@REV" suffixes split off when asked.  Before *)
(* it, a subcommand may take its non-target arguments off the command line *)
(* with svn_cl__parse_num_args or svn_cl__parse_all_args; after it, one   *)
(* that acts on "." by default calls svn_cl__push_implicit_dot_target.    *)
(*                                                                         *)
(* A target is abstracted to what the function tests of it: whether it is *)
(* a URL (canonicalized) or a path, whether its basename is the admin     *)
(* directory, and whether it ends in "@" followed by a revision that      *)
(* parses ("rev") or does not ("bad").  One subcommand's argument        *)
(* handling is modelled, one loop iteration of args_to_target_array per   *)
(* step.                                                                   *)
(***************************************************************************)
EXTENDS Naturals, Sequences, SequencesExt

CONSTANTS MaxArgs,   \* bound: the most command line arguments explored
          MaxFile,   \* bound: the most --targets entries explored
          MaxNum,    \* bound: the most non-target arguments a subcommand takes
          Null       \* a NULL pointer

\* kind: "url" as typed, "canon" once svn_path_canonicalize ran on it,
\* "path", "adm" (basename SVN_WC_ADM_DIR_NAME); "junk" is what an
\* uninitialised truepath holds, "dot" the implicit ".".  at: the "@..."
\* suffix.
Targets == [kind : {"url", "path"}, at : {"none", "rev", "bad"}]
           \cup {[kind |-> "adm", at |-> "none"]}
Kinds == {"url", "canon", "path", "adm", "junk", "dot"}
Items == [kind : Kinds, at : {"none", "rev", "bad"}]

\* A revision as parse_path returns it: kind unspecified, or a number.
RevKinds == {"unspecified", "number"}

\* How the subcommand takes its non-target arguments: not at all, with
\* svn_cl__parse_num_args (os, opt_state, subcommand, num), or with
\* svn_cl__parse_all_args.
Modes == {"none", "num", "all"}

\* array_push_svn_stringbuf (targets, ".", pool).
DotTarget == [kind |-> "dot", at |-> "none"]

VARIABLES mode,       \* how the subcommand parses its arguments
          num,        \* num_args of parse_num_args (0 for the other modes)
          dot,        \* the subcommand pushes the implicit "." target
          args,       \* opt_state->args
          result,     \* the error the argument handling gives the subcommand
          argv,       \* os->argv from os->ind on
          tfile,      \* opt_state->targets, or Null
          extract,    \* extract_revisions
          ind,        \* os->ind, relative to the first remaining argument
          targets,    \* the array being built
          i,          \* the index of the extract loop
          firstrev,   \* firstrev->kind, or Null
          secondrev,  \* secondrev->kind, or Null
          startRev,   \* opt_state->start_revision.kind
          endRev,     \* opt_state->end_revision.kind
          pc

\* What the subcommand set up and what the argument helpers produce.
cmdVars == <<mode, num, dot, args, result>>

vars == <<mode, num, dot, args, result, argv, tfile, extract, ind, targets, i, firstrev,
          secondrev, startRev, endRev, pc>>

TypeOK ==
  /\ mode \in Modes /\ num \in 0..MaxNum /\ dot \in BOOLEAN
  /\ args \in Seq(Targets) /\ Len(args) <= MaxArgs
  /\ result \in {"none", "ok", "arg_parsing"}
  /\ argv \in Seq(Targets) /\ Len(argv) <= MaxArgs
  /\ tfile = Null \/ (tfile \in Seq(Targets) /\ Len(tfile) <= MaxFile)
  /\ extract \in BOOLEAN
  /\ ind \in 0..MaxArgs
  /\ targets \in Seq(Items)
  /\ i \in 0..MaxArgs + MaxFile
  /\ firstrev \in RevKinds \cup {Null}
  /\ secondrev \in RevKinds \cup {Null}
  /\ startRev \in RevKinds /\ endRev \in RevKinds
  /\ pc \in {"parse", "args", "cat", "extract", "revs", "ret", "done"}

Init ==
  /\ mode \in Modes
  /\ num \in IF mode = "num" THEN 1..MaxNum ELSE {0}
  /\ dot \in BOOLEAN
  /\ args = <<>>
  /\ result = "none"
  /\ argv \in BoundedSeq(Targets, MaxArgs)
  /\ tfile \in BoundedSeq(Targets, MaxFile) \cup {Null}
  /\ extract \in BOOLEAN
  /\ ind = 0
  /\ targets = <<>>
  /\ i = 0
  /\ firstrev = Null
  /\ secondrev = Null
  /\ startRev = "unspecified"
  /\ endRev = "unspecified"
  /\ pc = IF mode = "none" THEN "args" ELSE "parse"

\* svn_cl__parse_num_args: for (i = 0; i < num_args; i++) push
\* os->argv[os->ind++], and when os->ind >= os->argc first, subcommand help
\* and SVN_ERR_CL_ARG_PARSING_ERROR, with the words taken so far left in
\* opt_state->args.  The subcommand returns that error.
ParseNumArgs ==
  /\ pc = "parse" /\ mode = "num"
  /\ \/ /\ ind + num <= Len(argv)
        /\ args' = SubSeq(argv, ind + 1, ind + num)
        /\ ind' = ind + num
        /\ pc' = "args"
        /\ UNCHANGED result
     \/ /\ ind + num > Len(argv)
        /\ args' = SubSeq(argv, ind + 1, Len(argv))
        /\ ind' = Len(argv)
        /\ result' = "arg_parsing"
        /\ pc' = "done"
  /\ UNCHANGED <<mode, num, dot, argv, tfile, extract, targets, i, firstrev,
                 secondrev, startRev, endRev>>

\* svn_cl__parse_all_args: no word left is SVN_ERR_CL_ARG_PARSING_ERROR;
\* otherwise while (os->ind < os->argc) push os->argv[os->ind++].
ParseAllArgs ==
  /\ pc = "parse" /\ mode = "all"
  /\ \/ /\ ind >= Len(argv)
        /\ result' = "arg_parsing"
        /\ pc' = "done"
        /\ UNCHANGED <<args, ind>>
     \/ /\ ind < Len(argv)
        /\ args' = SubSeq(argv, ind + 1, Len(argv))
        /\ ind' = Len(argv)
        /\ pc' = "args"
        /\ UNCHANGED result
  /\ UNCHANGED <<mode, num, dot, argv, tfile, extract, targets, i, firstrev,
                 secondrev, startRev, endRev>>

\* for (; os->ind < os->argc; os->ind++): a path whose basename is the
\* admin directory is skipped, a URL is canonicalized, and the target is
\* pushed.
CommandLineArg ==
  /\ pc = "args"
  /\ \/ /\ ind < Len(argv)
        /\ LET a == argv[ind + 1]
           IN targets' = CASE a.kind = "adm" -> targets
                           [] a.kind = "url" -> Append(targets, [a EXCEPT !.kind = "canon"])
                           [] OTHER          -> Append(targets, a)
        /\ ind' = ind + 1
        /\ UNCHANGED pc
     \/ /\ ind >= Len(argv)
        /\ pc' = "cat"
        /\ UNCHANGED <<targets, ind>>
  /\ UNCHANGED <<cmdVars, argv, tfile, extract, i, firstrev, secondrev,
                 startRev, endRev>>

\* if (NULL != opt_state->targets) apr_array_cat (targets, opt_state->targets);
\* then the extract loop, or return the array.
ConcatFile ==
  /\ pc = "cat"
  /\ targets' = IF tfile # Null THEN targets \o tfile ELSE targets
  /\ pc' = IF extract THEN "extract" ELSE "ret"
  /\ UNCHANGED <<cmdVars, argv, tfile, extract, ind, i, firstrev, secondrev,
                 startRev, endRev>>

\* parse_path on an "@" suffix whose revision does not parse returns an
\* error before it assigns *truepath or rev; the caller ignores the error
\* and reads its uninitialised temprev and truepath: whatever an earlier
\* iteration or the stack left there.
ParsedKind(t) ==
  CASE t.at = "none" -> {"unspecified"}
    [] t.at = "rev"  -> {"number"}
    [] OTHER         -> RevKinds

\* *truepath = svn_stringbuf_ncreate (path->data, i): the part before "@".
ParsedPath(t) ==
  IF t.at = "bad" THEN [kind |-> "junk", at |-> "none"] ELSE [t EXCEPT !.at = "none"]

\* One iteration of for (i = 0; i < targets->nelts; i++): parse_path, and
\* for a revision, replace the target by its path and fill firstrev, then
\* secondrev; a third revision breaks the loop.
ExtractRevision ==
  /\ pc = "extract"
  /\ \/ /\ i < Len(targets)
        /\ \E k \in ParsedKind(targets[i + 1]) :
             \/ /\ k = "unspecified"
                   /\ i' = i + 1
                   /\ UNCHANGED <<targets, firstrev, secondrev, pc>>
                \/ /\ k # "unspecified"
                   /\ targets' = [targets EXCEPT ![i + 1] = ParsedPath(targets[i + 1])]
                   /\ \/ /\ firstrev = Null
                         /\ firstrev' = k /\ i' = i + 1
                         /\ UNCHANGED <<secondrev, pc>>
                      \/ /\ firstrev # Null /\ secondrev = Null
                         /\ secondrev' = k /\ i' = i + 1
                         /\ UNCHANGED <<firstrev, pc>>
                      \/ /\ firstrev # Null /\ secondrev # Null
                         /\ pc' = "revs"
                         /\ UNCHANGED <<i, firstrev, secondrev>>
     \/ /\ i >= Len(targets)
        /\ pc' = "revs"
        /\ UNCHANGED <<targets, i, firstrev, secondrev>>
  /\ UNCHANGED <<cmdVars, argv, tfile, extract, ind, startRev, endRev>>

\* Mutant: the revisions are copied without the NULL checks.
SetRevisionsUnchecked ==
  /\ pc = "revs"
  /\ startRev' = firstrev
  /\ endRev' = secondrev
  /\ pc' = "ret"
  /\ UNCHANGED <<cmdVars, argv, tfile, extract, ind, targets, i, firstrev, secondrev>>

\* if (firstrev) opt_state->start_revision = *firstrev; likewise secondrev.
SetRevisions ==
  /\ pc = "revs"
  /\ startRev' = IF firstrev # Null THEN firstrev ELSE startRev
  /\ endRev' = IF secondrev # Null THEN secondrev ELSE endRev
  /\ pc' = "ret"
  /\ UNCHANGED <<cmdVars, argv, tfile, extract, ind, targets, i, firstrev, secondrev>>

\* The subcommand gets the array; one that acts on "." by default calls
\* svn_cl__push_implicit_dot_target: if (targets->nelts == 0) push ".".
ReturnTargets ==
  /\ pc = "ret"
  /\ targets' = IF dot /\ targets = <<>> THEN <<DotTarget>> ELSE targets
  /\ result' = "ok"
  /\ pc' = "done"
  /\ UNCHANGED <<mode, num, dot, args, argv, tfile, extract, ind, i, firstrev,
                 secondrev, startRev, endRev>>

Next == ParseNumArgs \/ ParseAllArgs \/ CommandLineArg \/ ConcatFile
        \/ ExtractRevision \/ SetRevisions \/ ReturnTargets

Spec == Init /\ [][Next]_vars

-----------------------------------------------------------------------------
(* Properties.                                                              *)

\* parse_path reports a revision that does not parse; no target is then
\* built from its uninitialised output.
BadRevisionNotTarget == pc = "done" => \A j \in DOMAIN targets : targets[j].kind # "junk"
=============================================================================
