----------------------------- MODULE LogMessage -----------------------------
(***************************************************************************)
(* svn_cl__get_log_message and svn_cl__edit_externally                     *)
(* (clients/cmdline/util.c): obtaining a commit log message, from -m/-F or *)
(* by looping over an external editor session and a prompt.                *)
(*                                                                         *)
(* One call is modelled.  pc is the position in the code; every failure    *)
(* the environment can produce (no editor, temp file, write, editor run,   *)
(* reopen, read, prompt) is a nondeterministic outcome of its step.  A     *)
(* message is a byte string over Chars.  The call of                     *)
(* strip_prefix_from_buffer uses the reference definition Stripped of     *)
(* StripPrefix, which the runs of StripPrefix show the C function meets   *)
(* on every buffer it does not overrun.                                    *)
(***************************************************************************)
EXTENDS Naturals, Sequences, SequencesExt

CONSTANTS Chars,      \* the bytes a message is made of
          Spaces,     \* the bytes apr_isspace accepts
          Prefix,     \* EDITOR_PREFIX_TXT, as a sequence of bytes
          NL,         \* the newline byte
          MaxMsgLen,  \* bound: the longest message explored
          Null        \* a NULL pointer

\* strip_prefix_from_buffer (message, EDITOR_PREFIX_TXT, pool).
Strip == INSTANCE StripPrefix WITH Bytes <- Chars, MaxLen <- MaxMsgLen,
           input <- <<>>, data <- <<>>, len <- 0, ptr <- 0, first <- 0,
           pc <- "done"

\* The messages the user may save or pass with -m / -F.
Texts == BoundedSeq(Chars, MaxMsgLen)

\* The reply read by svn_cl__prompt_user: none, or its first letter.  "x"
\* stands for every letter other than a and c.
Replies == {Null, "a", "c", "x"}

\* The caller's commit_items array: a NULL pointer, empty, or not.
ItemLists == {"null", "empty", "some"}

Calls == {"running", "ok", "error", "crash"}

EditSteps == {"ee_editor", "ee_open", "ee_write", "ee_run", "ee_read", "ee_cleanup"}
Pcs == {"entry", "after_edit", "prompt", "done"} \cup EditSteps

VARIABLES optFiledata,  \* opt_state->filedata: the -F file's contents
          optMessage,   \* opt_state->message: the -m argument
          pc,           \* where the call is
          lmbMessage,   \* log_msg_baton->message: -F data, else -m, else NULL
          commitItems,  \* the commit_items argument
          editorSet,    \* one of SVN_EDITOR, EDITOR, VISUAL is set
          message,      \* the local 'message' of get_log_message
          edited,       \* what the user left in the temp file, Null if unchanged
          tmpFile,      \* the temp file "msg.tmp" exists on disk
          reply,        \* the last prompt reply
          logMsg,       \* *log_msg as returned
          result        \* how the call ended

vars == <<optFiledata, optMessage, pc, lmbMessage, commitItems, editorSet, message, edited, tmpFile,
          reply, logMsg, result>>

TypeOK ==
  /\ optFiledata \in Texts \cup {Null}
  /\ optMessage \in Texts \cup {Null}
  /\ pc \in Pcs
  /\ lmbMessage \in Texts \cup {Null}
  /\ commitItems \in ItemLists
  /\ editorSet \in BOOLEAN
  /\ message \in Texts \cup {Null}
  /\ edited \in Texts \cup {Null}
  /\ tmpFile \in BOOLEAN
  /\ reply \in Replies \cup {"garbage"}
  /\ logMsg \in Texts \cup {Null}
  /\ result \in Calls

\* Byte i (0-based) of a NUL-terminated buffer holding m.
DataAt(m, i) == IF i < Len(m) THEN m[i + 1] ELSE "NUL"

\* The white-space test of get_log_message: scan from index 'len' down to 0
\* and stop at the first byte apr_isspace rejects; -1 if there is none.
RECURSIVE LastNonSpace(_, _)
LastNonSpace(m, i) ==
  IF i < 0 THEN -1
  ELSE IF DataAt(m, i) \notin Spaces THEN i ELSE LastNonSpace(m, i - 1)

\* The message is dropped as "white space only" when the scan finds nothing.
TreatedAsEmpty(m) == LastNonSpace(m, Len(m)) < 0

\* No message left after the editor session: the loop goes on to the prompt.
NoMessage(m) == IF m = Null THEN TRUE ELSE TreatedAsEmpty(m)

\* get_log_message returns: *log_msg and the error it returns.
Return(msg, how) == /\ logMsg' = msg
                    /\ result' = how
                    /\ pc' = "done"

\* svn_cl__make_log_msg_baton: the message of the baton is the -F file's
\* data when there is some, else the -m text, else NULL.  base_dir only
\* names the temp file's directory and is left out.
\* Faulty variant: -m is taken over -F when both are given.
MakeLogMsgBatonPreferM(filedata, msg) == IF msg # Null THEN msg ELSE filedata

MakeLogMsgBaton(filedata, msg) == IF filedata # Null THEN filedata ELSE msg

\* The caller builds the baton from its options, then calls
\* svn_cl__get_log_message with 'message' = NULL.
Init ==
  /\ pc = "entry"
  /\ optFiledata \in Texts \cup {Null}
  /\ optMessage \in Texts \cup {Null}
  /\ lmbMessage = MakeLogMsgBaton(optFiledata, optMessage)
  /\ commitItems \in ItemLists
  /\ editorSet \in BOOLEAN
  /\ message = Null
  /\ edited = Null
  /\ tmpFile = FALSE
  /\ reply = Null
  /\ logMsg = Null
  /\ result = "running"

-----------------------------------------------------------------------------
(* svn_cl__get_log_message, up to the loop.                                 *)

\* A message given with -m or -F is returned as is.  Otherwise the test
\* !(commit_items || commit_items->nelts) reads nelts through a NULL
\* commit_items, and is false for any non-NULL array, empty or not.
GetLogMessageEntry ==
  /\ pc = "entry"
  /\ \/ /\ lmbMessage # Null
        /\ Return(lmbMessage, "ok")
     \/ /\ lmbMessage = Null
        /\ commitItems = "null"
        /\ Return(Null, "crash")
     \/ /\ lmbMessage = Null
        /\ commitItems # "null"
        /\ pc' = "ee_editor"
        /\ UNCHANGED <<logMsg, result>>
  /\ UNCHANGED <<optFiledata, optMessage, lmbMessage, commitItems, editorSet, message, edited, tmpFile,
                 reply>>

-----------------------------------------------------------------------------
(* svn_cl__edit_externally.                                                 *)

\* No editor in the environment: SVN_ERR_CL_NO_EXTERNAL_EDITOR, which the
\* caller wraps and returns.
FindEditor ==
  /\ pc = "ee_editor"
  /\ \/ /\ editorSet
        /\ pc' = "ee_open"
        /\ UNCHANGED <<logMsg, result>>
     \/ /\ ~editorSet
        /\ Return(Null, "error")
  /\ UNCHANGED <<optFiledata, optMessage, lmbMessage, commitItems, editorSet, message, edited, tmpFile,
                 reply>>

\* SVN_ERR (svn_io_open_unique_file (...)): a failure returns at once.
OpenTmpFile ==
  /\ pc = "ee_open"
  /\ \/ /\ tmpFile' = TRUE
        /\ pc' = "ee_write"
        /\ UNCHANGED <<logMsg, result>>
     \/ /\ Return(Null, "error")
        /\ UNCHANGED tmpFile
  /\ UNCHANGED <<optFiledata, optMessage, lmbMessage, commitItems, editorSet, message, edited,
                 reply>>

\* Write the template and close.  On a failed or short write an error is
\* created and control jumps to cleanup, which returns SVN_NO_ERROR.
WriteTemplate ==
  /\ pc = "ee_write"
  /\ pc' \in {"ee_run", "ee_cleanup"}
  /\ UNCHANGED <<optFiledata, optMessage, lmbMessage, commitItems, editorSet, message, edited, tmpFile,
                 reply, logMsg, result>>

\* SVN_ERR (svn_io_run_cmd (...)): a failure returns at once, before
\* cleanup.  Otherwise the user saves some text, or leaves the file as it
\* was (same mtime and size).
RunEditor ==
  /\ pc = "ee_run"
  /\ \/ /\ Return(Null, "error")
        /\ UNCHANGED edited
     \/ /\ \E e \in Texts \cup {Null} : edited' = e
        /\ pc' = "ee_read"
        /\ UNCHANGED <<logMsg, result>>
  /\ UNCHANGED <<optFiledata, optMessage, lmbMessage, commitItems, editorSet, message, tmpFile,
                 reply>>

\* Faulty variant: the terminating NUL is read as part of the message.
ReadBackPastEnd ==
  /\ pc = "ee_read"
  /\ pc' = "ee_cleanup"
  /\ \/ /\ edited = Null
        /\ message' = Null
     \/ /\ edited # Null
        /\ message' = Append(edited, "NUL")
  /\ UNCHANGED <<optFiledata, optMessage, lmbMessage, commitItems, editorSet, edited, tmpFile,
                 reply, logMsg, result>>

\* Faulty variant: a failed read still hands back the buffer, as allocated.
ReadBackKeepsBuffer ==
  /\ pc = "ee_read"
  /\ pc' = "ee_cleanup"
  /\ \/ /\ edited = Null
        /\ message' = Null
     \/ /\ edited # Null
        /\ message' = edited
     \/ /\ edited # Null
        /\ message' = <<>>
  /\ UNCHANGED <<optFiledata, optMessage, lmbMessage, commitItems, editorSet, edited, tmpFile,
                 reply, logMsg, result>>

\* If the file looks changed it is reopened and read whole; a failed open
\* or a short read jumps to cleanup with *edited_contents left as it was.
\* If it looks unchanged, *edited_contents = NULL.
ReadBack ==
  /\ pc = "ee_read"
  /\ pc' = "ee_cleanup"
  /\ \/ /\ edited = Null
        /\ message' = Null
     \/ /\ edited # Null
        /\ message' = edited
     \/ /\ edited # Null
        /\ UNCHANGED message
  /\ UNCHANGED <<optFiledata, optMessage, lmbMessage, commitItems, editorSet, edited, tmpFile,
                 reply, logMsg, result>>

\* cleanup: remove the temp file, return SVN_NO_ERROR.
Cleanup ==
  /\ pc = "ee_cleanup"
  /\ tmpFile' = FALSE
  /\ pc' = "after_edit"
  /\ UNCHANGED <<optFiledata, optMessage, lmbMessage, commitItems, editorSet, message, edited,
                 reply, logMsg, result>>

-----------------------------------------------------------------------------
(* Back in the loop of svn_cl__get_log_message.                             *)

\* Strip the "SVN:" lines, drop a message the white-space test rejects; a
\* message left ends the loop, none leads to the prompt.
AfterEdit ==
  /\ pc = "after_edit"
  /\ LET stripped == IF message = Null THEN Null ELSE Strip!Stripped(message)
     IN \/ /\ ~NoMessage(stripped)
           /\ message' = stripped
           /\ Return(stripped, "ok")
        \/ /\ NoMessage(stripped)
           /\ message' = Null
           /\ pc' = "prompt"
           /\ UNCHANGED <<logMsg, result>>
  /\ UNCHANGED <<optFiledata, optMessage, lmbMessage, commitItems, editorSet, edited, tmpFile,
                 reply>>

\* "a)bort, c)ontinue, e)dit": abort leaves the loop with a NULL message,
\* continue with an empty one, anything else (or no reply) edits again.
\* The error svn_cl__prompt_user may return is ignored, and 'reply' is then
\* never assigned: reading it is undefined and may crash.
Prompt ==
  /\ pc = "prompt"
  /\ \E r \in Replies \cup {"garbage"} :
       /\ reply' = r
       /\ \/ /\ r = "a"
             /\ Return(Null, "ok")
             /\ UNCHANGED message
          \/ /\ r = "c"
             /\ message' = <<>>
             /\ Return(<<>>, "ok")
          \/ /\ r \in {Null, "x"}
             /\ pc' = "ee_editor"
             /\ UNCHANGED <<message, logMsg, result>>
          \/ /\ r = "garbage"
             /\ Return(Null, "crash")
             /\ UNCHANGED message
  /\ UNCHANGED <<optFiledata, optMessage, lmbMessage, commitItems, editorSet, edited, tmpFile>>

Next ==
  \/ GetLogMessageEntry
  \/ FindEditor \/ OpenTmpFile \/ WriteTemplate \/ RunEditor \/ ReadBack
  \/ Cleanup
  \/ AfterEdit \/ Prompt

\* No fairness: the loop only advances as the user answers the prompt and
\* quits the editor, and a user may edit again forever.
Spec == Init /\ [][Next]_vars

-----------------------------------------------------------------------------
(* Properties.                                                              *)

\* A message the call returns without error is the -F file's data when -F
\* was given (even with -m), else the -m text, else the text the user
\* saved in the editor with its prefixed lines removed, or the empty
\* message the user chose with c)ontinue: never a buffer the code did not
\* finish reading, and never -m's text in place of -F's.
MessageFromUser ==
  (pc = "done" /\ result = "ok" /\ logMsg # Null) =>
    \/ optFiledata # Null /\ logMsg = optFiledata
    \/ optFiledata = Null /\ optMessage # Null /\ logMsg = optMessage
    \/ edited # Null /\ logMsg = Strip!Stripped(edited)
    \/ logMsg = <<>> /\ reply = "c"

\* Comment in get_log_message: white space only is considered empty, so a
\* message taken from the editor is never blank.
BlankMessageRejected ==
  (pc = "done" /\ result = "ok" /\ lmbMessage = Null /\ reply # "c"
   /\ logMsg # Null) => ~(\A i \in 1..Len(logMsg) : logMsg[i] \in Spaces)

\* Comment in edit_externally: once the temp file is created, any problem
\* requires cleaning it up, so no return leaves the file on disk.
TmpRemovedOnEveryReturn == pc = "done" => ~tmpFile
=============================================================================
