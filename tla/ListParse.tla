----------------------------- MODULE ListParse ------------------------------
(***************************************************************************)
(* svn_cl__stringlist_to_array and svn_cl__newlinelist_to_array            *)
(* (clients/cmdline/util.c), which split a buffer into an array of items:  *)
(* at white space, or at line ends.                                        *)
(*                                                                         *)
(* One call of one of the two functions is modelled, one loop iteration   *)
(* per step, on the NUL-terminated buffer as the C code indexes it.       *)
(***************************************************************************)
EXTENDS Naturals, Sequences, SequencesExt

CONSTANTS Bytes,     \* the bytes a buffer may contain (no NUL)
          Spaces,    \* the bytes apr_isspace accepts
          Newlines,  \* IS_NEWLINE: '\n' and '\r'
          MaxLen,    \* bound: the longest buffer explored
          MaxItems,  \* bound: the longest array kept (never reached)
          Null       \* a NULL buffer

ASSUME Newlines \subseteq Spaces /\ MaxItems > MaxLen

NUL == "NUL"

Functions == {"stringlist", "newlinelist"}

VARIABLES fn,     \* which of the two functions runs
          buf,    \* the buffer argument, or Null
          start,  \* start
          end,    \* end
          array,  \* the array built so far
          pc      \* the statement reached

vars == <<fn, buf, start, end, array, pc>>

\* buffer->len; a NULL buffer is never read.
BufLen == IF buf = Null THEN 0 ELSE Len(buf)

\* buffer->data[i], the NUL at index len.
DataAt(i) == IF i < BufLen THEN buf[i + 1] ELSE NUL

\* The bytes the leading skip loop passes over.
Skipped(c) == IF fn = "stringlist" THEN c \in Spaces
                                   ELSE c \in Newlines \cup Spaces

\* The bytes that end an item.
Ends(c) == IF fn = "stringlist" THEN c \in Spaces ELSE c \in Newlines

TypeOK ==
  /\ fn \in Functions
  /\ buf = Null \/ (buf \in Seq(Bytes) /\ Len(buf) <= MaxLen)
  /\ start \in 0..MaxLen
  /\ end \in 0..MaxLen
  /\ array \in Seq(Seq(Bytes))
  /\ pc \in {"outer", "skip", "check", "scan", "done"}

Init ==
  /\ fn \in Functions
  /\ buf \in BoundedSeq(Bytes, MaxLen) \cup {Null}
  /\ start = 0
  /\ end = 0
  /\ array = <<>>
  /\ pc = "outer"

\* if (buffer != NULL) ... while (end < buffer->len)
Outer ==
  /\ pc = "outer"
  /\ pc' = IF buf # Null /\ end < BufLen THEN "skip" ELSE "done"
  /\ UNCHANGED <<fn, buf, start, end, array>>

\* while (apr_isspace (buffer->data[start])) start++;  end = start;
\* (newlinelist: IS_NEWLINE (...) || apr_isspace (...)).
Skip ==
  /\ pc = "skip"
  /\ \/ /\ Skipped(DataAt(start))
        /\ start' = start + 1
        /\ UNCHANGED <<end, pc>>
     \/ /\ ~Skipped(DataAt(start))
        /\ end' = start
        /\ pc' = IF fn = "newlinelist" THEN "check" ELSE "scan"
        /\ UNCHANGED start
  /\ UNCHANGED <<fn, buf, array>>

\* Mutant: the break at the end of the string is missing.
CheckNoBreak ==
  /\ pc = "check"
  /\ pc' = "scan"
  /\ UNCHANGED <<fn, buf, start, end, array>>

\* newlinelist only: if (start >= buffer->len) break;
Check ==
  /\ pc = "check"
  /\ pc' = IF start >= BufLen THEN "done" ELSE "scan"
  /\ UNCHANGED <<fn, buf, start, end, array>>

\* Mutant: the item is pushed but start is not moved past it.
PushKeepsStart ==
  /\ Len(array) < MaxItems
  /\ array' = Append(array, SubSeq(buf, start + 1, end))
  /\ UNCHANGED start

\* Mutant: start moves one past the byte that ended the item.
PushItemPastEnd ==
  /\ Len(array) < MaxItems
  /\ array' = Append(array, SubSeq(buf, start + 1, end))
  /\ start' = end + 1

\* item = svn_stringbuf_ncreate (&buffer->data[start], end - start);
\* array_push (array) = item;  start = end.
PushItem ==
  /\ Len(array) < MaxItems
  /\ array' = Append(array, SubSeq(buf, start + 1, end))
  /\ start' = end

\* while (end < buffer->len && ! <ends an item> (buffer->data[end])) end++;
\* then push the item.
Scan ==
  /\ pc = "scan"
  /\ \/ /\ end < BufLen /\ ~Ends(DataAt(end))
        /\ end' = end + 1
        /\ UNCHANGED <<start, array, pc>>
     \/ /\ ~(end < BufLen /\ ~Ends(DataAt(end)))
        /\ PushItem
        /\ pc' = "outer"
        /\ UNCHANGED end
  /\ UNCHANGED <<fn, buf>>

Next == Outer \/ Skip \/ Check \/ Scan

\* A plain loop with no blocking call: every step is taken.
Spec == Init /\ [][Next]_vars /\ WF_vars(Next)

-----------------------------------------------------------------------------
(* The references: what the functions' comments say they return.          *)

\* The maximal runs of s without a byte of D, in order.
RECURSIVE Fields(_, _)
Fields(s, D) ==
  IF s = <<>> THEN <<>>
  ELSE IF Head(s) \in D THEN Fields(Tail(s), D)
  ELSE LET cut == {i \in 1..Len(s) : s[i] \in D}
           n == IF cut = {} THEN Len(s) ELSE Min(cut) - 1
       IN <<SubSeq(s, 1, n)>> \o Fields(SubSeq(s, n + 1, Len(s)), D)

\* s without its leading white space.
RECURSIVE TrimLeft(_)
TrimLeft(s) == IF s # <<>> /\ Head(s) \in Spaces THEN TrimLeft(Tail(s)) ELSE s

\* "a whitespace separated list of items"
Words(s) == IF s = Null THEN <<>> ELSE Fields(s, Spaces)

\* "a newline separated list of items": the lines that are not blank,
\* without their leading white space.
NonBlankLines(s) ==
  IF s = Null THEN <<>>
  ELSE SelectSeq([i \in 1..Len(Fields(s, Newlines)) |-> TrimLeft(Fields(s, Newlines)[i])],
                 LAMBDA l : l # <<>>)

-----------------------------------------------------------------------------
(* Properties.                                                              *)

\* newlinelist_to_array returns exactly the non-blank lines of the buffer,
\* left-trimmed, in order: the break at the end of the string keeps the
\* last skip from pushing an empty item.
NewlineListItems ==
  (pc = "done" /\ fn = "newlinelist") => array = NonBlankLines(buf)

\* Both loops end: each iteration of the outer loop moves start or ends.
Terminates == <>(pc = "done")

\* stringlist_to_array returns exactly the white-space separated words of
\* the buffer: no empty item for leading or trailing white space.
StringListItems ==
  (pc = "done" /\ fn = "stringlist") => array = Words(buf)
=============================================================================
