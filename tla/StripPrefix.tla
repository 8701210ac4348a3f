---------------------------- MODULE StripPrefix ----------------------------
(***************************************************************************)
(* strip_prefix_from_buffer and get_next_line (clients/cmdline/util.c),    *)
(* which remove the "SVN:" lines from an edited log message in place.      *)
(*                                                                         *)
(* The buffer is modelled byte by byte, as the C code sees it: a fixed     *)
(* array holding the original bytes and the terminating NUL, and a length *)
(* 'len' that shrinks as lines are cut out with memmove.  The bytes past   *)
(* 'len' keep their old contents, and strchr/strncmp read them until the   *)
(* original NUL.  Each step is one statement group of the function; the   *)
(* two inner scanning loops are recursive operators.                      *)
(***************************************************************************)
EXTENDS Naturals, Sequences, SequencesExt

CONSTANTS Bytes,    \* the bytes a buffer may contain (no NUL)
          Prefix,   \* the prefix, as a sequence of bytes ("SVN:")
          NL,       \* the newline byte
          MaxLen    \* bound: the longest buffer explored

ASSUME Prefix \in Seq(Bytes) /\ Len(Prefix) > 0 /\ NL \in Bytes

NUL == "NUL"
NULL == -1

VARIABLES input,   \* the buffer's contents on entry
          data,    \* the byte array: index 0 .. Len(input), NUL at the end
          len,     \* buffer->len
          ptr,     \* the cursor, an index into data, or NULL
          first,   \* first_prefix
          pc       \* the statement reached

vars == <<input, data, len, ptr, first, pc>>

Pcs == {"outer", "with", "cut", "without", "done", "overrun"}

TypeOK ==
  /\ input \in Seq(Bytes) /\ Len(input) <= MaxLen
  /\ data \in [0..Len(input) -> Bytes \cup {NUL}]
  /\ len \in 0..Len(input)
  /\ ptr \in {NULL} \cup 0..Len(input)
  /\ first \in 0..Len(input)
  /\ pc \in Pcs

\* strncmp (ptr, strip_prefix, strip_prefix_len) == 0 on array d.  The NUL
\* never equals a prefix byte, so the comparison never passes the NUL.
AtPrefix(d, p) ==
  \A i \in 0..Len(Prefix) - 1 :
    (\A j \in 0..i - 1 : d[p + j] = Prefix[j + 1]) => d[p + i] = Prefix[i + 1]

\* get_next_line: strchr for the newline up to the NUL; the index after it,
\* or NULL.
NextLine(d, p) ==
  LET nls == {i \in p..Len(input) - 1 : d[i] = NL /\ \A j \in p..i : d[j] # NUL}
  IN IF nls = {} THEN NULL ELSE Min(nls) + 1

\* while (ptr && ! strncmp (ptr, strip_prefix, strip_prefix_len))
\*   ptr = get_next_line (ptr);
RECURSIVE SkipPrefixed(_, _)
SkipPrefixed(d, p) ==
  IF p # NULL /\ AtPrefix(d, p) THEN SkipPrefixed(d, NextLine(d, p)) ELSE p

\* while (ptr && strncmp (ptr, strip_prefix, strip_prefix_len))
\*   ptr = get_next_line (ptr);
RECURSIVE SkipUnprefixed(_, _)
SkipUnprefixed(d, p) ==
  IF p # NULL /\ ~AtPrefix(d, p) THEN SkipUnprefixed(d, NextLine(d, p)) ELSE p

\* memmove (dst, src, n) on array d, for n >= 0.
MemMove(d, dst, src, n) ==
  [i \in DOMAIN d |-> IF dst <= i /\ i < dst + n THEN d[src + (i - dst)] ELSE d[i]]

Init ==
  /\ input \in BoundedSeq(Bytes, MaxLen)
  /\ data = [i \in 0..Len(input) |-> IF i < Len(input) THEN input[i + 1] ELSE NUL]
  /\ len = Len(input)
  /\ ptr = 0
  /\ first = 0
  /\ pc = "outer"

\* while (ptr && (ptr < (buffer->data + buffer->len))) { first_prefix = ptr;
\* when the loop ends: buffer->data[buffer->len] = 0.
OuterLoop ==
  /\ pc = "outer"
  /\ \/ /\ ptr # NULL /\ ptr < len
        /\ first' = ptr
        /\ pc' = "with"
        /\ UNCHANGED data
     \/ /\ ~(ptr # NULL /\ ptr < len)
        /\ data' = [data EXCEPT ![len] = NUL]
        /\ pc' = "done"
        /\ UNCHANGED first
  /\ UNCHANGED <<input, len, ptr>>

\* First scan through all consecutive lines WITH prefix.
ScanPrefixed ==
  /\ pc = "with"
  /\ ptr' = SkipPrefixed(data, ptr)
  /\ pc' = "cut"
  /\ UNCHANGED <<input, data, len, first>>

\* Mutant: the cut at the end of the string drops the byte before it.
CutAtEndShort == /\ len' = first - 1
                 /\ data' = [data EXCEPT ![first] = NUL]

\* At the end of the string: buffer->len = first_prefix - buffer->data.
CutAtEnd == /\ len' = first
            /\ data' = [data EXCEPT ![first] = NUL]

\* Mutant: the memmove does not shrink buffer->len.
MoveRestKeepsLen == /\ data' = MemMove(data, first, ptr, len - ptr)
                    /\ UNCHANGED len

\* memmove (first_prefix, ptr, buffer->data + buffer->len - ptr);
\* buffer->len -= (ptr - first_prefix).
MoveRest == /\ data' = MemMove(data, first, ptr, len - ptr)
            /\ len' = len - (ptr - first)

\* Mutant: after the memmove the scan goes on from ptr.
RewindNot == ptr' = ptr

\* ptr = first_prefix, after either the cut or the memmove.
Rewind == ptr' = IF first # ptr /\ ptr # NULL THEN first ELSE ptr

\* if (first_prefix != ptr): at the end of the string, cut the buffer at
\* first_prefix and break; else memmove the rest of the buffer over the
\* prefixed lines.  The size data + len - ptr is a size_t: when ptr lies
\* past len it wraps to a huge count and memmove runs off the buffer.
CutPrefixed ==
  /\ pc = "cut"
  /\ \/ /\ first = ptr
        /\ pc' = "without"
        /\ UNCHANGED <<data, len>>
     \/ /\ first # ptr /\ ptr = NULL
        /\ CutAtEnd
        /\ pc' = "done"
     \/ /\ first # ptr /\ ptr # NULL /\ len - ptr >= 0
        /\ MoveRest
        /\ pc' = "without"
     \/ /\ first # ptr /\ ptr # NULL /\ len - ptr < 0
        /\ pc' = "overrun"
        /\ UNCHANGED <<data, len>>
  /\ Rewind
  /\ UNCHANGED <<input, first>>

\* Now skip all consecutive lines WITHOUT prefix.
ScanUnprefixed ==
  /\ pc = "without"
  /\ ptr' = SkipUnprefixed(data, ptr)
  /\ pc' = "outer"
  /\ UNCHANGED <<input, data, len, first>>

Next == OuterLoop \/ ScanPrefixed \/ CutPrefixed \/ ScanUnprefixed

Spec == Init /\ [][Next]_vars /\ WF_vars(Next)

-----------------------------------------------------------------------------
(* The reference: what the function's comment says it does.                *)

\* The lines of s, each with its newline; the last one may have none.
RECURSIVE LinesOf(_)
LinesOf(s) ==
  IF s = <<>> THEN <<>>
  ELSE LET nls == {i \in 1..Len(s) : s[i] = NL}
           n == IF nls = {} THEN Len(s) ELSE Min(nls)
       IN <<SubSeq(s, 1, n)>> \o LinesOf(SubSeq(s, n + 1, Len(s)))

\* A line begins with the prefix.
Prefixed(line) == Len(line) >= Len(Prefix) /\ SubSeq(line, 1, Len(Prefix)) = Prefix

\* "Remove all lines from BUFFER that begin with PREFIX."
Stripped(s) == FlattenSeq(SelectSeq(LinesOf(s), LAMBDA l : ~Prefixed(l)))

\* The buffer the caller gets back.
Result == [i \in 1..len |-> data[i - 1]]

-----------------------------------------------------------------------------
(* Properties.                                                              *)

\* Whenever the function returns, the buffer holds exactly the lines of the
\* input that do not begin with the prefix, in order, NUL-terminated, even
\* though the scans read stale bytes left behind by earlier memmoves.
StripsPrefixedLines ==
  pc = "done" => Result = Stripped(input) /\ data[len] = NUL

\* The function returns for every input, or stops at the out-of-bounds
\* memmove.
Terminates == <>(pc \in {"done", "overrun"})

\* memmove is never asked to move a negative (wrapped) number of bytes.
NoMemmoveOverrun == pc # "overrun"
=============================================================================
