----------------------------------- MODULE Ls -----------------------------------
(***************************************************************************)
(* The command ls: getsubdir_handler (and getfdir_handler, which is the    *)
(* same code over the files) strings the names of a directory together in  *)
(* a buffer of the caller, with the delimiter after each, and lsdir takes  *)
(* them apart again with strtok_fst and prints them.                       *)
(*                                                                         *)
(* A step is one turn of one of the two loops.  Characters are numbers: 0  *)
(* ends a string, Semi is ';'.                                             *)
(***************************************************************************)
EXTENDS Integers, SequencesExt

CONSTANTS
  Names,        \* names of directories or files
  MaxEntries,   \* bound of the checks: entries of a directory
  Sizes         \* sizes of the buffer (160 in lsdir)

Semi == 59
NUL == 0
NULL == -1

ASSUME LsAssumption ==
  /\ Names \subseteq Seq(1 .. 255 \ {Semi}) \ {<<>>}
  /\ MaxEntries \in Nat
  /\ Sizes \subseteq Nat /\ \A n \in Sizes : n >= 2

Char == 0 .. 255

\* The delimiter ";;".
DelimLen == 2

VARIABLES
  sz,         \* size of the buffer
  entries,    \* the names in the directory, in the order of its list
  pc,         \* "collect": in the handler, "show": in lsdir, "done"
  next,       \* index of the entry the handler looks at
  buf,        \* the buffer
  start,      \* where the next token starts in the buffer, or NULL
  shown,      \* the names printed so far
  stopped,    \* history: the handler gave up, an entry did not fit
  top         \* history: the highest index of the buffer that the last
              \* turn read or wrote

vars == <<sz, entries, pc, next, buf, start, shown, stopped, top>>

\* _memset of the whole buffer, and the svc.
Init ==
  /\ sz \in Sizes
  /\ entries \in UNION {[1 .. n -> Names] : n \in 0 .. MaxEntries}
  /\ pc = "collect" /\ next = 1
  /\ buf = [i \in 0 .. sz - 1 |-> NUL]
  /\ start = 0
  /\ shown = <<>>
  /\ stopped = FALSE
  /\ top = 0

-----------------------------------------------------------------------------
\* A character of the buffer; what is behind its end reads as the end of a
\* string here, and "top" tells that it was read.
At(i) == IF i < sz THEN buf[i] ELSE NUL

\* _strlen(buf).
StrLen == CHOOSE n \in 0 .. sz - 1 : buf[n] = NUL /\ \A i \in 0 .. n - 1 : buf[i] # NUL

\* Mutant: the length of the delimiter and its NUL.
NeededTight(name) == Len(name) + DelimLen + 1

\* What the handler wants to be left for a name: sizeof of the pointer to the
\* delimiter, four, for its two characters.
Needed(name) == Len(name) + 4

\* _strcat of a name and of the delimiter: the characters from the end of the
\* string on.
WithEntry(name) ==
  LET n == StrLen
  IN  [i \in 0 .. sz - 1 |->
         IF i < n \/ i > n + Len(name) + DelimLen THEN buf[i]
         ELSE IF i < n + Len(name) THEN name[i - n + 1]
         ELSE IF i < n + Len(name) + DelimLen THEN Semi
         ELSE NUL]

\* A turn of the handler's loop for a name that fits.
Collect ==
  /\ pc = "collect"
  /\ next <= Len(entries)
  /\ sz - StrLen >= Needed(entries[next])
  /\ buf' = WithEntry(entries[next])
  /\ top' = StrLen + Len(entries[next]) + DelimLen
  /\ next' = next + 1
  /\ UNCHANGED <<sz, entries, pc, start, shown, stopped>>

\* A name that does not fit: the loop ends, and what was strung together
\* stays.  The pointer the handler clears is its own copy.
CollectStops ==
  /\ pc = "collect"
  /\ next <= Len(entries)
  /\ sz - StrLen < Needed(entries[next])
  /\ stopped' = TRUE
  /\ pc' = "show"
  /\ UNCHANGED <<sz, entries, next, buf, start, shown, top>>

\* The end of the list: back in lsdir.
CollectEnds ==
  /\ pc = "collect"
  /\ next > Len(entries)
  /\ pc' = "show"
  /\ UNCHANGED <<sz, entries, next, buf, start, shown, stopped, top>>

\* Where the search of strtok_fst ends: at the first delimiter from start on,
\* or at the first NUL behind start, whichever comes first.
StopsAt(s) ==
  \/ At(s) = Semi /\ At(s + 1) = Semi
  \/ s > start /\ At(s) = NUL
TokenEnd ==
  CHOOSE s \in start .. sz + 1 : StopsAt(s) /\ \A i \in start .. s - 1 : ~StopsAt(i)

\* _strncpy to the token; a string ends at its first NUL.
Token ==
  LET t == [i \in 1 .. TokenEnd - start |-> At(start + i - 1)]
  IN  IF t # <<>> /\ t[1] = NUL THEN <<>> ELSE t

\* Mutant: the delimiter is not skipped.
AtDelimiter(s) == s

\* Mutant: a delimiter of one character is skipped.
BehindFirst(s) == s + 1

\* s += delim_sz.
BehindDelimiter(s) == s + DelimLen

\* A turn of lsdir's loop: a token is cut off and, if not empty, printed.
Show ==
  /\ pc = "show"
  /\ start # NULL
  /\ top' = TokenEnd + (IF At(TokenEnd) = NUL THEN 0 ELSE 1)
  /\ shown' = IF Token = <<>> THEN shown ELSE Append(shown, Token)
  /\ start' = IF At(TokenEnd) = NUL THEN NULL ELSE BehindDelimiter(TokenEnd)
  /\ UNCHANGED <<sz, entries, pc, next, buf, stopped>>

\* The last token was printed.
ShowEnds ==
  /\ pc = "show"
  /\ start = NULL
  /\ pc' = "done"
  /\ UNCHANGED <<sz, entries, next, buf, start, shown, stopped, top>>

Next == Collect \/ CollectStops \/ CollectEnds \/ Show \/ ShowEnds

Spec == Init /\ [][Next]_vars

\* The task that runs ls is scheduled again and again (RoundRobin in Kernel).
FairSpec == Spec /\ WF_vars(Next)

-----------------------------------------------------------------------------
(* Properties.                                                             *)

\* Neither the handler nor lsdir touches what lies behind the buffer, nor does
\* lsdir go on from there, for any directory and size: the handler's test leaves room for one more NUL,
\* and strtok_fst, which steps over the end of an empty string, needs it
\* (syscall.c:298, string.c:109-113).
LsStaysInside == top < sz /\ start \in 0 .. sz - 1 \cup {NULL}

\* ls prints the names of the directory, whole, in order, each once; if the
\* buffer is too short it prints those that fit (commands.c:9-42).
LsShowsDirectory ==
  pc = "done" => /\ IsPrefix(shown, entries)
                 /\ ~stopped => shown = entries
                 /\ stopped => Len(shown) = next - 1

\* lsdir's loop over the tokens ends, although an empty token does not move
\* the search behind the string (commands.c:21-27).
LsEnds == <>(pc = "done")
=============================================================================
