--------------------------------- MODULE Shell ---------------------------------
(***************************************************************************)
(* The command line, userproc/shell.c: a buffer of fixed size filled key   *)
(* by key, taken apart by strtok_fst on Enter, and the commands.           *)
(*                                                                         *)
(* A step is what one key does.  Letters stand for the characters that     *)
(* words are made of; commands and directories are spelled in them.  What  *)
(* the screen shows is left out, except for what a command prints.         *)
(***************************************************************************)
EXTENDS DirTree, SequencesExt

CONSTANTS
  BufSize,      \* SIZE_OF_CMDBUF, which is SIZE_OF_CMD_TOKEN
  Letter,
  CommandWord,  \* the spelling of each command
  DirWord,      \* the spelling of each directory, and of ".."
  TestKey,      \* '1' to '5'
  BreakKey      \* '0'

NUL == "NUL"
BS == "BS"          \* 0x08
CR == "CR"          \* 0x0d
Blank == " "
Char == Letter \cup {Blank}
Key == Char \cup {NUL, BS, CR}

ASSUME ShellAssumption ==
  /\ BufSize \in Nat /\ BufSize >= 3
  /\ Letter \cap {NUL, BS, CR, Blank} = {}
  /\ DOMAIN CommandWord = {"test", "help", "info", "ls", "cd", "pwd", "reboot"}
  /\ DOMAIN DirWord = {BootTree.dir[d].name : d \in DOMAIN BootTree.dir} \cup {".."}
  /\ \A word \in {CommandWord, DirWord} :
       /\ IsInjective(word)
       /\ \A n \in DOMAIN word : word[n] \in Seq(Letter) \ {<<>>}
  /\ TestKey \subseteq Char /\ BreakKey \in Char \ TestKey

VARIABLES
  mode,     \* "line": reading a line, "menu": reading the choice of a test,
            \* "down": __restart was called, "wild": the shell went outside
            \* its buffer or through NULL
  cmdbuf,   \* the buffer; cmd points to its start whenever a key is read
  s,        \* where the next character goes
  cwdn,     \* the current directory, which the kernel keeps
  answer,   \* what the last command printed
  nul       \* history: there may be a NUL among the keys of this line

vars == <<mode, cmdbuf, s, cwdn, answer, nul>>

Cleared == [i \in 0 .. BufSize - 1 |-> NUL]

Init ==
  /\ mode = "line" /\ cmdbuf = Cleared /\ s = 0
  /\ cwdn = Root /\ answer = <<>> /\ nul = FALSE

-----------------------------------------------------------------------------
(* Strings.                                                                *)

\* _strlen, of a string in a buffer.
StrLen(b) ==
  CHOOSE n \in 0 .. BufSize : /\ n = BufSize \/ b[n] = NUL
                              /\ \A i \in 0 .. n - 1 : b[i] # NUL

Str(b) == [i \in 1 .. StrLen(b) |-> b[i - 1]]

\* Mutant: the line that the comment at shell.c:79 warns to leave out.
NoBlank(b) == b

\* _strcat of the delimiter.
WithBlank(b) ==
  LET n == StrLen(b)
  IN  [b EXCEPT ![n] = Blank, ![n + 1] = NUL]

\* strtok_fst, of a string that is not empty: the token, and what is left of
\* the string, if a delimiter was found.
Strtok(str) ==
  LET ends == {i \in DOMAIN str : str[i] = Blank}
      first == CHOOSE i \in ends : \A j \in ends : i <= j
  IN  IF ends = {} THEN [token |-> str, found |-> FALSE, rest |-> <<>>]
      ELSE [token |-> SubSeq(str, 1, first - 1), found |-> TRUE,
            rest |-> SubSeq(str, first + 1, Len(str))]

\* The name that _strcmp finds a token equal to.
Named(token, spelling) ==
  IF \E n \in DOMAIN spelling : spelling[n] = token
  THEN CHOOSE n \in DOMAIN spelling : spelling[n] = token
  ELSE "none"

-----------------------------------------------------------------------------
(* What every key does first: a line that has reached its full length is   *)
(* dropped, whatever the key is.                                           *)

Full == StrLen(cmdbuf) = BufSize - 2

\* Mutant: the buffer is cleared and s stays where it is.
KeepPos == s

Buf == IF Full THEN Cleared ELSE cmdbuf
Pos == IF Full THEN 0 ELSE s

\* Mutant: Backspace steps back at the start of the line too.
BackAlways == Pos - 1

BackPos == IF Pos = 0 THEN 0 ELSE Pos - 1

\* The line that Enter takes apart, its command, and the argument of "cd".
Entered == Strtok(Str(WithBlank(Buf)))
Cmd == Named(Entered.token, CommandWord)
Arg == IF Entered.rest = <<>> THEN <<>> ELSE Strtok(Entered.rest).token

\* chdir_handler.
Target == FindTargetSubdir(BootTree, cwdn, Named(Arg, DirWord))

Names(arr, chain) == [i \in DOMAIN chain |-> arr[chain[i]].name]

\* lsdir, over a buffer that is long enough (see Ls).
Lsdir(d) ==
  Names(BootTree.dir, Children(BootTree, d)) \o Names(BootTree.file, FilesIn(BootTree, d))

\* What the commands print.
Printed ==
  CASE Cmd = "cd" -> (IF Entered.rest = <<>> THEN <<"No dir input">> ELSE <<>>)
                       \o (IF Target = NULL THEN <<"Dir not found">> ELSE <<>>)
    [] Cmd = "ls" -> Lsdir(cwdn)
    [] Cmd = "pwd" -> FullPath(BootTree, cwdn)
    [] Cmd \in {"help", "info"} -> <<Cmd>>
    [] OTHER -> <<>>

\* Does the key stay inside the buffer, and off NULL?
KeyIsSafe(k) ==
  IF k = CR THEN /\ StrLen(Buf) + 1 < BufSize
                 /\ Cmd = "cd" => Entered.found
  ELSE k = BS \/ Pos < BufSize

-----------------------------------------------------------------------------
\* A key that is neither Backspace nor Enter.
Type(c) ==
  /\ mode = "line" /\ KeyIsSafe(c)
  /\ cmdbuf' = [Buf EXCEPT ![Pos] = c]
  /\ s' = Pos + 1
  /\ nul' = (c = NUL \/ (nul /\ ~Full))
  /\ UNCHANGED <<mode, cwdn, answer>>

Backspace ==
  /\ mode = "line" /\ KeyIsSafe(BS)
  /\ s' = BackPos
  /\ cmdbuf' = [Buf EXCEPT ![BackPos] = NUL]
  /\ nul' = (nul /\ ~Full)
  /\ UNCHANGED <<mode, cwdn, answer>>

\* Enter.  "test" goes on in the menu before the buffer is cleared.
Enter ==
  /\ mode = "line" /\ KeyIsSafe(CR)
  /\ cwdn' = IF Cmd = "cd" /\ Target # NULL THEN Target ELSE cwdn
  /\ answer' = Printed
  /\ \/ /\ Cmd = "test"
        /\ mode' = "menu"
        /\ cmdbuf' = WithBlank(Buf) /\ s' = Pos
        /\ nul' = (nul /\ ~Full)
     \/ /\ Cmd # "test"
        /\ mode' = IF Cmd = "reboot" THEN "down" ELSE "line"
        /\ cmdbuf' = Cleared /\ s' = 0 /\ nul' = FALSE

\* The menu of "test": a test is started, or none, and the line begins anew;
\* any other key is ignored.
MenuKey(k) ==
  /\ mode = "menu"
  /\ IF k \in TestKey \cup {BreakKey}
     THEN mode' = "line" /\ cmdbuf' = Cleared /\ s' = 0 /\ nul' = FALSE
     ELSE UNCHANGED <<mode, cmdbuf, s, nul>>
  /\ UNCHANGED <<cwdn, answer>>

GoesWild(k) ==
  /\ mode = "line" /\ ~KeyIsSafe(k)
  /\ mode' = "wild"
  /\ UNCHANGED <<cmdbuf, s, cwdn, answer, nul>>

\* The watchdog fires, and main() starts a new shell.
Reboot ==
  /\ mode = "down"
  /\ mode' = "line" /\ cmdbuf' = Cleared /\ s' = 0
  /\ cwdn' = Root /\ answer' = <<>> /\ nul' = FALSE

Next ==
  \/ \E c \in Char \cup {NUL} : Type(c)
  \/ Backspace
  \/ Enter
  \/ \E k \in Key : MenuKey(k) \/ GoesWild(k)
  \/ Reboot

Spec == Init /\ [][Next]_vars

-----------------------------------------------------------------------------
(* Properties.                                                             *)

\* What can be on the screen after a command.
Said ==
  {BootTree.dir[d].name : d \in DOMAIN BootTree.dir}
    \cup {BootTree.file[f].name : f \in DOMAIN BootTree.file}
    \cup {"No dir input", "Dir not found", "help", "info"}

\* The type invariant.
TypeOK ==
  /\ mode \in {"line", "menu", "down", "wild"}
  /\ cmdbuf \in [0 .. BufSize - 1 -> Char \cup {NUL}]
  /\ s \in 0 .. BufSize
  /\ cwdn \in DOMAIN BootTree.dir
  /\ answer \in Seq(Said)
  /\ nul \in BOOLEAN

\* The buffer is cleared only when its string has exactly one length, and
\* nothing else looks at its end: without a NUL among the keys no character,
\* no delimiter and no NUL is ever put behind it, and "cd" finds its argument
\* (shell.c:58-65, 79, 163).
LineStaysInside == mode = "wild" => nul

\* The directories as paths.
Path(d) == FullPath(BootTree, d)
Paths == {Path(d) : d \in DOMAIN BootTree.dir}
DirAt(p) == CHOOSE d \in DOMAIN BootTree.dir : Path(d) = p

\* What getfullpath_handler, find_target_subdir and lsdir make of the tree of
\* the boot, which no constant changes: a directory is known by its path, ".."
\* and a name lead one step up and down, and nowhere if there is no such path.
ASSUME ShellTreeFacts ==
  /\ Root \in DOMAIN BootTree.dir /\ Path(Root) = <<"/root">>
  /\ NULL \notin DOMAIN BootTree.dir
  /\ \A d \in DOMAIN BootTree.dir :
       /\ Path(d) \in Seq(Said) \ {<<>>} /\ DirAt(Path(d)) = d
       /\ Lsdir(d) \in Seq(Said)
       /\ Len(Path(d)) > 1 => Front(Path(d)) \in Paths
       /\ \A name \in DOMAIN DirWord \cup {"none"} :
            FindTargetSubdir(BootTree, d, name) =
              IF name = ".." THEN IF Len(Path(d)) > 1 THEN DirAt(Front(Path(d))) ELSE NULL
              ELSE IF Append(Path(d), name) \in Paths THEN DirAt(Append(Path(d), name))
              ELSE NULL

S == INSTANCE Session WITH
  Limit <- BufSize - 2,
  Home <- <<"/root">>,
  Listing <- [p \in Paths |-> Lsdir(DirAt(p))],
  phase <- mode,
  line <- IF mode = "line" THEN Str(cmdbuf) ELSE <<>>,
  path <- Path(cwdn)

\* Up to the first NUL of a line the shell is a Session: what is carried out
\* is the line as it was edited, and the answers are those for the directory
\* the earlier commands led to.
ImplementsSession == S!Init /\ [][nul \/ nul' \/ [S!Next]_(S!vars)]_vars
=============================================================================
