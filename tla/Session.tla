-------------------------------- MODULE Session --------------------------------
(***************************************************************************)
(* What the command line promises to whoever sits at the console: a line   *)
(* that is edited key by key, carried out on Enter, and a current          *)
(* directory.  Shell implements it.                                        *)
(***************************************************************************)
EXTENDS Integers, SequencesExt

CONSTANTS
  Char,         \* what a key may put into the line
  Blank,        \* the one that separates words
  Limit,        \* a line this long is given up
  CommandWord,  \* the spelling of each command
  DirWord,      \* the spelling of each directory, and of ".."
  Paths,        \* the directories, as paths from the root
  Home,         \* the directory of a new session
  Listing,      \* what each directory holds
  TestKey,      \* the keys that start a test
  BreakKey      \* the key that leaves the menu

VARIABLES
  phase,    \* "line": editing, "menu": choosing a test, "down": rebooting
  line,     \* the line, as edited so far
  path,     \* the current directory
  answer    \* what the last command said

vars == <<phase, line, path, answer>>

Init == phase = "line" /\ line = <<>> /\ path = Home /\ answer = <<>>

\* The name spelled by a word.
Meaning(word, spelling) ==
  IF \E n \in DOMAIN spelling : spelling[n] = word
  THEN CHOOSE n \in DOMAIN spelling : spelling[n] = word
  ELSE "none"

\* The part of a line before its first blank, and the part behind it.
WordLen(l) ==
  CHOOSE n \in 0 .. Len(l) : /\ \A i \in 1 .. n : l[i] # Blank
                             /\ n = Len(l) \/ l[n + 1] = Blank
FirstWord(l) == SubSeq(l, 1, WordLen(l))
Behind(l) == SubSeq(l, WordLen(l) + 2, Len(l))

\* A key after a line of full length starts from nothing.
Kept == IF Len(line) = Limit THEN <<>> ELSE line

Type(c) ==
  /\ phase = "line"
  /\ line' = Append(Kept, c)
  /\ UNCHANGED <<phase, path, answer>>

Backspace ==
  /\ phase = "line"
  /\ line' = IF Kept = <<>> THEN <<>> ELSE Front(Kept)
  /\ UNCHANGED <<phase, path, answer>>

Command == Meaning(FirstWord(Kept), CommandWord)

\* Where "cd" leads; the path itself if nowhere.
Destination ==
  LET name == Meaning(FirstWord(Behind(Kept)), DirWord)
  IN  IF name = ".." THEN IF Len(path) > 1 THEN Front(path) ELSE path
      ELSE IF Append(path, name) \in Paths THEN Append(path, name) ELSE path

Answer ==
  CASE Command = "cd" ->
         (IF FirstWord(Kept) = Kept THEN <<"No dir input">> ELSE <<>>)
           \o (IF Destination = path THEN <<"Dir not found">> ELSE <<>>)
    [] Command = "ls" -> Listing[path]
    [] Command = "pwd" -> path
    [] Command \in {"help", "info"} -> <<Command>>
    [] OTHER -> <<>>

Enter ==
  /\ phase = "line"
  /\ line' = <<>>
  /\ path' = IF Command = "cd" THEN Destination ELSE path
  /\ answer' = Answer
  /\ phase' = CASE Command = "test" -> "menu"
                [] Command = "reboot" -> "down"
                [] OTHER -> "line"

MenuKey(k) ==
  /\ phase = "menu"
  /\ phase' = IF k \in TestKey \cup {BreakKey} THEN "line" ELSE "menu"
  /\ UNCHANGED <<line, path, answer>>

Reboot ==
  /\ phase = "down"
  /\ phase' = "line" /\ line' = <<>> /\ path' = Home /\ answer' = <<>>

Next ==
  \/ \E c \in Char : Type(c)
  \/ Backspace
  \/ Enter
  \/ \E k \in Char : MenuKey(k)
  \/ Reboot

Spec == Init /\ [][Next]_vars
=============================================================================
