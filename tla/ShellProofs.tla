------------------------------ MODULE ShellProofs ------------------------------
(***************************************************************************)
(* That the shell stays inside its buffer and is a Session, for any size   *)
(* of the buffer, any alphabet and any spelling of the commands.           *)
(*                                                                         *)
(* The invariant is what the buffer holds of a line without a NUL (Holds): *)
(* s characters, and nothing behind them.  It keeps every key inside the   *)
(* buffer, and it makes of the buffer the line of the Session, which is    *)
(* all that the refinement needs besides the types.                        *)
(***************************************************************************)
EXTENDS Shell, SequenceTheorems, WellFoundedInduction, TLAPS

\* What the buffer holds of a line without a NUL: n characters, and nothing
\* behind them.
Holds(b, n) ==
  /\ b \in [0 .. BufSize - 1 -> Char \cup {NUL}]
  /\ n \in 0 .. BufSize - 2
  /\ \A i \in 0 .. BufSize - 1 : b[i] = NUL <=> i >= n

LineInv ==
  /\ mode = "line" /\ ~nul => Holds(cmdbuf, s)
  /\ LineStaysInside

-----------------------------------------------------------------------------
(* Strings.                                                                *)

LEMMA NulIsNoChar == NUL \notin Char /\ NUL # Blank /\ Blank \in Char
<1>1. Letter \cap {NUL, BS, CR, Blank} = {}
  BY ShellAssumption
<1>2. NUL # Blank
  BY DEF NUL, Blank
<1>3. QED  BY <1>1, <1>2, Zenon DEF Char

LEMMA SizeIs == BufSize \in Nat /\ BufSize >= 3
BY ShellAssumption, Zenon

\* _strlen counts the characters up to the first NUL.
LEMMA StrLenIs ==
  ASSUME NEW b, NEW n \in 0 .. BufSize - 1, b[n] = NUL,
         \A i \in 0 .. n - 1 : b[i] # NUL
  PROVE  StrLen(b) = n
<1> DEFINE Is(m) == (m = BufSize \/ b[m] = NUL) /\ \A i \in 0 .. m - 1 : b[i] # NUL
<1>1. n \in 0 .. BufSize /\ Is(n)
  BY SizeIs
<1>2. ASSUME NEW m \in 0 .. BufSize, Is(m) PROVE m = n
  <2>1. ~ (m < n)
    <3> SUFFICES ASSUME m < n PROVE FALSE
      OBVIOUS
    <3>1. m \in 0 .. n - 1 /\ m # BufSize
      BY SizeIs
    <3>2. QED  BY <1>2, <3>1
  <2>2. ~ (m > n)
    <3> SUFFICES ASSUME m > n PROVE FALSE
      OBVIOUS
    <3>1. n \in 0 .. m - 1
      BY SizeIs
    <3>2. QED  BY <1>2, <3>1
  <2>3. QED  BY <2>1, <2>2, SizeIs
<1>3. StrLen(b) = CHOOSE m \in 0 .. BufSize : Is(m)
  BY DEF StrLen
<1>4. QED  BY <1>1, <1>2, <1>3

LEMMA HeldLen ==
  ASSUME NEW b, NEW n, Holds(b, n)
  PROVE  StrLen(b) = n
<1>1. n \in 0 .. BufSize - 1 /\ b[n] = NUL /\ \A i \in 0 .. n - 1 : b[i] # NUL
  BY SizeIs DEF Holds
<1>2. QED  BY <1>1, StrLenIs

LEMMA ClearedHolds == Holds(Cleared, 0)
BY SizeIs DEF Holds, Cleared

\* A key finds room for itself, and for one more.
LEMMA RoomForKey ==
  ASSUME Holds(cmdbuf, s)
  PROVE  Holds(Buf, Pos) /\ Pos < BufSize - 2
<1>1. StrLen(cmdbuf) = s
  BY HeldLen
<1>2. s \in 0 .. BufSize - 2
  BY DEF Holds
<1>3. CASE s = BufSize - 2
  <2>1. Full
    BY <1>1, <1>3 DEF Full
  <2>2. Buf = Cleared /\ Pos = 0
    BY <2>1 DEF Buf, Pos
  <2>3. QED  BY <2>2, ClearedHolds, SizeIs
<1>4. CASE s # BufSize - 2
  <2>1. ~Full
    BY <1>1, <1>4 DEF Full
  <2>2. Buf = cmdbuf /\ Pos = s
    BY <2>1 DEF Buf, Pos
  <2>3. QED  BY <1>2, <1>4, <2>2, SizeIs
<1>5. QED  BY <1>3, <1>4

\* strtok_fst finds the blank that was put at the end of the line.
LEMMA BlankFound ==
  ASSUME NEW b, NEW n, Holds(b, n), n < BufSize - 2
  PROVE  Strtok(Str(WithBlank(b))).found
<1> DEFINE w == WithBlank(b)
<1>1. n \in Nat /\ n + 1 \in 0 .. BufSize - 1 /\ n \in 0 .. BufSize - 1
  BY SizeIs DEF Holds
<1>2. w = [b EXCEPT ![n] = Blank, ![n + 1] = NUL]
  BY HeldLen DEF WithBlank
<1>3. w[n] = Blank /\ w[n + 1] = NUL /\ \A i \in 0 .. n - 1 : w[i] = b[i]
  BY <1>1, <1>2, SizeIs DEF Holds
<1>4. \A i \in 0 .. n : w[i] # NUL
  BY <1>1, <1>3, NulIsNoChar, SizeIs DEF Holds
<1> HIDE DEF w
<1>5. StrLen(w) = n + 1
  BY <1>1, <1>3, <1>4, StrLenIs
<1>6. Str(w) = [i \in 1 .. n + 1 |-> w[i - 1]]
  BY <1>5 DEF Str
<1>7. n + 1 \in DOMAIN Str(w) /\ Str(w)[n + 1] = Blank
  BY <1>1, <1>3, <1>6
<1> DEFINE ends == {i \in DOMAIN Str(w) : Str(w)[i] = Blank}
<1>8. ends # {}
  BY <1>7
<1>9. Strtok(Str(w)).found = TRUE
  BY <1>8, Zenon DEF Strtok
<1>10. QED  BY <1>9 DEF w

\* Whatever the key is, it stays inside.
LEMMA EveryKeyIsSafe ==
  ASSUME Holds(cmdbuf, s), NEW k \in Key
  PROVE  KeyIsSafe(k)
<1>1. Holds(Buf, Pos) /\ Pos < BufSize - 2
  BY RoomForKey
<1>2. Pos \in Nat /\ StrLen(Buf) = Pos
  <2>1. Pos \in 0 .. BufSize - 2
    BY <1>1, Zenon DEF Holds
  <2>2. StrLen(Buf) = Pos
    BY <1>1, HeldLen, Zenon
  <2>3. QED  BY <2>1, <2>2, SizeIs
<1>3. Entered.found
  BY <1>1, BlankFound DEF Entered
<1>4. StrLen(Buf) + 1 < BufSize /\ Pos < BufSize
  BY <1>1, <1>2, SizeIs
<1>5. QED  BY <1>3, <1>4, Zenon DEF KeyIsSafe

-----------------------------------------------------------------------------
LEMMA LineInit == Init => LineInv
BY ClearedHolds DEF Init, LineInv, LineStaysInside

LEMMA LineStep == LineInv /\ [Next]_vars => LineInv'
<1> SUFFICES ASSUME LineInv, [Next]_vars PROVE LineInv'
  OBVIOUS
<1>u. ASSUME UNCHANGED vars PROVE LineInv'
  BY <1>u DEF vars, LineInv, LineStaysInside
<1>a. ASSUME NEW c \in Char \cup {NUL}, Type(c) PROVE LineInv'
  <2>1. /\ mode = "line" /\ mode' = "line"
        /\ cmdbuf' = [Buf EXCEPT ![Pos] = c] /\ s' = Pos + 1
        /\ nul' = (c = NUL \/ (nul /\ ~Full))
    BY <1>a DEF Type
  <2>2. ASSUME ~nul' PROVE Holds(cmdbuf', s')
    <3>1. c \in Char /\ c # NUL /\ (nul => Full)
      BY <2>1, <2>2, Zenon
    <3>2. Holds(Buf, Pos) /\ Pos < BufSize - 2
      <4>1. CASE Full
        <5>1. Buf = Cleared /\ Pos = 0
          BY <4>1 DEF Buf, Pos
        <5>2. QED  BY <5>1, ClearedHolds, SizeIs
      <4>2. CASE ~Full
        BY <2>1, <3>1, <4>2, RoomForKey DEF LineInv
      <4>3. QED  BY <4>1, <4>2
    <3>3. QED  BY <2>1, <3>1, <3>2, SizeIs DEF Holds
  <2>3. QED  BY <2>1, <2>2 DEF LineInv, LineStaysInside
<1>b. ASSUME Backspace PROVE LineInv'
  <2>1. /\ mode = "line" /\ mode' = "line"
        /\ cmdbuf' = [Buf EXCEPT ![BackPos] = NUL] /\ s' = BackPos
        /\ nul' = (nul /\ ~Full)
    BY <1>b DEF Backspace
  <2>2. ASSUME ~nul' PROVE Holds(cmdbuf', s')
    <3>1. nul => Full
      BY <2>1, <2>2, Zenon
    <3>2. Holds(Buf, Pos) /\ Pos < BufSize - 2
      <4>1. CASE Full
        <5>1. Buf = Cleared /\ Pos = 0
          BY <4>1 DEF Buf, Pos
        <5>2. QED  BY <5>1, ClearedHolds, SizeIs
      <4>2. CASE ~Full
        BY <2>1, <3>1, <4>2, RoomForKey DEF LineInv
      <4>3. QED  BY <4>1, <4>2
    <3>3. QED  BY <2>1, <3>2, SizeIs DEF Holds, BackPos
  <2>3. QED  BY <2>1, <2>2 DEF LineInv, LineStaysInside
<1>c. ASSUME Enter PROVE LineInv'
  <2>0. mode' # "wild"
    BY <1>c DEF Enter
  <2>1. mode' = "line" => cmdbuf' = Cleared /\ s' = 0
    <3>1. CASE Cmd = "test"
      <4>1. mode' = "menu"
        BY <1>c, <3>1, Zenon DEF Enter
      <4>2. QED  BY <4>1
    <3>2. CASE Cmd # "test"
      <4>1. /\ mode' = IF Cmd = "reboot" THEN "down" ELSE "line"
            /\ cmdbuf' = Cleared /\ s' = 0
        BY <1>c, <3>2, Zenon DEF Enter
      <4>2. QED  BY <4>1
    <3>3. QED  BY <3>1, <3>2
  <2>2. QED  BY <2>1, <2>0, ClearedHolds DEF LineInv, LineStaysInside
<1>d. ASSUME NEW k \in Key, MenuKey(k) PROVE LineInv'
  <2>1. \/ mode' = "line" /\ cmdbuf' = Cleared /\ s' = 0
        \/ mode' = "menu"
    BY <1>d DEF MenuKey
  <2>2. QED  BY <2>1, ClearedHolds DEF LineInv, LineStaysInside
<1>e. ASSUME NEW k \in Key, GoesWild(k) PROVE LineInv'
  <2>1. mode = "line" /\ mode' = "wild" /\ nul' = nul
    BY <1>e DEF GoesWild
  <2>2. nul
    BY <1>e, <2>1, EveryKeyIsSafe DEF GoesWild, LineInv
  <2>3. QED  BY <2>1, <2>2 DEF LineInv, LineStaysInside
<1>f. ASSUME Reboot PROVE LineInv'
  <2>1. mode' = "line" /\ cmdbuf' = Cleared /\ s' = 0
    BY <1>f DEF Reboot
  <2>2. QED  BY <2>1, ClearedHolds DEF LineInv, LineStaysInside
<1>g. QED
  BY <1>a, <1>b, <1>c, <1>d, <1>e, <1>f, <1>u DEF Next

\* A line without a NUL never takes the shell outside its buffer, and "cd"
\* always finds an argument to look at (shell.c:58-65, 79, 163).
THEOREM LineIsSafe == Spec => []LineStaysInside
<1>1. LineInv => LineStaysInside
  BY DEF LineInv
<1>2. QED  BY LineInit, LineStep, <1>1, PTL DEF Spec

-----------------------------------------------------------------------------
(* Lines and words.                                                        *)

\* The string of a buffer that holds a line.
LEMMA LineHeld ==
  ASSUME NEW b, NEW n, Holds(b, n)
  PROVE  /\ n \in Nat
         /\ Str(b) \in Seq(Char)
         /\ Len(Str(b)) = n
         /\ \A i \in 1 .. n : Str(b)[i] = b[i - 1]
<1>1. n \in Nat /\ \A i \in 1 .. n : i - 1 \in 0 .. BufSize - 1 /\ ~(i - 1 >= n)
  BY SizeIs DEF Holds
<1>2. \A i \in 1 .. n : b[i - 1] \in Char
  <2> TAKE i \in 1 .. n
  <2>1. b[i - 1] \in Char \cup {NUL} /\ b[i - 1] # NUL
    BY <1>1 DEF Holds
  <2> QED BY <2>1
<1>3. Str(b) = [i \in 1 .. n |-> b[i - 1]]
  BY HeldLen DEF Str
<1> QED BY <1>1, <1>2, <1>3

\* Two lines of the same characters are the same.
LEMMA SameLine ==
  ASSUME NEW l \in Seq(Char), NEW k \in Seq(Char), Len(l) = Len(k),
         \A i \in 1 .. Len(l) : l[i] = k[i]
  PROVE  l = k
BY SeqEqual

LEMMA ClearedLine == Str(Cleared) = <<>>
<1>1. Str(Cleared) \in Seq(Char) /\ Len(Str(Cleared)) = 0
  BY ClearedHolds, LineHeld
<1> QED BY <1>1, EmptySeq

\* A blank behind the line.
LEMMA BlankLine ==
  ASSUME NEW b, NEW n, Holds(b, n), n < BufSize - 2
  PROVE  Str(WithBlank(b)) = Append(Str(b), Blank)
<1> DEFINE w == WithBlank(b)
<1>1. n \in Nat /\ n + 1 \in 0 .. BufSize - 1 /\ n \in 0 .. BufSize - 1
  BY SizeIs DEF Holds
<1>2. w = [b EXCEPT ![n] = Blank, ![n + 1] = NUL]
  BY HeldLen DEF WithBlank
<1>3. w[n] = Blank /\ w[n + 1] = NUL /\ \A i \in 0 .. n - 1 : w[i] = b[i]
  BY <1>1, <1>2, SizeIs DEF Holds
<1>4. \A i \in 0 .. n : w[i] # NUL
  BY <1>1, <1>3, NulIsNoChar, SizeIs DEF Holds
<1> HIDE DEF w
<1>5. StrLen(w) = n + 1
  BY <1>1, <1>3, <1>4, StrLenIs
<1>6. Str(w) = [i \in 1 .. n + 1 |-> w[i - 1]]
  BY <1>5 DEF Str
<1>7. /\ Str(b) \in Seq(Char) /\ Len(Str(b)) = n
      /\ \A i \in 1 .. n : Str(b)[i] = b[i - 1]
  BY LineHeld
<1>8. /\ Append(Str(b), Blank) \in Seq(Char)
      /\ Len(Append(Str(b), Blank)) = n + 1
      /\ \A i \in 1 .. n : Append(Str(b), Blank)[i] = Str(b)[i]
      /\ Append(Str(b), Blank)[n + 1] = Blank
  BY <1>7, NulIsNoChar, AppendProperties
<1>9. \A i \in 1 .. n + 1 : Append(Str(b), Blank)[i] = w[i - 1]
  <2> TAKE i \in 1 .. n + 1
  <2>1. CASE i = n + 1
    <3>1. i - 1 = n
      BY <1>1, <2>1
    <3> QED BY <2>1, <3>1, <1>3, <1>8
  <2>2. CASE i # n + 1
    <3>1. i \in 1 .. n /\ i - 1 \in 0 .. n - 1
      BY <1>1, <2>2
    <3> QED BY <3>1, <1>3, <1>7, <1>8
  <2> QED BY <2>1, <2>2
<1>10. \A i \in 1 .. n + 1 : w[i - 1] \in Char
  <2> TAKE i \in 1 .. n + 1
  <2>1. Append(Str(b), Blank)[i] \in Char
    BY <1>8, ElementOfSeq
  <2> QED BY <2>1, <1>9
<1>11. Str(w) \in Seq(Char) /\ Len(Str(w)) = n + 1
  <2>1. n + 1 \in Nat
    BY <1>1
  <2> QED BY <2>1, <1>6, <1>10
<1>12. \A i \in 1 .. n + 1 : Str(w)[i] = w[i - 1]
  BY <1>6
<1>13. Str(w) = Append(Str(b), Blank)
  BY <1>8, <1>9, <1>11, <1>12, SameLine
<1> QED BY <1>13 DEF w

\* A non-empty set of naturals has a least element.
LEMMA LeastElement ==
  ASSUME NEW T, T \subseteq Nat, T # {}
  PROVE  \E x \in T : \A y \in T : x <= y
<1>1. \E x \in T : \A y \in T : ~ (<<y, x>> \in OpToRel(<, Nat))
  BY WFMin, NatLessThanWellFounded
<1>2. PICK x \in T : \A y \in T : ~ (<<y, x>> \in OpToRel(<, Nat))
  BY <1>1
<1>3. \A y \in T : <<y, x>> \in OpToRel(<, Nat) <=> y < x
  BY DEF OpToRel
<1>4. \A y \in T : x <= y
  <2> TAKE y \in T
  <2>1. ~(y < x) /\ x \in Nat /\ y \in Nat
    BY <1>2, <1>3
  <2> QED BY <2>1
<1> QED BY <1>4

\* Where the first word of a line ends.
LEMMA WordEnds ==
  ASSUME NEW l \in Seq(Char), NEW n \in 0 .. Len(l),
         \A i \in 1 .. n : l[i] # Blank, n = Len(l) \/ l[n + 1] = Blank
  PROVE  S!WordLen(l) = n
<1> DEFINE Is(m) == (\A i \in 1 .. m : l[i] # Blank) /\ (m = Len(l) \/ l[m + 1] = Blank)
<1>1. Len(l) \in Nat /\ Is(n)
  BY LenProperties
<1>2. ASSUME NEW m \in 0 .. Len(l), Is(m) PROVE m = n
  <2>1. ASSUME m < n PROVE FALSE
    <3>1. m + 1 \in 1 .. n /\ m # Len(l)
      BY <1>1, <2>1
    <3> QED BY <1>2, <3>1
  <2>2. ASSUME n < m PROVE FALSE
    <3>1. n + 1 \in 1 .. m /\ n # Len(l)
      BY <1>1, <2>2
    <3> QED BY <1>2, <3>1
  <2> QED BY <1>1, <2>1, <2>2
<1>3. S!WordLen(l) = CHOOSE m \in 0 .. Len(l) : Is(m)
  BY DEF S!WordLen
<1> QED BY <1>1, <1>2, <1>3

\* strtok_fst takes the first word off a line with a blank behind it.
LEMMA WordTaken ==
  ASSUME NEW l \in Seq(Char)
  PROVE  /\ S!WordLen(l) \in 0 .. Len(l)
         /\ Strtok(Append(l, Blank)) =
              [token |-> SubSeq(Append(l, Blank), 1, S!WordLen(l)), found |-> TRUE,
               rest |-> SubSeq(Append(l, Blank), S!WordLen(l) + 2, Len(l) + 1)]
<1> DEFINE str == Append(l, Blank)
           ends == {i \in DOMAIN str : str[i] = Blank}
           Least(i) == \A j \in ends : i <= j
           first == CHOOSE i \in ends : Least(i)
<1>1. /\ Len(l) \in Nat /\ str \in Seq(Char) /\ Len(str) = Len(l) + 1
      /\ DOMAIN str = 1 .. Len(l) + 1
      /\ \A i \in 1 .. Len(l) : str[i] = l[i]
      /\ str[Len(l) + 1] = Blank
  BY NulIsNoChar, AppendProperties, LenProperties
<1>2. Strtok(str) = IF ends = {} THEN [token |-> str, found |-> FALSE, rest |-> <<>>]
                    ELSE [token |-> SubSeq(str, 1, first - 1), found |-> TRUE,
                          rest |-> SubSeq(str, first + 1, Len(str))]
  BY DEF Strtok
<1> HIDE DEF str
<1>3. ends # {} /\ ends \subseteq Nat
  BY <1>1
<1>4. \E i \in ends : Least(i)
  BY <1>3, LeastElement
<1>5. first \in ends /\ Least(first)
  BY <1>4
<1> HIDE DEF first
<1>6. first \in 1 .. Len(l) + 1 /\ str[first] = Blank /\ first - 1 \in 0 .. Len(l)
  BY <1>1, <1>5
<1>7. \A i \in 1 .. first - 1 : l[i] # Blank
  <2> TAKE i \in 1 .. first - 1
  <2>1. i \in 1 .. Len(l) /\ ~(first <= i) /\ i \in DOMAIN str
    BY <1>1, <1>6
  <2> QED BY <2>1, <1>1, <1>5
<1>8. first - 1 = Len(l) \/ l[(first - 1) + 1] = Blank
  <2>1. first - 1 # Len(l) => first \in 1 .. Len(l) /\ (first - 1) + 1 = first
    BY <1>1, <1>6
  <2> QED BY <2>1, <1>1, <1>6
<1>9. S!WordLen(l) = first - 1
  BY <1>6, <1>7, <1>8, WordEnds
<1>10. first + 1 = S!WordLen(l) + 2
  BY <1>6, <1>9
<1>11. Strtok(str) = [token |-> SubSeq(str, 1, S!WordLen(l)), found |-> TRUE,
                     rest |-> SubSeq(str, S!WordLen(l) + 2, Len(l) + 1)]
  BY <1>1, <1>2, <1>3, <1>9, <1>10
<1> QED BY <1>6, <1>9, <1>11 DEF str

\* The word is the Session's, and what is left is a line with a blank behind it
\* again, unless the word was the whole line.
LEMMA WordIsFirst ==
  ASSUME NEW l \in Seq(Char)
  PROVE  LET r == Strtok(Append(l, Blank))
         IN  /\ r.token = S!FirstWord(l)
             /\ r.found
             /\ S!Behind(l) \in Seq(Char)
             /\ S!FirstWord(l) = l => r.rest = <<>> /\ S!Behind(l) = <<>>
             /\ S!FirstWord(l) # l => r.rest = Append(S!Behind(l), Blank)
<1> DEFINE str == Append(l, Blank)
           n == S!WordLen(l)
           word == SubSeq(str, 1, n)
           rest == SubSeq(str, n + 2, Len(l) + 1)
<1>1. /\ Len(l) \in Nat /\ str \in Seq(Char) /\ Len(str) = Len(l) + 1
      /\ \A i \in 1 .. Len(l) : str[i] = l[i]
      /\ str[Len(l) + 1] = Blank /\ Blank \in Char
  BY NulIsNoChar, AppendProperties, LenProperties
<1>2. n \in 0 .. Len(l) /\ Strtok(str) = [token |-> word, found |-> TRUE, rest |-> rest]
  BY WordTaken
<1> HIDE DEF str, n, word, rest
<1>3. Strtok(str).token = word /\ Strtok(str).found /\ Strtok(str).rest = rest
  BY <1>2
<1> USE DEF word, rest
<1>4. /\ SubSeq(l, 1, n) \in Seq(Char) /\ Len(SubSeq(l, 1, n)) = n
      /\ \A i \in 1 .. n : SubSeq(l, 1, n)[i] = l[i]
  BY <1>1, <1>2
<1>5. /\ word \in Seq(Char) /\ Len(word) = n
      /\ \A i \in 1 .. n : word[i] = str[i]
  BY <1>1, <1>2
<1>6. word = SubSeq(l, 1, n)
  <2>1. \A i \in 1 .. n : word[i] = l[i]
    BY <1>1, <1>2, <1>5
  <2> HIDE DEF word
  <2> QED BY <1>4, <1>5, <2>1, SameLine
<1>7. S!FirstWord(l) = SubSeq(l, 1, n) /\ S!Behind(l) = SubSeq(l, n + 2, Len(l))
  BY DEF S!FirstWord, S!Behind, n
<1>8. S!FirstWord(l) = l <=> n = Len(l)
  <2>1. CASE n = Len(l)
    BY <2>1, <1>1, <1>4, <1>7, SameLine
  <2>2. CASE n # Len(l)
    BY <2>2, <1>4, <1>7
  <2> QED BY <2>1, <2>2
<1>9. SubSeq(l, n + 2, Len(l)) \in Seq(Char)
  BY <1>1, <1>2
<1>10. CASE n = Len(l)
  <2>1. rest = <<>> /\ SubSeq(l, n + 2, Len(l)) = <<>>
    BY <1>1, <1>10
  <2> QED BY <1>3, <1>6, <1>7, <1>8, <1>9, <1>10, <2>1 DEF str
<1>11. CASE n # Len(l)
  <2> DEFINE back == SubSeq(l, n + 2, Len(l))
             k == Len(l) - n - 1
  <2>1. k \in Nat /\ n + 2 \in Nat /\ n + 2 <= Len(l) + 1
    BY <1>1, <1>2, <1>11
  <2>2. /\ rest \in Seq(Char) /\ Len(rest) = k + 1
        /\ \A i \in 1 .. k + 1 : rest[i] = str[n + 1 + i]
    BY <1>1, <1>2, <2>1
  <2>3. /\ back \in Seq(Char) /\ Len(back) = k
        /\ \A i \in 1 .. k : back[i] = l[n + 1 + i]
    BY <1>1, <1>2, <2>1
  <2> HIDE DEF rest, back
  <2>4. /\ Append(back, Blank) \in Seq(Char) /\ Len(Append(back, Blank)) = k + 1
        /\ \A i \in 1 .. k : Append(back, Blank)[i] = back[i]
        /\ Append(back, Blank)[k + 1] = Blank
    BY <1>1, <2>3, AppendProperties
  <2>5. \A i \in 1 .. k + 1 : rest[i] = Append(back, Blank)[i]
    <3> TAKE i \in 1 .. k + 1
    <3>1. CASE i = k + 1
      <4>1. n + 1 + i = Len(l) + 1
        BY <1>1, <1>2, <3>1
      <4> QED BY <3>1, <4>1, <1>1, <2>2, <2>4
    <3>2. CASE i # k + 1
      <4>1. i \in 1 .. k /\ n + 1 + i \in 1 .. Len(l)
        BY <1>1, <1>2, <2>1, <3>2
      <4> QED BY <4>1, <1>1, <2>2, <2>3, <2>4
    <3> QED BY <3>1, <3>2
  <2>6. rest = Append(back, Blank)
    <3> HIDE DEF k
    <3> QED BY <2>2, <2>4, <2>5, SameLine
  <2> QED BY <1>3, <1>6, <1>7, <1>8, <1>9, <1>11, <2>6 DEF str, back
<1> QED BY <1>10, <1>11

-----------------------------------------------------------------------------
(* The line, the command and the directory of the Session.                 *)

\* A line without a NUL is read.
Reading == mode = "line" /\ Holds(cmdbuf, s)

\* What a key finds of the line.
LEMMA KeptIs ==
  ASSUME Reading
  PROVE  S!Kept = Str(Buf) /\ S!Kept \in Seq(Char) /\ Len(S!Kept) = Pos
<1>1. mode = "line" /\ Holds(cmdbuf, s) /\ Holds(Buf, Pos)
  BY RoomForKey DEF Reading
<1>2. StrLen(cmdbuf) = s /\ Len(Str(cmdbuf)) = s
  BY <1>1, HeldLen, LineHeld
<1>3. S!Kept = IF Len(Str(cmdbuf)) = BufSize - 2 THEN <<>> ELSE Str(cmdbuf)
  BY <1>1 DEF S!Kept
<1>4. Full <=> Len(Str(cmdbuf)) = BufSize - 2
  BY <1>2 DEF Full
<1>5. S!Kept = Str(Buf)
  BY <1>3, <1>4, ClearedLine DEF Buf
<1> QED BY <1>1, <1>5, LineHeld

\* The line that is taken apart is the line as edited, and so are its words.
LEMMA WordsAre ==
  ASSUME Reading
  PROVE  /\ Cmd = S!Command
         /\ Entered.rest = <<>> <=> S!FirstWord(S!Kept) = S!Kept
         /\ Arg = S!FirstWord(S!Behind(S!Kept))
<1> DEFINE l == S!Kept
<1>1. l = Str(Buf) /\ l \in Seq(Char)
  BY KeptIs
<1>2. Str(WithBlank(Buf)) = Append(l, Blank)
  BY <1>1, RoomForKey, BlankLine DEF Reading
<1> HIDE DEF l
<1>3. Entered = Strtok(Append(l, Blank))
  BY <1>2 DEF Entered
<1>4. /\ Entered.token = S!FirstWord(l) /\ S!Behind(l) \in Seq(Char)
      /\ S!FirstWord(l) = l => Entered.rest = <<>> /\ S!Behind(l) = <<>>
      /\ S!FirstWord(l) # l => Entered.rest = Append(S!Behind(l), Blank)
  BY <1>1, <1>3, WordIsFirst
<1>5. Cmd = S!Command
  BY <1>4 DEF Cmd, Named, S!Command, S!Meaning, l
<1>6. CASE S!FirstWord(l) = l
  <2>1. Entered.rest = <<>> /\ S!Behind(l) = <<>> /\ Arg = <<>>
    BY <1>4, <1>6 DEF Arg
  <2>2. /\ <<>> \in Seq(Char) /\ Len(<<>>) = 0 /\ 0 \in 0 .. Len(<<>>)
        /\ \A i \in 1 .. 0 : <<>>[i] # Blank
    OBVIOUS
  <2>3. S!WordLen(<<>>) = 0
    BY <2>2, WordEnds
  <2>4. S!FirstWord(<<>>) = <<>>
    BY <2>2, <2>3 DEF S!FirstWord
  <2> QED BY <1>5, <1>6, <2>1, <2>4 DEF l
<1>7. CASE S!FirstWord(l) # l
  <2>1. Append(S!Behind(l), Blank) # <<>>
    BY <1>4
  <2>2. Entered.rest # <<>> /\ Arg = Strtok(Append(S!Behind(l), Blank)).token
    BY <1>4, <1>7, <2>1 DEF Arg
  <2>3. Arg = S!FirstWord(S!Behind(l))
    BY <1>4, <2>2, WordIsFirst
  <2> QED BY <1>5, <1>7, <2>2, <2>3 DEF l
<1> QED BY <1>6, <1>7

\* A path stands for one directory.
LEMMA PathKnown ==
  ASSUME NEW p \in Paths
  PROVE  DirAt(p) \in DOMAIN BootTree.dir /\ Path(DirAt(p)) = p /\ DirAt(p) # NULL
<1>1. PICK d \in DOMAIN BootTree.dir : p = Path(d)
  BY DEF Paths
<1>2. DirAt(p) = d
  BY <1>1, ShellTreeFacts, Zenon
<1> QED BY <1>1, <1>2, ShellTreeFacts, Zenon

\* "cd" goes where the Session goes.
LEMMA TargetIs ==
  ASSUME Reading, cwdn \in DOMAIN BootTree.dir
  PROVE  IF Target = NULL THEN S!Destination = Path(cwdn)
         ELSE /\ Target \in DOMAIN BootTree.dir
              /\ S!Destination = Path(Target) /\ S!Destination # Path(cwdn)
<1> DEFINE name == Named(Arg, DirWord)
           p == Path(cwdn)
<1>1. name = S!Meaning(S!FirstWord(S!Behind(S!Kept)), DirWord)
  BY WordsAre DEF Named, S!Meaning
<1>2. name \in DOMAIN DirWord \cup {"none"}
  BY DEF Named
<1>3. Target = IF name = ".." THEN IF Len(p) > 1 THEN DirAt(Front(p)) ELSE NULL
               ELSE IF Append(p, name) \in Paths THEN DirAt(Append(p, name))
               ELSE NULL
  BY <1>2, ShellTreeFacts, Zenon DEF Target
<1>4. S!Destination = IF name = ".." THEN IF Len(p) > 1 THEN Front(p) ELSE p
                      ELSE IF Append(p, name) \in Paths THEN Append(p, name) ELSE p
  <2>1. S!Destination =
          LET name2 == S!Meaning(S!FirstWord(S!Behind(S!Kept)), DirWord)
          IN  IF name2 = ".." THEN IF Len(p) > 1 THEN S!Front(p) ELSE p
              ELSE IF Append(p, name2) \in Paths THEN Append(p, name2) ELSE p
    BY DEF S!Destination
  <2>2. S!Front(p) = Front(p)
    BY DEF S!Front, Front
  <2> HIDE DEF name, p
  <2> QED BY <1>1, <2>1, <2>2
<1>5. p \in Seq(Said) /\ (Len(p) > 1 => Front(p) \in Paths)
  BY ShellTreeFacts
<1> HIDE DEF name, p
<1>6. Front(p) # p \/ ~(Len(p) > 1)
  BY <1>5 DEF Front
<1>7. Append(p, name) # p
  BY <1>5
<1>8. CASE name = ".." /\ Len(p) > 1
  BY <1>3, <1>4, <1>5, <1>6, <1>8, PathKnown DEF p
<1>9. CASE name # ".." /\ Append(p, name) \in Paths
  BY <1>3, <1>4, <1>7, <1>9, PathKnown DEF p
<1>10. CASE ~(name = ".." /\ Len(p) > 1) /\ ~(name # ".." /\ Append(p, name) \in Paths)
  BY <1>3, <1>4, <1>10 DEF p
<1> QED BY <1>8, <1>9, <1>10

\* The commands say what the Session says.
LEMMA AnswerIs ==
  ASSUME Reading, cwdn \in DOMAIN BootTree.dir
  PROVE  Printed = S!Answer
<1>1. Cmd = S!Command
  BY WordsAre
<1>2. CASE Cmd = "cd"
  <2>1. Printed = (IF Entered.rest = <<>> THEN <<"No dir input">> ELSE <<>>)
                    \o (IF Target = NULL THEN <<"Dir not found">> ELSE <<>>)
    BY <1>2 DEF Printed
  <2>2. S!Answer = (IF S!FirstWord(S!Kept) = S!Kept THEN <<"No dir input">> ELSE <<>>)
                    \o (IF S!Destination = Path(cwdn) THEN <<"Dir not found">> ELSE <<>>)
    BY <1>1, <1>2 DEF S!Answer
  <2>3. Target = NULL <=> S!Destination = Path(cwdn)
    BY TargetIs
  <2> QED BY <2>1, <2>2, <2>3, WordsAre
<1>3. CASE Cmd = "ls"
  <2>1. Printed = Lsdir(cwdn)
    BY <1>3 DEF Printed
  <2>2. S!Answer = [p \in Paths |-> Lsdir(DirAt(p))][Path(cwdn)]
    BY <1>1, <1>3 DEF S!Answer
  <2>3. Path(cwdn) \in Paths /\ DirAt(Path(cwdn)) = cwdn
    BY ShellTreeFacts DEF Paths
  <2> QED BY <2>1, <2>2, <2>3
<1>4. CASE Cmd = "pwd"
  <2>1. Printed = FullPath(BootTree, cwdn)
    BY <1>4 DEF Printed
  <2>2. S!Answer = Path(cwdn)
    BY <1>1, <1>4 DEF S!Answer
  <2> QED BY <2>1, <2>2 DEF Path
<1>5. CASE Cmd \in {"help", "info"}
  BY <1>1, <1>5 DEF Printed, S!Answer
<1>6. CASE Cmd \notin {"cd", "ls", "pwd", "help", "info"}
  BY <1>1, <1>6 DEF Printed, S!Answer
<1> QED BY <1>2, <1>3, <1>4, <1>5, <1>6
-----------------------------------------------------------------------------
(* Types.                                                                  *)

LEMMA KeysDiffer == \A c \in Char \cup {NUL} : c # CR /\ c # BS
<1>1. Letter \cap {NUL, BS, CR, Blank} = {}
  BY ShellAssumption
<1>2. CR # Blank /\ BS # Blank /\ CR # NUL /\ BS # NUL
  BY DEF CR, BS, NUL, Blank
<1> QED BY <1>1, <1>2, Zenon DEF Char

LEMMA BufType ==
  ASSUME TypeOK
  PROVE  Buf \in [0 .. BufSize - 1 -> Char \cup {NUL}] /\ Pos \in 0 .. BufSize
<1>1. Cleared \in [0 .. BufSize - 1 -> Char \cup {NUL}] /\ 0 \in 0 .. BufSize
  BY SizeIs DEF Cleared
<1> QED BY <1>1 DEF TypeOK, Buf, Pos

\* A command word or a name is known, or it is "none".
LEMMA NameKnown ==
  ASSUME NEW token, NEW spelling
  PROVE  Named(token, spelling) \in DOMAIN spelling \cup {"none"}
BY DEF Named

\* "cd" finds a directory, or none.
LEMMA TargetType ==
  ASSUME cwdn \in DOMAIN BootTree.dir
  PROVE  Target \in DOMAIN BootTree.dir \cup {NULL}
<1> DEFINE name == Named(Arg, DirWord)
           p == Path(cwdn)
<1>1. name \in DOMAIN DirWord \cup {"none"}
  BY NameKnown
<1>2. Target = IF name = ".." THEN IF Len(p) > 1 THEN DirAt(Front(p)) ELSE NULL
               ELSE IF Append(p, name) \in Paths THEN DirAt(Append(p, name))
               ELSE NULL
  BY <1>1, ShellTreeFacts, Zenon DEF Target
<1>3. Len(p) > 1 => Front(p) \in Paths
  BY ShellTreeFacts, Zenon
<1> HIDE DEF name, p
<1>4. CASE name = ".." /\ Len(p) > 1
  <2>1. Target = DirAt(Front(p))
    BY <1>2, <1>4
  <2> QED BY <2>1, <1>3, <1>4, PathKnown
<1>5. CASE name # ".." /\ Append(p, name) \in Paths
  <2>1. Target = DirAt(Append(p, name))
    BY <1>2, <1>5
  <2> QED BY <2>1, <1>5, PathKnown
<1>6. CASE ~(name = ".." /\ Len(p) > 1) /\ ~(name # ".." /\ Append(p, name) \in Paths)
  <2>1. Target = NULL
    BY <1>2, <1>6
  <2> QED BY <2>1
<1> QED BY <1>4, <1>5, <1>6

\* A sequence of one.
LEMMA WordAlone ==
  ASSUME NEW D, NEW w \in D
  PROVE  <<w>> \in Seq(D)
OBVIOUS

\* What is printed is a sequence of names and words.
LEMMA PrintedType ==
  ASSUME cwdn \in DOMAIN BootTree.dir
  PROVE  Printed \in Seq(Said)
<1>1. Lsdir(cwdn) \in Seq(Said) /\ FullPath(BootTree, cwdn) \in Seq(Said)
  BY ShellTreeFacts DEF Path
<1>2. ASSUME Cmd = "cd" PROVE Printed \in Seq(Said)
  <2>1. Printed = (IF Entered.rest = <<>> THEN <<"No dir input">> ELSE <<>>)
                    \o (IF Target = NULL THEN <<"Dir not found">> ELSE <<>>)
    BY <1>2 DEF Printed
  <2>2. "No dir input" \in Said /\ "Dir not found" \in Said
    BY DEF Said
  <2>3. <<"No dir input">> \in Seq(Said) /\ <<"Dir not found">> \in Seq(Said)
    BY <2>2, WordAlone, Zenon
  <2>4. <<>> \in Seq(Said)
    OBVIOUS
  <2>5. \A a, b \in Seq(Said) : a \o b \in Seq(Said)
    BY ConcatProperties, Zenon
  <2> QED BY <2>1, <2>3, <2>4, <2>5, Zenon
<1>3. ASSUME Cmd = "ls" PROVE Printed \in Seq(Said)
  BY <1>1, <1>3 DEF Printed
<1>4. ASSUME Cmd = "pwd" PROVE Printed \in Seq(Said)
  BY <1>1, <1>4 DEF Printed
<1>5. ASSUME Cmd = "help" PROVE Printed \in Seq(Said)
  <2>1. Printed = <<"help">>
    BY <1>5 DEF Printed
  <2>2. "help" \in Said
    BY DEF Said
  <2> QED BY <2>1, <2>2, WordAlone, Zenon
<1>6. ASSUME Cmd = "info" PROVE Printed \in Seq(Said)
  <2>1. Printed = <<"info">>
    BY <1>6 DEF Printed
  <2>2. "info" \in Said
    BY DEF Said
  <2> QED BY <2>1, <2>2, WordAlone, Zenon
<1>7. ASSUME Cmd \notin {"cd", "ls", "pwd", "help", "info"} PROVE Printed \in Seq(Said)
  <2>1. Printed = <<>>
    BY <1>7 DEF Printed
  <2> QED BY <2>1
<1> QED BY <1>2, <1>3, <1>4, <1>5, <1>6, <1>7

LEMMA TypeInit == Init => TypeOK
<1> SUFFICES ASSUME Init PROVE TypeOK
  OBVIOUS
<1>1. Cleared \in [0 .. BufSize - 1 -> Char \cup {NUL}] /\ 0 \in 0 .. BufSize
  BY SizeIs DEF Cleared
<1>2. Root \in DOMAIN BootTree.dir /\ <<>> \in Seq(Said)
  BY ShellTreeFacts
<1> QED BY <1>1, <1>2, Zenon DEF Init, TypeOK

LEMMA TypeStep == TypeOK /\ [Next]_vars => TypeOK'
<1> SUFFICES ASSUME TypeOK, [Next]_vars PROVE TypeOK'
  OBVIOUS
<1>1. /\ Buf \in [0 .. BufSize - 1 -> Char \cup {NUL}] /\ Pos \in 0 .. BufSize
      /\ Blank \in Char \cup {NUL} /\ NUL \in Char \cup {NUL}
  BY BufType, NulIsNoChar
<1>2. /\ Cleared \in [0 .. BufSize - 1 -> Char \cup {NUL}] /\ 0 \in 0 .. BufSize
      /\ Root \in DOMAIN BootTree.dir /\ <<>> \in Seq(Said)
  BY SizeIs, ShellTreeFacts DEF Cleared
<1>3. Printed \in Seq(Said) /\ Target \in DOMAIN BootTree.dir \cup {NULL}
  BY PrintedType, TargetType DEF TypeOK
<1>u. ASSUME UNCHANGED vars PROVE TypeOK'
  BY <1>u DEF vars, TypeOK
<1>a. ASSUME NEW c \in Char \cup {NUL}, Type(c) PROVE TypeOK'
  <2>1. Pos < BufSize
    BY <1>a, KeysDiffer DEF Type, KeyIsSafe
  <2>2. Pos + 1 \in 0 .. BufSize
    BY <1>1, <2>1, SizeIs
  <2>3. [Buf EXCEPT ![Pos] = c] \in [0 .. BufSize - 1 -> Char \cup {NUL}]
    BY <1>1
  <2>4. (c = NUL \/ (nul /\ ~Full)) \in BOOLEAN
    OBVIOUS
  <2> QED BY <1>a, <2>2, <2>3, <2>4, Zenon DEF Type, TypeOK
<1>b. ASSUME Backspace PROVE TypeOK'
  <2>1. BackPos \in 0 .. BufSize
    BY <1>1, SizeIs DEF BackPos
  <2>2. [Buf EXCEPT ![BackPos] = NUL] \in [0 .. BufSize - 1 -> Char \cup {NUL}]
    BY <1>1
  <2>3. (nul /\ ~Full) \in BOOLEAN
    OBVIOUS
  <2> QED BY <1>b, <2>1, <2>2, <2>3, Zenon DEF Backspace, TypeOK
<1>c. ASSUME Enter PROVE TypeOK'
  <2>1. cwdn' \in DOMAIN BootTree.dir /\ answer' \in Seq(Said)
    BY <1>3, <1>c, Zenon DEF Enter, TypeOK
  <2>2. CASE Cmd = "test"
    <3>1. WithBlank(Buf) \in [0 .. BufSize - 1 -> Char \cup {NUL}]
      BY <1>1 DEF WithBlank
    <3>2. mode' = "menu" /\ cmdbuf' = WithBlank(Buf) /\ s' = Pos /\ nul' = (nul /\ ~Full)
      BY <1>c, <2>2, Zenon DEF Enter
    <3>3. (nul /\ ~Full) \in BOOLEAN
      OBVIOUS
    <3> QED BY <1>1, <2>1, <3>1, <3>2, <3>3, Zenon DEF TypeOK
  <2>3. CASE Cmd # "test"
    <3>1. /\ mode' = IF Cmd = "reboot" THEN "down" ELSE "line"
          /\ cmdbuf' = Cleared /\ s' = 0 /\ nul' = FALSE
      BY <1>c, <2>3, Zenon DEF Enter
    <3> QED BY <1>2, <2>1, <3>1, Zenon DEF TypeOK
  <2> QED BY <2>2, <2>3
<1>d. ASSUME NEW k \in Key, MenuKey(k) PROVE TypeOK'
  BY <1>2, <1>d, Zenon DEF MenuKey, TypeOK
<1>e. ASSUME NEW k \in Key, GoesWild(k) PROVE TypeOK'
  BY <1>e, Zenon DEF GoesWild, TypeOK
<1>f. ASSUME Reboot PROVE TypeOK'
  BY <1>2, <1>f, Zenon DEF Reboot, TypeOK
<1>g. QED
  BY <1>a, <1>b, <1>c, <1>d, <1>e, <1>f, <1>u DEF Next

\* Whatever the keys are, NUL among them, the place of the next character is
\* inside the buffer or just behind it, and the directory is one of the tree.
THEOREM TypeCorrect == Spec => []TypeOK
BY TypeInit, TypeStep, PTL DEF Spec

-----------------------------------------------------------------------------
(* The refinement, key by key.                                             *)

\* A character goes to the end of the line.
LEMMA CharPut ==
  ASSUME NEW b, NEW n, Holds(b, n), n < BufSize - 2, NEW c \in Char
  PROVE  Str([b EXCEPT ![n] = c]) = Append(Str(b), c)
<1> DEFINE w == [b EXCEPT ![n] = c]
<1>1. Holds(w, n + 1)
  BY NulIsNoChar, SizeIs DEF Holds
<1>2. /\ n \in Nat /\ n \in 0 .. BufSize - 1
      /\ w[n] = c /\ \A i \in 0 .. BufSize - 1 : i # n => w[i] = b[i]
  BY SizeIs DEF Holds
<1> HIDE DEF w
<1>3. /\ Str(w) \in Seq(Char) /\ Len(Str(w)) = n + 1
      /\ \A i \in 1 .. n + 1 : Str(w)[i] = w[i - 1]
  BY <1>1, LineHeld
<1>4. /\ Str(b) \in Seq(Char) /\ Len(Str(b)) = n
      /\ \A i \in 1 .. n : Str(b)[i] = b[i - 1]
  BY LineHeld
<1>5. /\ Append(Str(b), c) \in Seq(Char) /\ Len(Append(Str(b), c)) = n + 1
      /\ \A i \in 1 .. n : Append(Str(b), c)[i] = Str(b)[i]
      /\ Append(Str(b), c)[n + 1] = c
  BY <1>4, AppendProperties
<1>6. \A i \in 1 .. n + 1 : Str(w)[i] = Append(Str(b), c)[i]
  <2> TAKE i \in 1 .. n + 1
  <2>1. CASE i = n + 1
    <3>1. i - 1 = n
      BY <1>2, <2>1
    <3> QED BY <2>1, <3>1, <1>2, <1>3, <1>5
  <2>2. CASE i # n + 1
    <3>1. i \in 1 .. n /\ i - 1 \in 0 .. BufSize - 1 /\ i - 1 # n
      BY <1>2, <2>2, SizeIs
    <3> QED BY <3>1, <1>2, <1>3, <1>4, <1>5
  <2> QED BY <2>1, <2>2
<1>7. Str(w) = Append(Str(b), c)
  BY <1>3, <1>5, <1>6, SameLine
<1> QED BY <1>7 DEF w

\* Backspace takes the last one away, if there is one.
LEMMA CharTaken ==
  ASSUME NEW b, NEW n, Holds(b, n), n # 0
  PROVE  Str(b) # <<>> /\ Str([b EXCEPT ![n - 1] = NUL]) = Front(Str(b))
<1> DEFINE w == [b EXCEPT ![n - 1] = NUL]
<1>1. /\ n \in 0 .. BufSize - 2 /\ Str(b) \in Seq(Char) /\ Len(Str(b)) = n
      /\ \A i \in 1 .. n : Str(b)[i] = b[i - 1]
  BY LineHeld DEF Holds
<1>2. n - 1 \in 0 .. BufSize - 2 /\ n \in Nat
  BY <1>1, SizeIs
<1>3. Holds(w, n - 1) /\ \A i \in 0 .. n - 2 : w[i] = b[i]
  BY <1>2, SizeIs DEF Holds
<1> HIDE DEF w
<1>4. /\ Str(w) \in Seq(Char) /\ Len(Str(w)) = n - 1
      /\ \A i \in 1 .. n - 1 : Str(w)[i] = w[i - 1]
  BY <1>3, LineHeld
<1>5. /\ Front(Str(b)) \in Seq(Char) /\ Len(Front(Str(b))) = n - 1
      /\ \A i \in 1 .. n - 1 : Front(Str(b))[i] = Str(b)[i]
  BY <1>1, <1>2 DEF Front
<1>6. \A i \in 1 .. n - 1 : Str(w)[i] = Front(Str(b))[i]
  <2> TAKE i \in 1 .. n - 1
  <2>1. i \in 1 .. n /\ i - 1 \in 0 .. n - 2
    BY <1>2
  <2> QED BY <2>1, <1>1, <1>3, <1>4, <1>5
<1>7. Str(w) = Front(Str(b))
  BY <1>4, <1>5, <1>6, SameLine
<1>8. Str(b) # <<>>
  BY <1>1
<1> QED BY <1>7, <1>8 DEF w

LEMMA NothingTaken ==
  ASSUME NEW b, Holds(b, 0)
  PROVE  Str(b) = <<>> /\ Str([b EXCEPT ![0] = NUL]) = <<>>
<1>1. Holds([b EXCEPT ![0] = NUL], 0)
  BY SizeIs DEF Holds
<1>2. /\ Str(b) \in Seq(Char) /\ Len(Str(b)) = 0
      /\ Str([b EXCEPT ![0] = NUL]) \in Seq(Char) /\ Len(Str([b EXCEPT ![0] = NUL])) = 0
  BY <1>1, LineHeld
<1> QED BY <1>2, EmptySeq

\* A character.
LEMMA TypeRefines ==
  ASSUME Reading, NEW c \in Char, Type(c)
  PROVE  S!Type(c)
<1>1. /\ mode = "line" /\ mode' = "line" /\ cwdn' = cwdn /\ answer' = answer
      /\ cmdbuf' = [Buf EXCEPT ![Pos] = c]
  BY DEF Type
<1>2. Holds(Buf, Pos) /\ Pos < BufSize - 2
  BY RoomForKey DEF Reading
<1>3. Str(cmdbuf') = Append(S!Kept, c)
  BY <1>1, <1>2, CharPut, KeptIs, Zenon
<1>4. (IF mode = "line" THEN Str(cmdbuf) ELSE <<>>)' = Append(S!Kept, c)
  BY <1>1, <1>3
<1>5. Path(cwdn)' = Path(cwdn)
  BY <1>1
<1> QED BY <1>1, <1>4, <1>5, Zenon DEF S!Type

LEMMA BackspaceRefines ==
  ASSUME Reading, Backspace
  PROVE  S!Backspace
<1>1. /\ mode = "line" /\ mode' = "line" /\ cwdn' = cwdn /\ answer' = answer
      /\ cmdbuf' = [Buf EXCEPT ![BackPos] = NUL]
  BY DEF Backspace
<1>2. Holds(Buf, Pos) /\ S!Kept = Str(Buf)
  BY RoomForKey, KeptIs DEF Reading
<1>3. Str(cmdbuf') = IF S!Kept = <<>> THEN <<>> ELSE Front(S!Kept)
  <2>1. CASE Pos = 0
    <3>1. cmdbuf' = [Buf EXCEPT ![0] = NUL]
      BY <1>1, <2>1 DEF BackPos
    <3>2. Str(Buf) = <<>> /\ Str([Buf EXCEPT ![0] = NUL]) = <<>>
      BY <1>2, <2>1, NothingTaken, Zenon
    <3> QED BY <1>2, <3>1, <3>2
  <2>2. CASE Pos # 0
    <3>1. cmdbuf' = [Buf EXCEPT ![Pos - 1] = NUL]
      BY <1>1, <2>2 DEF BackPos
    <3>2. Str(Buf) # <<>> /\ Str([Buf EXCEPT ![Pos - 1] = NUL]) = Front(Str(Buf))
      BY <1>2, <2>2, CharTaken, Zenon
    <3> QED BY <1>2, <3>1, <3>2
  <2> QED BY <2>1, <2>2
<1>4. S!Front(S!Kept) = Front(S!Kept)
  BY DEF S!Front, Front
<1>5. (IF mode = "line" THEN Str(cmdbuf) ELSE <<>>)'
        = IF S!Kept = <<>> THEN <<>> ELSE S!Front(S!Kept)
  BY <1>1, <1>3, <1>4
<1>6. Path(cwdn)' = Path(cwdn)
  BY <1>1
<1> QED BY <1>1, <1>5, <1>6, Zenon DEF S!Backspace

LEMMA EnterRefines ==
  ASSUME Reading, cwdn \in DOMAIN BootTree.dir, Enter
  PROVE  S!Enter
<1>1. /\ mode = "line" /\ answer' = Printed
      /\ cwdn' = IF Cmd = "cd" /\ Target # NULL THEN Target ELSE cwdn
  BY DEF Enter
<1>2. Cmd = S!Command /\ Printed = S!Answer
  BY WordsAre, AnswerIs
<1>3. Path(cwdn)' = IF S!Command = "cd" THEN S!Destination ELSE Path(cwdn)
  <2>1. CASE Cmd = "cd" /\ Target # NULL
    <3>1. Path(cwdn)' = Path(Target)
      BY <1>1, <2>1, Zenon
    <3> QED BY <1>2, <2>1, <3>1, TargetIs
  <2>2. CASE Cmd = "cd" /\ Target = NULL
    <3>1. Path(cwdn)' = Path(cwdn)
      BY <1>1, <2>2, Zenon
    <3> QED BY <1>2, <2>2, <3>1, TargetIs
  <2>3. CASE Cmd # "cd"
    <3>1. Path(cwdn)' = Path(cwdn)
      BY <1>1, <2>3, Zenon
    <3> QED BY <1>2, <2>3, <3>1
  <2> QED BY <2>1, <2>2, <2>3
<1>4. /\ (IF mode = "line" THEN Str(cmdbuf) ELSE <<>>)' = <<>>
      /\ mode' = CASE S!Command = "test" -> "menu"
                   [] S!Command = "reboot" -> "down"
                   [] OTHER -> "line"
  <2>1. CASE Cmd = "test"
    <3>1. mode' = "menu"
      BY <2>1, Zenon DEF Enter
    <3> QED BY <1>2, <2>1, <3>1
  <2>2. CASE Cmd # "test"
    <3>1. cmdbuf' = Cleared /\ mode' = IF Cmd = "reboot" THEN "down" ELSE "line"
      BY <2>2, Zenon DEF Enter
    <3>2. Str(cmdbuf') = <<>>
      BY <3>1, ClearedLine, Zenon
    <3> QED BY <1>2, <2>2, <3>1, <3>2
  <2> QED BY <2>1, <2>2
<1> QED BY <1>1, <1>2, <1>3, <1>4, Zenon DEF S!Enter

\* In the menu: the end of the menu, or nothing.
LEMMA MenuKeyRefines ==
  ASSUME NEW k \in Key, MenuKey(k)
  PROVE  (k \in Char /\ S!MenuKey(k)) \/ UNCHANGED S!vars
<1>1. mode = "menu" /\ cwdn' = cwdn /\ answer' = answer
  BY DEF MenuKey
<1>2. Path(cwdn)' = Path(cwdn)
  BY <1>1
<1>3. CASE k \in TestKey \cup {BreakKey}
  <2>1. k \in Char
    BY <1>3, ShellAssumption, Zenon
  <2>2. mode' = "line" /\ cmdbuf' = Cleared
    BY <1>3, Zenon DEF MenuKey
  <2>3. Str(cmdbuf') = <<>>
    BY <2>2, ClearedLine, Zenon
  <2>4. (IF mode = "line" THEN Str(cmdbuf) ELSE <<>>)'
          = IF mode = "line" THEN Str(cmdbuf) ELSE <<>>
    BY <1>1, <2>2, <2>3
  <2>5. S!MenuKey(k)
    BY <1>1, <1>2, <1>3, <2>2, <2>4, Zenon DEF S!MenuKey
  <2> QED BY <2>1, <2>5
<1>4. CASE k \notin TestKey \cup {BreakKey}
  <2>1. mode' = mode /\ cmdbuf' = cmdbuf
    BY <1>4, Zenon DEF MenuKey
  <2>2. (IF mode = "line" THEN Str(cmdbuf) ELSE <<>>)'
          = IF mode = "line" THEN Str(cmdbuf) ELSE <<>>
    BY <2>1
  <2> QED BY <1>1, <1>2, <2>1, <2>2, Zenon DEF S!vars
<1> QED BY <1>3, <1>4

LEMMA RebootRefines ==
  ASSUME Reboot
  PROVE  S!Reboot
<1>1. /\ mode = "down" /\ mode' = "line" /\ cmdbuf' = Cleared
      /\ cwdn' = Root /\ answer' = <<>>
  BY DEF Reboot
<1>2. Str(cmdbuf') = <<>> /\ Path(cwdn)' = <<"/root">>
  BY <1>1, ClearedLine, ShellTreeFacts, Zenon
<1>3. (IF mode = "line" THEN Str(cmdbuf) ELSE <<>>)' = <<>>
  BY <1>1, <1>2
<1> QED BY <1>1, <1>2, <1>3, Zenon DEF S!Reboot

LEMMA SessionInit == Init => S!Init
<1> SUFFICES ASSUME Init PROVE S!Init
  OBVIOUS
<1>1. mode = "line" /\ cmdbuf = Cleared /\ cwdn = Root /\ answer = <<>>
  BY DEF Init
<1>2. (IF mode = "line" THEN Str(cmdbuf) ELSE <<>>) = <<>> /\ Path(cwdn) = <<"/root">>
  BY <1>1, ClearedLine, ShellTreeFacts
<1> QED BY <1>1, <1>2, Zenon DEF S!Init

LEMMA SessionStep ==
  TypeOK /\ LineInv /\ [Next]_vars => [nul \/ nul' \/ [S!Next]_(S!vars)]_vars
<1> SUFFICES ASSUME TypeOK, LineInv, [Next]_vars, ~nul, ~nul', ~ UNCHANGED vars
             PROVE  S!Next \/ UNCHANGED S!vars
  OBVIOUS
<1>1. mode = "line" => Reading
  BY DEF LineInv, Reading
<1>2. cwdn \in DOMAIN BootTree.dir
  BY DEF TypeOK
<1>a. ASSUME NEW c \in Char \cup {NUL}, Type(c) PROVE S!Next
  <2>1. c # NUL /\ mode = "line"
    BY <1>a, Zenon DEF Type
  <2>2. c \in Char
    BY <2>1
  <2>3. S!Type(c)
    BY <1>1, <1>a, <2>1, <2>2, TypeRefines
  <2> QED BY <2>2, <2>3, Zenon DEF S!Next
<1>b. ASSUME Backspace PROVE S!Next
  <2>1. S!Backspace
    BY <1>1, <1>b, BackspaceRefines DEF Backspace
  <2> QED BY <2>1, Zenon DEF S!Next
<1>c. ASSUME Enter PROVE S!Next
  <2>1. S!Enter
    BY <1>1, <1>2, <1>c, EnterRefines DEF Enter
  <2> QED BY <2>1, Zenon DEF S!Next
<1>d. ASSUME NEW k \in Key, MenuKey(k) PROVE S!Next \/ UNCHANGED S!vars
  <2>1. (k \in Char /\ S!MenuKey(k)) \/ UNCHANGED S!vars
    BY <1>d, MenuKeyRefines
  <2> QED BY <2>1, Zenon DEF S!Next
<1>e. ASSUME NEW k \in Key, GoesWild(k) PROVE FALSE
  BY <1>1, <1>e, EveryKeyIsSafe DEF GoesWild, Reading
<1>f. ASSUME Reboot PROVE S!Next
  <2>1. S!Reboot
    BY <1>f, RebootRefines
  <2> QED BY <2>1, Zenon DEF S!Next
<1> QED
  BY <1>a, <1>b, <1>c, <1>d, <1>e, <1>f DEF Next

\* As long as no NUL comes from the keyboard the shell is a session: the line
\* it carries out is the line as edited, a line of full length is dropped, and
\* "cd", "ls" and "pwd" answer for the directory the earlier commands led to.
THEOREM ShellIsSession == Spec => ImplementsSession
<1>1. Init => S!Init
  BY SessionInit
<1>2. TypeOK /\ LineInv /\ [Next]_vars => [nul \/ nul' \/ [S!Next]_(S!vars)]_vars
  BY SessionStep
<1> QED BY <1>1, <1>2, TypeInit, TypeStep, LineInit, LineStep, PTL
        DEF Spec, ImplementsSession

===============================================================================
