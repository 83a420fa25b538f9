-------------------------------- MODULE LsProofs --------------------------------
(***************************************************************************)
(* That ls stays inside its buffer and prints the directory, for any       *)
(* names, any number of entries and any size of the buffer.                *)
(*                                                                         *)
(* The invariant says where in the buffer the names are (Layout): one      *)
(* behind the other, each with its delimiter, with room for two NULs at    *)
(* the end; and that what was printed are the names before the place at    *)
(* which strtok_fst goes on (Reached).                                     *)
(***************************************************************************)
EXTENDS Ls, SequenceTheorems, TLAPS

\* off[k] is where the name of entry k starts, and off[next] where the string
\* ends.
Layout(off) ==
  /\ off \in [1 .. next -> 0 .. sz - 2]
  /\ off[1] = 0
  /\ \A k \in 1 .. next - 1 :
       /\ off[k + 1] = off[k] + Len(entries[k]) + DelimLen
       /\ off[k + 1] <= off[next]
       /\ \A i \in 1 .. Len(entries[k]) : buf[off[k] + i - 1] = entries[k][i]
       /\ \A i \in 0 .. 1 : buf[off[k] + Len(entries[k]) + i] = Semi
  /\ \A i \in 0 .. sz - 1 : buf[i] = NUL <=> i >= off[next]

\* The token that comes next.
Reached(off) ==
  /\ Len(shown) + 1 \in 1 .. next
  /\ \A k \in 1 .. Len(shown) : shown[k] = entries[k]
  /\ IF start = NULL THEN Len(shown) + 1 = next ELSE start = off[Len(shown) + 1]

IInv ==
  /\ sz \in Sizes
  /\ entries \in Seq(Names)
  /\ pc \in {"collect", "show", "done"}
  /\ next \in 1 .. Len(entries) + 1
  /\ buf \in [0 .. sz - 1 -> Char]
  /\ shown \in Seq(Names)
  /\ stopped \in BOOLEAN
  /\ top \in 0 .. sz - 1
  /\ pc = "collect" => shown = <<>> /\ start = 0 /\ ~stopped
  /\ pc # "collect" => stopped \/ next = Len(entries) + 1
  /\ pc = "done" => start = NULL
  /\ \E off \in [1 .. next -> 0 .. sz - 2] : Layout(off) /\ Reached(off)
-----------------------------------------------------------------------------
(* Names, and the string in the buffer.                                    *)

LEMMA NameIs ==
  ASSUME NEW w \in Names
  PROVE  /\ Len(w) \in Nat /\ Len(w) >= 1
         /\ w \in Seq(1 .. 255 \ {Semi})
         /\ \A i \in 1 .. Len(w) : w[i] \in Char /\ w[i] # NUL /\ w[i] # Semi
<1>1. w \in Seq(1 .. 255 \ {Semi}) /\ w # <<>>
  BY LsAssumption
<1>2. Len(w) \in Nat /\ Len(w) >= 1
  BY <1>1
<1>3. \A i \in 1 .. Len(w) : w[i] \in 1 .. 255 /\ w[i] # Semi
  BY <1>1
<1>4. \A x \in 1 .. 255 : x \in Char /\ x # NUL
  BY DEF Char, NUL
<1> QED BY <1>1, <1>2, <1>3, <1>4, Zenon

LEMMA SizeIs ==
  ASSUME sz \in Sizes
  PROVE  sz \in Nat /\ sz >= 2
BY LsAssumption

LEMMA EntryIs ==
  ASSUME entries \in Seq(Names), NEW k \in 1 .. Len(entries)
  PROVE  entries[k] \in Names /\ Len(entries) \in Nat
BY LenProperties, ElementOfSeq

\* _strlen, where everything from n on is cleared and nothing before it.
LEMMA StrLenIs ==
  ASSUME sz \in Nat, NEW n \in 0 .. sz - 1,
         \A i \in 0 .. sz - 1 : buf[i] = NUL <=> i >= n
  PROVE  StrLen = n
<1> DEFINE Is(m) == buf[m] = NUL /\ \A i \in 0 .. m - 1 : buf[i] # NUL
<1>1. Is(n)
  OBVIOUS
<1>2. ASSUME NEW m \in 0 .. sz - 1, Is(m) PROVE m = n
  <2>1. m >= n
    BY <1>2
  <2>2. ~ (n < m)
    <3> SUFFICES ASSUME n < m PROVE FALSE
      OBVIOUS
    <3>1. n \in 0 .. m - 1
      BY <1>2
    <3> QED BY <1>1, <1>2, <3>1
  <2> QED BY <2>1, <2>2
<1>3. StrLen = CHOOSE m \in 0 .. sz - 1 : Is(m)
  BY DEF StrLen
<1> QED BY <1>1, <1>2, <1>3

\* A name that fits ends, with its delimiter, where two NULs are left.
LEMMA EntryFits ==
  ASSUME IInv, NEW off, Layout(off), next <= Len(entries),
         sz - StrLen >= Needed(entries[next])
  PROVE  /\ StrLen = off[next]
         /\ off[next] + Len(entries[next]) + DelimLen \in 0 .. sz - 2
<1>1. sz \in Nat /\ sz >= 2
  BY SizeIs DEF IInv
<1>2. off[next] \in 0 .. sz - 2
  BY DEF Layout, IInv
<1>3. StrLen = off[next]
  BY <1>1, <1>2, StrLenIs DEF Layout
<1>4. Len(entries[next]) \in Nat
  <2>1. next \in 1 .. Len(entries)
    BY LenProperties DEF IInv
  <2> QED BY <2>1, EntryIs, NameIs DEF IInv
<1>5. sz - off[next] >= Len(entries[next]) + 4
  BY <1>3 DEF Needed
<1> DEFINE n == off[next]
           len == Len(entries[next])
<1>6. n \in Nat /\ len \in Nat /\ sz - n >= len + 4
  BY <1>1, <1>2, <1>4, <1>5
<1> HIDE DEF n, len
<1>7. n + len + 2 \in 0 .. sz - 2
  BY <1>1, <1>6
<1> QED BY <1>3, <1>7 DEF n, len, DelimLen

-----------------------------------------------------------------------------
(* The loop of the handler.                                                *)

\* A name and the delimiter behind a string of length n.
Written(b, n, w) ==
  /\ b \in [0 .. sz - 1 -> Char]
  /\ \A i \in 0 .. n - 1 : b[i] = buf[i]
  /\ \A i \in 1 .. Len(w) : b[n + i - 1] = w[i]
  /\ \A i \in 0 .. 1 : b[n + Len(w) + i] = Semi
  /\ \A i \in 0 .. sz - 1 : b[i] = NUL <=> i >= n + Len(w) + DelimLen

\* _strcat puts them there, and leaves the rest as it was.
LEMMA EntryWritten ==
  ASSUME sz \in Nat, NEW n \in 0 .. sz - 2, NEW w \in Names, StrLen = n,
         NEW b, b = WithEntry(w),
         n + Len(w) + DelimLen \in 0 .. sz - 2,
         buf \in [0 .. sz - 1 -> Char],
         \A i \in 0 .. sz - 1 : buf[i] = NUL <=> i >= n
  PROVE  Written(b, n, w)
<1> DEFINE len == Len(w)
<1>1. /\ len \in Nat /\ n \in Nat
      /\ \A i \in 1 .. len : w[i] \in Char /\ w[i] # NUL
  BY NameIs
<1>2. NUL \in Char /\ Semi \in Char /\ Semi # NUL
  BY DEF NUL, Semi, Char
<1>3. b = [i \in 0 .. sz - 1 |->
             IF i < n \/ i > n + len + DelimLen THEN buf[i]
             ELSE IF i < n + len THEN w[i - n + 1]
             ELSE IF i < n + len + DelimLen THEN Semi
             ELSE NUL]
  BY DEF WithEntry
<1> HIDE DEF len
<1>4. \A i \in 0 .. n - 1 : b[i] = buf[i]
  BY <1>1, <1>3
<1>5. \A i \in 1 .. len : b[n + i - 1] = w[i]
  <2> TAKE i \in 1 .. len
  <2>1. /\ n + i - 1 \in 0 .. sz - 1 /\ n + i - 1 < n + len
        /\ ~(n + i - 1 < n) /\ ~(n + i - 1 > n + len + DelimLen)
        /\ (n + i - 1) - n + 1 = i
    BY <1>1 DEF len, DelimLen
  <2> QED BY <1>3, <2>1
<1>6. \A i \in 0 .. 1 : b[n + len + i] = Semi
  <2> TAKE i \in 0 .. 1
  <2>1. /\ n + len + i \in 0 .. sz - 1 /\ n + len + i < n + len + DelimLen
        /\ ~(n + len + i < n) /\ ~(n + len + i < n + len)
        /\ ~(n + len + i > n + len + DelimLen)
    BY <1>1 DEF len, DelimLen
  <2> QED BY <1>3, <2>1
<1>7. ASSUME NEW i \in 0 .. sz - 1
      PROVE  b[i] \in Char /\ (b[i] = NUL <=> i >= n + len + DelimLen)
  <2>0. DelimLen = 2
    BY DEF DelimLen
  <2>1. CASE i < n
    <3>1. b[i] = buf[i] /\ ~(i >= n + len + DelimLen)
      BY <1>1, <1>3, <2>0, <2>1
    <3> QED BY <2>1, <3>1
  <2>2. CASE i >= n /\ i < n + len
    <3>1. i - n + 1 \in 1 .. len /\ ~(i >= n + len + DelimLen)
      BY <1>1, <2>0, <2>2
    <3>2. b[i] = w[i - n + 1]
      BY <1>1, <1>3, <2>0, <2>2
    <3> QED BY <1>1, <3>1, <3>2
  <2>3. CASE i >= n + len /\ i < n + len + DelimLen
    <3>1. b[i] = Semi
      BY <1>1, <1>3, <2>0, <2>3
    <3>2. i >= n /\ ~(i >= n + len + DelimLen)
      <4>1. n \in Nat /\ len \in Nat /\ i \in Int
        BY <1>1
      <4> QED BY <2>0, <2>3, <4>1
    <3> QED BY <1>2, <3>1, <3>2
  <2>4. CASE i >= n + len + DelimLen
    <3>1. buf[i] = NUL
      BY <1>1, <2>0, <2>4
    <3>2. b[i] = NUL
      BY <1>1, <1>3, <2>0, <2>4, <3>1
    <3> QED BY <1>2, <2>4, <3>2
  <2> QED BY <1>1, <2>0, <2>1, <2>2, <2>3, <2>4
<1>8. b \in [0 .. sz - 1 -> Char]
  <2>1. \A i \in 0 .. sz - 1 : b[i] \in Char
    BY <1>7
  <2> QED BY <1>3, <2>1
<1> QED BY <1>4, <1>5, <1>6, <1>7, <1>8 DEF len, Written

\* Where a name and its delimiter lie, if they end before n.
LEMMA PlacesInside ==
  ASSUME NEW a \in Nat, NEW len \in Nat, NEW n \in Nat, a + len + 2 <= n
  PROVE  /\ \A i \in 1 .. len : a + i - 1 \in 0 .. n - 1
         /\ \A i \in 0 .. 1 : a + len + i \in 0 .. n - 1
OBVIOUS

LEMMA CollectKeeps == IInv /\ Collect => IInv'
<1> SUFFICES ASSUME IInv, Collect PROVE IInv'
  OBVIOUS
<1>1. PICK off \in [1 .. next -> 0 .. sz - 2] : Layout(off) /\ Reached(off)
  BY DEF IInv
<1> DEFINE w == entries[next]
           n == off[next]
           m == n + Len(w) + DelimLen
<1>2. /\ sz \in Nat /\ sz >= 2 /\ Len(entries) \in Nat
      /\ next \in Nat /\ next >= 1 /\ next + 1 \in 1 .. Len(entries) + 1
      /\ next \in 1 .. Len(entries) /\ n \in 0 .. sz - 2
  <2>1. sz \in Nat /\ sz >= 2 /\ Len(entries) \in Nat
    BY SizeIs, LenProperties DEF IInv
  <2> QED BY <1>1, <2>1 DEF IInv, Collect
<1>3. w \in Names /\ Len(w) \in Nat /\ Len(w) >= 1
  BY <1>2, EntryIs, NameIs DEF IInv
<1>4. StrLen = n /\ m \in 0 .. sz - 2
  BY <1>1, EntryFits DEF Collect
<1>5. /\ pc = "collect" /\ buf' = WithEntry(w) /\ next' = next + 1
      /\ top' = n + Len(w) + DelimLen
      /\ UNCHANGED <<sz, entries, pc, start, shown, stopped>>
  BY <1>4 DEF Collect
<1>6. /\ buf \in [0 .. sz - 1 -> Char]
      /\ \A i \in 0 .. sz - 1 : buf[i] = NUL <=> i >= n
  BY <1>1 DEF IInv, Layout
<1>7. /\ buf' \in [0 .. sz - 1 -> Char]
      /\ \A i \in 0 .. n - 1 : buf'[i] = buf[i]
      /\ \A i \in 1 .. Len(w) : buf'[n + i - 1] = w[i]
      /\ \A i \in 0 .. 1 : buf'[n + Len(w) + i] = Semi
      /\ \A i \in 0 .. sz - 1 : buf'[i] = NUL <=> i >= m
  <2> HIDE DEF w, n
  <2>1. buf' = WithEntry(w) /\ n + Len(w) + DelimLen \in 0 .. sz - 2
    BY <1>4, <1>5
  <2>2. sz \in Nat /\ n \in 0 .. sz - 2 /\ StrLen = n
    BY <1>2, <1>4
  <2>3. Written(buf', n, w)
    BY <1>3, <1>6, <2>1, <2>2, EntryWritten, Zenon
  <2> QED BY <2>3 DEF Written
<1>0. PICK off2 : off2 = [k \in 1 .. next + 1 |-> IF k = next + 1 THEN m ELSE off[k]]
  OBVIOUS
<1>8. /\ off2 \in [1 .. next + 1 -> 0 .. sz - 2] /\ off2[next + 1] = m
      /\ \A k \in 1 .. next : off2[k] = off[k]
  BY <1>0, <1>1, <1>2, <1>4
<1> HIDE DEF m
<1>9. ASSUME NEW k \in 1 .. next
      PROVE  /\ off2[k + 1] = off2[k] + Len(entries[k]) + DelimLen
             /\ off2[k + 1] <= m
             /\ \A i \in 1 .. Len(entries[k]) : buf'[off2[k] + i - 1] = entries[k][i]
             /\ \A i \in 0 .. 1 : buf'[off2[k] + Len(entries[k]) + i] = Semi
  <2>1. CASE k = next
    <3>1. off2[k] = n /\ off2[k + 1] = m /\ m <= m
      BY <1>2, <1>4, <1>8, <2>1
    <3> QED BY <1>7, <2>1, <3>1 DEF m
  <2>2. CASE k # next
    <3>1. k \in 1 .. next - 1 /\ k + 1 \in 1 .. next
      BY <1>2, <2>2
    <3>2. off2[k] = off[k] /\ off2[k + 1] = off[k + 1]
      BY <1>8, <3>1
    <3>3. /\ off[k + 1] = off[k] + Len(entries[k]) + DelimLen
          /\ off[k + 1] <= n
          /\ \A i \in 1 .. Len(entries[k]) : buf[off[k] + i - 1] = entries[k][i]
          /\ \A i \in 0 .. 1 : buf[off[k] + Len(entries[k]) + i] = Semi
      BY <1>1, <3>1 DEF Layout
    <3>4. off[k] \in Nat /\ off[k + 1] \in Nat /\ Len(entries[k]) \in Nat
      <4>1. k \in 1 .. Len(entries)
        BY <1>2, <3>1
      <4>2. Len(entries[k]) \in Nat
        BY <4>1, EntryIs, NameIs DEF IInv
      <4> QED BY <1>1, <1>2, <3>1, <4>2
    <3>5. /\ \A i \in 1 .. Len(entries[k]) : off[k] + i - 1 \in 0 .. n - 1
          /\ \A i \in 0 .. 1 : off[k] + Len(entries[k]) + i \in 0 .. n - 1
      <4>1. off[k] + Len(entries[k]) + 2 <= n
        BY <3>3 DEF DelimLen
      <4>2. n \in Nat
        BY <1>2
      <4> HIDE DEF n
      <4> QED BY <3>4, <4>1, <4>2, PlacesInside, Zenon
    <3>6. n <= m
      BY <1>2, <1>3 DEF m, DelimLen
    <3>7. off2[k + 1] <= m
      <4>1. n \in Nat /\ m \in Nat
        BY <1>2, <1>4
      <4> QED BY <3>2, <3>3, <3>4, <3>6, <4>1
    <3> QED BY <1>7, <3>2, <3>3, <3>5, <3>7
  <2> QED BY <2>1, <2>2
<1>10. off2[1] = 0
  BY <1>1, <1>2, <1>8 DEF Layout
<1>11. Layout(off2)'
  <2>1. next' - 1 = next
    BY <1>2, <1>5
  <2> QED BY <1>4, <1>5, <1>7, <1>8, <1>9, <1>10, <2>1 DEF Layout
<1>12. shown = <<>> /\ start = 0 /\ ~stopped
  BY <1>5 DEF IInv
<1>13. Reached(off2)'
  <2>1. Len(shown) = 0 /\ 1 \in 1 .. next + 1
    BY <1>2, <1>12
  <2>2. start # NULL
    BY <1>12 DEF NULL
  <2> QED BY <1>5, <1>10, <1>12, <2>1, <2>2 DEF Reached
<1>14. top' \in 0 .. sz - 1
  BY <1>2, <1>4, <1>5 DEF m
<1> QED BY <1>2, <1>5, <1>7, <1>8, <1>11, <1>12, <1>13, <1>14 DEF IInv

LEMMA CollectStopsKeeps == IInv /\ (CollectStops \/ CollectEnds) => IInv'
<1> SUFFICES ASSUME IInv, CollectStops \/ CollectEnds PROVE IInv'
  OBVIOUS
<1>1. PICK off \in [1 .. next -> 0 .. sz - 2] : Layout(off) /\ Reached(off)
  BY DEF IInv
<1>2. /\ UNCHANGED <<sz, entries, next, buf, start, shown, top>>
      /\ pc' = "show"
      /\ stopped' \in BOOLEAN
      /\ stopped' \/ next > Len(entries)
  BY DEF CollectStops, CollectEnds, IInv
<1>3. Layout(off)' /\ Reached(off)'
  BY <1>1, <1>2 DEF Layout, Reached
<1>4. next > Len(entries) => next = Len(entries) + 1
  BY LenProperties DEF IInv
<1> QED BY <1>1, <1>2, <1>3, <1>4 DEF IInv

-----------------------------------------------------------------------------
(* The loop of lsdir.                                                      *)

\* strtok_fst stops at one place only.
LEMMA TokenEndIs ==
  ASSUME sz \in Nat, start \in Nat, NEW e \in start .. sz + 1, StopsAt(e),
         \A i \in start .. e - 1 : ~StopsAt(i)
  PROVE  TokenEnd = e
<1> DEFINE Is(s) == StopsAt(s) /\ \A i \in start .. s - 1 : ~StopsAt(i)
<1>1. ASSUME NEW s \in start .. sz + 1, Is(s) PROVE s = e
  <2>1. ASSUME s < e PROVE FALSE
    <3>1. s \in start .. e - 1
      BY <2>1
    <3> QED BY <1>1, <3>1
  <2>2. ASSUME e < s PROVE FALSE
    <3>1. e \in start .. s - 1
      BY <2>2
    <3> QED BY <1>1, <3>1
  <2> QED BY <2>1, <2>2
<1>2. TokenEnd = CHOOSE s \in start .. sz + 1 : Is(s)
  BY DEF TokenEnd
<1>3. Is(e)
  OBVIOUS
<1> HIDE DEF Is
<1> QED BY <1>1, <1>2, <1>3

\* At a name: the token is the name, and its delimiter is behind it.
LEMMA NameCutOff ==
  ASSUME sz \in Nat, start \in Nat, NEW w \in Names,
         start + Len(w) + DelimLen \in 0 .. sz - 2,
         \A i \in 1 .. Len(w) : buf[start + i - 1] = w[i],
         \A i \in 0 .. 1 : buf[start + Len(w) + i] = Semi
  PROVE  TokenEnd = start + Len(w) /\ Token = w /\ At(TokenEnd) = Semi
<1> DEFINE len == Len(w)
           e == start + len
<1>1. /\ len \in Nat /\ len >= 1 /\ w \in Seq(1 .. 255 \ {Semi})
      /\ \A i \in 1 .. len : w[i] # NUL /\ w[i] # Semi
  BY NameIs
<1>2. e \in Nat /\ e + DelimLen \in 0 .. sz - 2 /\ e > start
  BY <1>1
<1>3. buf[e] = Semi /\ buf[e + 1] = Semi
  <2>1. e + 0 = e
    BY <1>2
  <2> QED BY <2>1
<1> HIDE DEF len
<1>4. At(e) = Semi /\ At(e + 1) = Semi
  BY <1>2, <1>3 DEF At, DelimLen
<1>5. \A i \in 1 .. len : At(start + i - 1) = w[i]
  <2> TAKE i \in 1 .. len
  <2>1. start + i - 1 < sz
    BY <1>1, <1>2 DEF DelimLen
  <2> QED BY <2>1 DEF At, len
<1>6. ASSUME NEW i \in start .. e - 1 PROVE ~StopsAt(i)
  <2>1. i - start + 1 \in 1 .. len /\ start + (i - start + 1) - 1 = i
    BY <1>1
  <2>2. At(i) = w[i - start + 1]
    BY <1>5, <2>1
  <2> QED BY <1>1, <2>1, <2>2 DEF StopsAt
<1>7. TokenEnd = e
  <2>1. e \in start .. sz + 1 /\ StopsAt(e)
    BY <1>2, <1>4 DEF StopsAt, DelimLen
  <2> HIDE DEF e
  <2> QED BY <1>6, <2>1, TokenEndIs
<1>8. Token = w
  <2> DEFINE t == [i \in 1 .. TokenEnd - start |-> At(start + i - 1)]
  <2>1. TokenEnd - start = len
    BY <1>1, <1>7
  <2>2. t = [i \in 1 .. len |-> w[i]]
    BY <1>5, <2>1
  <2>3. w = [i \in 1 .. len |-> w[i]]
    BY <1>1 DEF len
  <2>4. t = w
    BY <2>2, <2>3
  <2> HIDE DEF t
  <2>5. ~(t # <<>> /\ t[1] = NUL)
    BY <1>1, <2>4
  <2>6. Token = IF t # <<>> /\ t[1] = NUL THEN <<>> ELSE t
    BY DEF Token, t
  <2> QED BY <2>4, <2>5, <2>6
<1> QED BY <1>4, <1>7, <1>8 DEF len

\* At the end of the string: the empty token, and the NUL behind it.
LEMMA NothingCutOff ==
  ASSUME sz \in Nat, start \in 0 .. sz - 2,
         \A i \in 0 .. sz - 1 : i >= start => buf[i] = NUL
  PROVE  TokenEnd = start + 1 /\ Token = <<>> /\ At(TokenEnd) = NUL
<1>1. At(start) = NUL /\ At(start + 1) = NUL
  BY DEF At
<1>2. NUL # Semi
  BY DEF NUL, Semi
<1>3. StopsAt(start + 1)
  BY <1>1 DEF StopsAt
<1>4. ~StopsAt(start)
  BY <1>1, <1>2 DEF StopsAt
<1>5. \A i \in start .. (start + 1) - 1 : ~StopsAt(i)
  <2>1. \A i \in start .. (start + 1) - 1 : i = start
    OBVIOUS
  <2> QED BY <1>4, <2>1
<1>6. TokenEnd = start + 1
  <2>1. start + 1 \in start .. sz + 1 /\ start \in Nat
    OBVIOUS
  <2> QED BY <1>3, <1>5, <2>1, TokenEndIs
<1>7. Token = <<>>
  <2> DEFINE t == [i \in 1 .. TokenEnd - start |-> At(start + i - 1)]
  <2>1. TokenEnd - start = 1 /\ start + 1 - 1 = start
    BY <1>6
  <2>2. t # <<>> /\ t[1] = NUL
    <3>1. t = [i \in 1 .. 1 |-> At(start + i - 1)]
      BY <2>1
    <3>2. 1 \in DOMAIN t /\ t[1] = NUL
      BY <1>1, <2>1, <3>1
    <3> HIDE DEF t
    <3> QED BY <3>2
  <2>3. Token = IF t # <<>> /\ t[1] = NUL THEN <<>> ELSE t
    BY DEF Token, t
  <2> HIDE DEF t
  <2> QED BY <2>2, <2>3
<1> QED BY <1>1, <1>6, <1>7

LEMMA ShowKeeps == IInv /\ Show => IInv' /\ (start' = NULL \/ start' > start)
<1> SUFFICES ASSUME IInv, Show PROVE IInv' /\ (start' = NULL \/ start' > start)
  OBVIOUS
<1>1. PICK off \in [1 .. next -> 0 .. sz - 2] : Layout(off) /\ Reached(off)
  BY DEF IInv
<1> DEFINE k == Len(shown) + 1
<1>2. /\ sz \in Nat /\ sz >= 2 /\ Len(entries) \in Nat /\ Len(shown) \in Nat
      /\ shown \in Seq(Names) /\ next \in 1 .. Len(entries) + 1
      /\ k \in 1 .. next /\ next \in Nat
  BY <1>1, SizeIs, LenProperties DEF IInv, Reached
<1>3. start = off[k] /\ start \in 0 .. sz - 2
  <2>1. start # NULL
    BY DEF Show
  <2> QED BY <1>1, <1>2, <2>1 DEF Reached
<1>4. /\ pc = "show"
      /\ top' = TokenEnd + (IF At(TokenEnd) = NUL THEN 0 ELSE 1)
      /\ shown' = IF Token = <<>> THEN shown ELSE Append(shown, Token)
      /\ start' = IF At(TokenEnd) = NUL THEN NULL ELSE TokenEnd + DelimLen
      /\ UNCHANGED <<sz, entries, pc, next, buf, stopped>>
  BY DEF Show, BehindDelimiter
<1>5. Layout(off)'
  BY <1>1, <1>4 DEF Layout
<1>6. CASE k < next
  <2> DEFINE w == entries[k]
  <2>1. k \in 1 .. next - 1 /\ k + 1 \in 1 .. next /\ k \in 1 .. Len(entries)
    BY <1>2, <1>6
  <2>2. w \in Names /\ Len(w) \in Nat /\ Len(w) >= 1
    BY <2>1, EntryIs, NameIs DEF IInv
  <2>3. /\ off[k + 1] = start + Len(w) + DelimLen
        /\ \A i \in 1 .. Len(w) : buf[start + i - 1] = w[i]
        /\ \A i \in 0 .. 1 : buf[start + Len(w) + i] = Semi
    BY <1>1, <1>3, <2>1 DEF Layout
  <2>4. off[k + 1] \in 0 .. sz - 2
    BY <1>1, <2>1
  <2> HIDE DEF w
  <2>5. TokenEnd = start + Len(w) /\ Token = w /\ At(TokenEnd) = Semi
    <3>1. start \in Nat /\ start + Len(w) + DelimLen \in 0 .. sz - 2
      BY <1>3, <2>3, <2>4
    <3> QED BY <1>2, <2>2, <2>3, <3>1, NameCutOff, Zenon
  <2>6. Token # <<>> /\ At(TokenEnd) # NUL
    BY <2>2, <2>5 DEF NUL, Semi
  <2>7. /\ top' = start + Len(w) + 1 /\ shown' = Append(shown, w)
        /\ start' = off[k + 1]
    BY <1>4, <2>3, <2>5, <2>6
  <2>8. top' \in 0 .. sz - 1
    <3>1. start \in Nat /\ start + Len(w) + 2 \in 0 .. sz - 2
      BY <1>3, <2>3, <2>4 DEF DelimLen
    <3> DEFINE len == Len(w)
    <3>2. len \in Nat /\ start + len + 2 \in 0 .. sz - 2 /\ top' = start + len + 1
      BY <2>2, <2>7, <3>1
    <3> HIDE DEF len
    <3> QED BY <1>2, <3>1, <3>2
  <2>9. shown' \in Seq(Names) /\ Len(shown') = k
    BY <1>2, <2>2, <2>7, AppendProperties
  <2>10. \A i \in 1 .. k : shown'[i] = entries[i]
    <3> TAKE i \in 1 .. k
    <3>1. CASE i = k
      BY <1>2, <2>2, <2>7, <3>1, AppendProperties DEF w
    <3>2. CASE i # k
      <4>1. i \in 1 .. Len(shown)
        BY <1>2, <3>2
      <4>2. shown'[i] = shown[i]
        BY <1>2, <2>2, <2>7, <4>1, AppendProperties
      <4> QED BY <1>1, <4>1, <4>2 DEF Reached
    <3> QED BY <3>1, <3>2
  <2>11. start' # NULL
    BY <2>4, <2>7 DEF NULL
  <2>12. Reached(off)'
    BY <1>4, <2>1, <2>7, <2>9, <2>10, <2>11 DEF Reached
  <2>13. IInv'
    BY <1>1, <1>4, <1>5, <2>8, <2>9, <2>12 DEF IInv
  <2>14. start' > start
    BY <1>3, <2>2, <2>3, <2>7 DEF DelimLen
  <2> QED BY <2>13, <2>14
<1>7. CASE k = next
  <2>1. \A i \in 0 .. sz - 1 : i >= start => buf[i] = NUL
    BY <1>1, <1>3, <1>7 DEF Layout
  <2>2. TokenEnd = start + 1 /\ Token = <<>> /\ At(TokenEnd) = NUL
    BY <1>2, <1>3, <2>1, NothingCutOff
  <2>3. top' = start + 1 + 0 /\ shown' = shown /\ start' = NULL
    BY <1>4, <2>2
  <2>4. top' \in 0 .. sz - 1
    BY <1>2, <1>3, <2>3
  <2>5. Reached(off)'
    BY <1>1, <1>2, <1>4, <1>7, <2>3 DEF Reached
  <2>6. IInv'
    BY <1>1, <1>4, <1>5, <2>3, <2>4, <2>5 DEF IInv
  <2> QED BY <2>3, <2>6
<1> QED BY <1>2, <1>6, <1>7

LEMMA ShowEndsKeeps == IInv /\ ShowEnds => IInv'
<1> SUFFICES ASSUME IInv, ShowEnds PROVE IInv'
  OBVIOUS
<1>1. PICK off \in [1 .. next -> 0 .. sz - 2] : Layout(off) /\ Reached(off)
  BY DEF IInv
<1>2. /\ pc = "show" /\ start = NULL /\ pc' = "done"
      /\ UNCHANGED <<sz, entries, next, buf, start, shown, stopped, top>>
  BY DEF ShowEnds
<1>3. Layout(off)' /\ Reached(off)'
  BY <1>1, <1>2 DEF Layout, Reached
<1> QED BY <1>1, <1>2, <1>3 DEF IInv

-----------------------------------------------------------------------------
LEMMA IInit == Init => IInv
<1> SUFFICES ASSUME Init PROVE IInv
  OBVIOUS
<1>1. sz \in Nat /\ sz >= 2
  BY SizeIs DEF Init
<1>2. entries \in Seq(Names)
  <2>1. PICK n \in 0 .. MaxEntries : entries \in [1 .. n -> Names]
    BY DEF Init
  <2>2. n \in Nat
    BY LsAssumption
  <2> QED BY <2>1, <2>2
<1>3. /\ next = 1 /\ start = 0 /\ shown = <<>>
      /\ buf = [i \in 0 .. sz - 1 |-> NUL]
  BY DEF Init
<1>4. PICK off : off = [k \in 1 .. 1 |-> 0]
  OBVIOUS
<1>5. off \in [1 .. next -> 0 .. sz - 2] /\ off[1] = 0
  BY <1>1, <1>3, <1>4
<1>6. Layout(off)
  BY <1>1, <1>3, <1>5 DEF Layout
<1>7. Reached(off)
  <2>1. 0 # NULL /\ Len(shown) = 0 /\ \A k \in 1 .. Len(shown) : FALSE
    BY <1>3 DEF NULL
  <2> QED BY <1>3, <1>5, <2>1 DEF Reached
<1>8. NUL \in Char
  BY DEF NUL, Char
<1>9. /\ next \in 1 .. Len(entries) + 1 /\ shown \in Seq(Names)
      /\ buf \in [0 .. sz - 1 -> Char]
  BY <1>2, <1>3, <1>8
<1>10. top \in 0 .. sz - 1
  BY <1>1 DEF Init
<1> QED BY <1>2, <1>3, <1>5, <1>6, <1>7, <1>9, <1>10 DEF Init, IInv

LEMMA INext == IInv /\ [Next]_vars => IInv'
<1> SUFFICES ASSUME IInv, [Next]_vars PROVE IInv'
  OBVIOUS
<1>1. ASSUME UNCHANGED vars PROVE IInv'
  <2>1. PICK off \in [1 .. next -> 0 .. sz - 2] : Layout(off) /\ Reached(off)
    BY DEF IInv
  <2>2. Layout(off)' /\ Reached(off)'
    BY <1>1, <2>1 DEF vars, Layout, Reached
  <2> QED BY <1>1, <2>1, <2>2 DEF vars, IInv
<1> QED
  BY <1>1, CollectKeeps, CollectStopsKeeps, ShowKeeps, ShowEndsKeeps DEF Next

THEOREM Invariance == Spec => []IInv
BY IInit, INext, PTL DEF Spec

\* Neither the handler nor lsdir reads or writes behind the buffer, however
\* long the directory is and however short the buffer: the handler leaves room
\* for a NUL more than it needs, and strtok_fst steps over the end of the empty
\* string onto it (syscall.c:298, string.c:109-113).
THEOREM NothingBehind == Spec => []LsStaysInside
<1>1. IInv => LsStaysInside
  <2> SUFFICES ASSUME IInv PROVE LsStaysInside
    OBVIOUS
  <2>1. PICK off \in [1 .. next -> 0 .. sz - 2] : Layout(off) /\ Reached(off)
    BY DEF IInv
  <2>2. sz \in Nat /\ sz >= 2
    BY SizeIs DEF IInv
  <2>3. top < sz
    BY <2>2 DEF IInv
  <2>4. start = NULL \/ start \in 0 .. sz - 2
    BY <2>1 DEF Reached
  <2>5. start \in 0 .. sz - 1 \cup {NULL}
    BY <2>2, <2>4
  <2> QED BY <2>3, <2>5 DEF LsStaysInside
<1> QED BY Invariance, <1>1, PTL

\* ls prints the directory in order, each name whole and once; when the buffer
\* is too short it prints the names that were strung together and no more
\* (commands.c:9-42).
THEOREM DirectoryShown == Spec => []LsShowsDirectory
<1>1. IInv => LsShowsDirectory
  <2> SUFFICES ASSUME IInv, pc = "done"
               PROVE  /\ IsPrefix(shown, entries)
                      /\ ~stopped => shown = entries
                      /\ stopped => Len(shown) = next - 1
    BY DEF LsShowsDirectory
  <2>1. PICK off \in [1 .. next -> 0 .. sz - 2] : Layout(off) /\ Reached(off)
    BY DEF IInv
  <2>2. /\ shown \in Seq(Names) /\ entries \in Seq(Names)
        /\ Len(entries) \in Nat /\ Len(shown) \in Nat
        /\ next \in 1 .. Len(entries) + 1 /\ start = NULL
    BY LenProperties DEF IInv
  <2>3. Len(shown) + 1 = next /\ \A k \in 1 .. Len(shown) : shown[k] = entries[k]
    BY <2>1, <2>2 DEF Reached
  <2>4. Len(shown) <= Len(entries) /\ Len(shown) = next - 1
    BY <2>2, <2>3
  <2>5. IsPrefix(shown, entries)
    BY <2>2, <2>3, <2>4 DEF IsPrefix
  <2>6. ASSUME ~stopped PROVE shown = entries
    <3>1. Len(shown) = Len(entries)
      BY <2>2, <2>3, <2>6 DEF IInv
    <3> QED BY <2>2, <2>3, <3>1, SeqEqual
  <2> QED BY <2>4, <2>5, <2>6
<1> QED BY Invariance, <1>1, PTL

-----------------------------------------------------------------------------
(* That the loops end.                                                     *)

\* A bound on the turns that are left.
TurnsLeft ==
  IF pc = "collect" THEN (Len(entries) + 1 - next) + sz + 3
  ELSE IF pc = "show" THEN IF start = NULL THEN 1 ELSE sz - start + 1
  ELSE 0

\* Every step of the two loops uses up a turn.
EveryTurnCounts == [][TurnsLeft' < TurnsLeft]_vars

LEMMA PlacesAre ==
  ASSUME IInv
  PROVE  /\ sz \in Nat /\ sz >= 2 /\ next \in Nat /\ Len(entries) \in Nat
         /\ next <= Len(entries) + 1
         /\ start = NULL \/ start \in 0 .. sz - 2
<1>1. PICK off \in [1 .. next -> 0 .. sz - 2] : Layout(off) /\ Reached(off)
  BY DEF IInv
<1>2. sz \in Nat /\ sz >= 2 /\ Len(entries) \in Nat /\ next \in 1 .. Len(entries) + 1
  BY SizeIs, LenProperties DEF IInv
<1>3. start = NULL \/ start \in 0 .. sz - 2
  BY <1>1 DEF Reached
<1> QED BY <1>2, <1>3

LEMMA TurnsAreCounted == IInv => TurnsLeft \in Nat
<1> SUFFICES ASSUME IInv PROVE TurnsLeft \in Nat
  OBVIOUS
<1> QED BY PlacesAre DEF TurnsLeft

LEMMA LessIsLeft ==
  ASSUME NEW z \in Int, NEW a \in Int, NEW b \in Int, b > a
  PROVE  z - b + 1 < z - a + 1
OBVIOUS

LEMMA TurnUsed == IInv /\ [Next]_vars => [TurnsLeft' < TurnsLeft]_vars
<1> SUFFICES ASSUME IInv, Next PROVE TurnsLeft' < TurnsLeft
  OBVIOUS
<1>1. /\ sz \in Nat /\ sz >= 2 /\ next \in Nat /\ Len(entries) \in Nat
      /\ next <= Len(entries) + 1
      /\ start = NULL \/ start \in 0 .. sz - 2
  BY PlacesAre
<1>2. CASE Collect
  <2>1. pc = "collect" /\ pc' = pc /\ sz' = sz /\ entries' = entries /\ next' = next + 1
    BY <1>2 DEF Collect
  <2> QED BY <1>1, <2>1 DEF TurnsLeft
<1>3. CASE CollectStops \/ CollectEnds
  <2>1. pc = "collect" /\ pc' = "show" /\ sz' = sz /\ start' = start /\ start = 0
    BY <1>3 DEF CollectStops, CollectEnds, IInv
  <2>2. start' # NULL
    BY <2>1 DEF NULL
  <2>3. TurnsLeft = (Len(entries) + 1 - next) + sz + 3 /\ TurnsLeft' = sz - 0 + 1
    BY <2>1, <2>2 DEF TurnsLeft
  <2> QED BY <1>1, <2>3
<1>4. CASE Show
  <2>1. pc = "show" /\ start # NULL /\ pc' = "show" /\ sz' = sz
    BY <1>4 DEF Show
  <2>2. TurnsLeft = sz - start + 1 /\ start \in 0 .. sz - 2
    BY <1>1, <2>1 DEF TurnsLeft
  <2>3. CASE start' = NULL
    <3>1. TurnsLeft' = 1
      BY <2>1, <2>3 DEF TurnsLeft
    <3> QED BY <1>1, <2>2, <3>1
  <2>4. CASE start' # NULL
    <3>1. IInv' /\ start' > start
      BY <1>4, <2>4, ShowKeeps
    <3>2. (start = NULL \/ start \in 0 .. sz - 2)'
      BY <3>1, PlacesAre, PTL
    <3>3. TurnsLeft' = sz - start' + 1 /\ start' \in 0 .. sz - 2
      BY <2>1, <2>4, <3>2 DEF TurnsLeft
    <3>4. sz - start' + 1 < sz - start + 1
      <4>1. start \in Int /\ start' \in Int /\ sz \in Int /\ start' > start
        BY <1>1, <2>2, <3>1, <3>3
      <4> QED BY <4>1, LessIsLeft, Zenon
    <3> QED BY <2>2, <3>3, <3>4, Zenon
  <2> QED BY <2>3, <2>4
<1>5. CASE ShowEnds
  <2>1. pc = "show" /\ start = NULL /\ pc' = "done"
    BY <1>5 DEF ShowEnds
  <2> QED BY <2>1 DEF TurnsLeft
<1> QED BY <1>2, <1>3, <1>4, <1>5 DEF Next

\* ls takes no more turns than a bound it starts with: what remains for LsEnds
\* is that the task runs and that a turn is always possible before the end.
THEOREM LoopsAreBounded == Spec => [](TurnsLeft \in Nat) /\ EveryTurnCounts
BY Invariance, TurnsAreCounted, TurnUsed, PTL DEF Spec, EveryTurnCounts

===============================================================================
