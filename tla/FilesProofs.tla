------------------------------ MODULE FilesProofs ------------------------------
(***************************************************************************)
(* The directory tree, from what each store of create_path_node and        *)
(* create_file_under_node does to the lists up to the tree that            *)
(* file_in_ram_init makes; then descriptors, directories and what programs *)
(* know of them, for any number of tasks and descriptors and any names.    *)
(* Of the tree the second part uses only BootTreeFacts.                    *)
(***************************************************************************)
EXTENDS Files, SequenceTheorems, FiniteSetTheorems, WellFoundedInduction, TLAPS

-----------------------------------------------------------------------------
(* Lists as pointers lead through them.                                    *)

\* A non-empty set of naturals has a least element.
LEMMA LeastElement ==
  ASSUME NEW T, T \subseteq Nat, T # {}
  PROVE  \E x \in T : \A y \in T : x <= y
<1>1. \E x \in T : \A y \in T : ~ (<<y, x>> \in OpToRel(<, Nat))
  BY WFMin, NatLessThanWellFounded
<1>2. PICK x \in T : \A y \in T : ~ (<<y, x>> \in OpToRel(<, Nat))
  BY <1>1
<1>3. \A y \in T : <<y, x>> \in OpToRel(<, Nat) <=> y < x
  BY DEF OpToRel
<1>4. \A y \in T : x <= y
  <2> TAKE y \in T
  <2>1. ~(y < x) /\ x \in Nat /\ y \in Nat
    BY <1>2, <1>3
  <2>2. QED  BY <2>1
<1>5. QED  BY <1>4

\* The pointers lead from first through the structures of s, and then nowhere.
Linked(first, nxt, s) ==
  /\ first = IF s = <<>> THEN NULL ELSE s[1]
  /\ \A i \in 1 .. Len(s) : nxt[s[i]] = IF i = Len(s) THEN NULL ELSE s[i + 1]

\* Following the pointers meets the structures they lead through: the loops of
\* find_end_sibling and its like, of any length.
LEMMA ChainIs ==
  ASSUME NEW N \in Nat, NEW nxt, nxt \in Seq(Nat), Len(nxt) = N,
         NEW s \in Seq(1 .. N), Len(s) <= N,
         NEW first, Linked(first, nxt, s)
  PROVE  Chain(first, nxt) = s
<1> DEFINE Step(f, k) == IF k = 0 THEN first
                         ELSE IF f[k - 1] = NULL THEN NULL ELSE nxt[f[k - 1]]
           P(f) == f = [k \in 0 .. Len(nxt) |-> Step(f, k)]
           g == [k \in 0 .. Len(nxt) |-> IF k < Len(s) THEN s[k + 1] ELSE NULL]
           at == CHOOSE f : P(f)
<1>1. /\ Len(s) \in Nat /\ DOMAIN s = 1 .. Len(s)
      /\ \A i \in 1 .. Len(s) : s[i] \in 1 .. N
  BY LenProperties, ElementOfSeq
<1>2. \A k \in 0 .. N : g[k] = IF k < Len(s) THEN s[k + 1] ELSE NULL
  OBVIOUS
<1>3. g = [k \in 0 .. Len(nxt) |-> g[k]]
  BY Zenon
<1> HIDE DEF g
<1>4. ASSUME NEW k \in 0 .. N PROVE g[k] = Step(g, k)
  <2>1. CASE k = 0
    <3>1. s = <<>> <=> Len(s) = 0
      BY EmptySeq
    <3>2. g[0] = IF 0 < Len(s) THEN s[1] ELSE NULL
      <4>1. 0 \in 0 .. N /\ 0 + 1 = 1
        OBVIOUS
      <4>2. QED  BY <1>2, <4>1
    <3>3. g[0] = first
      <4>1. 0 < Len(s) <=> Len(s) # 0
        BY <1>1
      <4>2. first = IF s = <<>> THEN NULL ELSE s[1]
        BY DEF Linked
      <4>3. QED  BY <3>1, <3>2, <4>1, <4>2
    <3>4. QED  BY <2>1, <3>3
  <2>2. CASE k \in 1 .. N /\ k - 1 < Len(s)
    <3>1. k - 1 \in 0 .. N /\ k \in 1 .. Len(s) /\ (k - 1) + 1 = k /\ k # 0
      BY <1>1, <2>2
    <3>2. g[k - 1] = s[k] /\ s[k] # NULL
      BY <1>1, <1>2, <2>2, <3>1 DEF NULL
    <3>3. nxt[s[k]] = IF k = Len(s) THEN NULL ELSE s[k + 1]
      BY <3>1 DEF Linked
    <3>4. g[k] = IF k < Len(s) THEN s[k + 1] ELSE NULL
      BY <1>2, <2>2
    <3>5. Len(s) \in Nat /\ k \in 1 .. Len(s) => (k < Len(s) <=> k # Len(s))
      OBVIOUS
    <3>6. g[k] = nxt[s[k]]
      BY <1>1, <3>1, <3>3, <3>4, <3>5
    <3>7. QED  BY <3>1, <3>2, <3>6
  <2>3. CASE k \in 1 .. N /\ ~(k - 1 < Len(s))
    <3>1. k - 1 \in 0 .. N /\ ~(k < Len(s)) /\ k # 0
      BY <1>1, <2>3
    <3>2. g[k - 1] = NULL /\ g[k] = NULL
      BY <1>2, <2>3, <3>1
    <3>3. QED  BY <3>1, <3>2
  <2>4. QED  BY <2>1, <2>2, <2>3
<1>5. P(at)
  <2>1. P(g)
    BY <1>3, <1>4
  <2> HIDE DEF P
  <2>2. QED  BY <2>1, Zenon
<1>6. Chain(first, nxt) =
        [k \in 1 .. Cardinality({j \in 0 .. Len(nxt) : at[j] # NULL}) |-> at[k - 1]]
  BY DEF Chain
<1>7. at = [k \in 0 .. Len(nxt) |-> Step(at, k)]
  BY <1>5
<1> HIDE DEF at, P
<1>8. \A k \in 0 .. N : at[k] = g[k]
  <2> DEFINE Bad == {k \in Nat : k <= N /\ at[k] # g[k]}
  <2>1. SUFFICES ASSUME Bad # {} PROVE FALSE
    OBVIOUS
  <2>2. PICK k \in Bad : \A l \in Bad : k <= l
    BY <2>1, LeastElement
  <2>3. at[k] = Step(at, k) /\ g[k] = Step(g, k)
    <3>1. k \in 0 .. N /\ k \in 0 .. Len(nxt)
      BY <2>2
    <3> HIDE DEF Step
    <3>2. at[k] = Step(at, k)
      BY <1>7, <3>1, Zenon
    <3>3. QED  BY <1>4, <3>1, <3>2
  <2>4. k # 0
    BY <2>2, <2>3
  <2>5. k - 1 \in 0 .. N /\ k - 1 \notin Bad
    BY <2>2, <2>4
  <2>6. QED  BY <2>2, <2>3, <2>4, <2>5
<1>9. {j \in 0 .. Len(nxt) : at[j] # NULL} = 0 .. Len(s) - 1
  <2>1. \A k \in 0 .. N : at[k] # NULL <=> k < Len(s)
    <3>1. ASSUME NEW k \in 0 .. N, k < Len(s) PROVE s[k + 1] # NULL
      <4>1. k + 1 \in 1 .. Len(s)
        BY <1>1, <3>1
      <4>2. QED  BY <1>1, <4>1 DEF NULL
    <3>2. QED  BY <1>2, <1>8, <3>1
  <2>2. \A k : k \in 0 .. Len(s) - 1 <=> k \in 0 .. N /\ k < Len(s)
    BY <1>1
  <2>3. QED  BY <2>1, <2>2
<1>10. Cardinality(0 .. Len(s) - 1) = Len(s)
  <2>1. 0 \in Int /\ Len(s) - 1 \in Int /\ (Len(s) - 1) - 0 + 1 = Len(s)
        /\ (0 > Len(s) - 1 <=> Len(s) = 0)
    BY <1>1
  <2>2. QED  BY <2>1, FS_Interval
<1>11. Chain(first, nxt) = [k \in 1 .. Len(s) |-> at[k - 1]]
  BY <1>6, <1>9, <1>10
<1>12. ASSUME NEW k \in 1 .. Len(s) PROVE at[k - 1] = s[k]
  <2>1. k - 1 \in 0 .. N /\ k - 1 < Len(s) /\ (k - 1) + 1 = k
    BY <1>1
  <2>2. QED  BY <1>2, <1>8, <2>1
<1>13. s = [k \in 1 .. Len(s) |-> s[k]]
  BY <1>1, LenProperties
<1>14. QED  BY <1>11, <1>12, <1>13

\* What a sequence with one more element is.
LEMMA Appended ==
  ASSUME NEW S, NEW s \in Seq(S), NEW e \in S
  PROVE  /\ Append(s, e) \in Seq(S) /\ Len(Append(s, e)) = Len(s) + 1
         /\ Append(s, e) # <<>>
         /\ \A i \in 1 .. Len(s) : Append(s, e)[i] = s[i]
         /\ Append(s, e)[Len(s) + 1] = e
BY AppendProperties

\* The structures that belong to d, in the order in which they were made.
Sorted(s, N, owner, d) ==
  /\ s \in Seq(1 .. N)
  /\ \A i, j \in 1 .. Len(s) : i < j => s[i] < s[j]
  /\ \A k \in 1 .. N : owner[k] = d <=> \E i \in 1 .. Len(s) : s[i] = k

\* The numbers up to n are n.
LEMMA NumbersUpTo ==
  ASSUME NEW n \in Nat
  PROVE  IsFiniteSet(1 .. n) /\ Cardinality(1 .. n) = n
<1>1. 1 \in Int /\ n \in Int /\ (IF 1 > n THEN 0 ELSE n - 1 + 1) = n
  OBVIOUS
<1>2. /\ IsFiniteSet(1 .. n)
      /\ Cardinality(1 .. n) = IF 1 > n THEN 0 ELSE n - 1 + 1
  BY <1>1, FS_Interval, Zenon
<1>3. QED  BY <1>1, <1>2

\* There are no more of them than structures.
LEMMA SortedFits ==
  ASSUME NEW N \in Nat, NEW owner, NEW d, NEW s, Sorted(s, N, owner, d)
  PROVE  Len(s) <= N
<1>1. /\ Len(s) \in Nat /\ DOMAIN s = 1 .. Len(s) /\ s \in [1 .. Len(s) -> 1 .. N]
  BY LenProperties DEF Sorted
<1>2. \A i, j \in 1 .. Len(s) : s[i] = s[j] => i = j
  <2>1. \A i, j \in 1 .. Len(s) : i < j => s[i] < s[j]
    BY DEF Sorted
  <2>2. \A i \in 1 .. Len(s) : s[i] \in Nat
    BY <1>1
  <2>3. \A i, j \in 1 .. Len(s) : i < j \/ j < i \/ i = j
    BY <1>1
  <2>4. QED  BY <2>1, <2>2, <2>3
<1>3. s \in Injection(1 .. Len(s), 1 .. N)
  BY <1>1, <1>2 DEF Injection, IsInjective
<1>4. IsFiniteSet(1 .. N) /\ Cardinality(1 .. N) = N
  BY NumbersUpTo
<1>5. Cardinality(1 .. Len(s)) = Len(s)
  BY <1>1, NumbersUpTo
<1>6. QED  BY <1>3, <1>4, <1>5, FS_Injection

\* One structure more, which belongs to d and is linked behind the last of d's.
OneMoreOf(N, owner, d, s, first, nxt, owner2, first2, nxt2) ==
  /\ \A k \in 1 .. N : owner2[k] = owner[k]
  /\ owner2[N + 1] = d
  /\ first2 = IF s = <<>> THEN N + 1 ELSE first
  /\ nxt2 \in Seq(Nat) /\ Len(nxt2) = N + 1 /\ nxt2[N + 1] = NULL
  /\ \A k \in 1 .. N :
       nxt2[k] = IF s # <<>> /\ k = s[Len(s)] THEN N + 1 ELSE nxt[k]

\* Then the pointers lead through the list and the new structure.
LEMMA LinkedAtEnd ==
  ASSUME NEW N \in Nat, NEW owner, NEW d, NEW s, Sorted(s, N, owner, d),
         NEW first, NEW nxt, Linked(first, nxt, s),
         NEW owner2, NEW first2, NEW nxt2,
         OneMoreOf(N, owner, d, s, first, nxt, owner2, first2, nxt2)
  PROVE  /\ Linked(first2, nxt2, Append(s, N + 1))
         /\ Sorted(Append(s, N + 1), N + 1, owner2, d)
         /\ nxt2 \in Seq(Nat) /\ Len(nxt2) = N + 1
<1> /\ \A k \in 1 .. N : owner2[k] = owner[k]
    /\ owner2[N + 1] = d
    /\ first2 = IF s = <<>> THEN N + 1 ELSE first
    /\ nxt2 \in Seq(Nat) /\ Len(nxt2) = N + 1 /\ nxt2[N + 1] = NULL
    /\ \A k \in 1 .. N :
         nxt2[k] = IF s # <<>> /\ k = s[Len(s)] THEN N + 1 ELSE nxt[k]
  BY DEF OneMoreOf
<1> DEFINE s2 == Append(s, N + 1)
<1>1. /\ Len(s) \in Nat /\ s \in Seq(1 .. N + 1) /\ N + 1 \in 1 .. N + 1
      /\ \A i \in 1 .. Len(s) : s[i] \in 1 .. N /\ s[i] # N + 1
  <2>1. s \in Seq(1 .. N) /\ 1 .. N \subseteq 1 .. N + 1
    BY DEF Sorted
  <2>2. Len(s) \in Nat /\ \A i \in 1 .. Len(s) : s[i] \in 1 .. N
    BY <2>1, LenProperties, ElementOfSeq
  <2>3. s \in Seq(1 .. N + 1)
    BY <2>1, SeqMonotonic
  <2>4. QED  BY <2>2, <2>3
<1>2. /\ s2 \in Seq(1 .. N + 1) /\ Len(s2) = Len(s) + 1 /\ s2 # <<>>
      /\ \A i \in 1 .. Len(s) : s2[i] = s[i]
      /\ s2[Len(s) + 1] = N + 1
  <2> DEFINE S == 1 .. N + 1
             e == N + 1
  <2>1. s \in Seq(S) /\ e \in S
    BY <1>1
  <2> HIDE DEF S, e
  <2>2. /\ Append(s, e) \in Seq(S) /\ Len(Append(s, e)) = Len(s) + 1
        /\ Append(s, e) # <<>>
        /\ \A i \in 1 .. Len(s) : Append(s, e)[i] = s[i]
        /\ Append(s, e)[Len(s) + 1] = e
    BY <2>1, Appended
  <2>3. QED  BY <2>2 DEF S, e
<1> HIDE DEF s2
<1>3. \A i, j \in 1 .. Len(s) : i < j => s[i] < s[j]
  BY DEF Sorted
<1>4. first2 = s2[1]
  <2>1. CASE s = <<>>
    <3>1. Len(s) = 0
      BY <2>1, EmptySeq
    <3>2. QED  BY <1>2, <2>1, <3>1
  <2>2. CASE s # <<>>
    <3>1. Len(s) # 0 /\ s \in Seq(1 .. N)
      BY <2>2, EmptySeq DEF Sorted
    <3>2. 1 \in 1 .. Len(s)
      BY <1>1, <3>1
    <3>3. QED  BY <1>2, <2>2, <3>2 DEF Linked
  <2>3. QED  BY <2>1, <2>2
<1>5. ASSUME NEW i \in 1 .. Len(s2)
      PROVE  nxt2[s2[i]] = IF i = Len(s2) THEN NULL ELSE s2[i + 1]
  <2>1. CASE i = Len(s) + 1
    BY <1>2, <2>1
  <2>2. CASE i = Len(s) /\ i # 0
    <3>1. i \in 1 .. Len(s) /\ s # <<>> /\ i # Len(s2) /\ i + 1 = Len(s) + 1
      <4> DEFINE L == Len(s)
      <4>1. L \in Nat /\ Len(s2) = L + 1 /\ i = L /\ L # 0
        BY <1>1, <1>2, <2>2
      <4>2. s # <<>>
        BY <4>1, EmptySeq
      <4> HIDE DEF L
      <4>3. i \in 1 .. L /\ i # L + 1 /\ i + 1 = L + 1
        BY <4>1
      <4>4. QED  BY <4>1, <4>2, <4>3 DEF L
    <3>2. nxt2[s[i]] = N + 1
      BY <1>1, <2>2, <3>1
    <3>3. QED  BY <1>2, <2>2, <3>1, <3>2
  <2>3. CASE i \in 1 .. Len(s) - 1
    <3>1. i \in 1 .. Len(s) /\ i + 1 \in 1 .. Len(s) /\ i # Len(s) /\ i # Len(s2)
          /\ Len(s) \in 1 .. Len(s) /\ i < Len(s)
      <4> DEFINE L == Len(s)
      <4>1. L \in Nat /\ Len(s2) = L + 1 /\ i \in 1 .. L - 1
        BY <1>1, <1>2, <2>3
      <4> HIDE DEF L
      <4>2. /\ i \in 1 .. L /\ i + 1 \in 1 .. L /\ i # L /\ i # L + 1
            /\ L \in 1 .. L /\ i < L
        BY <4>1
      <4>3. QED  BY <4>1, <4>2 DEF L
    <3>2. s[i] \in 1 .. N /\ s[Len(s)] \in 1 .. N /\ s[i] < s[Len(s)]
      BY <1>1, <1>3, <3>1
    <3>3. nxt2[s[i]] = nxt[s[i]]
      <4>1. s[i] # s[Len(s)]
        BY <3>2
      <4>2. QED  BY <3>2, <4>1
    <3>4. nxt[s[i]] = s[i + 1]
      BY <3>1 DEF Linked
    <3>5. QED  BY <1>2, <3>1, <3>3, <3>4
  <2>4. i = Len(s) + 1 \/ (i = Len(s) /\ i # 0) \/ i \in 1 .. Len(s) - 1
    BY <1>1, <1>2
  <2>5. QED  BY <2>1, <2>2, <2>3, <2>4
<1>6. Linked(first2, nxt2, s2)
  BY <1>2, <1>4, <1>5 DEF Linked
<1>7. ASSUME NEW i \in 1 .. Len(s2), NEW j \in 1 .. Len(s2), i < j PROVE s2[i] < s2[j]
  <2>1. i \in 1 .. Len(s) /\ s2[i] = s[i] /\ s[i] \in 1 .. N
    <3> DEFINE L == Len(s)
    <3>1. L \in Nat /\ i \in 1 .. L + 1 /\ j \in 1 .. L + 1
      BY <1>1, <1>2
    <3> HIDE DEF L
    <3>2. i \in 1 .. L
      BY <1>7, <3>1
    <3>3. QED  BY <1>1, <1>2, <3>2 DEF L
  <2>2. CASE j = Len(s) + 1
    BY <1>2, <2>1, <2>2
  <2>3. CASE j \in 1 .. Len(s)
    BY <1>2, <1>3, <1>7, <2>1, <2>3
  <2>4. QED  BY <1>1, <1>2, <2>2, <2>3
<1>8. ASSUME NEW k \in 1 .. N + 1
      PROVE  owner2[k] = d <=> \E i \in 1 .. Len(s2) : s2[i] = k
  <2>1. CASE k = N + 1
    <3>1. Len(s) + 1 \in 1 .. Len(s2)
      BY <1>1, <1>2
    <3>2. QED  BY <1>2, <2>1, <3>1
  <2>2. CASE k \in 1 .. N
    <3>1. owner2[k] = d <=> \E i \in 1 .. Len(s) : s[i] = k
      BY <2>2 DEF Sorted
    <3>2. k # N + 1 /\ \A i : i \in 1 .. Len(s2) <=> i \in 1 .. Len(s) \/ i = Len(s) + 1
      <4> DEFINE L == Len(s)
      <4>1. L \in Nat /\ Len(s2) = L + 1
        BY <1>1, <1>2
      <4> HIDE DEF L
      <4>2. \A i : i \in 1 .. L + 1 <=> i \in 1 .. L \/ i = L + 1
        BY <4>1
      <4>3. k # N + 1
        BY <2>2
      <4>4. QED  BY <4>1, <4>2, <4>3 DEF L
    <3>3. QED  BY <1>2, <3>1, <3>2
  <2>3. QED  BY <2>1, <2>2
<1>9. Sorted(s2, N + 1, owner2, d)
  BY <1>2, <1>7, <1>8 DEF Sorted
<1>10. QED  BY <1>6, <1>9 DEF s2

\* The structures of the others stay as they are.
LEMMA LinkedElsewhere ==
  ASSUME NEW N \in Nat, NEW owner, NEW d, NEW s, Sorted(s, N, owner, d),
         NEW first, NEW nxt, Linked(first, nxt, s),
         NEW owner2, \A k \in 1 .. N : owner2[k] = owner[k],
         owner2[N + 1] # d,
         NEW nxt2, \A k \in 1 .. N : owner[k] = d => nxt2[k] = nxt[k]
  PROVE  Linked(first, nxt2, s) /\ Sorted(s, N + 1, owner2, d)
<1>1. /\ Len(s) \in Nat /\ s \in Seq(1 .. N + 1)
      /\ \A i \in 1 .. Len(s) : s[i] \in 1 .. N /\ s[i] # N + 1 /\ owner[s[i]] = d
  <2>1. s \in Seq(1 .. N) /\ 1 .. N \subseteq 1 .. N + 1
    BY DEF Sorted
  <2>2. Len(s) \in Nat /\ \A i \in 1 .. Len(s) : s[i] \in 1 .. N
    BY <2>1, LenProperties, ElementOfSeq
  <2>3. s \in Seq(1 .. N + 1)
    BY <2>1, SeqMonotonic
  <2>4. \A i \in 1 .. Len(s) : owner[s[i]] = d
    BY <2>2 DEF Sorted
  <2>5. QED  BY <2>2, <2>3, <2>4
<1>2. Linked(first, nxt2, s)
  BY <1>1 DEF Linked
<1>3. ASSUME NEW k \in 1 .. N + 1
      PROVE  owner2[k] = d <=> \E i \in 1 .. Len(s) : s[i] = k
  <2>1. CASE k = N + 1
    BY <1>1, <2>1
  <2>2. CASE k \in 1 .. N
    BY <2>2 DEF Sorted
  <2>3. QED  BY <2>1, <2>2
<1>4. QED  BY <1>1, <1>2, <1>3 DEF Sorted

-----------------------------------------------------------------------------
(* What the calls that build a tree write.                                 *)

\* The values of the structures, for any names.
DirRec(Names) ==
  [name : Names, parent : Nat, firstchild : Nat, next_sibling : Nat, firstfile : Nat]
Types == {"CONSOLE_IN", "CONSOLE_OUT", "TTY0", "IPC"}
Funcs == {"console_read_func", "ipc_read_func", "console_write_func", "ipc_write_func", "NULL"}
FileRec(Names) ==
  [name : Names, parent : Nat, type : Types,
   next_sibling : Nat, list_next : Nat, list_prev : Nat, file_read : Funcs, file_write : Funcs]
Trees(Names) == [dir : Seq(DirRec(Names)), file : Seq(FileRec(Names)), head : Nat]

\* A store to one element of a sequence.
LEMMA StoredAt ==
  ASSUME NEW S, NEW s \in Seq(S), NEW p \in 1 .. Len(s), NEW v \in S
  PROVE  /\ [s EXCEPT ![p] = v] \in Seq(S)
         /\ Len([s EXCEPT ![p] = v]) = Len(s)
         /\ \A i \in 1 .. Len(s) : [s EXCEPT ![p] = v][i] = IF i = p THEN v ELSE s[i]
BY ExceptSeq, LenProperties

\* What create_path_node writes: the new directory, and one pointer to it.
LEMMA PathNodeStores ==
  ASSUME NEW Names, NEW tr \in Trees(Names), NEW p \in 1 .. Len(tr.dir), NEW name \in Names,
         Children(tr, p) \in Seq(1 .. Len(tr.dir))
  PROVE  LET n == Len(tr.dir)
             kids == Children(tr, p)
             new == CreatePathNode(tr, p, name)
         IN  /\ new \in Trees(Names) /\ new.file = tr.file /\ new.head = tr.head
             /\ Len(new.dir) = n + 1 /\ new.dir[n + 1] = Directory(p, name)
             /\ \A i \in 1 .. n :
                  /\ new.dir[i].name = tr.dir[i].name
                  /\ new.dir[i].parent = tr.dir[i].parent
                  /\ new.dir[i].firstfile = tr.dir[i].firstfile
                  /\ new.dir[i].firstchild =
                       IF kids = <<>> /\ i = p THEN n + 1 ELSE tr.dir[i].firstchild
                  /\ new.dir[i].next_sibling =
                       IF kids # <<>> /\ i = kids[Len(kids)] THEN n + 1
                       ELSE tr.dir[i].next_sibling
<1> DEFINE n == Len(tr.dir)
           kids == Children(tr, p)
           D == DirRec(Names)
           more == Append(tr.dir, Directory(p, name))
           last == kids[Len(kids)]
           new == CreatePathNode(tr, p, name)
<1>1. /\ tr.dir \in Seq(D) /\ n \in Nat /\ Directory(p, name) \in D
      /\ \A i \in 1 .. n : tr.dir[i] \in D
  <2>1. tr.dir \in Seq(D)
    BY DEF Trees
  <2>2. n \in Nat /\ \A i \in 1 .. n : tr.dir[i] \in D
    BY <2>1, LenProperties, ElementOfSeq
  <2>3. p \in Nat
    BY <2>2
  <2>4. QED  BY <2>1, <2>2, <2>3 DEF DirRec, Directory, NULL
<1>2. /\ more \in Seq(D) /\ Len(more) = n + 1 /\ more[n + 1] = Directory(p, name)
      /\ \A i \in 1 .. n : more[i] = tr.dir[i]
  BY <1>1, Appended
<1> HIDE DEF more
<1>3. CASE kids = <<>>
  <2> DEFINE r == [more[p] EXCEPT !.firstchild = n + 1]
             dirs == [more EXCEPT ![p] = r]
  <2>1. new = [tr EXCEPT !.dir = dirs]
    BY <1>3 DEF CreatePathNode, more
  <2>2. p \in 1 .. Len(more) /\ n + 1 \in Nat /\ n + 1 # p /\ more[p] = tr.dir[p] /\ tr.dir[p] \in D
    BY <1>1, <1>2
  <2>3. /\ r \in D /\ r.firstchild = n + 1
        /\ r.name = tr.dir[p].name /\ r.parent = tr.dir[p].parent
        /\ r.next_sibling = tr.dir[p].next_sibling /\ r.firstfile = tr.dir[p].firstfile
    BY <2>2 DEF DirRec
  <2> HIDE DEF r
  <2>4. /\ dirs \in Seq(D) /\ Len(dirs) = Len(more)
        /\ \A i \in 1 .. Len(more) : dirs[i] = IF i = p THEN r ELSE more[i]
    <3>1. more \in Seq(D) /\ p \in 1 .. Len(more) /\ r \in D
      BY <1>2, <2>2, <2>3
    <3> HIDE DEF D
    <3>2. QED  BY <3>1, StoredAt
  <2> HIDE DEF dirs
  <2>5. /\ new \in Trees(Names) /\ new.file = tr.file /\ new.head = tr.head
        /\ new.dir = dirs
    BY <2>1, <2>4 DEF Trees
  <2>6. /\ Len(new.dir) = n + 1 /\ new.dir[n + 1] = Directory(p, name)
        /\ \A i \in 1 .. n : new.dir[i] = IF i = p THEN r ELSE tr.dir[i]
    <3>1. n + 1 \in 1 .. n + 1 /\ n + 1 # p /\ \A i \in 1 .. n : i \in 1 .. n + 1
      <4>1. n \in Nat /\ p \in 1 .. n
        BY <1>1
      <4> HIDE DEF n
      <4>2. QED  BY <4>1
    <3>2. Len(dirs) = n + 1 /\ \A i \in 1 .. n + 1 : dirs[i] = IF i = p THEN r ELSE more[i]
      BY <1>2, <2>4
    <3>3. QED  BY <1>2, <2>5, <3>1, <3>2
  <2> HIDE DEF new
  <2>7. \A i \in 1 .. n :
          /\ new.dir[i].name = tr.dir[i].name
          /\ new.dir[i].parent = tr.dir[i].parent
          /\ new.dir[i].firstfile = tr.dir[i].firstfile
          /\ new.dir[i].firstchild = IF i = p THEN n + 1 ELSE tr.dir[i].firstchild
          /\ new.dir[i].next_sibling = tr.dir[i].next_sibling
    BY <2>3, <2>6
  <2>8. QED  BY <1>3, <2>5, <2>6, <2>7 DEF new
<1>4. CASE kids # <<>>
  <2>1. last \in 1 .. n
    <3>1. kids \in Seq(1 .. n) /\ Len(kids) \in Nat /\ Len(kids) # 0
      BY <1>4, EmptySeq, LenProperties
    <3>2. Len(kids) \in 1 .. Len(kids)
      BY <3>1
    <3>3. QED  BY <3>1, <3>2, ElementOfSeq
  <2> DEFINE r == [more[last] EXCEPT !.next_sibling = n + 1]
             dirs == [more EXCEPT ![last] = r]
  <2>2. new = [tr EXCEPT !.dir = dirs]
    BY <1>4 DEF CreatePathNode, more
  <2> HIDE DEF last
  <2>3. /\ last \in 1 .. Len(more) /\ n + 1 \in Nat /\ n + 1 # last
        /\ more[last] = tr.dir[last] /\ tr.dir[last] \in D
    BY <1>1, <1>2, <2>1
  <2>4. /\ r \in D /\ r.next_sibling = n + 1
        /\ r.name = tr.dir[last].name /\ r.parent = tr.dir[last].parent
        /\ r.firstchild = tr.dir[last].firstchild /\ r.firstfile = tr.dir[last].firstfile
    BY <2>3 DEF DirRec
  <2> HIDE DEF r
  <2>5. /\ dirs \in Seq(D) /\ Len(dirs) = Len(more)
        /\ \A i \in 1 .. Len(more) : dirs[i] = IF i = last THEN r ELSE more[i]
    BY <1>2, <2>3, <2>4, StoredAt
  <2> HIDE DEF dirs
  <2>6. /\ new \in Trees(Names) /\ new.file = tr.file /\ new.head = tr.head
        /\ new.dir = dirs
    BY <2>2, <2>5 DEF Trees
  <2>7. /\ Len(new.dir) = n + 1 /\ new.dir[n + 1] = Directory(p, name)
        /\ \A i \in 1 .. n : new.dir[i] = IF i = last THEN r ELSE tr.dir[i]
    <3>1. n + 1 \in 1 .. Len(more) /\ \A i \in 1 .. n : i \in 1 .. Len(more)
      BY <1>1, <1>2
    <3> HIDE DEF n
    <3>2. Len(new.dir) = n + 1 /\ new.dir[n + 1] = Directory(p, name)
      BY <1>2, <2>3, <2>5, <2>6, <3>1
    <3>3. ASSUME NEW i \in 1 .. n PROVE new.dir[i] = IF i = last THEN r ELSE tr.dir[i]
      BY <1>2, <2>5, <2>6, <3>1
    <3>4. QED  BY <3>2, <3>3
  <2> HIDE DEF new
  <2>8. \A i \in 1 .. n :
          /\ new.dir[i].name = tr.dir[i].name
          /\ new.dir[i].parent = tr.dir[i].parent
          /\ new.dir[i].firstfile = tr.dir[i].firstfile
          /\ new.dir[i].firstchild = tr.dir[i].firstchild
          /\ new.dir[i].next_sibling = IF i = last THEN n + 1 ELSE tr.dir[i].next_sibling
    BY <2>4, <2>7
  <2>9. QED  BY <1>4, <2>6, <2>7, <2>8 DEF new, last
<1>5. QED  BY <1>3, <1>4

\* The list of all files is in the order in which they were made.
InOrder(t, m) ==
  /\ t.head = IF m = 0 THEN NULL ELSE 1
  /\ \A i \in 1 .. m : t.file[i].list_next = IF i = m THEN NULL ELSE i + 1

\* Then the list is all the files, by their numbers.
LEMMA FileListIs ==
  ASSUME NEW Names, NEW t \in Trees(Names), NEW m \in Nat, m <= Len(t.file), InOrder(t, m)
  PROVE  /\ FileList(t) = [i \in 1 .. m |-> i]
         /\ FileList(t) \in Seq(1 .. Len(t.file)) /\ Len(FileList(t)) = m
<1> DEFINE N == Len(t.file)
           nxt == NextInList(t)
           s == [i \in 1 .. m |-> i]
<1>1. t.file \in Seq(FileRec(Names)) /\ N \in Nat /\ DOMAIN t.file = 1 .. N
      /\ \A i \in 1 .. N : t.file[i] \in FileRec(Names)
  <2>1. t.file \in Seq(FileRec(Names))
    BY DEF Trees
  <2>2. QED  BY <2>1, LenProperties, ElementOfSeq
<1>2. nxt = [i \in 1 .. N |-> t.file[i].list_next]
  BY <1>1 DEF NextInList
<1>3. \A i \in 1 .. N : t.file[i].list_next \in Nat
  BY <1>1 DEF FileRec
<1>4. nxt \in Seq(Nat) /\ Len(nxt) = N
  <2>1. nxt \in [1 .. N -> Nat]
    BY <1>2, <1>3
  <2>2. QED  BY <1>1, <2>1
<1>5. s \in Seq(1 .. N) /\ Len(s) = m
  <2>1. s \in [1 .. m -> 1 .. N]
    BY <1>1
  <2>2. QED  BY <2>1
<1>6. Linked(t.head, nxt, s)
  <2>1. s = <<>> <=> m = 0
    BY <1>5, EmptySeq
  <2>2. m # 0 => 1 \in 1 .. m
    OBVIOUS
  <2>3. t.head = IF s = <<>> THEN NULL ELSE s[1]
    BY <2>1, <2>2 DEF InOrder
  <2>4. ASSUME NEW i \in 1 .. m PROVE nxt[s[i]] = IF i = m THEN NULL ELSE s[i + 1]
    <3>1. i \in 1 .. N /\ (i # m => i + 1 \in 1 .. m)
      BY <1>1
    <3>2. QED  BY <1>2, <3>1 DEF InOrder
  <2>5. QED  BY <1>5, <2>3, <2>4 DEF Linked
<1> HIDE DEF s, nxt, N
<1>7. Chain(t.head, nxt) = s
  BY <1>1, <1>4, <1>5, <1>6, ChainIs DEF N
<1>8. QED  BY <1>5, <1>7 DEF FileList, s, nxt, N

\* The fields of a file that the lists do not use.
SameFile(x, y) ==
  /\ x.name = y.name /\ x.parent = y.parent /\ x.type = y.type
  /\ x.file_read = y.file_read /\ x.file_write = y.file_write

\* What file_list_push writes: the two pointers between the last two files.
LEMMA FilePushed ==
  ASSUME NEW Names, NEW t \in Trees(Names), NEW m \in Nat, Len(t.file) = m + 1, InOrder(t, m)
  PROVE  LET new == FileListPush(t, m + 1)
         IN  /\ new \in Trees(Names) /\ new.dir = t.dir /\ new.head = 1
             /\ Len(new.file) = m + 1
             /\ \A i \in 1 .. m + 1 :
                  /\ SameFile(new.file[i], t.file[i])
                  /\ new.file[i].next_sibling = t.file[i].next_sibling
                  /\ new.file[i].list_next =
                       IF i = m THEN m + 1 ELSE t.file[i].list_next
                  /\ new.file[i].list_prev =
                       IF m # 0 /\ i = m + 1 THEN m ELSE t.file[i].list_prev
<1> DEFINE F == FileRec(Names)
           all == FileList(t)
           new == FileListPush(t, m + 1)
<1>1. /\ t.file \in Seq(F) /\ \A i \in 1 .. m + 1 : t.file[i] \in F
  <2>1. t.file \in Seq(F)
    BY DEF Trees
  <2>2. QED  BY <2>1, ElementOfSeq
<1>2. all = [i \in 1 .. m |-> i] /\ Len(all) = m /\ (all = <<>> <=> m = 0)
  <2>1. m <= Len(t.file)
    OBVIOUS
  <2>2. all = [i \in 1 .. m |-> i] /\ all \in Seq(1 .. Len(t.file)) /\ Len(all) = m
    BY <2>1, FileListIs
  <2>3. QED  BY <2>2, EmptySeq
<1>3. CASE m = 0
  <2>1. new = [t EXCEPT !.head = m + 1]
    BY <1>2, <1>3 DEF FileListPush
  <2>2. new \in Trees(Names) /\ new.dir = t.dir /\ new.head = 1 /\ new.file = t.file
    BY <1>3, <2>1 DEF Trees
  <2>3. \A i \in 1 .. m + 1 : i # m
    BY <1>3
  <2> HIDE DEF new
  <2>4. QED  BY <1>3, <2>2, <2>3 DEF new, SameFile
<1>4. CASE m # 0
  <2> DEFINE r == [t.file[m] EXCEPT !.list_next = m + 1]
             files == [t.file EXCEPT ![m] = r]
             q == [files[m + 1] EXCEPT !.list_prev = m]
             both == [files EXCEPT ![m + 1] = q]
  <2>1. all[Len(all)] = m /\ m \in 1 .. m + 1 /\ m + 1 \in 1 .. m + 1 /\ m # m + 1
        /\ m + 1 \in Nat
    BY <1>2, <1>4
  <2>2. new = [t EXCEPT !.file[m].list_next = m + 1, !.file[m + 1].list_prev = m]
    BY <1>2, <1>4, <2>1, Zenon DEF FileListPush
  <2>3. [t EXCEPT !.file[m].list_next = m + 1, !.file[m + 1].list_prev = m]
          = [t EXCEPT !.file = both]
    BY DEF Trees
  <2>4. /\ r \in F /\ r.list_next = m + 1 /\ SameFile(r, t.file[m])
        /\ r.next_sibling = t.file[m].next_sibling /\ r.list_prev = t.file[m].list_prev
    BY <1>1, <2>1 DEF FileRec, SameFile
  <2> HIDE DEF r
  <2>5. /\ files \in Seq(F) /\ Len(files) = m + 1
        /\ \A i \in 1 .. m + 1 : files[i] = IF i = m THEN r ELSE t.file[i]
    BY <1>1, <2>1, <2>4, StoredAt
  <2> HIDE DEF files
  <2>6. /\ q \in F /\ q.list_prev = m /\ SameFile(q, t.file[m + 1])
        /\ q.next_sibling = t.file[m + 1].next_sibling
        /\ q.list_next = t.file[m + 1].list_next
    <3>1. files[m + 1] = t.file[m + 1] /\ t.file[m + 1] \in F
      BY <1>1, <2>1, <2>5
    <3>2. QED  BY <2>1, <3>1 DEF FileRec, SameFile
  <2> HIDE DEF q
  <2>7. /\ both \in Seq(F) /\ Len(both) = m + 1
        /\ \A i \in 1 .. m + 1 : both[i] = IF i = m + 1 THEN q ELSE files[i]
    BY <2>1, <2>5, <2>6, StoredAt
  <2> HIDE DEF both, F, new
  <2>8. new = [t EXCEPT !.file = both]
    BY <2>2, <2>3
  <2>9. new \in Trees(Names) /\ new.dir = t.dir /\ new.head = t.head /\ new.file = both
    BY <2>7, <2>8 DEF Trees, F
  <2>10. t.head = 1
    BY <1>4 DEF InOrder
  <2>11. ASSUME NEW i \in 1 .. m + 1
         PROVE  /\ SameFile(new.file[i], t.file[i])
                /\ new.file[i].next_sibling = t.file[i].next_sibling
                /\ new.file[i].list_next = IF i = m THEN m + 1 ELSE t.file[i].list_next
                /\ new.file[i].list_prev = IF m # 0 /\ i = m + 1 THEN m ELSE t.file[i].list_prev
    <3>1. CASE i = m
      <4>1. new.file[i] = r
        BY <2>1, <2>5, <2>7, <2>9, <3>1
      <4>2. QED  BY <2>1, <2>4, <3>1, <4>1
    <3>2. CASE i = m + 1
      <4>1. new.file[i] = q
        BY <2>1, <2>7, <2>9, <3>2
      <4>2. QED  BY <1>4, <2>1, <2>6, <3>2, <4>1
    <3>3. CASE i # m /\ i # m + 1
      <4>1. new.file[i] = t.file[i]
        BY <2>5, <2>7, <2>9, <3>3
      <4>2. QED  BY <3>3, <4>1 DEF SameFile
    <3>4. QED  BY <3>1, <3>2, <3>3
  <2>12. QED  BY <2>7, <2>9, <2>10, <2>11 DEF new
<1>5. QED  BY <1>3, <1>4

\* The new file, before it is in the list of all files.
NewFile(d, name, type) ==
  [name |-> name, parent |-> d, type |-> type,
   next_sibling |-> NULL, list_next |-> NULL, list_prev |-> NULL,
   file_read |-> FileRead(type), file_write |-> FileWrite(type)]

\* What create_file_under_node writes: the new file, the pointer to it from its
\* directory or its sibling, and those of the list.
LEMMA FileNodeStores ==
  ASSUME NEW Names, NEW tr \in Trees(Names), NEW d \in 1 .. Len(tr.dir), NEW name \in Names,
         NEW type \in Types,
         FilesIn(tr, d) \in Seq(1 .. Len(tr.file)), InOrder(tr, Len(tr.file))
  PROVE  LET n == Len(tr.dir)
             m == Len(tr.file)
             here == FilesIn(tr, d)
             new == CreateFileUnderNode(tr, d, name, type)
         IN  /\ new \in Trees(Names) /\ new.head = 1
             /\ Len(new.dir) = n /\ Len(new.file) = m + 1
             /\ \A i \in 1 .. n :
                  /\ new.dir[i].name = tr.dir[i].name
                  /\ new.dir[i].parent = tr.dir[i].parent
                  /\ new.dir[i].firstchild = tr.dir[i].firstchild
                  /\ new.dir[i].next_sibling = tr.dir[i].next_sibling
                  /\ new.dir[i].firstfile =
                       IF here = <<>> /\ i = d THEN m + 1 ELSE tr.dir[i].firstfile
             /\ \A i \in 1 .. m :
                  /\ SameFile(new.file[i], tr.file[i])
                  /\ new.file[i].list_next = i + 1
                  /\ new.file[i].list_prev = tr.file[i].list_prev
                  /\ new.file[i].next_sibling =
                       IF here # <<>> /\ i = here[Len(here)] THEN m + 1
                       ELSE tr.file[i].next_sibling
             /\ SameFile(new.file[m + 1], NewFile(d, name, type))
             /\ new.file[m + 1].next_sibling = NULL
             /\ new.file[m + 1].list_next = NULL
             /\ new.file[m + 1].list_prev = m
<1> DEFINE n == Len(tr.dir)
           m == Len(tr.file)
           here == FilesIn(tr, d)
           D == DirRec(Names)
           F == FileRec(Names)
           node == NewFile(d, name, type)
           files == Append(tr.file, node)
           more == [tr EXCEPT !.file = files]
           last == here[Len(here)]
           mid == IF here = <<>> THEN [more EXCEPT !.dir[d].firstfile = m + 1]
                  ELSE [more EXCEPT !.file[last].next_sibling = m + 1]
           new == CreateFileUnderNode(tr, d, name, type)
<1>1. new = FileListPush(mid, m + 1)
  BY DEF CreateFileUnderNode, NewFile
<1>2. /\ tr.dir \in Seq(D) /\ tr.file \in Seq(F) /\ n \in Nat /\ m \in Nat
      /\ \A i \in 1 .. n : tr.dir[i] \in D
      /\ \A i \in 1 .. m : tr.file[i] \in F
  <2>1. tr.dir \in Seq(D) /\ tr.file \in Seq(F)
    BY DEF Trees
  <2>2. QED  BY <2>1, LenProperties, ElementOfSeq
<1>3. node \in F
  <2>1. d \in Nat
    BY <1>2
  <2>2. FileRead(type) \in Funcs /\ FileWrite(type) \in Funcs
    BY DEF FileRead, FileWrite, Types, Funcs
  <2>3. QED  BY <2>1, <2>2 DEF FileRec, NewFile, NULL
<1>4. /\ files \in Seq(F) /\ Len(files) = m + 1 /\ files[m + 1] = node
      /\ \A i \in 1 .. m : files[i] = tr.file[i]
  BY <1>2, <1>3, Appended
<1> HIDE DEF files, node
<1>5. more \in Trees(Names) /\ more.dir = tr.dir /\ more.file = files /\ more.head = tr.head
  BY <1>4 DEF Trees
<1> HIDE DEF more
<1>6. /\ mid \in Trees(Names) /\ mid.head = tr.head
      /\ Len(mid.dir) = n /\ Len(mid.file) = m + 1
      /\ \A i \in 1 .. n :
           /\ mid.dir[i].name = tr.dir[i].name
           /\ mid.dir[i].parent = tr.dir[i].parent
           /\ mid.dir[i].firstchild = tr.dir[i].firstchild
           /\ mid.dir[i].next_sibling = tr.dir[i].next_sibling
           /\ mid.dir[i].firstfile =
                IF here = <<>> /\ i = d THEN m + 1 ELSE tr.dir[i].firstfile
      /\ \A i \in 1 .. m + 1 :
           /\ SameFile(mid.file[i], files[i])
           /\ mid.file[i].list_next = files[i].list_next
           /\ mid.file[i].list_prev = files[i].list_prev
           /\ mid.file[i].next_sibling =
                IF here # <<>> /\ i = last THEN m + 1 ELSE files[i].next_sibling
  <2>1. CASE here = <<>>
    <3> DEFINE r == [tr.dir[d] EXCEPT !.firstfile = m + 1]
               dirs == [tr.dir EXCEPT ![d] = r]
    <3>1. mid = [more EXCEPT !.dir[d].firstfile = m + 1]
      BY <2>1
    <3>2. mid = [more EXCEPT !.dir = dirs]
      BY <1>5, <3>1
    <3>3. /\ r \in D /\ r.firstfile = m + 1
          /\ r.name = tr.dir[d].name /\ r.parent = tr.dir[d].parent
          /\ r.firstchild = tr.dir[d].firstchild /\ r.next_sibling = tr.dir[d].next_sibling
      <4>1. tr.dir[d] \in D /\ m + 1 \in Nat
        BY <1>2
      <4> HIDE DEF m
      <4>2. QED  BY <4>1 DEF DirRec
    <3> HIDE DEF r
    <3>4. /\ dirs \in Seq(D) /\ Len(dirs) = n
          /\ \A i \in 1 .. n : dirs[i] = IF i = d THEN r ELSE tr.dir[i]
      BY <1>2, <3>3, StoredAt
    <3> HIDE DEF dirs, mid, D, F
    <3>5. mid \in Trees(Names) /\ mid.head = tr.head /\ mid.file = files /\ mid.dir = dirs
      BY <1>5, <3>2, <3>4 DEF Trees, D, F
    <3>6. ASSUME NEW i \in 1 .. n
          PROVE  /\ mid.dir[i].name = tr.dir[i].name
                 /\ mid.dir[i].parent = tr.dir[i].parent
                 /\ mid.dir[i].firstchild = tr.dir[i].firstchild
                 /\ mid.dir[i].next_sibling = tr.dir[i].next_sibling
                 /\ mid.dir[i].firstfile = IF i = d THEN m + 1 ELSE tr.dir[i].firstfile
      BY <3>3, <3>4, <3>5
    <3>7. QED  BY <1>4, <2>1, <3>4, <3>5, <3>6 DEF SameFile
  <2>2. CASE here # <<>>
    <3>1. last \in 1 .. m
      <4>1. here \in Seq(1 .. m) /\ Len(here) \in Nat /\ Len(here) # 0
        BY <2>2, EmptySeq, LenProperties
      <4>2. Len(here) \in 1 .. Len(here)
        BY <4>1
      <4>3. QED  BY <4>1, <4>2, ElementOfSeq
    <3> DEFINE r == [files[last] EXCEPT !.next_sibling = m + 1]
               linked == [files EXCEPT ![last] = r]
    <3>2. mid = [more EXCEPT !.file[last].next_sibling = m + 1]
      BY <2>2
    <3> HIDE DEF last, here
    <3>3. mid = [more EXCEPT !.file = linked]
      BY <1>5, <3>2
    <3>4. last \in 1 .. Len(files) /\ files[last] \in F /\ m + 1 \in Nat
      BY <1>2, <1>4, <3>1
    <3>5. /\ r \in F /\ r.next_sibling = m + 1 /\ SameFile(r, files[last])
          /\ r.list_next = files[last].list_next /\ r.list_prev = files[last].list_prev
      BY <3>4 DEF FileRec, SameFile
    <3> HIDE DEF r
    <3>6. /\ linked \in Seq(F) /\ Len(linked) = m + 1
          /\ \A i \in 1 .. m + 1 : linked[i] = IF i = last THEN r ELSE files[i]
      BY <1>4, <3>4, <3>5, StoredAt
    <3> HIDE DEF linked, mid, D, F
    <3>7. mid \in Trees(Names) /\ mid.head = tr.head /\ mid.file = linked /\ mid.dir = tr.dir
      BY <1>5, <3>3, <3>6 DEF Trees, D, F
    <3>8. ASSUME NEW i \in 1 .. m + 1
          PROVE  /\ SameFile(mid.file[i], files[i])
                 /\ mid.file[i].list_next = files[i].list_next
                 /\ mid.file[i].list_prev = files[i].list_prev
                 /\ mid.file[i].next_sibling =
                      IF i = last THEN m + 1 ELSE files[i].next_sibling
      <4>1. CASE i = last
        BY <3>5, <3>6, <3>7, <4>1
      <4>2. CASE i # last
        BY <3>6, <3>7, <4>2 DEF SameFile
      <4>3. QED  BY <4>1, <4>2
    <3>9. QED  BY <1>2, <2>2, <3>6, <3>7, <3>8 DEF n
  <2>3. QED  BY <2>1, <2>2
<1> HIDE DEF mid, new, here, last
<1>7. \A i \in 1 .. m : i \in 1 .. m + 1 /\ i # m + 1 /\ m + 1 \in 1 .. m + 1
  BY <1>2
<1>8. InOrder(mid, m)
  <2>1. \A i \in 1 .. m : mid.file[i].list_next = tr.file[i].list_next
    BY <1>4, <1>6, <1>7
  <2>2. QED  BY <1>6, <2>1 DEF InOrder
<1>9. /\ new \in Trees(Names) /\ new.dir = mid.dir /\ new.head = 1
      /\ Len(new.file) = m + 1
      /\ \A i \in 1 .. m + 1 :
           /\ SameFile(new.file[i], mid.file[i])
           /\ new.file[i].next_sibling = mid.file[i].next_sibling
           /\ new.file[i].list_next = IF i = m THEN m + 1 ELSE mid.file[i].list_next
           /\ new.file[i].list_prev = IF m # 0 /\ i = m + 1 THEN m ELSE mid.file[i].list_prev
  <2> DEFINE pushed == FileListPush(mid, m + 1)
  <2>1. mid \in Trees(Names) /\ m \in Nat /\ Len(mid.file) = m + 1 /\ InOrder(mid, m)
    BY <1>2, <1>6, <1>8
  <2>2. new = pushed
    BY <1>1
  <2> HIDE DEF m
  <2>3. /\ pushed \in Trees(Names) /\ pushed.dir = mid.dir /\ pushed.head = 1
        /\ Len(pushed.file) = m + 1
        /\ \A i \in 1 .. m + 1 :
             /\ SameFile(pushed.file[i], mid.file[i])
             /\ pushed.file[i].next_sibling = mid.file[i].next_sibling
             /\ pushed.file[i].list_next = IF i = m THEN m + 1 ELSE mid.file[i].list_next
             /\ pushed.file[i].list_prev =
                  IF m # 0 /\ i = m + 1 THEN m ELSE mid.file[i].list_prev
    BY <2>1, FilePushed
  <2> HIDE DEF pushed
  <2>4. QED  BY <2>2, <2>3
<1>10. m \notin 1 .. m => m = 0
  BY <1>2
<1>11. ASSUME NEW i \in 1 .. m
       PROVE  /\ SameFile(new.file[i], tr.file[i])
              /\ new.file[i].list_next = i + 1
              /\ new.file[i].list_prev = tr.file[i].list_prev
              /\ new.file[i].next_sibling =
                   IF here # <<>> /\ i = last THEN m + 1 ELSE tr.file[i].next_sibling
  <2>1. i \in 1 .. m + 1 /\ i # m + 1 /\ files[i] = tr.file[i]
    BY <1>4, <1>7
  <2>2. tr.file[i].list_next = IF i = m THEN NULL ELSE i + 1
    BY DEF InOrder
  <2> HIDE DEF m
  <2>3. SameFile(new.file[i], tr.file[i])
    BY <1>6, <1>9, <2>1 DEF SameFile
  <2>4. new.file[i].list_next = i + 1
    BY <1>6, <1>9, <2>1, <2>2
  <2>5. new.file[i].list_prev = tr.file[i].list_prev
    BY <1>6, <1>9, <2>1
  <2>6. new.file[i].next_sibling =
          IF here # <<>> /\ i = last THEN m + 1 ELSE tr.file[i].next_sibling
    BY <1>6, <1>9, <2>1
  <2>7. QED  BY <2>3, <2>4, <2>5, <2>6
<1>12. /\ SameFile(new.file[m + 1], node)
       /\ new.file[m + 1].next_sibling = NULL
       /\ new.file[m + 1].list_next = NULL
       /\ new.file[m + 1].list_prev = m
  <2>1. m + 1 \in 1 .. m + 1 /\ m + 1 # m
    BY <1>2
  <2>2. here # <<>> => last # m + 1
    <3>1. SUFFICES ASSUME here # <<>> PROVE last \in 1 .. m
      BY <1>7
    <3>2. here \in Seq(1 .. m) /\ Len(here) \in Nat /\ Len(here) # 0
      BY <3>1, EmptySeq, LenProperties DEF here
    <3>3. Len(here) \in 1 .. Len(here)
      BY <3>2
    <3>4. QED  BY <3>2, <3>3, ElementOfSeq DEF last
  <2>3. node.next_sibling = NULL /\ node.list_next = NULL /\ node.list_prev = NULL
    BY DEF node, NewFile
  <2> HIDE DEF m
  <2>4. SameFile(new.file[m + 1], node)
    BY <1>4, <1>6, <1>9, <2>1 DEF SameFile
  <2>5. new.file[m + 1].next_sibling = NULL
    BY <1>4, <1>6, <1>9, <2>1, <2>2, <2>3
  <2>6. new.file[m + 1].list_next = NULL
    BY <1>4, <1>6, <1>9, <2>1, <2>3
  <2>7. new.file[m + 1].list_prev = m
    BY <1>4, <1>6, <1>9, <2>1, <2>3 DEF NULL
  <2>8. QED  BY <2>4, <2>5, <2>6, <2>7
<1>13. QED
  BY <1>6, <1>9, <1>11, <1>12 DEF new, node, here, last

-----------------------------------------------------------------------------
(* Well-formed trees, and that the calls keep them so.                     *)

\* The list of d is what its pointers lead through.
Listed(first, nxt, N, owner, d) ==
  /\ Linked(first, nxt, Chain(first, nxt))
  /\ Sorted(Chain(first, nxt), N, owner, d)

\* A list that the pointers lead through is the one that is met.
LEMMA ListedIs ==
  ASSUME NEW N \in Nat, NEW nxt, nxt \in Seq(Nat), Len(nxt) = N, NEW owner, NEW d,
         NEW first, NEW s, Linked(first, nxt, s), Sorted(s, N, owner, d)
  PROVE  Chain(first, nxt) = s /\ Listed(first, nxt, N, owner, d)
<1>1. Len(s) <= N
  BY SortedFits
<1> s \in Seq(1 .. N)
  BY DEF Sorted
<1>2. Chain(first, nxt) = s
  BY <1>1, ChainIs
<1>3. QED  BY <1>2 DEF Listed

\* A new last structure makes the list longer by itself.
LEMMA ListedAtEnd ==
  ASSUME NEW N \in Nat, NEW owner, NEW d, NEW first, NEW nxt, Listed(first, nxt, N, owner, d),
         NEW owner2, NEW first2, NEW nxt2,
         OneMoreOf(N, owner, d, Chain(first, nxt), first, nxt, owner2, first2, nxt2)
  PROVE  /\ Listed(first2, nxt2, N + 1, owner2, d)
         /\ Chain(first2, nxt2) = Append(Chain(first, nxt), N + 1)
<1> DEFINE s == Chain(first, nxt)
<1>1. Linked(first, nxt, s) /\ Sorted(s, N, owner, d)
  BY DEF Listed
<1>2. OneMoreOf(N, owner, d, s, first, nxt, owner2, first2, nxt2)
  OBVIOUS
<1> HIDE DEF s
<1>3. /\ Linked(first2, nxt2, Append(s, N + 1))
      /\ Sorted(Append(s, N + 1), N + 1, owner2, d)
      /\ nxt2 \in Seq(Nat) /\ Len(nxt2) = N + 1
  BY <1>1, <1>2, LinkedAtEnd
<1>4. N + 1 \in Nat
  OBVIOUS
<1> DEFINE more == Append(s, N + 1)
           M == N + 1
<1>5. Linked(first2, nxt2, more) /\ Sorted(more, M, owner2, d) /\ M \in Nat /\ Len(nxt2) = M
  BY <1>3, <1>4
<1> HIDE DEF more, M
<1>6. Chain(first2, nxt2) = more /\ Listed(first2, nxt2, M, owner2, d)
  BY <1>3, <1>5, ListedIs
<1>7. QED  BY <1>6 DEF s, more, M

\* One structure more, which is not of d; the pointers in its list stay.
OneMoreElsewhere(N, owner, d, nxt, owner2, nxt2) ==
  /\ \A k \in 1 .. N : owner2[k] = owner[k]
  /\ owner2[N + 1] # d
  /\ nxt2 \in Seq(Nat) /\ Len(nxt2) = N + 1
  /\ \A k \in 1 .. N : owner[k] = d => nxt2[k] = nxt[k]

\* Then its list stays.
LEMMA ListedElsewhere ==
  ASSUME NEW N \in Nat, NEW owner, NEW d, NEW first, NEW nxt, Listed(first, nxt, N, owner, d),
         NEW owner2, NEW nxt2, OneMoreElsewhere(N, owner, d, nxt, owner2, nxt2)
  PROVE  /\ Listed(first, nxt2, N + 1, owner2, d)
         /\ Chain(first, nxt2) = Chain(first, nxt)
<1> DEFINE s == Chain(first, nxt)
<1>1. Linked(first, nxt, s) /\ Sorted(s, N, owner, d)
  BY DEF Listed
<1> HIDE DEF s
<1>2. Linked(first, nxt2, s) /\ Sorted(s, N + 1, owner2, d)
  BY <1>1, LinkedElsewhere DEF OneMoreElsewhere
<1> DEFINE M == N + 1
<1>3. M \in Nat /\ nxt2 \in Seq(Nat) /\ Len(nxt2) = M
  BY DEF OneMoreElsewhere
<1>4. Linked(first, nxt2, s) /\ Sorted(s, M, owner2, d)
  BY <1>2
<1> HIDE DEF M
<1>5. Chain(first, nxt2) = s /\ Listed(first, nxt2, M, owner2, d)
  BY <1>3, <1>4, ListedIs
<1>6. QED  BY <1>5 DEF s, M

\* Without structures of d, NULL is its list.
LEMMA ListedNone ==
  ASSUME NEW N \in Nat, NEW owner, NEW d, NEW nxt, nxt \in Seq(Nat), Len(nxt) = N,
         \A k \in 1 .. N : owner[k] # d
  PROVE  Listed(NULL, nxt, N, owner, d) /\ Chain(NULL, nxt) = <<>>
<1>1. <<>> \in Seq(1 .. N) /\ Len(<<>>) = 0 /\ 1 .. 0 = {}
  OBVIOUS
<1>2. Linked(NULL, nxt, <<>>) /\ Sorted(<<>>, N, owner, d)
  BY <1>1 DEF Linked, Sorted
<1>3. QED  BY <1>2, ListedIs

\* In which directory a file is.
DirOfFile(t) == [f \in DOMAIN t.file |-> t.file[f].parent]

\* The pointers of one kind are as many as the structures.
LEMMA PointersOf ==
  ASSUME NEW Names, NEW t \in Trees(Names)
  PROVE  /\ Len(t.dir) \in Nat /\ Len(t.file) \in Nat
         /\ NextDir(t) \in Seq(Nat) /\ Len(NextDir(t)) = Len(t.dir)
         /\ ParentDir(t) \in Seq(Nat) /\ Len(ParentDir(t)) = Len(t.dir)
         /\ NextFile(t) \in Seq(Nat) /\ Len(NextFile(t)) = Len(t.file)
         /\ \A i \in 1 .. Len(t.dir) :
              NextDir(t)[i] = t.dir[i].next_sibling /\ ParentDir(t)[i] = t.dir[i].parent
         /\ \A i \in 1 .. Len(t.file) :
              NextFile(t)[i] = t.file[i].next_sibling /\ DirOfFile(t)[i] = t.file[i].parent
<1>1. /\ Len(t.dir) \in Nat /\ DOMAIN t.dir = 1 .. Len(t.dir)
      /\ Len(t.file) \in Nat /\ DOMAIN t.file = 1 .. Len(t.file)
      /\ \A i \in 1 .. Len(t.dir) : t.dir[i] \in DirRec(Names)
      /\ \A i \in 1 .. Len(t.file) : t.file[i] \in FileRec(Names)
  <2>1. t.dir \in Seq(DirRec(Names)) /\ t.file \in Seq(FileRec(Names))
    BY DEF Trees
  <2>2. QED  BY <2>1, LenProperties, ElementOfSeq
<1>2. \A i \in 1 .. Len(t.dir) : t.dir[i].next_sibling \in Nat /\ t.dir[i].parent \in Nat
  BY <1>1 DEF DirRec
<1>3. \A i \in 1 .. Len(t.file) : t.file[i].next_sibling \in Nat
  BY <1>1 DEF FileRec
<1>4. ASSUME NEW g, NEW n \in Nat, g \in [1 .. n -> Nat] PROVE g \in Seq(Nat) /\ Len(g) = n
  BY <1>4
<1>5. /\ NextDir(t) \in [1 .. Len(t.dir) -> Nat]
      /\ ParentDir(t) \in [1 .. Len(t.dir) -> Nat]
      /\ NextFile(t) \in [1 .. Len(t.file) -> Nat]
  BY <1>1, <1>2, <1>3 DEF NextDir, ParentDir, NextFile
<1>6. /\ \A i \in 1 .. Len(t.dir) :
           NextDir(t)[i] = t.dir[i].next_sibling /\ ParentDir(t)[i] = t.dir[i].parent
      /\ \A i \in 1 .. Len(t.file) :
           NextFile(t)[i] = t.file[i].next_sibling /\ DirOfFile(t)[i] = t.file[i].parent
  BY <1>1 DEF NextDir, ParentDir, NextFile, DirOfFile
<1>7. QED  BY <1>1, <1>4, <1>5, <1>6

\* The way up from a directory, to where a pointer is NULL.
Upward(t, d) ==
  /\ Linked(d, ParentDir(t), Chain(d, ParentDir(t)))
  /\ Chain(d, ParentDir(t)) \in Seq(1 .. Len(t.dir))
  /\ Len(Chain(d, ParentDir(t))) <= Len(t.dir)

\* A tree in which every list is what it should be.
WellFormed(Names, t) ==
  /\ t \in Trees(Names)
  /\ \A d \in 1 .. Len(t.dir) :
       /\ Listed(t.dir[d].firstchild, NextDir(t), Len(t.dir), ParentDir(t), d)
       /\ Listed(t.dir[d].firstfile, NextFile(t), Len(t.file), DirOfFile(t), d)
       /\ Upward(t, d)
  /\ InOrder(t, Len(t.file))
  /\ \A f \in 1 .. Len(t.file) :
       t.file[f].list_prev = f - 1 /\ t.file[f].parent \in 1 .. Len(t.dir)

\* The way up from the others stays as it is, and that from a new directory
\* goes through its parent.
LEMMA UpwardStays ==
  ASSUME NEW N \in Nat, NEW nxt, NEW first, NEW s \in Seq(1 .. N), Len(s) <= N,
         Linked(first, nxt, s),
         NEW nxt2 \in Seq(Nat), Len(nxt2) = N + 1, \A k \in 1 .. N : nxt2[k] = nxt[k]
  PROVE  /\ Linked(first, nxt2, s) /\ Chain(first, nxt2) = s
         /\ s \in Seq(1 .. N + 1) /\ Len(s) <= N + 1
<1>1. Len(s) \in Nat /\ \A i \in 1 .. Len(s) : s[i] \in 1 .. N
  BY LenProperties, ElementOfSeq
<1>2. Linked(first, nxt2, s)
  BY <1>1 DEF Linked
<1>3. s \in Seq(1 .. N + 1)
  <2>1. 1 .. N \subseteq 1 .. N + 1
    OBVIOUS
  <2>2. QED  BY <2>1, SeqMonotonic
<1>4. N + 1 \in Nat /\ Len(s) <= N + 1
  BY <1>1
<1> DEFINE M == N + 1
<1>5. M \in Nat /\ s \in Seq(1 .. M) /\ Len(s) <= M /\ Len(nxt2) = M
  BY <1>3, <1>4
<1> HIDE DEF M
<1>6. Chain(first, nxt2) = s
  BY <1>2, <1>5, ChainIs
<1>7. QED  BY <1>2, <1>3, <1>4, <1>6

\* One structure before the others.
From(c, s) == <<c>> \o s

\* The way up from a structure goes on as that from its parent.
LEMMA UpwardFrom ==
  ASSUME NEW N \in Nat, NEW nxt \in Seq(Nat), Len(nxt) = N,
         NEW c \in 1 .. N, NEW s \in Seq(1 .. N), Len(s) < N,
         Linked(nxt[c], nxt, s)
  PROVE  /\ Linked(c, nxt, From(c, s)) /\ Chain(c, nxt) = From(c, s)
         /\ From(c, s) \in Seq(1 .. N) /\ Len(From(c, s)) = Len(s) + 1
<1> DEFINE up == <<c>> \o s
<1>1. Len(s) \in Nat /\ \A i \in 1 .. Len(s) : s[i] \in 1 .. N
  BY LenProperties, ElementOfSeq
<1>2. <<c>> \in Seq(1 .. N) /\ Len(<<c>>) = 1 /\ <<c>>[1] = c
  OBVIOUS
<1>3. /\ up \in Seq(1 .. N) /\ Len(up) = Len(s) + 1 /\ up[1] = c
      /\ \A i \in 1 .. Len(s) : up[i + 1] = s[i]
  <2>1. up \in Seq(1 .. N) /\ Len(up) = 1 + Len(s)
        /\ \A i \in 1 .. 1 + Len(s) : up[i] = IF i <= 1 THEN <<c>>[i] ELSE s[i - 1]
    BY <1>2, ConcatProperties
  <2>2. 1 \in 1 .. 1 + Len(s)
    BY <1>1
  <2>3. ASSUME NEW i \in 1 .. Len(s) PROVE up[i + 1] = s[i]
    <3>1. i + 1 \in 1 .. 1 + Len(s) /\ ~(i + 1 <= 1) /\ (i + 1) - 1 = i
      BY <1>1
    <3> HIDE DEF up
    <3>2. QED  BY <2>1, <3>1
  <2>4. QED  BY <1>1, <1>2, <2>1, <2>2, <2>3
<1> HIDE DEF up
<1>4. ASSUME NEW i \in 1 .. Len(up)
      PROVE  nxt[up[i]] = IF i = Len(up) THEN NULL ELSE up[i + 1]
  <2>1. CASE i = 1
    <3>1. nxt[c] = IF s = <<>> THEN NULL ELSE s[1]
      BY DEF Linked
    <3>2. s = <<>> <=> Len(s) = 0
      BY EmptySeq
    <3>3. Len(s) # 0 => 1 \in 1 .. Len(s)
      BY <1>1
    <3>4. CASE s = <<>>
      <4>1. Len(up) = 1
        BY <1>3, <3>2, <3>4
      <4>2. QED  BY <1>3, <2>1, <3>1, <3>4, <4>1
    <3>5. CASE s # <<>>
      <4>1. 1 \in 1 .. Len(s) /\ Len(up) # 1
        BY <1>1, <1>3, <3>2, <3>3, <3>5
      <4>2. up[1 + 1] = s[1]
        BY <1>3, <4>1
      <4>3. QED  BY <1>3, <2>1, <3>1, <3>5, <4>1, <4>2
    <3>6. QED  BY <3>4, <3>5
  <2>2. CASE i # 1
    <3> DEFINE j == i - 1
    <3>1. j \in 1 .. Len(s) /\ i = j + 1 /\ (j = Len(s) <=> i = Len(up))
          /\ (j # Len(s) => j + 1 \in 1 .. Len(s))
      BY <1>1, <1>3, <2>2
    <3> HIDE DEF j
    <3>2. up[i] = s[j] /\ nxt[s[j]] = IF j = Len(s) THEN NULL ELSE s[j + 1]
      BY <1>3, <3>1 DEF Linked
    <3>3. j # Len(s) => up[i + 1] = s[j + 1]
      BY <1>3, <3>1
    <3>4. QED  BY <3>1, <3>2, <3>3
  <2>3. QED  BY <2>1, <2>2
<1>5. Linked(c, nxt, up)
  <2>1. up # <<>>
    BY <1>1, <1>3, EmptySeq
  <2>2. QED  BY <1>3, <1>4, <2>1 DEF Linked
<1>6. Len(up) <= N
  BY <1>1, <1>3
<1>7. Chain(c, nxt) = up
  BY <1>3, <1>5, <1>6, ChainIs
<1>8. QED  BY <1>3, <1>5, <1>7 DEF From, up

\* The tree new is tr with one directory more, the last of p's.
DirAdded(tr, p, name, new) ==
  LET n == Len(tr.dir)
  IN  /\ Len(new.dir) = n + 1 /\ new.file = tr.file /\ new.head = tr.head
      /\ \A d \in 1 .. n :
           /\ new.dir[d].name = tr.dir[d].name
           /\ new.dir[d].parent = tr.dir[d].parent
           /\ FilesIn(new, d) = FilesIn(tr, d)
           /\ Children(new, d) = IF d = p THEN Append(Children(tr, d), n + 1)
                                 ELSE Children(tr, d)
      /\ new.dir[n + 1].name = name /\ new.dir[n + 1].parent = p
      /\ FilesIn(new, n + 1) = <<>> /\ Children(new, n + 1) = <<>>

\* create_path_node: a well-formed tree stays so, and the new directory is the
\* last of its parent's; every other list stays as it is.
THEOREM PathNodeAppends ==
  ASSUME NEW Names, NEW tr, WellFormed(Names, tr), NEW p \in 1 .. Len(tr.dir),
         NEW name \in Names
  PROVE  /\ WellFormed(Names, CreatePathNode(tr, p, name))
         /\ DirAdded(tr, p, name, CreatePathNode(tr, p, name))
<1> DEFINE n == Len(tr.dir)
           m == Len(tr.file)
           N == n + 1
           kids == Children(tr, p)
           new == CreatePathNode(tr, p, name)
<1>1. tr \in Trees(Names)
  BY DEF WellFormed
<1>2. /\ n \in Nat /\ m \in Nat /\ N \in Nat /\ N \in 1 .. N /\ p # N /\ N = n + 1
      /\ p \in 1 .. n /\ N \notin 1 .. n
      /\ \A d \in 1 .. n : d \in 1 .. N /\ d # N
      /\ \A d \in 1 .. N : d \in 1 .. n \/ d = N
  <2>1. n \in Nat /\ m \in Nat /\ p \in 1 .. n
    BY <1>1, PointersOf
  <2> HIDE DEF n, m
  <2>2. QED  BY <2>1
<1>3. \A d \in 1 .. n :
        /\ Children(tr, d) = Chain(tr.dir[d].firstchild, NextDir(tr))
        /\ FilesIn(tr, d) = Chain(tr.dir[d].firstfile, NextFile(tr))
        /\ Listed(tr.dir[d].firstchild, NextDir(tr), n, ParentDir(tr), d)
        /\ Listed(tr.dir[d].firstfile, NextFile(tr), m, DirOfFile(tr), d)
        /\ Upward(tr, d)
  BY DEF WellFormed, Children, FilesIn
<1>4. kids \in Seq(1 .. n)
  BY <1>3 DEF Listed, Sorted
<1>5. /\ new \in Trees(Names) /\ new.file = tr.file /\ new.head = tr.head
      /\ Len(new.dir) = N /\ new.dir[N] = Directory(p, name)
      /\ \A i \in 1 .. n :
           /\ new.dir[i].name = tr.dir[i].name
           /\ new.dir[i].parent = tr.dir[i].parent
           /\ new.dir[i].firstfile = tr.dir[i].firstfile
           /\ new.dir[i].firstchild =
                IF kids = <<>> /\ i = p THEN N ELSE tr.dir[i].firstchild
           /\ new.dir[i].next_sibling =
                IF kids # <<>> /\ i = kids[Len(kids)] THEN N
                ELSE tr.dir[i].next_sibling
  BY <1>1, <1>4, PathNodeStores
<1>6. /\ new.dir[N].name = name /\ new.dir[N].parent = p
      /\ new.dir[N].firstchild = NULL /\ new.dir[N].firstfile = NULL
      /\ new.dir[N].next_sibling = NULL
  BY <1>5 DEF Directory
<1> HIDE DEF new, kids
<1>7. /\ NextDir(new) \in Seq(Nat) /\ Len(NextDir(new)) = N
      /\ ParentDir(new) \in Seq(Nat) /\ Len(ParentDir(new)) = N
      /\ \A i \in 1 .. N :
           NextDir(new)[i] = new.dir[i].next_sibling /\ ParentDir(new)[i] = new.dir[i].parent
      /\ NextDir(tr) \in Seq(Nat) /\ Len(NextDir(tr)) = n
      /\ \A i \in 1 .. n :
           NextDir(tr)[i] = tr.dir[i].next_sibling /\ ParentDir(tr)[i] = tr.dir[i].parent
      /\ NextFile(tr) \in Seq(Nat) /\ Len(NextFile(tr)) = m
      /\ \A i \in 1 .. m : DirOfFile(tr)[i] = tr.file[i].parent
  <2>1. /\ NextDir(new) \in Seq(Nat) /\ Len(NextDir(new)) = Len(new.dir)
        /\ ParentDir(new) \in Seq(Nat) /\ Len(ParentDir(new)) = Len(new.dir)
        /\ \A i \in 1 .. Len(new.dir) :
             NextDir(new)[i] = new.dir[i].next_sibling /\ ParentDir(new)[i] = new.dir[i].parent
    <3>1. new \in Trees(Names)
      BY <1>5
    <3>2. QED  BY <3>1, PointersOf
  <2>2. /\ NextDir(tr) \in Seq(Nat) /\ Len(NextDir(tr)) = n
        /\ \A i \in 1 .. n :
             NextDir(tr)[i] = tr.dir[i].next_sibling /\ ParentDir(tr)[i] = tr.dir[i].parent
        /\ NextFile(tr) \in Seq(Nat) /\ Len(NextFile(tr)) = m
        /\ \A i \in 1 .. m : DirOfFile(tr)[i] = tr.file[i].parent
    BY <1>1, PointersOf
  <2>3. Len(new.dir) = N
    BY <1>5
  <2> HIDE DEF N
  <2>4. QED  BY <2>1, <2>2, <2>3
<1> HIDE DEF N
<1>8. NextFile(new) = NextFile(tr) /\ DirOfFile(new) = DirOfFile(tr)
  BY <1>5 DEF NextFile, DirOfFile
<1>9. /\ \A i \in 1 .. n : ParentDir(new)[i] = ParentDir(tr)[i]
      /\ ParentDir(new)[N] = p /\ NextDir(new)[N] = NULL
      /\ \A i \in 1 .. n :
           NextDir(new)[i] = IF kids # <<>> /\ i = kids[Len(kids)] THEN N ELSE NextDir(tr)[i]
  <2>1. ParentDir(new)[N] = p /\ NextDir(new)[N] = NULL
    BY <1>2, <1>6, <1>7
  <2>2. ASSUME NEW i \in 1 .. n
        PROVE  /\ ParentDir(new)[i] = ParentDir(tr)[i]
               /\ NextDir(new)[i] =
                    IF kids # <<>> /\ i = kids[Len(kids)] THEN N ELSE NextDir(tr)[i]
    <3>1. i \in 1 .. N
      BY <1>2
    <3>2. /\ new.dir[i].parent = tr.dir[i].parent
          /\ new.dir[i].next_sibling =
               IF kids # <<>> /\ i = kids[Len(kids)] THEN N ELSE tr.dir[i].next_sibling
      BY <1>5
    <3>3. ParentDir(new)[i] = new.dir[i].parent /\ NextDir(new)[i] = new.dir[i].next_sibling
      BY <1>7, <3>1
    <3>4. ParentDir(tr)[i] = tr.dir[i].parent /\ NextDir(tr)[i] = tr.dir[i].next_sibling
      BY <1>7
    <3>5. QED  BY <3>2, <3>3, <3>4
  <2>3. QED  BY <2>1, <2>2
<1>10. \A d \in 1 .. N : FilesIn(new, d) = Chain(new.dir[d].firstfile, NextFile(tr))
                         /\ Children(new, d) = Chain(new.dir[d].firstchild, NextDir(new))
  BY <1>8 DEF FilesIn, Children
<1>11. /\ Listed(new.dir[p].firstchild, NextDir(new), N, ParentDir(new), p)
       /\ Children(new, p) = Append(kids, N)
  <2>1. kids = Chain(tr.dir[p].firstchild, NextDir(tr))
        /\ Listed(tr.dir[p].firstchild, NextDir(tr), n, ParentDir(tr), p)
    BY <1>3 DEF kids
  <2>2. new.dir[p].firstchild = IF kids = <<>> THEN N ELSE tr.dir[p].firstchild
    BY <1>5
  <2>3. /\ Listed(new.dir[p].firstchild, NextDir(new), n + 1, ParentDir(new), p)
        /\ Chain(new.dir[p].firstchild, NextDir(new))
             = Append(Chain(tr.dir[p].firstchild, NextDir(tr)), n + 1)
    <3> DEFINE q == NextDir(new)
               w == ParentDir(new)
               o == NextDir(tr)
               v == ParentDir(tr)
               first == tr.dir[p].firstchild
               first2 == new.dir[p].firstchild
    <3>1. /\ Listed(first, o, n, v, p)
          /\ OneMoreOf(n, v, p, Chain(first, o), first, o, w, first2, q)
      <4>1. /\ q \in Seq(Nat) /\ Len(q) = n + 1 /\ q[n + 1] = NULL
            /\ w[n + 1] = p /\ \A k \in 1 .. n : w[k] = v[k]
            /\ Listed(first, o, n, v, p)
            /\ first2 = IF Chain(first, o) = <<>> THEN n + 1 ELSE first
            /\ \A k \in 1 .. n :
                 q[k] = IF Chain(first, o) # <<>> /\ k = Chain(first, o)[Len(Chain(first, o))]
                        THEN n + 1 ELSE o[k]
        BY <1>2, <1>7, <1>9, <2>1, <2>2
      <4>2. QED  BY <4>1 DEF OneMoreOf
    <3> HIDE DEF q, w, o, v, first, first2, n
    <3>2. n \in Nat
      BY <1>2
    <3>3. Listed(first2, q, n + 1, w, p) /\ Chain(first2, q) = Append(Chain(first, o), n + 1)
      BY <3>1, <3>2, ListedAtEnd
    <3>4. QED  BY <3>3 DEF q, w, o, v, first, first2
  <2>4. QED  BY <1>2, <1>10, <2>1, <2>3
<1>12. ASSUME NEW d \in 1 .. n, d # p
       PROVE  /\ Listed(new.dir[d].firstchild, NextDir(new), N, ParentDir(new), d)
              /\ Children(new, d) = Children(tr, d)
  <2>1. new.dir[d].firstchild = tr.dir[d].firstchild
    BY <1>5, <1>12
  <2>2. ASSUME NEW k \in 1 .. n, ParentDir(tr)[k] = d
        PROVE  NextDir(new)[k] = NextDir(tr)[k]
    <3>1. kids # <<>> => k # kids[Len(kids)]
      <4>1. SUFFICES ASSUME kids # <<>> PROVE ParentDir(tr)[kids[Len(kids)]] = p
        BY <1>12, <2>2
      <4>2. Sorted(kids, n, ParentDir(tr), p)
        BY <1>3 DEF Listed, kids
      <4>3. Len(kids) \in 1 .. Len(kids)
        <5>1. Len(kids) \in Nat /\ Len(kids) # 0
          BY <1>4, <4>1, EmptySeq, LenProperties
        <5>2. QED  BY <5>1
      <4>4. kids[Len(kids)] \in 1 .. n
        BY <1>4, <4>3, ElementOfSeq
      <4>5. QED  BY <4>2, <4>3, <4>4 DEF Sorted
    <3>2. QED  BY <1>9, <3>1
  <2>3. Listed(tr.dir[d].firstchild, NextDir(tr), n, ParentDir(tr), d)
    BY <1>3
  <2>4. /\ Listed(tr.dir[d].firstchild, NextDir(new), n + 1, ParentDir(new), d)
        /\ Chain(tr.dir[d].firstchild, NextDir(new)) = Chain(tr.dir[d].firstchild, NextDir(tr))
    <3> DEFINE q == NextDir(new)
               w == ParentDir(new)
               o == NextDir(tr)
               v == ParentDir(tr)
               first == tr.dir[d].firstchild
    <3>1. Listed(first, o, n, v, d) /\ OneMoreElsewhere(n, v, d, o, w, q)
      <4>1. q \in Seq(Nat) /\ Len(q) = n + 1
        BY <1>2, <1>7
      <4>2. w[n + 1] # d /\ \A k \in 1 .. n : w[k] = v[k]
        BY <1>2, <1>9, <1>12
      <4>3. \A k \in 1 .. n : v[k] = d => q[k] = o[k]
        BY <2>2
      <4>4. QED  BY <2>3, <4>1, <4>2, <4>3 DEF OneMoreElsewhere
    <3> HIDE DEF q, w, o, v, first, n
    <3>2. n \in Nat
      BY <1>2
    <3>3. Listed(first, q, n + 1, w, d) /\ Chain(first, q) = Chain(first, o)
      BY <3>1, <3>2, ListedElsewhere
    <3>4. QED  BY <3>3 DEF q, w, o, v, first
  <2>5. QED  BY <1>2, <1>3, <1>10, <2>1, <2>4
<1>13. /\ Listed(new.dir[N].firstchild, NextDir(new), N, ParentDir(new), N)
       /\ Children(new, N) = <<>>
  <2>1. ASSUME NEW k \in 1 .. N PROVE ParentDir(new)[k] # N
    <3>1. CASE k = N
      BY <1>2, <1>9, <3>1
    <3>2. CASE k # N
      <4>1. k \in 1 .. n
        BY <1>2, <3>2
      <4>2. /\ Linked(k, ParentDir(tr), Chain(k, ParentDir(tr)))
            /\ Chain(k, ParentDir(tr)) \in Seq(1 .. n)
        BY <1>3, <4>1 DEF Upward
      <4> DEFINE up == Chain(k, ParentDir(tr))
      <4>3. up # <<>>
        BY <4>1, <4>2 DEF Linked, NULL
      <4>4. up[1] = k /\ Len(up) \in Nat /\ Len(up) # 0
        <5>1. up[1] = k
          BY <4>2, <4>3 DEF Linked
        <5>2. up \in Seq(1 .. n)
          BY <4>2
        <5> HIDE DEF up
        <5>3. QED  BY <4>3, <5>1, <5>2, EmptySeq, LenProperties
      <4> HIDE DEF up
      <4>5. 1 \in 1 .. Len(up) /\ (Len(up) # 1 => 1 + 1 \in 1 .. Len(up))
        <5>1. \A L \in Nat : L # 0 => 1 \in 1 .. L /\ (L # 1 => 1 + 1 \in 1 .. L)
          OBVIOUS
        <5>2. QED  BY <4>4, <5>1
      <4>6. ParentDir(tr)[k] = IF Len(up) = 1 THEN NULL ELSE up[1 + 1]
        BY <4>2, <4>4, <4>5 DEF Linked, up
      <4>7. Len(up) # 1 => up[1 + 1] \in 1 .. n
        BY <4>2, <4>5, ElementOfSeq DEF up
      <4>8. QED  BY <1>2, <1>9, <4>1, <4>6, <4>7 DEF NULL
    <3>3. QED  BY <3>1, <3>2
  <2> DEFINE q == NextDir(new)
             w == ParentDir(new)
  <2>2. q \in Seq(Nat) /\ Len(q) = N /\ \A k \in 1 .. N : w[k] # N
    BY <1>7, <2>1
  <2> HIDE DEF q, w
  <2>3. Listed(NULL, q, N, w, N) /\ Chain(NULL, q) = <<>>
    <3>1. N \in Nat
      BY <1>2
    <3>2. QED  BY <2>2, <3>1, ListedNone
  <2>4. QED  BY <1>2, <1>6, <1>10, <2>3 DEF q, w
<1>14. ASSUME NEW d \in 1 .. n
       PROVE  /\ Listed(new.dir[d].firstfile, NextFile(new), Len(new.file), DirOfFile(new), d)
              /\ FilesIn(new, d) = FilesIn(tr, d)
  BY <1>2, <1>3, <1>5, <1>8, <1>10
<1>15. /\ Listed(new.dir[N].firstfile, NextFile(new), Len(new.file), DirOfFile(new), N)
       /\ FilesIn(new, N) = <<>>
  <2>1. \A f \in 1 .. m : DirOfFile(tr)[f] # N
    <3>1. \A f \in 1 .. m : tr.file[f].parent \in 1 .. n
      BY DEF WellFormed
    <3>2. QED  BY <1>2, <1>7, <3>1
  <2>2. Listed(NULL, NextFile(tr), m, DirOfFile(tr), N) /\ Chain(NULL, NextFile(tr)) = <<>>
    <3>1. m \in Nat /\ NextFile(tr) \in Seq(Nat) /\ Len(NextFile(tr)) = m
      BY <1>2, <1>7
    <3> HIDE DEF m
    <3>2. QED  BY <2>1, <3>1, ListedNone
  <2>3. NextFile(new) = NextFile(tr) /\ DirOfFile(new) = DirOfFile(tr)
        /\ Len(new.file) = m /\ new.dir[N].firstfile = NULL
        /\ FilesIn(new, N) = Chain(NULL, NextFile(tr))
    BY <1>2, <1>5, <1>6, <1>8, <1>10
  <2> HIDE DEF n, m
  <2>4. QED  BY <2>2, <2>3
<1>16. ASSUME NEW d \in 1 .. n
       PROVE  /\ Upward(new, d) /\ Chain(d, ParentDir(new)) = Chain(d, ParentDir(tr))
              /\ Len(Chain(d, ParentDir(new))) <= n
  <2> DEFINE up == Chain(d, ParentDir(tr))
  <2>1. Linked(d, ParentDir(tr), up) /\ up \in Seq(1 .. n) /\ Len(up) <= n
    BY <1>3 DEF Upward
  <2> HIDE DEF up
  <2>2. /\ Linked(d, ParentDir(new), up) /\ Chain(d, ParentDir(new)) = up
        /\ up \in Seq(1 .. n + 1) /\ Len(up) <= n + 1
    <3> DEFINE q == ParentDir(new)
               o == ParentDir(tr)
    <3>1. /\ q \in Seq(Nat) /\ Len(q) = n + 1 /\ \A k \in 1 .. n : q[k] = o[k]
          /\ Linked(d, o, up)
      BY <1>2, <1>7, <1>9, <2>1
    <3> HIDE DEF q, o, n
    <3>2. /\ Linked(d, q, up) /\ Chain(d, q) = up
          /\ up \in Seq(1 .. n + 1) /\ Len(up) <= n + 1
      BY <1>2, <2>1, <3>1, UpwardStays
    <3>3. QED  BY <3>2 DEF q
  <2>3. Len(new.dir) = n + 1
    BY <1>2, <1>5
  <2>4. QED  BY <2>1, <2>2, <2>3 DEF Upward, up
<1>17. Upward(new, N)
  <2> DEFINE up == Chain(p, ParentDir(new))
  <2>1. Linked(p, ParentDir(new), up) /\ up \in Seq(1 .. N) /\ Len(up) <= n
    BY <1>5, <1>16 DEF Upward
  <2>2. ParentDir(new)[N] = p /\ Len(up) < N
    <3>1. Len(up) \in Nat
      BY <2>1, LenProperties
    <3> HIDE DEF up
    <3>2. QED  BY <1>2, <1>9, <2>1, <3>1
  <2> HIDE DEF up
  <2> HIDE DEF N
  <2>3. /\ Linked(N, ParentDir(new), From(N, up)) /\ Chain(N, ParentDir(new)) = From(N, up)
        /\ From(N, up) \in Seq(1 .. N) /\ Len(From(N, up)) = Len(up) + 1
    <3> DEFINE q == ParentDir(new)
    <3>1. q \in Seq(Nat) /\ Len(q) = N /\ Linked(q[N], q, up)
      BY <1>7, <2>1, <2>2 DEF up
    <3>2. N \in Nat /\ N \in 1 .. N /\ up \in Seq(1 .. N) /\ Len(up) < N
      BY <1>2, <2>1, <2>2 DEF up
    <3> HIDE DEF q
    <3>3. /\ Linked(N, q, From(N, up)) /\ Chain(N, q) = From(N, up)
          /\ From(N, up) \in Seq(1 .. N) /\ Len(From(N, up)) = Len(up) + 1
      BY <3>1, <3>2, UpwardFrom
    <3>4. QED  BY <3>3 DEF q
  <2>4. Len(up) + 1 <= N
    <3>1. Len(up) \in Nat
      BY <2>1, LenProperties
    <3>2. QED  BY <1>2, <2>2, <3>1
  <2>5. QED  BY <1>5, <2>3, <2>4 DEF Upward
<1>18. WellFormed(Names, new)
  <2>1. ASSUME NEW d \in 1 .. N
        PROVE  /\ Listed(new.dir[d].firstchild, NextDir(new), N, ParentDir(new), d)
               /\ Listed(new.dir[d].firstfile, NextFile(new), Len(new.file), DirOfFile(new), d)
               /\ Upward(new, d)
    <3>1. d \in 1 .. n \/ d = N
      BY <1>2
    <3> HIDE DEF N, n
    <3>2. QED  BY <1>11, <1>12, <1>13, <1>14, <1>15, <1>16, <1>17, <3>1
  <2>2. InOrder(new, Len(new.file))
    BY <1>5 DEF WellFormed, InOrder
  <2>3. \A f \in 1 .. Len(new.file) :
          new.file[f].list_prev = f - 1 /\ new.file[f].parent \in 1 .. Len(new.dir)
    <3>1. \A f \in 1 .. m : tr.file[f].list_prev = f - 1 /\ tr.file[f].parent \in 1 .. n
      BY DEF WellFormed
    <3>2. QED  BY <1>2, <1>5, <3>1
  <2>4. QED  BY <1>5, <2>1, <2>2, <2>3 DEF WellFormed
<1>19. ASSUME NEW d \in 1 .. n
       PROVE  /\ new.dir[d].name = tr.dir[d].name
              /\ new.dir[d].parent = tr.dir[d].parent
              /\ FilesIn(new, d) = FilesIn(tr, d)
              /\ Children(new, d) = IF d = p THEN Append(Children(tr, d), N)
                                    ELSE Children(tr, d)
  BY <1>5, <1>11, <1>12, <1>14 DEF kids
<1> HIDE DEF n
<1>20. DirAdded(tr, p, name, new)
  BY <1>5, <1>6, <1>13, <1>15, <1>19 DEF DirAdded, n, N
<1>21. QED  BY <1>18, <1>20 DEF new

\* The tree new is tr with one file more, the last of p's.
FileAdded(tr, p, name, type, new) ==
  LET n == Len(tr.dir)
      m == Len(tr.file)
  IN  /\ Len(new.dir) = n /\ Len(new.file) = m + 1
      /\ \A d \in 1 .. n :
           /\ new.dir[d].name = tr.dir[d].name
           /\ new.dir[d].parent = tr.dir[d].parent
           /\ Children(new, d) = Children(tr, d)
           /\ FilesIn(new, d) = IF d = p THEN Append(FilesIn(tr, d), m + 1)
                                ELSE FilesIn(tr, d)
      /\ \A f \in 1 .. m : SameFile(new.file[f], tr.file[f])
      /\ SameFile(new.file[m + 1], NewFile(p, name, type))

\* create_file_under_node: a well-formed tree stays so, and the new file is the
\* last of its directory's and of the list; every other list stays as it is.
THEOREM FileNodeAppends ==
  ASSUME NEW Names, NEW tr, WellFormed(Names, tr), NEW p \in 1 .. Len(tr.dir),
         NEW name \in Names, NEW type \in Types
  PROVE  /\ WellFormed(Names, CreateFileUnderNode(tr, p, name, type))
         /\ FileAdded(tr, p, name, type, CreateFileUnderNode(tr, p, name, type))
<1> DEFINE n == Len(tr.dir)
           m == Len(tr.file)
           M == m + 1
           here == FilesIn(tr, p)
           new == CreateFileUnderNode(tr, p, name, type)
<1>1. tr \in Trees(Names) /\ InOrder(tr, m)
  BY DEF WellFormed
<1>2. /\ n \in Nat /\ m \in Nat /\ M \in Nat /\ M \in 1 .. M /\ M = m + 1
      /\ p \in 1 .. n /\ M \notin 1 .. m
      /\ \A f \in 1 .. m : f \in 1 .. M /\ f # M
      /\ \A f \in 1 .. M : f \in 1 .. m \/ f = M
  <2>1. n \in Nat /\ m \in Nat /\ p \in 1 .. n
    BY <1>1, PointersOf
  <2> HIDE DEF n, m
  <2>2. QED  BY <2>1
<1>3. \A d \in 1 .. n :
        /\ Children(tr, d) = Chain(tr.dir[d].firstchild, NextDir(tr))
        /\ FilesIn(tr, d) = Chain(tr.dir[d].firstfile, NextFile(tr))
        /\ Listed(tr.dir[d].firstchild, NextDir(tr), n, ParentDir(tr), d)
        /\ Listed(tr.dir[d].firstfile, NextFile(tr), m, DirOfFile(tr), d)
        /\ Upward(tr, d)
  BY DEF WellFormed, Children, FilesIn
<1>4. here \in Seq(1 .. m)
  BY <1>3 DEF Listed, Sorted
<1>5. /\ new \in Trees(Names) /\ new.head = 1
      /\ Len(new.dir) = n /\ Len(new.file) = M
      /\ \A i \in 1 .. n :
           /\ new.dir[i].name = tr.dir[i].name
           /\ new.dir[i].parent = tr.dir[i].parent
           /\ new.dir[i].firstchild = tr.dir[i].firstchild
           /\ new.dir[i].next_sibling = tr.dir[i].next_sibling
           /\ new.dir[i].firstfile =
                IF here = <<>> /\ i = p THEN M ELSE tr.dir[i].firstfile
      /\ \A i \in 1 .. m :
           /\ SameFile(new.file[i], tr.file[i])
           /\ new.file[i].list_next = i + 1
           /\ new.file[i].list_prev = tr.file[i].list_prev
           /\ new.file[i].next_sibling =
                IF here # <<>> /\ i = here[Len(here)] THEN M
                ELSE tr.file[i].next_sibling
      /\ SameFile(new.file[M], NewFile(p, name, type))
      /\ new.file[M].next_sibling = NULL
      /\ new.file[M].list_next = NULL
      /\ new.file[M].list_prev = m
  BY <1>1, <1>4, FileNodeStores
<1> HIDE DEF new, here
<1>6. /\ NextFile(new) \in Seq(Nat) /\ Len(NextFile(new)) = M
      /\ \A i \in 1 .. M :
           NextFile(new)[i] = new.file[i].next_sibling /\ DirOfFile(new)[i] = new.file[i].parent
      /\ NextFile(tr) \in Seq(Nat) /\ Len(NextFile(tr)) = m
      /\ \A i \in 1 .. m :
           NextFile(tr)[i] = tr.file[i].next_sibling /\ DirOfFile(tr)[i] = tr.file[i].parent
  <2>1. /\ NextFile(new) \in Seq(Nat) /\ Len(NextFile(new)) = Len(new.file)
        /\ \A i \in 1 .. Len(new.file) :
             NextFile(new)[i] = new.file[i].next_sibling /\ DirOfFile(new)[i] = new.file[i].parent
    BY <1>5, PointersOf
  <2>2. /\ NextFile(tr) \in Seq(Nat) /\ Len(NextFile(tr)) = m
        /\ \A i \in 1 .. m :
             NextFile(tr)[i] = tr.file[i].next_sibling /\ DirOfFile(tr)[i] = tr.file[i].parent
    BY <1>1, PointersOf
  <2>3. Len(new.file) = M
    BY <1>5
  <2> HIDE DEF M
  <2>4. QED  BY <2>1, <2>2, <2>3
<1> HIDE DEF M
<1>7. NextDir(new) = NextDir(tr) /\ ParentDir(new) = ParentDir(tr)
  <2>1. DOMAIN new.dir = 1 .. n /\ DOMAIN tr.dir = 1 .. n
    <3>1. tr.dir \in Seq(DirRec(Names)) /\ new.dir \in Seq(DirRec(Names))
      BY <1>1, <1>5 DEF Trees
    <3>2. QED  BY <1>5, <3>1, LenProperties
  <2>2. NextDir(new) = [i \in 1 .. n |-> tr.dir[i].next_sibling]
        /\ ParentDir(new) = [i \in 1 .. n |-> tr.dir[i].parent]
    BY <1>5, <2>1 DEF NextDir, ParentDir
  <2>3. QED  BY <2>1, <2>2 DEF NextDir, ParentDir
<1>8. new.file[M].parent = p
  BY <1>5 DEF SameFile, NewFile
<1>9. /\ \A i \in 1 .. m : DirOfFile(new)[i] = DirOfFile(tr)[i]
      /\ DirOfFile(new)[M] = p /\ NextFile(new)[M] = NULL
      /\ \A i \in 1 .. m :
           NextFile(new)[i] = IF here # <<>> /\ i = here[Len(here)] THEN M ELSE NextFile(tr)[i]
  <2>1. DirOfFile(new)[M] = p /\ NextFile(new)[M] = NULL
    BY <1>2, <1>5, <1>6, <1>8
  <2>2. ASSUME NEW i \in 1 .. m
        PROVE  /\ DirOfFile(new)[i] = DirOfFile(tr)[i]
               /\ NextFile(new)[i] =
                    IF here # <<>> /\ i = here[Len(here)] THEN M ELSE NextFile(tr)[i]
    <3>1. i \in 1 .. M
      BY <1>2
    <3>2. /\ new.file[i].parent = tr.file[i].parent
          /\ new.file[i].next_sibling =
               IF here # <<>> /\ i = here[Len(here)] THEN M ELSE tr.file[i].next_sibling
      BY <1>5 DEF SameFile
    <3>3. DirOfFile(new)[i] = new.file[i].parent /\ NextFile(new)[i] = new.file[i].next_sibling
      BY <1>6, <3>1
    <3>4. DirOfFile(tr)[i] = tr.file[i].parent /\ NextFile(tr)[i] = tr.file[i].next_sibling
      BY <1>6
    <3>5. QED  BY <3>2, <3>3, <3>4
  <2>3. QED  BY <2>1, <2>2
<1>10. \A d \in 1 .. n : FilesIn(new, d) = Chain(new.dir[d].firstfile, NextFile(new))
                         /\ Children(new, d) = Chain(new.dir[d].firstchild, NextDir(tr))
  BY <1>7 DEF FilesIn, Children
<1>11. /\ Listed(new.dir[p].firstfile, NextFile(new), M, DirOfFile(new), p)
       /\ FilesIn(new, p) = Append(here, M)
  <2>1. here = Chain(tr.dir[p].firstfile, NextFile(tr))
        /\ Listed(tr.dir[p].firstfile, NextFile(tr), m, DirOfFile(tr), p)
    BY <1>3 DEF here
  <2>2. new.dir[p].firstfile = IF here = <<>> THEN M ELSE tr.dir[p].firstfile
    BY <1>5
  <2>3. /\ Listed(new.dir[p].firstfile, NextFile(new), m + 1, DirOfFile(new), p)
        /\ Chain(new.dir[p].firstfile, NextFile(new))
             = Append(Chain(tr.dir[p].firstfile, NextFile(tr)), m + 1)
    <3> DEFINE q == NextFile(new)
               w == DirOfFile(new)
               o == NextFile(tr)
               v == DirOfFile(tr)
               first == tr.dir[p].firstfile
               first2 == new.dir[p].firstfile
    <3>1. /\ Listed(first, o, m, v, p)
          /\ OneMoreOf(m, v, p, Chain(first, o), first, o, w, first2, q)
      <4>1. /\ q \in Seq(Nat) /\ Len(q) = m + 1 /\ q[m + 1] = NULL
            /\ w[m + 1] = p /\ \A k \in 1 .. m : w[k] = v[k]
            /\ Listed(first, o, m, v, p)
            /\ first2 = IF Chain(first, o) = <<>> THEN m + 1 ELSE first
            /\ \A k \in 1 .. m :
                 q[k] = IF Chain(first, o) # <<>> /\ k = Chain(first, o)[Len(Chain(first, o))]
                        THEN m + 1 ELSE o[k]
        BY <1>2, <1>6, <1>9, <2>1, <2>2
      <4>2. QED  BY <4>1 DEF OneMoreOf
    <3> HIDE DEF q, w, o, v, first, first2, m
    <3>2. m \in Nat
      BY <1>2
    <3>3. Listed(first2, q, m + 1, w, p) /\ Chain(first2, q) = Append(Chain(first, o), m + 1)
      BY <3>1, <3>2, ListedAtEnd
    <3>4. QED  BY <3>3 DEF q, w, o, v, first, first2
  <2>4. QED  BY <1>2, <1>10, <2>1, <2>3
<1>12. ASSUME NEW d \in 1 .. n, d # p
       PROVE  /\ Listed(new.dir[d].firstfile, NextFile(new), M, DirOfFile(new), d)
              /\ FilesIn(new, d) = FilesIn(tr, d)
  <2>1. new.dir[d].firstfile = tr.dir[d].firstfile
    BY <1>5, <1>12
  <2>2. ASSUME NEW k \in 1 .. m, DirOfFile(tr)[k] = d
        PROVE  NextFile(new)[k] = NextFile(tr)[k]
    <3>1. here # <<>> => k # here[Len(here)]
      <4>1. SUFFICES ASSUME here # <<>> PROVE DirOfFile(tr)[here[Len(here)]] = p
        BY <1>12, <2>2
      <4>2. Sorted(here, m, DirOfFile(tr), p)
        BY <1>3 DEF Listed, here
      <4>3. Len(here) \in 1 .. Len(here)
        <5>1. Len(here) \in Nat /\ Len(here) # 0
          BY <1>4, <4>1, EmptySeq, LenProperties
        <5>2. QED  BY <5>1
      <4>4. here[Len(here)] \in 1 .. m
        BY <1>4, <4>3, ElementOfSeq
      <4>5. QED  BY <4>2, <4>3, <4>4 DEF Sorted
    <3>2. QED  BY <1>9, <3>1
  <2>3. Listed(tr.dir[d].firstfile, NextFile(tr), m, DirOfFile(tr), d)
    BY <1>3
  <2>4. /\ Listed(tr.dir[d].firstfile, NextFile(new), m + 1, DirOfFile(new), d)
        /\ Chain(tr.dir[d].firstfile, NextFile(new)) = Chain(tr.dir[d].firstfile, NextFile(tr))
    <3> DEFINE q == NextFile(new)
               w == DirOfFile(new)
               o == NextFile(tr)
               v == DirOfFile(tr)
               first == tr.dir[d].firstfile
    <3>1. Listed(first, o, m, v, d) /\ OneMoreElsewhere(m, v, d, o, w, q)
      <4>1. q \in Seq(Nat) /\ Len(q) = m + 1
        BY <1>2, <1>6
      <4>2. w[m + 1] # d /\ \A k \in 1 .. m : w[k] = v[k]
        BY <1>2, <1>9, <1>12
      <4>3. \A k \in 1 .. m : v[k] = d => q[k] = o[k]
        BY <2>2
      <4>4. QED  BY <2>3, <4>1, <4>2, <4>3 DEF OneMoreElsewhere
    <3> HIDE DEF q, w, o, v, first, m
    <3>2. m \in Nat
      BY <1>2
    <3>3. Listed(first, q, m + 1, w, d) /\ Chain(first, q) = Chain(first, o)
      BY <3>1, <3>2, ListedElsewhere
    <3>4. QED  BY <3>3 DEF q, w, o, v, first
  <2>5. QED  BY <1>2, <1>3, <1>10, <2>1, <2>4
<1>13. ASSUME NEW d \in 1 .. n
       PROVE  /\ Listed(new.dir[d].firstchild, NextDir(new), n, ParentDir(new), d)
              /\ Children(new, d) = Children(tr, d)
              /\ Upward(new, d)
  <2>1. new.dir[d].firstchild = tr.dir[d].firstchild /\ Len(new.dir) = n
    BY <1>5
  <2>2. /\ Children(tr, d) = Chain(tr.dir[d].firstchild, NextDir(tr))
        /\ Listed(tr.dir[d].firstchild, NextDir(tr), n, ParentDir(tr), d)
        /\ Upward(tr, d)
    BY <1>3
  <2>3. QED  BY <1>7, <1>10, <2>1, <2>2 DEF Upward
<1>14. WellFormed(Names, new)
  <2>1. ASSUME NEW d \in 1 .. n
        PROVE  Listed(new.dir[d].firstfile, NextFile(new), M, DirOfFile(new), d)
    BY <1>11, <1>12
  <2>2. InOrder(new, M)
    <3>1. M # 0
      BY <1>2
    <3>2. ASSUME NEW i \in 1 .. M PROVE new.file[i].list_next = IF i = M THEN NULL ELSE i + 1
      <4>1. CASE i = M
        BY <1>5, <4>1
      <4>2. CASE i # M
        <5>1. i \in 1 .. m
          BY <1>2, <4>2
        <5>2. QED  BY <1>5, <4>2, <5>1
      <4>3. QED  BY <4>1, <4>2
    <3>3. QED  BY <1>5, <3>1, <3>2 DEF InOrder
  <2>3. ASSUME NEW f \in 1 .. M
        PROVE  new.file[f].list_prev = f - 1 /\ new.file[f].parent \in 1 .. n
    <3>1. CASE f = M
      BY <1>2, <1>5, <1>8, <3>1
    <3>2. CASE f # M
      <4>1. f \in 1 .. m
        BY <1>2, <3>2
      <4>2. tr.file[f].list_prev = f - 1 /\ tr.file[f].parent \in 1 .. n
        BY <4>1 DEF WellFormed
      <4>3. new.file[f].list_prev = tr.file[f].list_prev
            /\ new.file[f].parent = tr.file[f].parent
        BY <1>5, <4>1 DEF SameFile
      <4>4. QED  BY <4>2, <4>3
    <3>3. QED  BY <3>1, <3>2
  <2>4. Len(new.dir) = n /\ Len(new.file) = M /\ new \in Trees(Names)
    BY <1>5
  <2> HIDE DEF n
  <2>5. QED  BY <1>13, <2>1, <2>2, <2>3, <2>4 DEF WellFormed
<1>15. ASSUME NEW d \in 1 .. n
       PROVE  /\ new.dir[d].name = tr.dir[d].name
              /\ new.dir[d].parent = tr.dir[d].parent
              /\ Children(new, d) = Children(tr, d)
              /\ FilesIn(new, d) = IF d = p THEN Append(FilesIn(tr, d), M)
                                   ELSE FilesIn(tr, d)
  BY <1>5, <1>11, <1>12, <1>13 DEF here
<1> HIDE DEF n, m
<1>16. FileAdded(tr, p, name, type, new)
  BY <1>5, <1>15 DEF FileAdded, n, m, M
<1>17. QED  BY <1>14, <1>16 DEF new

-----------------------------------------------------------------------------
(* The tree that file_in_ram_init makes.                                   *)

\* A list that is what the calls made stays so while the names stay.
LEMMA SpellsSame ==
  ASSUME NEW arr, NEW arr2, NEW calls, NEW N \in Nat, NEW chain \in Seq(1 .. N),
         \A i \in 1 .. N : arr2[i].name = arr[i].name,
         Spells(arr, chain, calls)
  PROVE  Spells(arr2, chain, calls)
<1>1. \A i \in DOMAIN chain : chain[i] \in 1 .. N
  BY LenProperties, ElementOfSeq
<1>2. PICK call \in [DOMAIN chain -> calls] :
        /\ \A i, j \in DOMAIN chain : i < j => call[i] < call[j]
        /\ \A c \in calls : \E i \in DOMAIN chain : call[i] = c
        /\ \A i \in DOMAIN chain : arr[chain[i]].name = BootCalls[call[i]].name
  BY Zenon DEF Spells
<1>3. \A i \in DOMAIN chain : arr2[chain[i]].name = BootCalls[call[i]].name
  BY <1>1, <1>2
<1>4. QED  BY <1>2, <1>3, Zenon DEF Spells

\* An empty list is what no calls made.
LEMMA SpellsNone == ASSUME NEW arr PROVE Spells(arr, <<>>, {})
<1>1. DOMAIN <<>> = {}
  OBVIOUS
<1>2. [i \in {} |-> 0] \in [{} -> {}]
  OBVIOUS
<1>3. QED  BY <1>1, <1>2 DEF Spells

\* One more call makes one more structure, at the end of its list.
LEMMA SpellsMore ==
  ASSUME NEW arr, NEW arr2, NEW n \in Nat, NEW calls \in SUBSET (1 .. n),
         NEW N \in Nat, NEW chain \in Seq(1 .. N),
         \A i \in 1 .. N : arr2[i].name = arr[i].name,
         arr2[N + 1].name = BootCalls[n + 1].name,
         Spells(arr, chain, calls)
  PROVE  Spells(arr2, Append(chain, N + 1), calls \cup {n + 1})
<1> DEFINE more == Append(chain, N + 1)
           L == Len(chain)
<1>1. L \in Nat /\ DOMAIN chain = 1 .. L /\ \A i \in 1 .. L : chain[i] \in 1 .. N
  BY LenProperties, ElementOfSeq
<1>2. /\ DOMAIN more = 1 .. L + 1 /\ more[L + 1] = N + 1
      /\ \A i \in 1 .. L : more[i] = chain[i]
  <2>1. chain \in Seq(1 .. N + 1) /\ N + 1 \in 1 .. N + 1
    <3>1. 1 .. N \subseteq 1 .. N + 1
      OBVIOUS
    <3>2. QED  BY <3>1, SeqMonotonic
  <2>2. more \in Seq(1 .. N + 1) /\ Len(more) = L + 1
    BY <2>1, Appended
  <2>3. QED  BY <2>1, <2>2, Appended, LenProperties
<1>3. PICK call \in [1 .. L -> calls] :
        /\ \A i, j \in 1 .. L : i < j => call[i] < call[j]
        /\ \A c \in calls : \E i \in 1 .. L : call[i] = c
        /\ \A i \in 1 .. L : arr[chain[i]].name = BootCalls[call[i]].name
  <2>1. PICK call \in [DOMAIN chain -> calls] :
          /\ \A i, j \in DOMAIN chain : i < j => call[i] < call[j]
          /\ \A c \in calls : \E i \in DOMAIN chain : call[i] = c
          /\ \A i \in DOMAIN chain : arr[chain[i]].name = BootCalls[call[i]].name
    BY Zenon DEF Spells
  <2>2. DOMAIN chain = 1 .. L
    BY <1>1
  <2> HIDE DEF L
  <2>3. /\ call \in [1 .. L -> calls]
        /\ \A i, j \in 1 .. L : i < j => call[i] < call[j]
        /\ \A c \in calls : \E i \in 1 .. L : call[i] = c
        /\ \A i \in 1 .. L : arr[chain[i]].name = BootCalls[call[i]].name
    BY <2>1, <2>2
  <2>4. QED  BY <2>3
<1> HIDE DEF more, L
<1> DEFINE call2 == [i \in 1 .. L + 1 |-> IF i = L + 1 THEN n + 1 ELSE call[i]]
<1>4. \A i \in 1 .. L : i \in 1 .. L + 1 /\ i # L + 1 /\ call[i] \in 1 .. n
  <2>1. \A i \in 1 .. L : call[i] \in 1 .. n
    OBVIOUS
  <2>2. \A i \in 1 .. L : i \in 1 .. L + 1 /\ i # L + 1
    BY <1>1
  <2>3. QED  BY <2>1, <2>2
<1>5. L + 1 \in 1 .. L + 1 /\ \A i \in 1 .. L + 1 : i \in 1 .. L \/ i = L + 1
  BY <1>1
<1>6. call2[L + 1] = n + 1 /\ \A i \in 1 .. L : call2[i] = call[i]
  BY <1>4, <1>5
<1>7. call2 \in [1 .. L + 1 -> calls \cup {n + 1}]
  BY <1>5
<1> HIDE DEF call2
<1>8. ASSUME NEW i \in 1 .. L + 1, NEW j \in 1 .. L + 1, i < j
      PROVE  call2[i] < call2[j]
  <2>1. i \in 1 .. L
    BY <1>1, <1>8
  <2>2. CASE j = L + 1
    BY <1>4, <1>6, <2>1, <2>2
  <2>3. CASE j \in 1 .. L
    BY <1>3, <1>6, <1>8, <2>1, <2>3
  <2>4. QED  BY <1>5, <2>2, <2>3
<1>9. ASSUME NEW c \in calls \cup {n + 1}
      PROVE  \E i \in 1 .. L + 1 : call2[i] = c
  <2>1. CASE c = n + 1
    BY <1>5, <1>6, <2>1
  <2>2. CASE c \in calls
    <3>1. PICK i \in 1 .. L : call[i] = c
      BY <1>3, <2>2
    <3>2. QED  BY <1>4, <1>6, <3>1
  <2>3. QED  BY <2>1, <2>2
<1>10. ASSUME NEW i \in 1 .. L + 1
       PROVE  arr2[more[i]].name = BootCalls[call2[i]].name
  <2>1. CASE i = L + 1
    BY <1>2, <1>6, <2>1
  <2>2. CASE i \in 1 .. L
    BY <1>1, <1>2, <1>3, <1>6, <2>2
  <2>3. QED  BY <1>5, <2>1, <2>2
<1> DEFINE both == calls \cup {n + 1}
<1>11. /\ call2 \in [DOMAIN more -> both]
       /\ \A i, j \in DOMAIN more : i < j => call2[i] < call2[j]
       /\ \A c \in both : \E i \in DOMAIN more : call2[i] = c
       /\ \A i \in DOMAIN more : arr2[more[i]].name = BootCalls[call2[i]].name
  <2>1. DOMAIN more = 1 .. L + 1
    BY <1>2
  <2>2. QED  BY <1>7, <1>8, <1>9, <1>10, <2>1
<1> HIDE DEF both
<1>12. Spells(arr2, more, both)
  BY <1>11, Zenon DEF Spells
<1>13. QED  BY <1>12 DEF more, both

\* What the calls are, and how many directories there are after n of them.
TreeNames == {"/root", "/dev", "/ipc", "/console_in", "/console_out", "/tty0", "/ipc0"}
DirsAfter(n) == IF n = 0 THEN 1 ELSE IF n = 1 THEN 2 ELSE 3

\* Each call names a directory that is there by then.
LEMMA TheCalls ==
  /\ Len(BootCalls) = 6
  /\ \A c \in 1 .. 6 :
       /\ BootCalls[c].name \in TreeNames
       /\ BootCalls[c].dir \in 1 .. DirsAfter(c - 1)
       /\ BootCalls[c].type = "DIR" \/ BootCalls[c].type \in Types
       /\ DirsAfter(c) = DirsAfter(c - 1) + IF BootCalls[c].type = "DIR" THEN 1 ELSE 0
<1>1. Len(BootCalls) = 6
  BY DEF BootCalls
<1>2. /\ BootCalls[1] = [dir |-> 1, name |-> "/dev", type |-> "DIR"]
      /\ BootCalls[2] = [dir |-> 1, name |-> "/ipc", type |-> "DIR"]
      /\ BootCalls[3] = [dir |-> 2, name |-> "/console_in", type |-> "CONSOLE_IN"]
      /\ BootCalls[4] = [dir |-> 2, name |-> "/console_out", type |-> "CONSOLE_OUT"]
      /\ BootCalls[5] = [dir |-> 2, name |-> "/tty0", type |-> "TTY0"]
      /\ BootCalls[6] = [dir |-> 3, name |-> "/ipc0", type |-> "IPC"]
  BY DEF BootCalls, Root
<1>3. ASSUME NEW c \in 1 .. 6
      PROVE  /\ BootCalls[c].name \in TreeNames
             /\ BootCalls[c].dir \in 1 .. DirsAfter(c - 1)
             /\ BootCalls[c].type = "DIR" \/ BootCalls[c].type \in Types
             /\ DirsAfter(c) = DirsAfter(c - 1) + IF BootCalls[c].type = "DIR" THEN 1 ELSE 0
  <2>1. c = 1 \/ c = 2 \/ c = 3 \/ c = 4 \/ c = 5 \/ c = 6
    OBVIOUS
  <2>2. CASE c = 1
    BY <1>2, <2>2 DEF TreeNames, Types, DirsAfter
  <2>3. CASE c = 2
    BY <1>2, <2>3 DEF TreeNames, Types, DirsAfter
  <2>4. CASE c = 3
    BY <1>2, <2>4 DEF TreeNames, Types, DirsAfter
  <2>5. CASE c = 4
    BY <1>2, <2>5 DEF TreeNames, Types, DirsAfter
  <2>6. CASE c = 5
    BY <1>2, <2>6 DEF TreeNames, Types, DirsAfter
  <2>7. CASE c = 6
    BY <1>2, <2>7 DEF TreeNames, Types, DirsAfter
  <2>8. QED  BY <2>1, <2>2, <2>3, <2>4, <2>5, <2>6, <2>7
<1>4. QED  BY <1>1, <1>3

\* The tree after one call more is what that call makes of it.
LEMMA OneCallMore ==
  /\ TreeAfter[0] = RootOnly
  /\ \A n \in 0 .. 5 : TreeAfter[n + 1] = BootCall(TreeAfter[n], BootCalls[n + 1])
<1> DEFINE Step(f, n) == IF n = 0 THEN RootOnly ELSE BootCall(f[n - 1], BootCalls[n])
           P(f) == f = [n \in 0 .. Len(BootCalls) |-> Step(f, n)]
           t1 == BootCall(RootOnly, BootCalls[1])
           t2 == BootCall(t1, BootCalls[2])
           t3 == BootCall(t2, BootCalls[3])
           t4 == BootCall(t3, BootCalls[4])
           t5 == BootCall(t4, BootCalls[5])
           t6 == BootCall(t5, BootCalls[6])
           g == [n \in 0 .. 6 |->
                   IF n = 0 THEN RootOnly ELSE IF n = 1 THEN t1 ELSE IF n = 2 THEN t2
                   ELSE IF n = 3 THEN t3 ELSE IF n = 4 THEN t4 ELSE IF n = 5 THEN t5
                   ELSE t6]
<1>1. TreeAfter = CHOOSE f : P(f)
  BY DEF TreeAfter
<1>2. P(g)
  <2> HIDE DEF t1, t2, t3, t4, t5, t6
  <2>1. /\ g[0] = RootOnly /\ g[1] = t1 /\ g[2] = t2 /\ g[3] = t3
        /\ g[4] = t4 /\ g[5] = t5 /\ g[6] = t6
    OBVIOUS
  <2>2. g = [n \in 0 .. 6 |-> g[n]]
    BY Zenon
  <2> HIDE DEF g
  <2>3. ASSUME NEW n \in 0 .. 6 PROVE g[n] = Step(g, n)
    <3>1. n = 0 \/ n = 1 \/ n = 2 \/ n = 3 \/ n = 4 \/ n = 5 \/ n = 6
      OBVIOUS
    <3>2. CASE n = 0
      BY <2>1, <3>2
    <3>3. CASE n = 1
      BY <2>1, <3>3 DEF t1
    <3>4. CASE n = 2
      BY <2>1, <3>4 DEF t2
    <3>5. CASE n = 3
      BY <2>1, <3>5 DEF t3
    <3>6. CASE n = 4
      BY <2>1, <3>6 DEF t4
    <3>7. CASE n = 5
      BY <2>1, <3>7 DEF t5
    <3>8. CASE n = 6
      BY <2>1, <3>8 DEF t6
    <3>9. QED  BY <3>1, <3>2, <3>3, <3>4, <3>5, <3>6, <3>7, <3>8
  <2>4. QED  BY <2>2, <2>3, TheCalls
<1> HIDE DEF g
<1>3. P(TreeAfter)
  <2> HIDE DEF P
  <2>1. QED  BY <1>1, <1>2
<1>4. \A n \in 0 .. 6 : TreeAfter[n] = Step(TreeAfter, n)
  BY <1>3, TheCalls
<1>5. TreeAfter[0] = RootOnly
  BY <1>4
<1>6. ASSUME NEW n \in 0 .. 5
      PROVE  TreeAfter[n + 1] = BootCall(TreeAfter[n], BootCalls[n + 1])
  <2>1. n + 1 \in 0 .. 6 /\ n + 1 # 0 /\ (n + 1) - 1 = n
    OBVIOUS
  <2>2. QED  BY <1>4, <2>1
<1>7. QED  BY <1>5, <1>6

\* One call more, seen from a directory.
LEMMA MadeMore ==
  ASSUME NEW n \in Nat, NEW d
  PROVE  /\ DirsMadeIn(n, d) \in SUBSET (1 .. n) /\ FilesMadeIn(n, d) \in SUBSET (1 .. n)
         /\ DirsMadeIn(n + 1, d) =
              IF BootCalls[n + 1].dir = d /\ BootCalls[n + 1].type = "DIR"
              THEN DirsMadeIn(n, d) \cup {n + 1} ELSE DirsMadeIn(n, d)
         /\ FilesMadeIn(n + 1, d) =
              IF BootCalls[n + 1].dir = d /\ BootCalls[n + 1].type # "DIR"
              THEN FilesMadeIn(n, d) \cup {n + 1} ELSE FilesMadeIn(n, d)
<1> DEFINE P(c) == BootCalls[c].dir = d /\ BootCalls[c].type = "DIR"
           Q(c) == BootCalls[c].dir = d /\ BootCalls[c].type # "DIR"
<1>1. ASSUME NEW k \in Nat
      PROVE  /\ DirsMadeIn(k, d) = {c \in 1 .. k : P(c)}
             /\ FilesMadeIn(k, d) = {c \in 1 .. k : Q(c)}
  BY DEF DirsMadeIn, FilesMadeIn
<1> HIDE DEF P, Q
<1>2. \A c : c \in 1 .. n + 1 <=> c \in 1 .. n \/ c = n + 1
  OBVIOUS
<1>3. {c \in 1 .. n + 1 : P(c)} = IF P(n + 1) THEN {c \in 1 .. n : P(c)} \cup {n + 1}
                                  ELSE {c \in 1 .. n : P(c)}
  BY <1>2
<1>4. {c \in 1 .. n + 1 : Q(c)} = IF Q(n + 1) THEN {c \in 1 .. n : Q(c)} \cup {n + 1}
                                  ELSE {c \in 1 .. n : Q(c)}
  BY <1>2
<1>5. DirsMadeIn(n, d) \in SUBSET (1 .. n) /\ FilesMadeIn(n, d) \in SUBSET (1 .. n)
  BY <1>1
<1>6. n + 1 \in Nat
  OBVIOUS
<1>7. /\ DirsMadeIn(n + 1, d) = IF P(n + 1) THEN DirsMadeIn(n, d) \cup {n + 1}
                                  ELSE DirsMadeIn(n, d)
      /\ FilesMadeIn(n + 1, d) = IF Q(n + 1) THEN FilesMadeIn(n, d) \cup {n + 1}
                                   ELSE FilesMadeIn(n, d)
  BY <1>1, <1>3, <1>4, <1>6
<1>8. QED  BY <1>5, <1>7 DEF P, Q

\* What is known of the tree after n calls.
Built(t, n) ==
  /\ WellFormed(TreeNames, t)
  /\ Len(t.dir) = DirsAfter(n)
  /\ \A d \in 1 .. Len(t.dir) :
       /\ Spells(t.dir, Children(t, d), DirsMadeIn(n, d))
       /\ Spells(t.file, FilesIn(t, d), FilesMadeIn(n, d))
  /\ \A f \in 1 .. Len(t.file) : \E c \in 1 .. n :
       SameFile(t.file[f], NewFile(BootCalls[c].dir, BootCalls[c].name, BootCalls[c].type))
  /\ t.dir[Root].name = "/root" /\ t.dir[Root].parent = NULL

\* create_root_path.
LEMMA RootBuilt == Built(RootOnly, 0)
<1> DEFINE t == RootOnly
           root == Directory(NULL, "/root")
<1>1. /\ t.dir = <<root>> /\ t.file = <<>> /\ t.head = NULL
      /\ Len(t.dir) = 1 /\ t.dir[1] = root /\ Len(t.file) = 0
  BY DEF RootOnly
<1>2. root \in DirRec(TreeNames)
  BY DEF DirRec, Directory, TreeNames, NULL
<1>3. t \in Trees(TreeNames)
  <2>1. t.dir \in Seq(DirRec(TreeNames)) /\ t.file \in Seq(FileRec(TreeNames)) /\ t.head \in Nat
    <3>1. <<root>> \in Seq(DirRec(TreeNames)) /\ <<>> \in Seq(FileRec(TreeNames))
      BY <1>2
    <3>2. QED  BY <1>1, <3>1 DEF NULL
  <2>2. t = [dir |-> t.dir, file |-> t.file, head |-> t.head]
    BY DEF RootOnly
  <2>3. QED  BY <2>1, <2>2 DEF Trees
<1>4. /\ root.name = "/root" /\ root.parent = NULL /\ root.firstchild = NULL
      /\ root.next_sibling = NULL /\ root.firstfile = NULL
  BY DEF Directory
<1> HIDE DEF t, root
<1>5. /\ NextDir(t) \in Seq(Nat) /\ Len(NextDir(t)) = 1
      /\ ParentDir(t) \in Seq(Nat) /\ Len(ParentDir(t)) = 1
      /\ NextFile(t) \in Seq(Nat) /\ Len(NextFile(t)) = 0
      /\ ParentDir(t)[1] = NULL
  <2>1. 1 \in 1 .. Len(t.dir)
    BY <1>1
  <2>2. QED  BY <1>1, <1>3, <1>4, <2>1, PointersOf
<1>6. \A k : k \in 1 .. 1 <=> k = 1
  OBVIOUS
<1>7. Listed(NULL, NextDir(t), 1, ParentDir(t), 1) /\ Chain(NULL, NextDir(t)) = <<>>
  <2>1. \A k \in 1 .. 1 : ParentDir(t)[k] # 1
    BY <1>5, <1>6 DEF NULL
  <2> DEFINE q == NextDir(t)
             w == ParentDir(t)
             N == 1
             d == 1
  <2>2. N \in Nat /\ q \in Seq(Nat) /\ Len(q) = N /\ \A k \in 1 .. N : w[k] # d
    BY <1>5, <2>1
  <2> HIDE DEF q, w, N, d
  <2>3. Listed(NULL, q, N, w, d) /\ Chain(NULL, q) = <<>>
    BY <2>2, ListedNone
  <2>4. QED  BY <2>3 DEF q, w, N, d
<1>8. Listed(NULL, NextFile(t), 0, DirOfFile(t), 1) /\ Chain(NULL, NextFile(t)) = <<>>
  <2> DEFINE q == NextFile(t)
             w == DirOfFile(t)
             N == 0
             d == 1
  <2>1. N \in Nat /\ q \in Seq(Nat) /\ Len(q) = N /\ \A k \in 1 .. N : w[k] # d
    BY <1>5
  <2> HIDE DEF q, w, N, d
  <2>2. Listed(NULL, q, N, w, d) /\ Chain(NULL, q) = <<>>
    BY <2>1, ListedNone
  <2>3. QED  BY <2>2 DEF q, w, N, d
<1>9. Upward(t, 1)
  <2> DEFINE s == <<1>>
             w == ParentDir(t)
  <2>1. s \in Seq(1 .. 1) /\ Len(s) = 1 /\ s[1] = 1 /\ s # <<>>
    OBVIOUS
  <2>2. \A i \in 1 .. Len(s) : w[s[i]] = IF i = Len(s) THEN NULL ELSE s[i + 1]
    BY <1>5, <1>6, <2>1
  <2> HIDE DEF s, w
  <2>3. Linked(1, w, s)
    BY <2>1, <2>2 DEF Linked
  <2>4. 1 \in Nat /\ w \in Seq(Nat) /\ Len(w) = 1 /\ Len(s) <= 1
    BY <1>5, <2>1 DEF w
  <2>5. Chain(1, w) = s
    BY <2>1, <2>3, <2>4, ChainIs
  <2>6. QED  BY <1>1, <2>1, <2>3, <2>4, <2>5 DEF Upward, w
<1>10. WellFormed(TreeNames, t)
  <2>1. InOrder(t, Len(t.file))
    BY <1>1 DEF InOrder
  <2>2. ASSUME NEW d \in 1 .. Len(t.dir)
        PROVE  /\ Listed(t.dir[d].firstchild, NextDir(t), Len(t.dir), ParentDir(t), d)
               /\ Listed(t.dir[d].firstfile, NextFile(t), Len(t.file), DirOfFile(t), d)
               /\ Upward(t, d)
    <3>1. d = 1
      BY <1>1
    <3>2. QED  BY <1>1, <1>4, <1>7, <1>8, <1>9, <3>1
  <2>3. QED  BY <1>1, <1>3, <2>1, <2>2 DEF WellFormed
<1>11. Children(t, 1) = <<>> /\ FilesIn(t, 1) = <<>>
  BY <1>1, <1>4, <1>7, <1>8 DEF Children, FilesIn
<1>12. DirsMadeIn(0, 1) = {} /\ FilesMadeIn(0, 1) = {}
  BY DEF DirsMadeIn, FilesMadeIn
<1>13. ASSUME NEW d \in 1 .. Len(t.dir)
       PROVE  /\ Spells(t.dir, Children(t, d), DirsMadeIn(0, d))
              /\ Spells(t.file, FilesIn(t, d), FilesMadeIn(0, d))
  <2>1. d = 1
    BY <1>1
  <2>2. QED  BY <1>11, <1>12, <2>1, SpellsNone
<1>14. Len(t.dir) = DirsAfter(0) /\ 1 .. Len(t.file) = {}
  BY <1>1 DEF DirsAfter
<1>15. t.dir[Root].name = "/root" /\ t.dir[Root].parent = NULL
  BY <1>1, <1>4 DEF Root
<1>16. Built(t, 0)
  BY <1>10, <1>13, <1>14, <1>15 DEF Built
<1>17. QED  BY <1>16 DEF t

\* SameFile is transitive.
LEMMA SameFileTrans ==
  ASSUME NEW x, NEW y, NEW z, SameFile(x, y), SameFile(y, z)
  PROVE  SameFile(x, z)
BY DEF SameFile

\* A call of create_path_node.
LEMMA DirCallBuilds ==
  ASSUME NEW n \in 0 .. 5, NEW t, Built(t, n), BootCalls[n + 1].type = "DIR"
  PROVE  Built(BootCall(t, BootCalls[n + 1]), n + 1)
<1> DEFINE call == BootCalls[n + 1]
           p == call.dir
           K == Len(t.dir)
           N == K + 1
           new == CreatePathNode(t, p, call.name)
<1>1. BootCall(t, call) = new
  BY DEF BootCall
<1>2. n + 1 \in 1 .. 6 /\ (n + 1) - 1 = n /\ n \in Nat
  OBVIOUS
<1>3. /\ call.name \in TreeNames /\ p \in 1 .. K
      /\ DirsAfter(n + 1) = N
      /\ \A c \in 1 .. n + 1 : BootCalls[c].dir # N
  <2>1. K = DirsAfter(n)
    BY DEF Built
  <2>2. call.name \in TreeNames /\ p \in 1 .. K /\ DirsAfter(n + 1) = N
    BY <1>2, <2>1, TheCalls
  <2>3. ASSUME NEW c \in 1 .. n + 1 PROVE BootCalls[c].dir # N
    <3>1. c \in 1 .. 6 /\ DirsAfter(c - 1) <= DirsAfter(n)
      BY DEF DirsAfter
    <3>2. BootCalls[c].dir \in 1 .. DirsAfter(c - 1)
      BY <3>1, TheCalls
    <3>3. K \in Nat /\ DirsAfter(c - 1) \in Nat
      BY <2>1 DEF DirsAfter
    <3> HIDE DEF K
    <3>4. QED  BY <2>1, <3>1, <3>2, <3>3
  <2>4. QED  BY <2>2, <2>3
<1>4. WellFormed(TreeNames, t)
  BY DEF Built
<1>5. /\ WellFormed(TreeNames, new)
      /\ Len(new.dir) = N /\ new.file = t.file /\ new.head = t.head
      /\ \A d \in 1 .. K :
           /\ new.dir[d].name = t.dir[d].name
           /\ new.dir[d].parent = t.dir[d].parent
           /\ FilesIn(new, d) = FilesIn(t, d)
           /\ Children(new, d) = IF d = p THEN Append(Children(t, d), N) ELSE Children(t, d)
      /\ new.dir[N].name = call.name
      /\ FilesIn(new, N) = <<>> /\ Children(new, N) = <<>>
  <2>1. WellFormed(TreeNames, new) /\ DirAdded(t, p, call.name, new)
    BY <1>3, <1>4, PathNodeAppends
  <2> HIDE DEF new, call, p
  <2>2. QED  BY <2>1 DEF DirAdded
<1>6. /\ K \in Nat /\ Len(t.file) \in Nat
      /\ \A d \in 1 .. N : d \in 1 .. K \/ d = N
      /\ \A d \in 1 .. K : Children(t, d) \in Seq(1 .. K) /\ FilesIn(t, d) \in Seq(1 .. Len(t.file))
  <2>1. t \in Trees(TreeNames)
    BY <1>4 DEF WellFormed
  <2>2. K \in Nat /\ Len(t.file) \in Nat
    BY <2>1, PointersOf
  <2>3. \A d \in 1 .. K : Children(t, d) \in Seq(1 .. K) /\ FilesIn(t, d) \in Seq(1 .. Len(t.file))
    BY <1>4 DEF WellFormed, Listed, Sorted, Children, FilesIn
  <2>4. QED  BY <2>2, <2>3
<1> HIDE DEF new
<1>7. ASSUME NEW d \in 1 .. K
      PROVE  /\ Spells(new.dir, Children(new, d), DirsMadeIn(n + 1, d))
             /\ Spells(new.file, FilesIn(new, d), FilesMadeIn(n + 1, d))
  <2>1. /\ Spells(t.dir, Children(t, d), DirsMadeIn(n, d))
        /\ Spells(t.file, FilesIn(t, d), FilesMadeIn(n, d))
    BY DEF Built
  <2>2. /\ FilesMadeIn(n + 1, d) = FilesMadeIn(n, d)
        /\ DirsMadeIn(n + 1, d) = IF d = p THEN DirsMadeIn(n, d) \cup {n + 1}
                                    ELSE DirsMadeIn(n, d)
        /\ DirsMadeIn(n, d) \in SUBSET (1 .. n)
    BY <1>2, MadeMore
  <2>3. Children(t, d) \in Seq(1 .. K) /\ \A i \in 1 .. K : new.dir[i].name = t.dir[i].name
    BY <1>5, <1>6
  <2>4. CASE d = p
    <3>1. new.dir[K + 1].name = BootCalls[n + 1].name
      BY <1>5
    <3>2. Spells(new.dir, Append(Children(t, d), K + 1), DirsMadeIn(n, d) \cup {n + 1})
      <4> DEFINE chain == Children(t, d)
                 calls == DirsMadeIn(n, d)
                 arr == t.dir
                 arr2 == new.dir
      <4>1. /\ chain \in Seq(1 .. K) /\ calls \in SUBSET (1 .. n) /\ K \in Nat /\ n \in Nat
            /\ \A i \in 1 .. K : arr2[i].name = arr[i].name
            /\ arr2[K + 1].name = BootCalls[n + 1].name
            /\ Spells(arr, chain, calls)
        BY <1>2, <1>6, <2>1, <2>2, <2>3, <3>1
      <4> HIDE DEF chain, calls, arr, arr2, K
      <4>2. Spells(arr2, Append(chain, K + 1), calls \cup {n + 1})
        BY <4>1, SpellsMore
      <4>3. QED  BY <4>2 DEF chain, calls, arr2
    <3>3. Children(new, d) = Append(Children(t, d), K + 1) /\ FilesIn(new, d) = FilesIn(t, d)
          /\ new.file = t.file
      BY <1>5, <2>4
    <3>4. QED  BY <2>1, <2>2, <2>4, <3>2, <3>3
  <2>5. CASE d # p
    <3>1. Spells(new.dir, Children(t, d), DirsMadeIn(n, d))
      BY <1>6, <2>1, <2>3, SpellsSame
    <3>2. Children(new, d) = Children(t, d) /\ FilesIn(new, d) = FilesIn(t, d)
          /\ new.file = t.file
      BY <1>5, <2>5
    <3>3. QED  BY <2>1, <2>2, <2>5, <3>1, <3>2
  <2>6. QED  BY <2>4, <2>5
<1>8. /\ Spells(new.dir, Children(new, N), DirsMadeIn(n + 1, N))
      /\ Spells(new.file, FilesIn(new, N), FilesMadeIn(n + 1, N))
  <2>1. DirsMadeIn(n + 1, N) = {} /\ FilesMadeIn(n + 1, N) = {}
    BY <1>3 DEF DirsMadeIn, FilesMadeIn
  <2>2. QED  BY <1>5, <2>1, SpellsNone
<1>9. ASSUME NEW f \in 1 .. Len(new.file)
      PROVE  \E c \in 1 .. n + 1 :
               SameFile(new.file[f],
                        NewFile(BootCalls[c].dir, BootCalls[c].name, BootCalls[c].type))
  <2>1. \E c \in 1 .. n :
          SameFile(t.file[f], NewFile(BootCalls[c].dir, BootCalls[c].name, BootCalls[c].type))
    BY <1>5 DEF Built
  <2>2. 1 .. n \subseteq 1 .. n + 1
    OBVIOUS
  <2>3. QED  BY <1>5, <2>1, <2>2
<1>10. new.dir[Root].name = "/root" /\ new.dir[Root].parent = NULL
  <2>1. Root \in 1 .. K
    BY <1>3, <1>6 DEF Root
  <2>2. QED  BY <1>5, <2>1 DEF Built
<1>11. Built(new, n + 1)
  <2>1. \A d \in 1 .. N : /\ Spells(new.dir, Children(new, d), DirsMadeIn(n + 1, d))
                          /\ Spells(new.file, FilesIn(new, d), FilesMadeIn(n + 1, d))
    BY <1>6, <1>7, <1>8
  <2>2. Len(new.dir) = N
    BY <1>5
  <2> HIDE DEF N
  <2>3. QED  BY <1>3, <1>5, <1>9, <1>10, <2>1, <2>2 DEF Built
<1>12. QED  BY <1>1, <1>11

\* A call of create_file_under_node.
LEMMA FileCallBuilds ==
  ASSUME NEW n \in 0 .. 5, NEW t, Built(t, n), BootCalls[n + 1].type # "DIR"
  PROVE  Built(BootCall(t, BootCalls[n + 1]), n + 1)
<1> DEFINE call == BootCalls[n + 1]
           p == call.dir
           K == Len(t.dir)
           m == Len(t.file)
           M == m + 1
           new == CreateFileUnderNode(t, p, call.name, call.type)
           made == NewFile(p, call.name, call.type)
<1>1. BootCall(t, call) = new
  BY DEF BootCall
<1>2. n + 1 \in 1 .. 6 /\ (n + 1) - 1 = n /\ n \in Nat /\ n + 1 \in 1 .. n + 1
  OBVIOUS
<1>3. /\ call.name \in TreeNames /\ call.type \in Types /\ p \in 1 .. K
      /\ DirsAfter(n + 1) = K
  <2>1. K = DirsAfter(n)
    BY DEF Built
  <2>2. K \in Nat
    BY <2>1 DEF DirsAfter
  <2> DEFINE c == n + 1
  <2>3. /\ BootCalls[c].name \in TreeNames
        /\ BootCalls[c].dir \in 1 .. DirsAfter(c - 1)
        /\ BootCalls[c].type = "DIR" \/ BootCalls[c].type \in Types
        /\ DirsAfter(c) = DirsAfter(c - 1) + IF BootCalls[c].type = "DIR" THEN 1 ELSE 0
    <3>1. c \in 1 .. 6
      BY <1>2
    <3> HIDE DEF c
    <3>2. QED  BY <3>1, TheCalls
  <2>4. QED  BY <1>2, <2>1, <2>2, <2>3
<1>4. WellFormed(TreeNames, t)
  BY DEF Built
<1>5. /\ WellFormed(TreeNames, new)
      /\ Len(new.dir) = K /\ Len(new.file) = M
      /\ \A d \in 1 .. K :
           /\ new.dir[d].name = t.dir[d].name
           /\ new.dir[d].parent = t.dir[d].parent
           /\ Children(new, d) = Children(t, d)
           /\ FilesIn(new, d) = IF d = p THEN Append(FilesIn(t, d), M) ELSE FilesIn(t, d)
      /\ \A f \in 1 .. m : SameFile(new.file[f], t.file[f])
      /\ SameFile(new.file[M], made)
  <2>1. WellFormed(TreeNames, new) /\ FileAdded(t, p, call.name, call.type, new)
    BY <1>3, <1>4, FileNodeAppends
  <2> HIDE DEF new, call, p
  <2>2. QED  BY <2>1 DEF FileAdded, made
<1>6. /\ K \in Nat /\ m \in Nat
      /\ \A f \in 1 .. M : f \in 1 .. m \/ f = M
      /\ \A d \in 1 .. K : Children(t, d) \in Seq(1 .. K) /\ FilesIn(t, d) \in Seq(1 .. m)
  <2>1. t \in Trees(TreeNames)
    BY <1>4 DEF WellFormed
  <2>2. K \in Nat /\ m \in Nat
    BY <2>1, PointersOf
  <2>3. \A d \in 1 .. K : Children(t, d) \in Seq(1 .. K) /\ FilesIn(t, d) \in Seq(1 .. m)
    BY <1>4 DEF WellFormed, Listed, Sorted, Children, FilesIn
  <2>4. QED  BY <2>2, <2>3
<1> HIDE DEF new
<1>7. ASSUME NEW d \in 1 .. K
      PROVE  /\ Spells(new.dir, Children(new, d), DirsMadeIn(n + 1, d))
             /\ Spells(new.file, FilesIn(new, d), FilesMadeIn(n + 1, d))
  <2>1. /\ Spells(t.dir, Children(t, d), DirsMadeIn(n, d))
        /\ Spells(t.file, FilesIn(t, d), FilesMadeIn(n, d))
    BY DEF Built
  <2>2. /\ DirsMadeIn(n + 1, d) = DirsMadeIn(n, d)
        /\ FilesMadeIn(n + 1, d) = IF d = p THEN FilesMadeIn(n, d) \cup {n + 1}
                                     ELSE FilesMadeIn(n, d)
        /\ FilesMadeIn(n, d) \in SUBSET (1 .. n)
    BY <1>2, MadeMore
  <2>3. /\ Children(t, d) \in Seq(1 .. K) /\ FilesIn(t, d) \in Seq(1 .. m)
        /\ \A i \in 1 .. K : new.dir[i].name = t.dir[i].name
        /\ \A i \in 1 .. m : new.file[i].name = t.file[i].name
    BY <1>5, <1>6 DEF SameFile
  <2>4. Spells(new.dir, Children(new, d), DirsMadeIn(n + 1, d))
    <3>1. Spells(new.dir, Children(t, d), DirsMadeIn(n, d))
      BY <1>6, <2>1, <2>3, SpellsSame
    <3>2. QED  BY <1>5, <2>2, <3>1
  <2>5. CASE d = p
    <3>1. new.file[m + 1].name = BootCalls[n + 1].name
      BY <1>5 DEF SameFile, NewFile
    <3>2. Spells(new.file, Append(FilesIn(t, d), m + 1), FilesMadeIn(n, d) \cup {n + 1})
      <4> DEFINE chain == FilesIn(t, d)
                 calls == FilesMadeIn(n, d)
                 arr == t.file
                 arr2 == new.file
      <4>1. /\ chain \in Seq(1 .. m) /\ calls \in SUBSET (1 .. n) /\ m \in Nat /\ n \in Nat
            /\ \A i \in 1 .. m : arr2[i].name = arr[i].name
            /\ arr2[m + 1].name = BootCalls[n + 1].name
            /\ Spells(arr, chain, calls)
        BY <1>2, <1>6, <2>1, <2>2, <2>3, <3>1
      <4> HIDE DEF chain, calls, arr, arr2, m
      <4>2. Spells(arr2, Append(chain, m + 1), calls \cup {n + 1})
        BY <4>1, SpellsMore
      <4>3. QED  BY <4>2 DEF chain, calls, arr2
    <3>3. FilesIn(new, d) = Append(FilesIn(t, d), m + 1)
      BY <1>5, <2>5
    <3>4. QED  BY <2>2, <2>4, <2>5, <3>2, <3>3
  <2>6. CASE d # p
    <3>1. Spells(new.file, FilesIn(t, d), FilesMadeIn(n, d))
      BY <1>6, <2>1, <2>3, SpellsSame
    <3>2. FilesIn(new, d) = FilesIn(t, d)
      BY <1>5, <2>6
    <3>3. QED  BY <2>2, <2>4, <2>6, <3>1, <3>2
  <2>7. QED  BY <2>5, <2>6
<1>8. ASSUME NEW f \in 1 .. M
      PROVE  \E c \in 1 .. n + 1 :
               SameFile(new.file[f],
                        NewFile(BootCalls[c].dir, BootCalls[c].name, BootCalls[c].type))
  <2>1. CASE f = M
    BY <1>2, <1>5, <2>1
  <2>2. CASE f \in 1 .. m
    <3>1. PICK c \in 1 .. n :
            SameFile(t.file[f], NewFile(BootCalls[c].dir, BootCalls[c].name, BootCalls[c].type))
      BY <2>2 DEF Built
    <3>2. c \in 1 .. n + 1 /\ SameFile(new.file[f], t.file[f])
      BY <1>5, <2>2
    <3>3. QED  BY <3>1, <3>2, SameFileTrans
  <2>3. QED  BY <1>6, <2>1, <2>2
<1>9. new.dir[Root].name = "/root" /\ new.dir[Root].parent = NULL
  <2>1. Root \in 1 .. K
    BY <1>3, <1>6 DEF Root
  <2>2. QED  BY <1>5, <2>1 DEF Built
<1>10. Built(new, n + 1)
  <2>1. Len(new.dir) = K /\ Len(new.file) = M
    BY <1>5
  <2> HIDE DEF M, K
  <2>2. QED  BY <1>3, <1>5, <1>7, <1>8, <1>9, <2>1 DEF Built
<1>11. QED  BY <1>1, <1>10

\* After each of the calls the tree is built so far.
LEMMA TreesBuilt == \A n \in 0 .. 6 : Built(TreeAfter[n], n)
<1>1. Built(TreeAfter[0], 0)
  BY OneCallMore, RootBuilt
<1>2. ASSUME NEW n \in 0 .. 5, Built(TreeAfter[n], n)
      PROVE  Built(TreeAfter[n + 1], n + 1)
  <2>1. TreeAfter[n + 1] = BootCall(TreeAfter[n], BootCalls[n + 1])
    BY OneCallMore
  <2>2. QED  BY <1>2, <2>1, DirCallBuilds, FileCallBuilds
<1>3. SUFFICES ASSUME {n \in Nat : n <= 6 /\ ~Built(TreeAfter[n], n)} # {} PROVE FALSE
  BY <1>1
<1> DEFINE Bad == {n \in Nat : n <= 6 /\ ~Built(TreeAfter[n], n)}
<1>4. PICK n \in Bad : \A k \in Bad : n <= k
  BY <1>3, LeastElement
<1>5. n \in Nat /\ n # 0 /\ n <= 6 /\ ~Built(TreeAfter[n], n)
  BY <1>1, <1>4
<1>6. n - 1 \in 0 .. 5 /\ (n - 1) + 1 = n /\ n - 1 \notin Bad
  BY <1>4, <1>5
<1>7. Built(TreeAfter[n - 1], n - 1)
  BY <1>6
<1>8. QED  BY <1>2, <1>5, <1>6, <1>7

-----------------------------------------------------------------------------
(* Looking things up in a well-formed tree.                                *)

\* The first structure of a list with the name, or NULL if there is none.
LEMMA FirstNamedIs ==
  ASSUME NEW S, NEW chain \in Seq(S), NEW arr, NEW name
  PROVE  \/ /\ FirstNamed(chain, arr, name) = NULL
            /\ \A i \in 1 .. Len(chain) : arr[chain[i]].name # name
         \/ \E i \in 1 .. Len(chain) :
              /\ FirstNamed(chain, arr, name) = chain[i]
              /\ arr[chain[i]].name = name
              /\ \A j \in 1 .. Len(chain) : arr[chain[j]].name = name => i <= j
<1> DEFINE hits == {i \in DOMAIN chain : arr[chain[i]].name = name}
           least == CHOOSE i \in hits : \A j \in hits : i <= j
<1>1. DOMAIN chain = 1 .. Len(chain) /\ Len(chain) \in Nat
  BY LenProperties
<1>2. FirstNamed(chain, arr, name) = IF hits = {} THEN NULL ELSE chain[least]
  BY DEF FirstNamed
<1>3. CASE hits = {}
  BY <1>1, <1>2, <1>3
<1>4. CASE hits # {}
  <2>1. hits \subseteq Nat
    BY <1>1
  <2>2. least \in hits /\ \A j \in hits : least <= j
    <3>1. \E i \in hits : \A j \in hits : i <= j
      BY <1>4, <2>1, LeastElement
    <3> HIDE DEF hits
    <3>2. QED  BY <3>1
  <2> HIDE DEF least
  <2>3. QED  BY <1>1, <1>2, <1>4, <2>2
<1>5. QED  BY <1>3, <1>4

\* The list a chain is, and the names and parents in it.
LEMMA ChildrenAre ==
  ASSUME NEW Names, NEW t, WellFormed(Names, t), NEW d \in 1 .. Len(t.dir)
  PROVE  /\ Children(t, d) \in Seq(1 .. Len(t.dir))
         /\ \A i \in 1 .. Len(Children(t, d)) :
              /\ Children(t, d)[i] \in 1 .. Len(t.dir)
              /\ t.dir[Children(t, d)[i]].parent = d
<1> DEFINE kids == Children(t, d)
<1>1. Sorted(kids, Len(t.dir), ParentDir(t), d) /\ t \in Trees(Names)
  BY DEF WellFormed, Listed, Children
<1>2. kids \in Seq(1 .. Len(t.dir))
  BY <1>1 DEF Sorted
<1> HIDE DEF kids
<1>3. \A i \in 1 .. Len(kids) : kids[i] \in 1 .. Len(t.dir)
  BY <1>2, ElementOfSeq
<1>4. \A i \in 1 .. Len(kids) : ParentDir(t)[kids[i]] = d
  BY <1>1, <1>3 DEF Sorted
<1>5. \A k \in 1 .. Len(t.dir) : ParentDir(t)[k] = t.dir[k].parent
  BY <1>1, PointersOf
<1>6. QED  BY <1>2, <1>3, <1>4, <1>5 DEF kids

\* The directories from d up to one without a parent.
WayUp(t, d, up) ==
  /\ up \in Seq(1 .. Len(t.dir)) /\ Len(up) \in Nat \ {0} /\ Len(up) <= Len(t.dir)
  /\ up[1] = d /\ \A i \in 1 .. Len(up) : up[i] \in 1 .. Len(t.dir)
  /\ \A i \in 1 .. Len(up) :
       t.dir[up[i]].parent = IF i = Len(up) THEN NULL ELSE up[i + 1]

\* What the way up from a directory is.
LEMMA UpwardIs ==
  ASSUME NEW Names, NEW t, WellFormed(Names, t), NEW d \in 1 .. Len(t.dir)
  PROVE  WayUp(t, d, Chain(d, ParentDir(t)))
<1> DEFINE up == Chain(d, ParentDir(t))
<1>1. Upward(t, d) /\ t \in Trees(Names)
  BY DEF WellFormed
<1>2. Linked(d, ParentDir(t), up) /\ up \in Seq(1 .. Len(t.dir)) /\ Len(up) <= Len(t.dir)
  BY <1>1 DEF Upward
<1> HIDE DEF up
<1>3. d # NULL
  BY DEF NULL
<1>4. up # <<>> /\ up[1] = d
  BY <1>2, <1>3 DEF Linked
<1>5. Len(up) \in Nat /\ Len(up) # 0 /\ \A i \in 1 .. Len(up) : up[i] \in 1 .. Len(t.dir)
  BY <1>2, <1>4, EmptySeq, LenProperties, ElementOfSeq
<1>6. \A k \in 1 .. Len(t.dir) : ParentDir(t)[k] = t.dir[k].parent
  BY <1>1, PointersOf
<1>7. \A i \in 1 .. Len(up) : t.dir[up[i]].parent = IF i = Len(up) THEN NULL ELSE up[i + 1]
  BY <1>2, <1>5, <1>6 DEF Linked
<1>8. QED  BY <1>2, <1>4, <1>5, <1>7 DEF up, WayUp

\* getfullpath names the directories from the root down to the given one.
LEMMA PathIs ==
  ASSUME NEW Names, NEW t, WellFormed(Names, t), NEW d \in 1 .. Len(t.dir)
  PROVE  LET up == Chain(d, ParentDir(t))
         IN  /\ FullPath(t, d) \in Seq(Names) /\ Len(FullPath(t, d)) = Len(up)
             /\ FullPath(t, d) # <<>>
             /\ \A i \in 1 .. Len(up) : FullPath(t, d)[i] = t.dir[up[Len(up) + 1 - i]].name
<1> DEFINE up == Chain(d, ParentDir(t))
           L == Len(up)
           path == [i \in 1 .. L |-> t.dir[up[L + 1 - i]].name]
<1>1. L \in Nat \ {0} /\ \A i \in 1 .. L : up[i] \in 1 .. Len(t.dir)
  BY UpwardIs DEF WayUp
<1>2. FullPath(t, d) = path
  BY DEF FullPath
<1>3. \A k \in 1 .. Len(t.dir) : t.dir[k].name \in Names
  <2>1. t.dir \in Seq(DirRec(Names))
    BY DEF WellFormed, Trees
  <2>2. \A k \in 1 .. Len(t.dir) : t.dir[k] \in DirRec(Names)
    BY <2>1, ElementOfSeq
  <2>3. QED  BY <2>2 DEF DirRec
<1> HIDE DEF up, L
<1>4. \A i \in 1 .. L : L + 1 - i \in 1 .. L
  BY <1>1
<1>5. path \in [1 .. L -> Names]
  BY <1>1, <1>3, <1>4
<1>6. path \in Seq(Names) /\ Len(path) = L /\ \A i \in 1 .. L : path[i] = t.dir[up[L + 1 - i]].name
  BY <1>1, <1>5
<1> HIDE DEF path
<1>7. path # <<>>
  BY <1>1, <1>6, EmptySeq
<1>8. QED  BY <1>2, <1>6, <1>7 DEF L, up

\* Up to the root.
LEMMA PathOfRoot ==
  ASSUME NEW Names, NEW t, WellFormed(Names, t), NEW d \in 1 .. Len(t.dir),
         t.dir[d].parent = NULL
  PROVE  FullPath(t, d) = <<t.dir[d].name>>
<1> DEFINE up == Chain(d, ParentDir(t))
           L == Len(up)
           path == FullPath(t, d)
<1>0. WayUp(t, d, up)
  BY UpwardIs
<1>1. /\ up \in Seq(1 .. Len(t.dir)) /\ L \in Nat \ {0} /\ up[1] = d
      /\ \A i \in 1 .. L : up[i] \in 1 .. Len(t.dir)
      /\ \A i \in 1 .. L : t.dir[up[i]].parent = IF i = L THEN NULL ELSE up[i + 1]
  <2> HIDE DEF up
  <2>1. QED  BY <1>0 DEF WayUp
<1>2. /\ path \in Seq(Names) /\ Len(path) = L
      /\ \A i \in 1 .. L : path[i] = t.dir[up[L + 1 - i]].name
  BY PathIs
<1> HIDE DEF up, L, path
<1>3. L = 1
  <2>1. 1 \in 1 .. L /\ (L # 1 => 1 + 1 \in 1 .. L)
    BY <1>1
  <2>2. L # 1 => t.dir[d].parent = up[1 + 1] /\ up[1 + 1] \in 1 .. Len(t.dir)
    BY <1>1, <2>1
  <2>3. \A k \in 1 .. Len(t.dir) : k # NULL
    BY DEF NULL
  <2>4. QED  BY <2>2, <2>3
<1>4. path[1] = t.dir[d].name
  BY <1>1, <1>2, <1>3
<1>5. t.dir[d].name \in Names
  <2>1. 1 \in 1 .. Len(path)
    BY <1>2, <1>3
  <2>2. QED  BY <1>2, <1>4, <2>1, ElementOfSeq
<1> DEFINE one == <<t.dir[d].name>>
<1>6. one \in Seq(Names) /\ Len(one) = 1 /\ one[1] = t.dir[d].name
  BY <1>5
<1> HIDE DEF one
<1>7. \A i \in 1 .. Len(path) : path[i] = one[i]
  BY <1>2, <1>3, <1>4, <1>6
<1>8. path = one
  BY <1>2, <1>3, <1>6, <1>7, SeqEqual
<1>9. QED  BY <1>8 DEF path, one

\* One directory further down.
LEMMA PathOfChild ==
  ASSUME NEW Names, NEW t, WellFormed(Names, t),
         NEW c \in 1 .. Len(t.dir), NEW p \in 1 .. Len(t.dir), t.dir[c].parent = p
  PROVE  /\ FullPath(t, c) = Append(FullPath(t, p), t.dir[c].name)
         /\ FullPath(t, p) = SubSeq(FullPath(t, c), 1, Len(FullPath(t, c)) - 1)
<1> DEFINE N == Len(t.dir)
           up == Chain(c, ParentDir(t))
           L == Len(up)
           rest == Tail(up)
           path == FullPath(t, c)
           above == FullPath(t, p)
<1>0. WayUp(t, c, up)
  BY UpwardIs
<1>1. /\ up \in Seq(1 .. N) /\ L \in Nat \ {0} /\ L <= N /\ up[1] = c
      /\ \A i \in 1 .. L : up[i] \in 1 .. N
      /\ \A i \in 1 .. L : t.dir[up[i]].parent = IF i = L THEN NULL ELSE up[i + 1]
  <2> HIDE DEF up
  <2>1. QED  BY <1>0 DEF WayUp
<1>2. /\ path \in Seq(Names) /\ Len(path) = L
      /\ \A i \in 1 .. L : path[i] = t.dir[up[L + 1 - i]].name
  BY PathIs
<1>3. /\ N \in Nat /\ ParentDir(t) \in Seq(Nat) /\ Len(ParentDir(t)) = N
      /\ \A k \in 1 .. N : ParentDir(t)[k] = t.dir[k].parent
  <2>1. t \in Trees(Names)
    BY DEF WellFormed
  <2>2. QED  BY <2>1, PointersOf
<1>4. p # NULL
  BY DEF NULL
<1> HIDE DEF up, L, path
<1>5. L # 1 /\ up[1 + 1] = p
  <2>1. 1 \in 1 .. L
    BY <1>1
  <2>2. t.dir[c].parent = IF 1 = L THEN NULL ELSE up[1 + 1]
    BY <1>1, <2>1
  <2>3. QED  BY <1>4, <2>2
<1>6. /\ rest \in Seq(1 .. N) /\ Len(rest) = L - 1
      /\ \A i \in 1 .. L - 1 : rest[i] = up[i + 1]
  <2>1. up # <<>>
    BY <1>1, EmptySeq DEF L
  <2>2. QED  BY <1>1, <2>1, HeadTailProperties DEF L
<1> HIDE DEF rest
<1>7. Linked(p, ParentDir(t), rest)
  <2>1. rest # <<>> /\ 1 \in 1 .. L - 1
    BY <1>1, <1>5, <1>6, EmptySeq
  <2>2. p = rest[1]
    BY <1>5, <1>6, <2>1
  <2>3. ASSUME NEW i \in 1 .. L - 1
        PROVE  ParentDir(t)[rest[i]] = IF i = L - 1 THEN NULL ELSE rest[i + 1]
    <3>1. i + 1 \in 1 .. L /\ (i = L - 1 <=> i + 1 = L) /\ (i # L - 1 => i + 1 \in 1 .. L - 1)
      BY <1>1
    <3>2. rest[i] = up[i + 1] /\ up[i + 1] \in 1 .. N
      BY <1>1, <1>6, <3>1
    <3>3. ParentDir(t)[rest[i]] = IF i + 1 = L THEN NULL ELSE up[(i + 1) + 1]
      <4>1. t.dir[up[i + 1]].parent = IF i + 1 = L THEN NULL ELSE up[(i + 1) + 1]
        BY <1>1, <3>1
      <4>2. QED  BY <1>3, <3>2, <4>1
    <3>4. i # L - 1 => rest[i + 1] = up[(i + 1) + 1]
      BY <1>6, <3>1
    <3>5. QED  BY <3>1, <3>3, <3>4
  <2>4. QED  BY <1>6, <2>1, <2>2, <2>3 DEF Linked
<1>8. Chain(p, ParentDir(t)) = rest
  <2>1. Len(rest) <= N
    BY <1>1, <1>3, <1>6
  <2> HIDE DEF N
  <2>2. QED  BY <1>3, <1>6, <1>7, <2>1, ChainIs
<1>9. /\ above \in Seq(Names) /\ Len(above) = L - 1
      /\ \A i \in 1 .. L - 1 : above[i] = t.dir[rest[L - i]].name
  <2>1. /\ above \in Seq(Names) /\ Len(above) = Len(rest)
        /\ \A i \in 1 .. Len(rest) : above[i] = t.dir[rest[Len(rest) + 1 - i]].name
    BY <1>8, PathIs
  <2> HIDE DEF above
  <2>2. \A i \in 1 .. L - 1 : (L - 1) + 1 - i = L - i
    BY <1>1
  <2>3. QED  BY <1>6, <2>1, <2>2
<1> HIDE DEF above
<1>10. t.dir[c].name \in Names
  <2>1. L \in 1 .. Len(path) /\ L + 1 - L = 1
    BY <1>1, <1>2
  <2>2. path[L] = t.dir[c].name
    BY <1>1, <1>2, <2>1
  <2>3. QED  BY <1>2, <2>1, <2>2, ElementOfSeq
<1> DEFINE longer == Append(above, t.dir[c].name)
<1>11. /\ longer \in Seq(Names) /\ Len(longer) = L
       /\ \A i \in 1 .. L - 1 : longer[i] = above[i]
       /\ longer[L] = t.dir[c].name
  <2>1. /\ longer \in Seq(Names) /\ Len(longer) = Len(above) + 1
        /\ \A i \in 1 .. Len(above) : longer[i] = above[i]
        /\ longer[Len(above) + 1] = t.dir[c].name
    BY <1>9, <1>10, Appended
  <2>2. (L - 1) + 1 = L
    BY <1>1
  <2> HIDE DEF longer
  <2>3. QED  BY <1>9, <2>1, <2>2
<1> HIDE DEF longer
<1>12. ASSUME NEW i \in 1 .. L PROVE path[i] = longer[i]
  <2>1. CASE i = L
    <3>1. L + 1 - i = 1
      BY <1>1, <2>1
    <3>2. QED  BY <1>1, <1>2, <1>11, <2>1, <3>1
  <2>2. CASE i # L
    <3>1. i \in 1 .. L - 1 /\ L - i \in 1 .. L - 1 /\ (L - i) + 1 = L + 1 - i
      BY <1>1, <2>2
    <3>2. rest[L - i] = up[L + 1 - i]
      BY <1>6, <3>1
    <3>3. QED  BY <1>2, <1>9, <1>11, <3>1, <3>2
  <2>3. QED  BY <2>1, <2>2
<1>13. path = longer
  BY <1>2, <1>11, <1>12, SeqEqual
<1>14. above = SubSeq(path, 1, L - 1)
  <2> DEFINE front == SubSeq(path, 1, L - 1)
  <2>1. \A i \in 1 .. L - 1 : path[i] = above[i] /\ above[i] \in Names
    <3>1. \A i \in 1 .. L - 1 : i \in 1 .. L
      BY <1>1
    <3>2. QED  BY <1>9, <1>11, <1>12, <3>1, ElementOfSeq
  <2>2. front \in Seq(Names) /\ Len(front) = L - 1 /\ \A i \in 1 .. L - 1 : front[i] = path[i]
    <3>1. 1 \in Int /\ L - 1 \in Int /\ (L - 1) - 1 + 1 = L - 1
          /\ (IF 1 <= L - 1 THEN (L - 1) - 1 + 1 ELSE 0) = L - 1
          /\ \A i \in 1 .. L - 1 : 1 + i - 1 = i
      BY <1>1
    <3>2. /\ front \in Seq(Names)
          /\ Len(front) = IF 1 <= L - 1 THEN (L - 1) - 1 + 1 ELSE 0
          /\ \A i \in 1 .. (L - 1) - 1 + 1 : front[i] = path[1 + i - 1]
      BY <2>1, <3>1, SubSeqProperties
    <3> HIDE DEF front
    <3>3. QED  BY <3>1, <3>2
  <2> HIDE DEF front
  <2>3. \A i \in 1 .. Len(above) : above[i] = front[i]
    BY <1>9, <2>1, <2>2
  <2>4. above = front
    BY <1>9, <2>2, <2>3, SeqEqual
  <2>5. QED  BY <2>4 DEF front
<1>15. QED  BY <1>2, <1>13, <1>14 DEF path, above, longer

-----------------------------------------------------------------------------
(* What the built tree is.                                                 *)

\* A built tree is the one that the calls describe.
LEMMA BuiltIsSpelled ==
  ASSUME NEW t, NEW n, Built(t, n)
  PROVE  IsSpelled(t, n)
<1>1. WellFormed(TreeNames, t) /\ t \in Trees(TreeNames)
  BY DEF Built, WellFormed
<1>2. DOMAIN t.dir = 1 .. Len(t.dir) /\ DOMAIN t.file = 1 .. Len(t.file) /\ Len(t.file) \in Nat
  <2>1. t.dir \in Seq(DirRec(TreeNames)) /\ t.file \in Seq(FileRec(TreeNames))
    BY <1>1 DEF Trees
  <2>2. QED  BY <2>1, LenProperties
<1>3. ASSUME NEW d \in DOMAIN t.dir
      PROVE  /\ Spells(t.dir, Children(t, d), DirsMadeIn(n, d))
             /\ Spells(t.file, FilesIn(t, d), FilesMadeIn(n, d))
             /\ \A i \in DOMAIN Children(t, d) : t.dir[Children(t, d)[i]].parent = d
  <2>1. d \in 1 .. Len(t.dir)
    BY <1>2
  <2>2. /\ Spells(t.dir, Children(t, d), DirsMadeIn(n, d))
        /\ Spells(t.file, FilesIn(t, d), FilesMadeIn(n, d))
    BY <2>1 DEF Built
  <2> DEFINE kids == Children(t, d)
  <2>3. kids \in Seq(1 .. Len(t.dir)) /\ \A i \in 1 .. Len(kids) : t.dir[kids[i]].parent = d
    BY <1>1, <2>1, ChildrenAre
  <2> HIDE DEF kids
  <2>4. \A i \in DOMAIN kids : t.dir[kids[i]].parent = d
    BY <2>3, LenProperties
  <2>5. QED  BY <2>2, <2>4 DEF kids
<1>4. FileList(t) = [i \in DOMAIN t.file |-> i]
  <2>1. InOrder(t, Len(t.file)) /\ Len(t.file) <= Len(t.file)
    BY <1>1, <1>2 DEF WellFormed
  <2>2. QED  BY <1>1, <1>2, <2>1, FileListIs
<1>5. ASSUME NEW f \in DOMAIN t.file
      PROVE  t.file[f].list_prev = IF f = 1 THEN NULL ELSE f - 1
  <2>1. t.file[f].list_prev = f - 1
    BY <1>1, <1>2 DEF WellFormed
  <2>2. QED  BY <1>2, <2>1 DEF NULL
<1>6. QED  BY <1>3, <1>4, <1>5 DEF IsSpelled

\* A file that a call made is found by its name, and what is found has it.
LEMMA FindFileIs ==
  ASSUME NEW t, NEW n, Built(t, n), NEW name
  PROVE  /\ FindFile(t, name) # NULL =>
              FindFile(t, name) \in DOMAIN t.file /\ t.file[FindFile(t, name)].name = name
         /\ (\E f \in DOMAIN t.file : t.file[f].name = name) => FindFile(t, name) # NULL
<1> DEFINE all == FileList(t)
           found == FindFile(t, name)
           N == Len(t.file)
<1>1. N \in Nat /\ DOMAIN t.file = 1 .. N
  <2>1. t.file \in Seq(FileRec(TreeNames))
    BY DEF Built, WellFormed, Trees
  <2>2. QED  BY <2>1, LenProperties
<1>2. all = [i \in 1 .. N |-> i] /\ all \in Seq(1 .. N) /\ Len(all) = N
  <2>1. t \in Trees(TreeNames) /\ InOrder(t, N) /\ N <= N
    BY <1>1 DEF Built, WellFormed
  <2>2. QED  BY <1>1, <2>1, FileListIs
<1>3. \A i \in 1 .. N : all[i] = i
  BY <1>2
<1>4. found = FirstNamed(all, t.file, name)
  BY DEF FindFile
<1> HIDE DEF all, found
<1>5. \/ found = NULL /\ \A i \in 1 .. N : t.file[i].name # name
      \/ \E i \in 1 .. N : found = i /\ t.file[i].name = name
  <2> DEFINE S == 1 .. N
             arr == t.file
  <2>0. all \in Seq(S)
    BY <1>2
  <2> HIDE DEF S, arr
  <2>1. \/ /\ FirstNamed(all, arr, name) = NULL
           /\ \A i \in 1 .. Len(all) : arr[all[i]].name # name
        \/ \E i \in 1 .. Len(all) :
             /\ FirstNamed(all, arr, name) = all[i]
             /\ arr[all[i]].name = name
             /\ \A j \in 1 .. Len(all) : arr[all[j]].name = name => i <= j
    BY <2>0, FirstNamedIs
  <2>2. QED  BY <1>2, <1>3, <1>4, <2>1 DEF arr
<1>6. \A i \in 1 .. N : i # NULL
  BY DEF NULL
<1>7. QED  BY <1>1, <1>5, <1>6 DEF found

\* Each call made its file.
LEMMA FileOfCall ==
  ASSUME NEW t, NEW n \in Nat, Built(t, n), NEW c \in 1 .. n,
         BootCalls[c].dir \in 1 .. Len(t.dir), BootCalls[c].type # "DIR"
  PROVE  FindFile(t, BootCalls[c].name) # NULL
<1> DEFINE d == BootCalls[c].dir
           here == FilesIn(t, d)
<1>1. here \in Seq(1 .. Len(t.file)) /\ DOMAIN t.file = 1 .. Len(t.file)
  <2>1. t.file \in Seq(FileRec(TreeNames))
    BY DEF Built, WellFormed, Trees
  <2>2. Sorted(here, Len(t.file), DirOfFile(t), d)
    BY DEF Built, WellFormed, Listed, FilesIn
  <2>3. QED  BY <2>1, <2>2, LenProperties DEF Sorted
<1>2. c \in FilesMadeIn(n, d)
  BY DEF FilesMadeIn
<1>3. Spells(t.file, here, FilesMadeIn(n, d))
  BY DEF Built
<1> HIDE DEF here
<1>4. PICK call \in [DOMAIN here -> FilesMadeIn(n, d)] :
        /\ \A k \in FilesMadeIn(n, d) : \E i \in DOMAIN here : call[i] = k
        /\ \A i \in DOMAIN here : t.file[here[i]].name = BootCalls[call[i]].name
  BY <1>3, Zenon DEF Spells
<1>5. PICK i \in DOMAIN here : call[i] = c
  BY <1>2, <1>4
<1>6. here[i] \in DOMAIN t.file /\ t.file[here[i]].name = BootCalls[c].name
  <2>1. here[i] \in 1 .. Len(t.file)
    BY <1>1, <1>5, LenProperties, ElementOfSeq
  <2>2. QED  BY <1>1, <1>4, <1>5, <2>1
<1>7. QED  BY <1>6, FindFileIs

\* Going up or down one directory takes the last name off the path, or adds one.
LEMMA SubdirIs ==
  ASSUME NEW t, NEW n, Built(t, n), NEW d \in DOMAIN t.dir, NEW name,
         FindTargetSubdir(t, d, name) # NULL
  PROVE  /\ FindTargetSubdir(t, d, name) \in DOMAIN t.dir
         /\ FullPath(t, FindTargetSubdir(t, d, name)) =
              IF name = ".." THEN SubSeq(FullPath(t, d), 1, Len(FullPath(t, d)) - 1)
              ELSE Append(FullPath(t, d), name)
<1> DEFINE target == FindTargetSubdir(t, d, name)
           N == Len(t.dir)
<1>1. WellFormed(TreeNames, t) /\ DOMAIN t.dir = 1 .. N
  <2>1. WellFormed(TreeNames, t) /\ t.dir \in Seq(DirRec(TreeNames))
    BY DEF Built, WellFormed, Trees
  <2>2. QED  BY <2>1, LenProperties
<1>2. CASE name = ".."
  <2>1. target = t.dir[d].parent
    BY <1>2 DEF FindTargetSubdir
  <2>2. target \in 1 .. N
    <3> DEFINE up == Chain(d, ParentDir(t))
    <3>1. WayUp(t, d, up)
      BY <1>1, UpwardIs
    <3> HIDE DEF up
    <3>2. 1 \in 1 .. Len(up) /\ (1 # Len(up) => 1 + 1 \in 1 .. Len(up))
      <4>1. Len(up) \in Nat \ {0}
        BY <3>1 DEF WayUp
      <4> DEFINE L == Len(up)
      <4>2. L \in Nat \ {0}
        BY <4>1
      <4> HIDE DEF L
      <4>3. 1 \in 1 .. L /\ (1 # L => 1 + 1 \in 1 .. L)
        BY <4>2
      <4>4. QED  BY <4>3 DEF L
    <3>3. t.dir[d].parent = IF 1 = Len(up) THEN NULL ELSE up[1 + 1]
      BY <3>1, <3>2 DEF WayUp
    <3>4. QED  BY <2>1, <3>1, <3>2, <3>3 DEF WayUp
  <2> HIDE DEF target
  <2>3. FullPath(t, target) = SubSeq(FullPath(t, d), 1, Len(FullPath(t, d)) - 1)
    BY <1>1, <2>1, <2>2, PathOfChild
  <2>4. QED  BY <1>1, <1>2, <2>2, <2>3 DEF target
<1>3. CASE name # ".."
  <2> DEFINE kids == Children(t, d)
  <2>1. target = FirstNamed(kids, t.dir, name)
    BY <1>3 DEF FindTargetSubdir
  <2>2. /\ kids \in Seq(1 .. N)
        /\ \A i \in 1 .. Len(kids) : kids[i] \in 1 .. N /\ t.dir[kids[i]].parent = d
    BY <1>1, ChildrenAre
  <2>3. target # NULL
    OBVIOUS
  <2> HIDE DEF target, kids
  <2>4. PICK i \in 1 .. Len(kids) : target = kids[i] /\ t.dir[kids[i]].name = name
    BY <2>1, <2>2, <2>3, FirstNamedIs
  <2>5. target \in 1 .. N /\ t.dir[target].parent = d /\ t.dir[target].name = name
    BY <2>2, <2>4
  <2>6. FullPath(t, target) = Append(FullPath(t, d), name)
    BY <1>1, <2>5, PathOfChild
  <2>7. QED  BY <1>1, <1>3, <2>5, <2>6 DEF target
<1>4. QED  BY <1>2, <1>3

\* The driver of a file is the one its name promises.
LEMMA DriverOfCall ==
  ASSUME NEW c \in 1 .. 6
  PROVE  LET name == BootCalls[c].name
             type == BootCalls[c].type
         IN  /\ Allowed(name, "read") => FileRead(type) = DriverOf(name, "read")
             /\ Allowed(name, "write") => FileWrite(type) = DriverOf(name, "write")
<1>1. c = 1 \/ c = 2 \/ c = 3 \/ c = 4 \/ c = 5 \/ c = 6
  OBVIOUS
<1>2. QED  BY <1>1 DEF BootCalls, Allowed, DriverOf, FileRead, FileWrite

\* The finished tree.
LEMMA BootTreeBuilt == Built(BootTree, 6) /\ Len(BootTree.dir) = 3
<1>1. BootTree = TreeAfter[6] /\ Built(TreeAfter[6], 6)
  BY TheCalls, TreesBuilt DEF BootTree
<1>2. DirsAfter(6) = 3
  BY DEF DirsAfter
<1>3. QED  BY <1>1, <1>2 DEF Built

\* What the calls on descriptors and directories need of the tree.
LEMMA BootTreeFacts ==
  /\ Dirs \subseteq Nat \ {NULL} /\ FileIds \subseteq Nat \ {NULL}
  /\ FindFile(BootTree, "/console_in") \in FileIds
  /\ FindFile(BootTree, "/console_out") \in FileIds
  /\ \A name \in FileNames \ {NoFile} :
       FindFile(BootTree, name) # NULL =>
         /\ FindFile(BootTree, name) \in FileIds
         /\ BootTree.file[FindFile(BootTree, name)].name = name
  /\ \A f \in FileIds, op \in {"read", "write"} :
       Allowed(BootTree.file[f].name, op) =>
         FuncIn(BootTree, f, op) = DriverOf(BootTree.file[f].name, op)
  /\ Root \in Dirs /\ Path(Root) = <<"/root">> /\ "/root" \in DirNames
  /\ \A d \in Dirs : Path(d) \in Seq(DirNames) /\ Path(d) # <<>>
  /\ \A d \in Dirs, name \in ChdirArgs :
       FindTargetSubdir(BootTree, d, name) # NULL =>
         /\ FindTargetSubdir(BootTree, d, name) \in Dirs
         /\ Path(FindTargetSubdir(BootTree, d, name)) =
              IF name = ".." THEN SubSeq(Path(d), 1, Len(Path(d)) - 1)
              ELSE Append(Path(d), name)
<1> DEFINE t == BootTree
<1>1. Built(t, 6) /\ Len(t.dir) = 3 /\ WellFormed(TreeNames, t)
  BY BootTreeBuilt DEF Built
<1>2. /\ Dirs = 1 .. Len(t.dir) /\ Dirs = DOMAIN t.dir
      /\ FileIds = 1 .. Len(t.file) /\ FileIds = DOMAIN t.file
  <2>1. t.dir \in Seq(DirRec(TreeNames)) /\ t.file \in Seq(FileRec(TreeNames))
    BY <1>1 DEF WellFormed, Trees
  <2>2. QED  BY <2>1, LenProperties DEF Dirs, FileIds
<1>3. /\ t.dir[Root].name = "/root" /\ t.dir[Root].parent = NULL /\ Root \in 1 .. Len(t.dir)
  BY <1>1 DEF Built, Root
<1>4. /\ \A name : FindFile(t, name) # NULL =>
           FindFile(t, name) \in FileIds /\ t.file[FindFile(t, name)].name = name
      /\ \A d \in Dirs : \A name : FindTargetSubdir(t, d, name) # NULL =>
           /\ FindTargetSubdir(t, d, name) \in Dirs
           /\ FullPath(t, FindTargetSubdir(t, d, name)) =
                IF name = ".." THEN SubSeq(FullPath(t, d), 1, Len(FullPath(t, d)) - 1)
                ELSE Append(FullPath(t, d), name)
  <2> HIDE DEF t
  <2>1. ASSUME NEW name, FindFile(t, name) # NULL
        PROVE  FindFile(t, name) \in FileIds /\ t.file[FindFile(t, name)].name = name
    BY <1>1, <1>2, <2>1, FindFileIs
  <2>2. ASSUME NEW d \in Dirs, NEW name, FindTargetSubdir(t, d, name) # NULL
        PROVE  /\ FindTargetSubdir(t, d, name) \in Dirs
               /\ FullPath(t, FindTargetSubdir(t, d, name)) =
                    IF name = ".." THEN SubSeq(FullPath(t, d), 1, Len(FullPath(t, d)) - 1)
                    ELSE Append(FullPath(t, d), name)
    <3>1. d \in DOMAIN t.dir
      BY <1>2
    <3> DEFINE target == FindTargetSubdir(t, d, name)
               path == FullPath(t, d)
               there == FullPath(t, target)
    <3>2. /\ target \in DOMAIN t.dir
          /\ there = IF name = ".." THEN SubSeq(path, 1, Len(path) - 1)
                      ELSE Append(path, name)
      BY <1>1, <2>2, <3>1, SubdirIs
    <3> HIDE DEF target, path, there
    <3>3. target \in Dirs
      BY <1>2, <3>2
    <3>4. QED  BY <3>2, <3>3 DEF target, path, there
  <2>3. QED  BY <2>1, <2>2
<1>5. ASSUME NEW c \in {3, 4}
      PROVE  FindFile(t, BootCalls[c].name) \in FileIds
  <2>1. c \in 1 .. 6 /\ BootCalls[c].dir = 2 /\ BootCalls[c].type # "DIR"
    BY DEF BootCalls
  <2>2. 2 \in 1 .. Len(t.dir)
    BY <1>1
  <2> DEFINE k == 6
  <2>3. k \in Nat /\ c \in 1 .. k /\ Built(t, k)
    BY <1>1, <2>1
  <2> HIDE DEF t, k
  <2>4. FindFile(t, BootCalls[c].name) # NULL
    BY <2>1, <2>2, <2>3, FileOfCall
  <2>5. QED  BY <1>4, <2>4
<1>6. FindFile(t, "/console_in") \in FileIds /\ FindFile(t, "/console_out") \in FileIds
  <2>1. BootCalls[3].name = "/console_in" /\ BootCalls[4].name = "/console_out"
    BY DEF BootCalls
  <2> HIDE DEF t
  <2>2. QED  BY <1>5, <2>1
<1>7. ASSUME NEW f \in FileIds, NEW op \in {"read", "write"}, Allowed(t.file[f].name, op)
      PROVE  FuncIn(t, f, op) = DriverOf(t.file[f].name, op)
  <2>1. PICK c \in 1 .. 6 :
          SameFile(t.file[f], NewFile(BootCalls[c].dir, BootCalls[c].name, BootCalls[c].type))
    BY <1>1, <1>2 DEF Built
  <2>2. /\ t.file[f].name = BootCalls[c].name
        /\ t.file[f].file_read = FileRead(BootCalls[c].type)
        /\ t.file[f].file_write = FileWrite(BootCalls[c].type)
    BY <2>1 DEF SameFile, NewFile
  <2> HIDE DEF t
  <2>3. CASE op = "read"
    <3>1. FileRead(BootCalls[c].type) = DriverOf(BootCalls[c].name, "read")
      BY <1>7, <2>2, <2>3, DriverOfCall
    <3>2. QED  BY <2>2, <2>3, <3>1 DEF FuncIn
  <2>4. CASE op = "write"
    <3>1. FileWrite(BootCalls[c].type) = DriverOf(BootCalls[c].name, "write")
      BY <1>7, <2>2, <2>4, DriverOfCall
    <3>2. QED  BY <2>2, <2>4, <3>1 DEF FuncIn
  <2>5. QED  BY <2>3, <2>4
<1>8. FullPath(t, Root) = <<"/root">> /\ "/root" \in DirNames
  <2>1. "/root" \in DirNames
    BY <1>2, <1>3 DEF DirNames
  <2> HIDE DEF t
  <2>2. FullPath(t, Root) = <<t.dir[Root].name>>
    BY <1>1, <1>3, PathOfRoot
  <2>3. QED  BY <1>3, <2>1, <2>2
<1>9. ASSUME NEW d \in Dirs
      PROVE  FullPath(t, d) \in Seq(DirNames) /\ FullPath(t, d) # <<>>
  <2> DEFINE up == Chain(d, ParentDir(t))
             path == FullPath(t, d)
             L == Len(up)
  <2>1. /\ path \in Seq(TreeNames) /\ Len(path) = L /\ path # <<>>
        /\ \A i \in 1 .. L : path[i] = t.dir[up[L + 1 - i]].name
    BY <1>1, <1>2, PathIs
  <2>2. L \in Nat /\ \A i \in 1 .. L : up[i] \in 1 .. Len(t.dir)
    BY <1>1, <1>2, UpwardIs DEF WayUp
  <2>3. \A k \in 1 .. Len(t.dir) : t.dir[k].name \in DirNames
    BY <1>2 DEF DirNames
  <2> HIDE DEF path, L, up, t
  <2>4. \A i \in 1 .. Len(path) : path[i] \in DirNames
    <3>1. \A i \in 1 .. L : L + 1 - i \in 1 .. L
      BY <2>2
    <3>2. QED  BY <2>1, <2>2, <2>3, <3>1
  <2>5. path = [i \in 1 .. Len(path) |-> path[i]] /\ Len(path) \in Nat
    BY <2>1, LenProperties
  <2>6. path \in Seq(DirNames)
    BY <2>4, <2>5
  <2>7. QED  BY <2>1, <2>6 DEF path
<1>10. Dirs \subseteq Nat \ {NULL} /\ FileIds \subseteq Nat \ {NULL}
  BY <1>2 DEF NULL
<1>11. Root \in Dirs
  BY <1>2, <1>3
<1>12. QED
  BY <1>4, <1>6, <1>7, <1>8, <1>9, <1>10, <1>11 DEF Path

-----------------------------------------------------------------------------
(* Descriptor tables.                                                      *)

Tables == [FD -> FileIds \cup {NULL}]

\* file_open takes a free descriptor of the table, or none.
LEMMA FdIsFree ==
  ASSUME NEW table, NEW name
  PROVE  \/ FdOfOpen(table, name) = -1
         \/ /\ FindFile(tree, name) # NULL
            /\ FdOfOpen(table, name) \in FD
            /\ table[FdOfOpen(table, name)] = NULL
BY DEF FdOfOpen, FirstFree, FreeFds

\* Where the loop of file_open stops.
LEMMA FirstFreeIs ==
  ASSUME NEW table, NEW fd \in FD, table[fd] = NULL, fd # StdErr,
         \A k \in FD : k < fd /\ k # StdErr => table[k] # NULL
  PROVE  FirstFree(table) = {fd}
<1>1. FD \subseteq Nat
  BY FilesAssumption DEF FD
<1>2. fd \in FirstFree(table)
  BY <1>1 DEF FirstFree, FreeFds
<1>3. ASSUME NEW k \in FirstFree(table) PROVE k = fd
  <2>1. k \in FD /\ k <= fd /\ fd <= k
    BY <1>2, <1>3 DEF FirstFree, FreeFds
  <2>2. QED  BY <1>1, <2>1
<1>4. QED  BY <1>2, <1>3

\* What file_open then does.
LEMMA OpenAt ==
  ASSUME NEW table, NEW name, NEW fd \in FD, FirstFree(table) = {fd},
         FindFile(tree, name) # NULL
  PROVE  WithOpened(table, name) = [table EXCEPT ![fd] = FindFile(tree, name)]
<1>1. FdOfOpen(table, name) = fd
  BY DEF FdOfOpen
<1>2. fd # -1
  BY FilesAssumption DEF FD
<1>3. QED  BY <1>1, <1>2, Zenon DEF WithOpened

ConsoleIn == FindFile(BootTree, "/console_in")
ConsoleOut == FindFile(BootTree, "/console_out")

\* A new task has the console under 0 and 1, and nothing else.
LEMMA NewTable ==
  ASSUME tree = BootTree, NEW table
  PROVE  TableOfNewTask(table) =
           [fd \in FD |-> IF fd = 0 THEN ConsoleIn ELSE IF fd = 1 THEN ConsoleOut ELSE NULL]
<1>1. 0 \in FD /\ 1 \in FD /\ FD \subseteq Nat
  BY FilesAssumption DEF FD
<1>2. /\ FindFile(tree, "/console_in") # NULL /\ FindFile(tree, "/console_in") = ConsoleIn
      /\ FindFile(tree, "/console_out") # NULL /\ FindFile(tree, "/console_out") = ConsoleOut
  BY BootTreeFacts DEF ConsoleIn, ConsoleOut
<1> DEFINE one == [fd \in FD |-> IF fd = 0 THEN ConsoleIn ELSE NULL]
<1>3. WithOpened(NoDescriptors, "/console_in") = one
  <2>1. FirstFree(NoDescriptors) = {0}
    BY <1>1, FirstFreeIs DEF NoDescriptors, StdErr
  <2>2. WithOpened(NoDescriptors, "/console_in") = [NoDescriptors EXCEPT ![0] = ConsoleIn]
    BY <1>1, <1>2, <2>1, OpenAt
  <2>3. QED  BY <2>2 DEF NoDescriptors
<1>4. WithOpened(one, "/console_out") = [one EXCEPT ![1] = ConsoleOut]
  <2>1. FirstFree(one) = {1}
    BY <1>1, <1>2, FirstFreeIs DEF StdErr
  <2>2. QED  BY <1>1, <1>2, <2>1, OpenAt
<1>5. [one EXCEPT ![1] = ConsoleOut] =
        [fd \in FD |-> IF fd = 0 THEN ConsoleIn ELSE IF fd = 1 THEN ConsoleOut ELSE NULL]
  <2>1. ASSUME NEW fd \in FD
        PROVE  [one EXCEPT ![1] = ConsoleOut][fd] =
                 IF fd = 0 THEN ConsoleIn ELSE IF fd = 1 THEN ConsoleOut ELSE NULL
    BY <1>1
  <2>2. QED  BY <2>1
<1>6. QED
  BY <1>3, <1>4, <1>5 DEF TableOfNewTask, WithConsole

-----------------------------------------------------------------------------
(* The inductive invariant.                                                *)

\* A task has a directory, and its program knows the path of it, unless it or
\* an ancestor of it closed the number behind the table.
DirKnown ==
  \A t \in live \ nodir : cwdn[t] # NULL /\ Path(cwdn[t]) = <<"/root">> \o trail[t]

\* While there are tasks the tree is complete.
TreeComplete == live # {} => booted = Len(BootCalls) /\ tree = BootTree

\* A call that went through NULL was made by a live task.
WildLives == wild \subseteq live

IInv ==
  /\ TypeOK
  /\ TreeComplete
  /\ WildLives
  /\ GivenIsOpen
  /\ DirKnown
  /\ WildOnlyByMisuse

\* Descriptors and knowledge of one task.
Agree(table, known) ==
  \A fd \in FD :
    IF known[fd] = NoFile THEN table[fd] = NULL
    ELSE table[fd] # NULL /\ BootTree.file[table[fd]].name = known[fd]

\* GivenIsOpen, for one task at a time.
LEMMA GivenSplit ==
  ASSUME TreeComplete
  PROVE  GivenIsOpen <=> \A t \in live : Agree(openfiles[t], given[t])
BY DEF GivenIsOpen, Agree, TreeComplete

\* The new task's table agrees with what its program takes for granted.
LEMMA ConsoleAgrees ==
  ASSUME tree = BootTree, NEW table
  PROVE  /\ TableOfNewTask(table) \in Tables
         /\ ConsoleGiven \in [FD -> FileNames]
         /\ Agree(TableOfNewTask(table), ConsoleGiven)
<1>1. /\ ConsoleIn \in FileIds /\ ConsoleIn # NULL /\ BootTree.file[ConsoleIn].name = "/console_in"
      /\ ConsoleOut \in FileIds /\ ConsoleOut # NULL
      /\ BootTree.file[ConsoleOut].name = "/console_out"
  BY BootTreeFacts, FilesAssumption DEF ConsoleIn, ConsoleOut, FileNames, NoFile
<1>2. TableOfNewTask(table) =
        [fd \in FD |-> IF fd = 0 THEN ConsoleIn ELSE IF fd = 1 THEN ConsoleOut ELSE NULL]
  BY NewTable
<1>3. FD \subseteq Nat
  BY FilesAssumption DEF FD
<1>4. TableOfNewTask(table) \in Tables
  BY <1>1, <1>2, <1>3 DEF Tables
<1>5. ConsoleGiven \in [FD -> FileNames]
  BY <1>3 DEF ConsoleGiven, FileNames
<1>6. ASSUME NEW fd \in FD
      PROVE  IF ConsoleGiven[fd] = NoFile THEN TableOfNewTask(table)[fd] = NULL
             ELSE /\ TableOfNewTask(table)[fd] # NULL
                  /\ BootTree.file[TableOfNewTask(table)[fd]].name = ConsoleGiven[fd]
  <2>1. CASE fd = 0
    BY <1>1, <1>2, <1>3, <2>1 DEF ConsoleGiven, NoFile
  <2>2. CASE fd = 1
    BY <1>1, <1>2, <1>3, <2>2 DEF ConsoleGiven, NoFile
  <2>3. CASE fd # 0 /\ fd # 1
    BY <1>2, <1>3, <2>3 DEF ConsoleGiven, NoFile
  <2>4. QED  BY <2>1, <2>2, <2>3
<1>7. QED  BY <1>4, <1>5, <1>6 DEF Agree

-----------------------------------------------------------------------------
(* The invariant holds.                                                    *)

LEMMA CallsCounted == Len(BootCalls) \in Nat \ {0}
BY DEF BootCalls

LEMMA InitInv == Init => IInv
<1> SUFFICES ASSUME Init PROVE IInv
  OBVIOUS
<1>1. TypeOK
  <2>1. tree = TreeAfter[booted] /\ booted \in 0 .. Len(BootCalls)
    BY OneCallMore, CallsCounted DEF Init
  <2>2. QED  BY <2>1 DEF Init, TypeOK, NoDescriptors, NothingGiven, FileNames
<1>2. QED
  BY <1>1 DEF Init, IInv, TreeComplete, WildLives, GivenIsOpen, DirKnown, WildOnlyByMisuse

\* The parts of the invariant that a step of the running system may disturb, put
\* together: the tree stays, and every task's table agrees with its program.
LEMMA Together ==
  ASSUME IInv, live # {}, UNCHANGED <<booted, tree>>,
         live' \in SUBSET Task, wild' \in SUBSET Task,
         misuse' \in SUBSET Task, nodir' \in SUBSET Task,
         openfiles' \in [Task -> Tables],
         cwdn' \in [Task -> Dirs \cup {NULL}],
         given' \in [Task -> [FD -> FileNames]],
         trail' \in [Task -> Seq(ChdirArgs)],
         \A t \in live' : Agree(openfiles'[t], given'[t]),
         \A t \in live' \ nodir' :
           cwdn'[t] # NULL /\ Path(cwdn'[t]) = <<"/root">> \o trail'[t],
         wild' \subseteq live',
         \A t \in wild' \ misuse' : t \in nodir' /\ cwdn'[t] = NULL
  PROVE  IInv'
<1>1. tree = BootTree /\ booted = Len(BootCalls)
  BY DEF IInv, TreeComplete
<1>2. TypeOK'
  BY DEF IInv, TypeOK, Tables
<1>3. TreeComplete'
  BY <1>1 DEF TreeComplete
<1>4. GivenIsOpen'
  BY <1>1 DEF GivenIsOpen, Agree
<1>5. DirKnown' /\ WildLives' /\ WildOnlyByMisuse'
  BY DEF DirKnown, WildLives, WildOnlyByMisuse
<1>6. QED  BY <1>2, <1>3, <1>4, <1>5 DEF IInv

\* What holds before such a step.
LEMMA Before ==
  ASSUME IInv, NEW t \in live
  PROVE  /\ t \in Task /\ tree = BootTree
         /\ live \in SUBSET Task /\ wild \in SUBSET Task
         /\ misuse \in SUBSET Task /\ nodir \in SUBSET Task
         /\ openfiles \in [Task -> Tables] /\ cwdn \in [Task -> Dirs \cup {NULL}]
         /\ given \in [Task -> [FD -> FileNames]] /\ trail \in [Task -> Seq(ChdirArgs)]
         /\ \A u \in live : Agree(openfiles[u], given[u])
         /\ \A u \in live \ nodir : cwdn[u] # NULL /\ Path(cwdn[u]) = <<"/root">> \o trail[u]
BY GivenSplit DEF IInv, TypeOK, Tables, TreeComplete, DirKnown, WildOnlyByMisuse

LEMMA BuildTreeInv == IInv /\ BuildTree => IInv'
<1> SUFFICES ASSUME IInv, BuildTree PROVE IInv'
  OBVIOUS
<1>1. live = {}
  BY CallsCounted DEF IInv, TreeComplete, BuildTree
<1>2. TypeOK'
  <2>1. booted \in 0 .. 5 /\ booted' = booted + 1 /\ booted' \in 0 .. Len(BootCalls)
    BY TheCalls DEF IInv, TypeOK, BuildTree
  <2>2. tree' = TreeAfter[booted']
    BY <2>1, OneCallMore DEF IInv, TypeOK, BuildTree
  <2>3. QED  BY <2>1, <2>2 DEF IInv, TypeOK, BuildTree
<1>3. QED
  BY <1>1, <1>2 DEF IInv, BuildTree, TreeComplete, WildLives, GivenIsOpen, DirKnown, WildOnlyByMisuse

LEMMA StartShellInv == IInv /\ StartShell => IInv'
<1> SUFFICES ASSUME IInv, StartShell PROVE IInv'
  OBVIOUS
<1>1. tree = BootTree /\ Shell \in Task
  BY FilesAssumption DEF StartShell, IInv, TypeOK, BootTree
<1>2. /\ TableOfNewTask(openfiles[Shell]) \in Tables
      /\ ConsoleGiven \in [FD -> FileNames]
      /\ Agree(TableOfNewTask(openfiles[Shell]), ConsoleGiven)
  BY <1>1, ConsoleAgrees
<1>3. TypeOK'
  BY <1>1, <1>2, BootTreeFacts DEF IInv, TypeOK, StartShell, Tables
<1>4. TreeComplete'
  BY <1>1 DEF StartShell, TreeComplete
<1>5. GivenIsOpen'
  BY <1>1, <1>2 DEF IInv, TypeOK, StartShell, GivenIsOpen, Agree
<1>6. DirKnown'
  <2>1. cwdn'[Shell] = Root /\ trail'[Shell] = <<>> /\ live' = {Shell}
    BY <1>1 DEF IInv, TypeOK, StartShell
  <2>2. Root # NULL /\ Path(Root) = <<"/root">> \o <<>>
    BY BootTreeFacts DEF Root, NULL
  <2>3. QED  BY <2>1, <2>2 DEF DirKnown
<1>7. WildLives' /\ WildOnlyByMisuse'
  BY DEF IInv, WildLives, WildOnlyByMisuse, StartShell
<1>8. QED  BY <1>3, <1>4, <1>5, <1>6, <1>7 DEF IInv

LEMMA TaskCreateInv ==
  ASSUME IInv, NEW t \in Task, NEW u \in Task, TaskCreate(t, u)
  PROVE  IInv'
<1>1. t \in live /\ t # u /\ wild = {}
  BY DEF TaskCreate, Running
<1>2. /\ TableOfNewTask(openfiles[u]) \in Tables
      /\ ConsoleGiven \in [FD -> FileNames]
      /\ Agree(TableOfNewTask(openfiles[u]), ConsoleGiven)
  BY <1>1, Before, ConsoleAgrees
<1>3. \A v \in live' : Agree(openfiles'[v], given'[v])
  BY <1>1, <1>2, Before DEF TaskCreate, Born
<1>4. \A v \in live' \ nodir' :
        cwdn'[v] # NULL /\ Path(cwdn'[v]) = <<"/root">> \o trail'[v]
  BY <1>1, Before DEF TaskCreate, Born, DirOfNewTask
<1>5. QED
  BY <1>1, <1>2, <1>3, <1>4, Before, Together DEF TaskCreate, Born, DirOfNewTask

LEMMA ForkInv ==
  ASSUME IInv, NEW t \in Task, NEW u \in Task, Fork(t, u)
  PROVE  IInv'
<1>1. t \in live /\ t # u /\ wild = {}
  BY DEF Fork, Running
<1>2. \A v \in live' : Agree(openfiles'[v], given'[v])
  BY <1>1, Before DEF Fork, Born, TableOfChild
<1>3. \A v \in live' \ nodir' :
        cwdn'[v] # NULL /\ Path(cwdn'[v]) = <<"/root">> \o trail'[v]
  BY <1>1, Before DEF Fork, Born
<1>4. QED
  BY <1>1, <1>2, <1>3, Before, Together DEF Fork, Born, TableOfChild

LEMMA ExitInv ==
  ASSUME IInv, NEW t \in Task, Exit(t)
  PROVE  IInv'
BY Before, Together DEF Exit, Running

LEMMA OpenInv ==
  ASSUME IInv, NEW t \in Task, NEW name \in OpenArgs, Open(t, name)
  PROVE  IInv'
<1> DEFINE fd == FdOfOpen(openfiles[t], name)
<1>1. t \in live /\ tree = BootTree /\ wild = {}
  BY Before DEF Open, Running
<1>2. CASE fd = -1
  <2>1. openfiles' = openfiles /\ given' = given
    BY <1>1, <1>2, Before DEF Open, WithOpened
  <2>2. QED  BY <1>1, <2>1, Before, Together DEF Open
<1>3. CASE fd # -1
  <2>1. fd \in FD /\ openfiles[t][fd] = NULL
    BY <1>3, FdIsFree
  <2>2. /\ FindFile(BootTree, name) \in FileIds /\ FindFile(BootTree, name) # NULL
        /\ BootTree.file[FindFile(BootTree, name)].name = name
        /\ name # NoFile /\ name \in FileNames
    BY <1>1, <1>3, FdIsFree, BootTreeFacts, FilesAssumption DEF FileNames, NoFile
  <2>3. /\ openfiles' = [openfiles EXCEPT ![t][fd] = FindFile(BootTree, name)]
        /\ given' = [given EXCEPT ![t][fd] = name]
    BY <1>1, <1>3 DEF Open, WithOpened
  <2>4. Agree(openfiles'[t], given'[t])
    BY <1>1, <2>1, <2>2, <2>3, Before DEF Agree, Tables
  <2>5. \A v \in live' : Agree(openfiles'[v], given'[v])
    BY <1>1, <2>3, <2>4, Before DEF Open, Tables
  <2>6. openfiles' \in [Task -> Tables] /\ given' \in [Task -> [FD -> FileNames]]
    BY <1>1, <2>1, <2>2, <2>3, Before DEF Tables
  <2>7. UNCHANGED <<booted, tree, live, wild, cwdn, trail, misuse, nodir>>
    BY DEF Open
  <2>8. QED  BY <1>1, <2>5, <2>6, <2>7, Before, Together
<1>4. QED  BY <1>2, <1>3

LEMMA CloseInv ==
  ASSUME IInv, NEW t \in Task, NEW fd \in FD, Close(t, fd)
  PROVE  IInv'
<1>1. t \in live /\ wild = {}
  BY DEF Close, Running
<1>2. openfiles' = [openfiles EXCEPT ![t][fd] = NULL] /\ given' = [given EXCEPT ![t][fd] = NoFile]
  BY DEF Close, CloseEntry
<1>3. Agree(openfiles'[t], given'[t])
  BY <1>1, <1>2, Before DEF Agree, Tables
<1>4. \A v \in live' : Agree(openfiles'[v], given'[v])
  BY <1>1, <1>2, <1>3, Before DEF Close, Tables
<1>5. openfiles' \in [Task -> Tables] /\ given' \in [Task -> [FD -> FileNames]]
  BY <1>1, <1>2, Before DEF Tables, FileNames
<1>6. UNCHANGED <<booted, tree, live, wild, cwdn, trail, misuse, nodir>>
  BY DEF Close
<1>7. QED  BY <1>1, <1>4, <1>5, <1>6, Before, Together

LEMMA CloseBehindTableInv ==
  ASSUME IInv, NEW t \in Task, CloseBehindTable(t)
  PROVE  IInv'
<1>1. t \in live /\ wild = {}
  BY DEF CloseBehindTable, Running
<1>2. \A v \in live' \ nodir' :
        cwdn'[v] # NULL /\ Path(cwdn'[v]) = <<"/root">> \o trail'[v]
  BY <1>1, Before DEF CloseBehindTable
<1>3. QED  BY <1>1, <1>2, Before, Together DEF CloseBehindTable

LEMMA ClosePageTableInv ==
  ASSUME IInv, NEW t \in Task, ClosePageTable(t)
  PROVE  IInv'
<1>1. t \in live /\ wild = {}
  BY DEF ClosePageTable, Running
<1>2. QED  BY <1>1, Before, Together DEF ClosePageTable

\* What the name allows, the file does.
LEMMA DriverReached ==
  ASSUME IInv, NEW t \in live, NEW fd \in FD, NEW op \in {"read", "write"},
         Allowed(given[t][fd], op)
  PROVE  /\ openfiles[t][fd] # NULL
         /\ Func(openfiles[t][fd], op) = DriverOf(given[t][fd], op)
<1>1. given[t][fd] # NoFile
  BY DEF Allowed, NoFile
<1>2. /\ openfiles[t][fd] \in FileIds /\ openfiles[t][fd] # NULL
      /\ BootTree.file[openfiles[t][fd]].name = given[t][fd]
  BY <1>1, Before DEF Agree, Tables
<1>3. FuncIn(BootTree, openfiles[t][fd], op) = DriverOf(given[t][fd], op)
  BY <1>2, BootTreeFacts
<1>4. QED  BY <1>2, <1>3, Before DEF Func

LEMMA ReadWriteInv ==
  ASSUME IInv, NEW t \in Task, NEW fd \in FD, NEW op \in {"read", "write"},
         ReadWrite(t, fd, op)
  PROVE  IInv'
<1>1. t \in live /\ wild = {}
  BY DEF ReadWrite, Running
<1>2. wild' \ misuse' = {}
  <2>1. CASE Allowed(given[t][fd], op)
    <3>1. DriverOf(given[t][fd], op) # "NULL"
      BY <2>1 DEF Allowed, DriverOf
    <3>2. QED  BY <1>1, <2>1, <3>1, DriverReached DEF ReadWrite
  <2>2. CASE ~Allowed(given[t][fd], op)
    BY <1>1, <2>2 DEF ReadWrite
  <2>3. QED  BY <2>1, <2>2
<1>3. misuse' \in SUBSET Task /\ wild' \in SUBSET Task /\ wild' \subseteq live'
  BY <1>1, Before DEF ReadWrite
<1>4. QED  BY <1>1, <1>2, <1>3, Before, Together DEF ReadWrite

\* A path that is one name longer or shorter.
LEMMA PathStep ==
  ASSUME NEW d \in Dirs, NEW name \in ChdirArgs, NEW went \in Seq(ChdirArgs),
         Path(d) = <<"/root">> \o went,
         FindTargetSubdir(BootTree, d, name) # NULL
  PROVE  /\ FindTargetSubdir(BootTree, d, name) \in Dirs
         /\ name = ".." => /\ SubSeq(went, 1, Len(went) - 1) \in Seq(ChdirArgs)
                            /\ Path(FindTargetSubdir(BootTree, d, name))
                                = <<"/root">> \o SubSeq(went, 1, Len(went) - 1)
         /\ name # ".." => Path(FindTargetSubdir(BootTree, d, name))
                             = <<"/root">> \o Append(went, name)
<1> DEFINE target == FindTargetSubdir(BootTree, d, name)
<1>1. target \in Dirs /\ Path(target) \in Seq(DirNames) /\ Path(target) # <<>>
  BY BootTreeFacts
<1>2. "/root" \in DirNames /\ ChdirArgs \subseteq DirNames
  BY BootTreeFacts DEF DirNames
<1>3. went \in Seq(DirNames) /\ <<"/root">> \in Seq(DirNames) /\ Path(d) \in Seq(DirNames)
  BY <1>2, BootTreeFacts
<1>4. ASSUME name = ".."
      PROVE  /\ SubSeq(went, 1, Len(went) - 1) \in Seq(ChdirArgs)
             /\ Path(target) = <<"/root">> \o SubSeq(went, 1, Len(went) - 1)
  <2>1. Path(target) = SubSeq(Path(d), 1, Len(Path(d)) - 1)
    BY <1>4, BootTreeFacts
  <2>2. Len(Path(d)) = Len(went) + 1
    BY <1>3
  <2>3. Len(went) > 0
    BY <1>1, <1>3, <2>1, <2>2
  <2>4. SubSeq(<<"/root">> \o went, 1, Len(went)) = <<"/root">> \o SubSeq(went, 1, Len(went) - 1)
    BY <1>3, <2>3
  <2>5. QED  BY <2>1, <2>2, <2>3, <2>4
<1>5. ASSUME name # ".." PROVE Path(target) = <<"/root">> \o Append(went, name)
  <2>1. Path(target) = Append(Path(d), name)
    BY <1>5, BootTreeFacts
  <2>2. Append(<<"/root">> \o went, name) = <<"/root">> \o Append(went, name)
    BY <1>2, <1>3
  <2>3. QED  BY <2>1, <2>2
<1>6. QED  BY <1>1, <1>4, <1>5

LEMMA ChdirInv ==
  ASSUME IInv, NEW t \in Task, NEW name \in ChdirArgs, Chdir(t, name)
  PROVE  IInv'
<1> DEFINE target == FindTargetSubdir(BootTree, cwdn[t], name)
           further == IF name = ".." THEN SubSeq(trail[t], 1, Len(trail[t]) - 1)
                      ELSE Append(trail[t], name)
<1>1. t \in live /\ tree = BootTree /\ wild = {} /\ cwdn[t] \in Dirs
  BY Before DEF Chdir, Running
<1>2. CASE target = NULL
  <2>1. cwdn' = cwdn /\ trail' = trail
    BY <1>1, <1>2 DEF Chdir
  <2>2. QED  BY <1>1, <2>1, Before, Together DEF Chdir
<1>3. CASE target # NULL
  <2>1. cwdn' = [cwdn EXCEPT ![t] = target] /\ trail' = [trail EXCEPT ![t] = further]
    BY <1>1, <1>3 DEF Chdir
  <2>2. target \in Dirs
    BY <1>1, <1>3, BootTreeFacts
  <2>3. trail[t] \in Seq(ChdirArgs)
    BY <1>1, Before
  <2>4. further \in Seq(ChdirArgs)
    BY <2>3
  <2>5. t \notin nodir => Path(target) = <<"/root">> \o further
    BY <1>1, <1>3, <2>3, Before, PathStep
  <2>6. cwdn' \in [Task -> Dirs \cup {NULL}] /\ trail' \in [Task -> Seq(ChdirArgs)]
    BY <1>1, <2>1, <2>2, <2>4, Before
  <2>7. \A v \in live' \ nodir' :
          cwdn'[v] # NULL /\ Path(cwdn'[v]) = <<"/root">> \o trail'[v]
    <3>1. ASSUME NEW v \in live' \ nodir'
          PROVE  cwdn'[v] # NULL /\ Path(cwdn'[v]) = <<"/root">> \o trail'[v]
      <4>1. CASE v = t
        BY <1>1, <1>3, <2>1, <2>5, <4>1, Before DEF Chdir
      <4>2. CASE v # t
        BY <1>1, <2>1, <4>2, Before DEF Chdir
      <4>3. QED  BY <4>1, <4>2
    <3>2. QED  BY <3>1
  <2>8. QED  BY <1>1, <2>6, <2>7, Before, Together DEF Chdir
<1>4. QED  BY <1>2, <1>3

LEMMA ChdirGoesWildInv ==
  ASSUME IInv, NEW t \in Task, ChdirGoesWild(t)
  PROVE  IInv'
<1>1. t \in live /\ t \in nodir /\ cwdn[t] = NULL /\ wild = {}
  BY Before DEF ChdirGoesWild, Running
<1>2. QED  BY <1>1, Before, Together DEF ChdirGoesWild

LEMMA StepInv == IInv /\ [Next]_vars => IInv'
<1> SUFFICES ASSUME IInv, [Next]_vars PROVE IInv'
  OBVIOUS
<1>1. CASE BuildTree
  BY <1>1, BuildTreeInv
<1>2. CASE StartShell
  BY <1>2, StartShellInv
<1>3. CASE \E t, u \in Task : TaskCreate(t, u) \/ Fork(t, u)
  BY <1>3, TaskCreateInv, ForkInv
<1>4. CASE \E t \in Task : Exit(t)
  BY <1>4, ExitInv
<1>5. CASE \E t \in Task, name \in OpenArgs : Open(t, name)
  BY <1>5, OpenInv
<1>6. CASE \E t \in Task, fd \in FD : Close(t, fd)
  BY <1>6, CloseInv
<1>7. CASE \E t \in Task : CloseBehindTable(t) \/ ClosePageTable(t)
  BY <1>7, CloseBehindTableInv, ClosePageTableInv
<1>8. CASE \E t \in Task, fd \in FD, op \in {"read", "write"} : ReadWrite(t, fd, op)
  BY <1>8, ReadWriteInv
<1>9. CASE \E t \in Task, name \in ChdirArgs : Chdir(t, name)
  BY <1>9, ChdirInv
<1>10. CASE \E t \in Task : ChdirGoesWild(t)
  BY <1>10, ChdirGoesWildInv
<1>11. CASE UNCHANGED vars
  BY <1>11 DEF vars, IInv, TypeOK, TreeComplete, WildLives, GivenIsOpen, DirKnown, WildOnlyByMisuse
<1>12. QED
  BY <1>1, <1>2, <1>3, <1>4, <1>5, <1>6, <1>7, <1>8, <1>9, <1>10, <1>11 DEF Next

-----------------------------------------------------------------------------
(* Theorems.                                                               *)

\* The invariant is inductive.
THEOREM Invariance == Spec => []IInv
BY InitInv, StepInv, PTL DEF Spec

\* TypeOK, for any number of tasks and descriptors.
THEOREM TypeCorrect == Spec => []TypeOK
<1>1. IInv => TypeOK
  BY DEF IInv
<1>2. QED  BY <1>1, Invariance, PTL

\* After every call of file_in_ram_init the pointers spell the tree that the
\* calls so far describe, and they do so ever after.
THEOREM TreeStaysSpelled == Spec => []TreeIsSpelled
<1>1. IInv => TreeIsSpelled
  <2> SUFFICES ASSUME IInv PROVE TreeIsSpelled
    OBVIOUS
  <2>1. booted \in 0 .. 6 /\ tree = TreeAfter[booted]
    BY TheCalls DEF IInv, TypeOK
  <2>2. Built(tree, booted)
    BY <2>1, TreesBuilt
  <2>3. QED  BY <2>2, BuiltIsSpelled DEF TreeIsSpelled
<1>2. QED  BY <1>1, Invariance, PTL

\* What programs know of their descriptors is what the kernel has.
THEOREM DescriptorsKnown == Spec => []GivenIsOpen
<1>1. IInv => GivenIsOpen
  BY DEF IInv
<1>2. QED  BY <1>1, Invariance, PTL

\* For any number of tasks and generations: the kernel follows NULL only for a
\* task that misused a descriptor itself, or that has no directory because it
\* was born of one that closed it.
THEOREM NullByMisuseOrLostDirectory == Spec => []WildOnlyByMisuse
<1>1. IInv => WildOnlyByMisuse
  BY DEF IInv
<1>2. QED  BY <1>1, Invariance, PTL

\* An allowed read or write reaches the driver that the name stands for.
THEOREM DriversReached == Spec => []ReachesDriver
<1>1. IInv => ReachesDriver
  BY DriverReached DEF ReachesDriver
<1>2. QED  BY <1>1, Invariance, PTL

\* A program's path is the one the results of its chdirs spell, unless the
\* directory was closed under it or an ancestor.
THEOREM PathsKnown == Spec => []PathFollowsResults
<1>1. IInv => PathFollowsResults
  BY Before DEF PathFollowsResults, Path, IInv, DirKnown
<1>2. QED  BY <1>1, Invariance, PTL
=============================================================================
