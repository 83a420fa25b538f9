--------------------------- MODULE BlkAllocProofs ---------------------------
(***************************************************************************)
(* Proofs about BlkAlloc, for every number of blocks.                      *)
(*                                                                         *)
(* The pointers of all blocks, those of the held ones too, descend in some *)
(* order of the blocks.  That is enough for the walk to end from whatever  *)
(* block becomes the head, which is how a stale next is put up with.       *)
(***************************************************************************)
EXTENDS BlkAlloc, WellFoundedInduction, TLAPS

-----------------------------------------------------------------------------
(* The inductive invariant.                                                *)

\* rk orders the blocks, and every pointer goes down in the order.
Descends(nxt, rk) ==
  /\ rk \in [Blks -> 0 .. NBlks - 1]
  /\ \A a, b \in Blks : rk[a] = rk[b] => a = b
  /\ \A b \in Blks : nxt[b] # NULL => rk[nxt[b]] < rk[b]

Acyclic == \E rk : Descends(next, rk)

IInv ==
  /\ TypeOK
  /\ blk_not_init
  /\ ~no_free_blks => blk_list_head # NULL
  /\ Acyclic
  /\ NoBlockLost

-----------------------------------------------------------------------------
(* Walks along the pointers.                                               *)

\* A non-empty set of naturals has a least element.
LEMMA LeastElement ==
  ASSUME NEW T, T \subseteq Nat, T # {}
  PROVE  \E x \in T : \A y \in T : x <= y
<1>1. \E x \in T : \A y \in T : ~ (<<y, x>> \in OpToRel(<, Nat))
  BY WFMin, NatLessThanWellFounded
<1>2. PICK x \in T : \A y \in T : ~ (<<y, x>> \in OpToRel(<, Nat))
  BY <1>1
<1>3. \A y \in T : <<y, x>> \in OpToRel(<, Nat) <=> y < x
  BY DEF OpToRel
<1>4. \A y \in T : x <= y
  <2> TAKE y \in T
  <2>1. ~(y < x) /\ x \in Nat /\ y \in Nat
    BY <1>2, <1>3
  <2> QED BY <2>1
<1> QED BY <1>4

\* w is the walk of m blocks that starts at h, which ends with a NULL.
Walk(h, nxt, w, m) ==
  /\ m \in Nat
  /\ w \in [1 .. m -> Blks]
  /\ h = IF m = 0 THEN NULL ELSE w[1]
  /\ \A i \in 1 .. m : nxt[w[i]] = IF i = m THEN NULL ELSE w[i + 1]

LEMMA NullIsNoBlock == NULL \notin Blks /\ NBlks \in Nat /\ NBlks > 3
  BY BlkAssumption DEF NULL, Blks

\* A block before a walk makes it longer by one.
LEMMA LongerWalk ==
  ASSUME NEW nxt, NEW b \in Blks, NEW w, NEW m, Walk(nxt[b], nxt, w, m)
  PROVE  Walk(b, nxt, [i \in 1 .. m + 1 |-> IF i = 1 THEN b ELSE w[i - 1]], m + 1)
<1> DEFINE v == [i \in 1 .. m + 1 |-> IF i = 1 THEN b ELSE w[i - 1]]
<1>1. /\ m \in Nat /\ m + 1 \in Nat /\ m + 1 # 0
      /\ w \in [1 .. m -> Blks]
      /\ nxt[b] = IF m = 0 THEN NULL ELSE w[1]
      /\ \A i \in 1 .. m : nxt[w[i]] = IF i = m THEN NULL ELSE w[i + 1]
  BY DEF Walk
<1>2. \A i \in 1 .. m + 1 : v[i] = IF i = 1 THEN b ELSE w[i - 1]
  OBVIOUS
<1>3. v \in [1 .. m + 1 -> Blks]
  <2>1. \A i \in 1 .. m + 1 : i # 1 => i - 1 \in 1 .. m
    BY <1>1
  <2> QED BY <1>1, <2>1
<1> HIDE DEF v
<1>4. v[1] = b
  BY <1>1, <1>2
<1>5. ASSUME NEW i \in 1 .. m + 1
      PROVE  nxt[v[i]] = IF i = m + 1 THEN NULL ELSE v[i + 1]
  <2>1. CASE i = 1
    <3>1. m # 0 => i + 1 \in 1 .. m + 1 /\ i + 1 # 1 /\ (i + 1) - 1 = 1
      BY <2>1, <1>1
    <3>2. m # 0 => v[i + 1] = w[1]
      BY <3>1, <1>2
    <3>3. m = 0 <=> i = m + 1
      BY <2>1, <1>1
    <3> QED BY <2>1, <3>2, <3>3, <1>1, <1>4
  <2>2. CASE i # 1
    <3>1. /\ i - 1 \in 1 .. m
          /\ i = m + 1 <=> i - 1 = m
          /\ i # m + 1 => /\ i + 1 \in 1 .. m + 1 /\ i + 1 # 1
                          /\ (i + 1) - 1 = i /\ (i - 1) + 1 = i
      BY <2>2, <1>1
    <3>2. v[i] = w[i - 1]
      BY <2>2, <1>2
    <3>3. i # m + 1 => v[i + 1] = w[i]
      BY <3>1, <1>2
    <3> QED BY <3>1, <3>2, <3>3, <1>1
  <2> QED BY <2>1, <2>2
<1>6. Walk(b, nxt, v, m + 1)
  BY <1>1, <1>3, <1>4, <1>5 DEF Walk
<1> QED BY <1>6 DEF v

\* Where the pointers descend, a walk starts at every block, and it is no longer
\* than there are blocks below it.
LEMMA WalkExists ==
  ASSUME NEW nxt \in [Blks -> Blks \cup {NULL}], NEW rk, Descends(nxt, rk),
         NEW b \in Blks
  PROVE  \E m \in Nat : \E w : Walk(b, nxt, w, m) /\ m <= rk[b] + 1
<1> DEFINE Walks(a) == \E m \in Nat : \E w : Walk(a, nxt, w, m) /\ m <= rk[a] + 1
           Bad == {a \in Blks : ~Walks(a)}
           T == {rk[a] : a \in Bad}
<1>1. \A a \in Blks : rk[a] \in Nat
  BY NullIsNoBlock DEF Descends
<1>2. SUFFICES ASSUME ~Walks(b) PROVE FALSE
  OBVIOUS
<1>3. b \in Bad
  BY <1>2
<1> HIDE DEF Walks
<1>4. T \subseteq Nat /\ T # {}
  BY <1>1, <1>3
<1>5. PICK x \in T : \A y \in T : x <= y
  BY <1>4, LeastElement
<1>6. PICK a \in Bad : x = rk[a]
  BY <1>5
<1>7. \A c \in Bad : rk[a] <= rk[c]
  BY <1>5, <1>6
<1>8. a \in Blks /\ ~Walks(a)
  BY <1>6
<1>9. CASE nxt[a] = NULL
  <2>1. Walk(nxt[a], nxt, [i \in 1 .. 0 |-> a], 0)
    BY <1>9 DEF Walk
  <2>2. PICK v : Walk(a, nxt, v, 0 + 1)
    BY <2>1, <1>8, LongerWalk
  <2>3. 0 + 1 \in Nat /\ 0 + 1 <= rk[a] + 1
    BY <1>1, <1>8
  <2> QED BY <2>2, <2>3, <1>8 DEF Walks
<1>10. CASE nxt[a] # NULL
  <2>1. nxt[a] \in Blks /\ rk[nxt[a]] < rk[a]
    BY <1>8, <1>10 DEF Descends
  <2>2. nxt[a] \notin Bad
    BY <2>1, <1>1, <1>7, <1>8
  <2>3. Walks(nxt[a])
    BY <2>1, <2>2
  <2>4. PICK m, w : m \in Nat /\ Walk(nxt[a], nxt, w, m) /\ m <= rk[nxt[a]] + 1
    BY <2>3 DEF Walks
  <2>5. PICK v : Walk(a, nxt, v, m + 1)
    BY <2>4, <1>8, LongerWalk
  <2>6. m + 1 \in Nat /\ m + 1 <= rk[a] + 1
    BY <2>1, <2>4, <1>1, <1>8
  <2> QED BY <2>5, <2>6, <1>8 DEF Walks
<1> QED BY <1>9, <1>10

\* The nodes of the list are those of the walk from the head.
LEMMA NodeIs ==
  ASSUME NEW w, NEW m, Walk(blk_list_head, next, w, m), NEW k \in Nat, k # 0
  PROVE  Node(k) = IF k <= m THEN w[k] ELSE NULL
<1> DEFINE Step(f, i) == IF i = 1 THEN blk_list_head
                         ELSE IF f[i - 1] = NULL THEN NULL ELSE next[f[i - 1]]
           P(f) == f = [i \in 1 .. k |-> Step(f, i)]
           g == [i \in 1 .. k |-> IF i <= m THEN w[i] ELSE NULL]
           at == CHOOSE f : P(f)
<1>1. /\ m \in Nat
      /\ \A i \in 1 .. m : w[i] \in Blks /\ w[i] # NULL
      /\ blk_list_head = IF m = 0 THEN NULL ELSE w[1]
      /\ \A i \in 1 .. m : next[w[i]] = IF i = m THEN NULL ELSE w[i + 1]
  BY NullIsNoBlock DEF Walk
<1>2. /\ g = [i \in 1 .. k |-> g[i]]
      /\ \A i \in 1 .. k : g[i] = IF i <= m THEN w[i] ELSE NULL
  BY Zenon
<1> HIDE DEF g
<1>3. ASSUME NEW i \in 1 .. k PROVE g[i] = Step(g, i)
  <2>1. CASE i = 1
    <3>1. 1 \in 1 .. k /\ (1 <= m <=> m # 0)
      BY <1>1
    <3> QED BY <2>1, <3>1, <1>1, <1>2
  <2>2. CASE i # 1
    <3>1. /\ i - 1 \in 1 .. k /\ i - 1 # 0 /\ (i - 1) + 1 = i
          /\ i - 1 <= m => i - 1 \in 1 .. m
          /\ i <= m <=> i - 1 <= m /\ i - 1 # m
      BY <2>2, <1>1
    <3>2. g[i - 1] = IF i - 1 <= m THEN w[i - 1] ELSE NULL
      BY <3>1, <1>2
    <3>3. CASE i - 1 <= m
      <4>1. g[i - 1] # NULL /\ next[g[i - 1]] = IF i - 1 = m THEN NULL ELSE w[i]
        BY <3>1, <3>2, <3>3, <1>1
      <4> QED BY <2>2, <3>1, <3>3, <4>1, <1>2
    <3>4. CASE ~(i - 1 <= m)
      BY <2>2, <3>1, <3>2, <3>4, <1>2
    <3> QED BY <3>3, <3>4
  <2> QED BY <2>1, <2>2
<1>4. P(g)
  BY <1>2, <1>3
<1>5. P(at)
  BY <1>4
<1>6. Node(k) = at[k]
  BY DEF Node
<1>7. at = [i \in 1 .. k |-> Step(at, i)]
  BY <1>5
<1> HIDE DEF at, P
<1>8. \A i \in 1 .. k : at[i] = g[i]
  <2> DEFINE Bad == {i \in 1 .. k : at[i] # g[i]}
  <2> SUFFICES ASSUME Bad # {} PROVE FALSE
    OBVIOUS
  <2>1. Bad \subseteq Nat
    OBVIOUS
  <2>2. PICK i \in Bad : \A l \in Bad : i <= l
    BY <2>1, LeastElement
  <2>3. at[i] = Step(at, i) /\ g[i] = Step(g, i)
    BY <1>3, <1>7
  <2>4. i # 1
    BY <2>2, <2>3
  <2>5. i - 1 \in 1 .. k /\ i - 1 \notin Bad
    BY <2>2, <2>4
  <2> QED BY <2>2, <2>3, <2>4, <2>5
<1>9. k \in 1 .. k
  OBVIOUS
<1> QED BY <1>2, <1>6, <1>8, <1>9

\* Along a walk the order descends, so that no block comes twice and the walk
\* has at most as many steps as there are blocks.
LEMMA WalkDescends ==
  ASSUME NEW nxt, NEW rk, Descends(nxt, rk),
         NEW h, NEW w, NEW m, Walk(h, nxt, w, m)
  PROVE  /\ \A i, j \in 1 .. m : i < j => rk[w[j]] + (j - i) <= rk[w[i]]
         /\ \A i, j \in 1 .. m : w[i] = w[j] => i = j
         /\ m <= NBlks
<1>1. /\ m \in Nat /\ NBlks \in Nat
      /\ \A i \in 1 .. m : w[i] \in Blks /\ w[i] # NULL
      /\ \A i \in 1 .. m : nxt[w[i]] = IF i = m THEN NULL ELSE w[i + 1]
  BY NullIsNoBlock DEF Walk
<1>2. \A i \in 1 .. m : rk[w[i]] \in 0 .. NBlks - 1
  BY <1>1 DEF Descends
<1>3. \A i \in 1 .. m - 1 : rk[w[i + 1]] < rk[w[i]]
  <2> TAKE i \in 1 .. m - 1
  <2>1. i \in 1 .. m /\ i + 1 \in 1 .. m /\ i # m
    BY <1>1
  <2>2. nxt[w[i]] = w[i + 1] /\ w[i + 1] # NULL /\ w[i] \in Blks
    BY <2>1, <1>1
  <2> QED BY <2>2 DEF Descends
<1>4. ASSUME NEW i \in 1 .. m, NEW j \in 1 .. m, i < j
      PROVE  rk[w[j]] + (j - i) <= rk[w[i]]
  <2> DEFINE Bad == {l \in i + 1 .. m : ~(rk[w[l]] + (l - i) <= rk[w[i]])}
  <2> SUFFICES ASSUME Bad # {} PROVE FALSE
    BY <1>4
  <2>1. Bad \subseteq Nat
    BY <1>1
  <2>2. PICK l \in Bad : \A n \in Bad : l <= n
    BY <2>1, LeastElement
  <2>3. /\ l \in 1 .. m /\ l - 1 \in 1 .. m - 1 /\ (l - 1) + 1 = l /\ i < l
        /\ ~(rk[w[l]] + (l - i) <= rk[w[i]])
    BY <1>1, <2>2
  <2>4. rk[w[l]] < rk[w[l - 1]]
    BY <1>3, <2>3
  <2>5. l - 1 \notin Bad
    BY <1>1, <2>2, <2>3
  <2>6. /\ rk[w[l]] \in Nat /\ rk[w[l - 1]] \in Nat /\ rk[w[i]] \in Nat
        /\ l \in Nat /\ i \in Nat
    BY <1>1, <1>2, <2>3
  <2>7. CASE l - 1 = i
    BY <2>3, <2>4, <2>6, <2>7
  <2>8. CASE l - 1 # i
    <3>1. l - 1 \in i + 1 .. m
      BY <1>1, <2>3, <2>8
    <3>2. rk[w[l - 1]] + ((l - 1) - i) <= rk[w[i]]
      BY <2>5, <3>1
    <3> QED BY <2>3, <2>4, <2>6, <3>2
  <2> QED BY <2>7, <2>8
<1>5. \A i, j \in 1 .. m : i < j => rk[w[j]] + (j - i) <= rk[w[i]]
  BY <1>4
<1>6. \A i, j \in 1 .. m : i < j => w[i] # w[j]
  BY <1>1, <1>2, <1>5
<1>7. \A i, j \in 1 .. m : w[i] = w[j] => i = j
  <2> TAKE i, j \in 1 .. m
  <2>1. i < j \/ j < i \/ i = j
    BY <1>1
  <2> QED BY <2>1, <1>6
<1>8. m <= NBlks
  <2>1. CASE m > 1
    <3>1. 1 \in 1 .. m /\ m \in 1 .. m /\ 1 < m
      BY <1>1, <2>1
    <3>2. rk[w[m]] + (m - 1) <= rk[w[1]]
      BY <1>5, <3>1
    <3>3. rk[w[m]] \in 0 .. NBlks - 1 /\ rk[w[1]] \in 0 .. NBlks - 1
      BY <1>2, <3>1
    <3> QED BY <1>1, <3>2, <3>3
  <2>2. CASE ~(m > 1)
    BY <1>1, <2>2, NullIsNoBlock
  <2> QED BY <2>1, <2>2
<1> QED BY <1>5, <1>7, <1>8

\* What the list holds, and where it ends.
LEMMA ListedIs ==
  ASSUME Acyclic, NEW w, NEW m, Walk(blk_list_head, next, w, m)
  PROVE  /\ Listed = {w[i] : i \in 1 .. m}
         /\ Node(NBlks + 1) = NULL
<1>0. m <= NBlks
  BY WalkDescends DEF Acyclic
<1>1. /\ m \in Nat /\ \A i \in 1 .. m : w[i] \in Blks /\ w[i] # NULL
      /\ NBlks \in Nat
  BY NullIsNoBlock DEF Walk
<1>2. \A k \in 1 .. NBlks + 1 : Node(k) = IF k <= m THEN w[k] ELSE NULL
  BY <1>1, NodeIs
<1>3. \A k \in 1 .. NBlks : Node(k) = IF k <= m THEN w[k] ELSE NULL
  BY <1>1, <1>2
<1>4. \A i \in 1 .. m : i \in 1 .. NBlks /\ Node(i) = w[i]
  BY <1>0, <1>1, <1>3
<1>5. \A k \in 1 .. NBlks : Node(k) # NULL => k \in 1 .. m /\ Node(k) = w[k]
  BY <1>1, <1>3
<1>6. \A b : b \in Listed <=> b # NULL /\ \E k \in 1 .. NBlks : b = Node(k)
  BY DEF Listed
<1>7. \A b : b \in Listed <=> \E i \in 1 .. m : b = w[i]
  BY <1>1, <1>4, <1>5, <1>6
<1>8. NBlks + 1 \in 1 .. NBlks + 1 /\ ~(NBlks + 1 <= m)
  BY <1>0, <1>1
<1> QED BY <1>2, <1>7, <1>8

\* In a state of the invariant a walk starts at the head.
LEMMA HeadWalk ==
  ASSUME TypeOK, Acyclic
  PROVE  \E m \in Nat : \E w : Walk(blk_list_head, next, w, m)
<1>1. PICK rk : Descends(next, rk)
  BY DEF Acyclic
<1>2. CASE blk_list_head = NULL
  <2>1. Walk(blk_list_head, next, [i \in 1 .. 0 |-> NULL], 0)
    BY <1>2 DEF Walk
  <2> QED BY <2>1
<1>3. CASE blk_list_head # NULL
  <2>1. blk_list_head \in Blks /\ next \in [Blks -> Blks \cup {NULL}]
    BY <1>3 DEF TypeOK
  <2> QED BY <2>1, <1>1, WalkExists
<1> QED BY <1>2, <1>3

\* The two lemmas for the state behind a step.
HeadSpells ==
  Acyclic => \A m \in Nat : \A w : Walk(blk_list_head, next, w, m) =>
               Listed = {w[i] : i \in 1 .. m} /\ Node(NBlks + 1) = NULL

LEMMA HeadSpellsNow == HeadSpells
BY ListedIs DEF HeadSpells

LEMMA HeadSpellsNext == HeadSpells'
BY HeadSpellsNow, PTL

-----------------------------------------------------------------------------
(* What the operations do to the pointers.                                 *)

\* The block that put_to_blklist_end puts behind the end goes to the bottom of
\* the order, wherever its stale next pointed.
LEMMA PutDescends ==
  ASSUME NEW nxt \in [Blks -> Blks \cup {NULL}], NEW rk, Descends(nxt, rk),
         NEW e \in Blks, nxt[e] = NULL, NEW b \in Blks
  PROVE  \E rk2 : Descends([nxt EXCEPT ![e] = b, ![b] = NULL], rk2)
<1> DEFINE n2 == [nxt EXCEPT ![e] = b, ![b] = NULL]
           r2 == [c \in Blks |-> IF c = b THEN 0
                                 ELSE IF rk[c] < rk[b] THEN rk[c] + 1 ELSE rk[c]]
<1>1. /\ NBlks \in Nat /\ NULL \notin Blks
      /\ \A c \in Blks : rk[c] \in 0 .. NBlks - 1
      /\ \A c, d \in Blks : rk[c] = rk[d] => c = d
      /\ \A c \in Blks : nxt[c] # NULL => rk[nxt[c]] < rk[c]
      /\ \A c \in Blks : nxt[c] \in Blks \cup {NULL}
  BY NullIsNoBlock DEF Descends
<1>2. \A c \in Blks : n2[c] = IF c = b THEN NULL ELSE IF c = e THEN b ELSE nxt[c]
  OBVIOUS
<1>3. \A c \in Blks : r2[c] = IF c = b THEN 0
                              ELSE IF rk[c] < rk[b] THEN rk[c] + 1 ELSE rk[c]
  OBVIOUS
<1>4. r2 \in [Blks -> 0 .. NBlks - 1]
  <2>1. ASSUME NEW c \in Blks
        PROVE  (IF c = b THEN 0 ELSE IF rk[c] < rk[b] THEN rk[c] + 1 ELSE rk[c])
                 \in 0 .. NBlks - 1
    BY <1>1
  <2> QED BY <2>1
<1> HIDE DEF n2, r2
<1>5. ASSUME NEW c \in Blks, c # b
      PROVE  r2[c] > 0 /\ r2[b] = 0 /\ r2[c] \in Nat
  <2>1. rk[c] # rk[b]
    BY <1>5, <1>1
  <2> QED BY <2>1, <1>5, <1>1, <1>3
<1>6. ASSUME NEW c \in Blks, NEW d \in Blks, c # b, d # b, rk[c] < rk[d]
      PROVE  r2[c] < r2[d]
  <2>1. rk[c] # rk[b] /\ rk[d] # rk[b]
    BY <1>6, <1>1
  <2>2. /\ r2[c] = IF rk[c] < rk[b] THEN rk[c] + 1 ELSE rk[c]
        /\ r2[d] = IF rk[d] < rk[b] THEN rk[d] + 1 ELSE rk[d]
    BY <1>6, <1>3
  <2>3. rk[c] \in Nat /\ rk[d] \in Nat /\ rk[b] \in Nat
    BY <1>1
  <2> QED BY <1>6, <2>1, <2>2, <2>3
<1>7. ASSUME NEW c \in Blks, NEW d \in Blks, r2[c] = r2[d]
      PROVE  c = d
  <2>1. CASE c = b \/ d = b
    BY <2>1, <1>5, <1>7
  <2>2. CASE c # b /\ d # b
    <3>1. ~(r2[c] < r2[d]) /\ ~(r2[d] < r2[c])
      BY <2>2, <1>5, <1>7
    <3>2. ~(rk[c] < rk[d]) /\ ~(rk[d] < rk[c])
      BY <2>2, <3>1, <1>6
    <3> QED BY <3>2, <1>1
  <2> QED BY <2>1, <2>2
<1>8. ASSUME NEW c \in Blks, n2[c] # NULL
      PROVE  r2[n2[c]] < r2[c]
  <2>1. c # b
    BY <1>2, <1>8
  <2>2. CASE n2[c] = b
    BY <2>1, <2>2, <1>5
  <2>3. CASE n2[c] # b
    <3>1. n2[c] = nxt[c] /\ nxt[c] # NULL
      BY <2>1, <2>3, <1>2, <1>8
    <3>2. nxt[c] \in Blks /\ rk[nxt[c]] < rk[c]
      BY <3>1, <1>1
    <3> QED BY <2>1, <2>3, <3>1, <3>2, <1>6
  <2> QED BY <2>2, <2>3
<1>9. Descends(n2, r2)
  BY <1>4, <1>7, <1>8 DEF Descends
<1> QED BY <1>9 DEF n2

\* The list blks_init builds descends, and holds every block but the reserved.
LEMMA ChainedDescends == \E rk : Descends(Chained, rk)
<1> DEFINE rk == [b \in Blks |-> NBlks - 1 - b]
<1>1. NBlks \in Nat /\ NBlks > 3 /\ \A b \in Blks : b \in 0 .. NBlks - 1
  BY NullIsNoBlock DEF Blks
<1>2. \A b \in Blks : rk[b] = NBlks - 1 - b
  OBVIOUS
<1>3. rk \in [Blks -> 0 .. NBlks - 1]
  BY <1>1
<1> HIDE DEF rk
<1>4. \A a, b \in Blks : rk[a] = rk[b] => a = b
  BY <1>1, <1>2
<1>5. ASSUME NEW b \in Blks, Chained[b] # NULL
      PROVE  rk[Chained[b]] < rk[b]
  <2>1. Chained[b] = b + 1 /\ b # NBlks - 1
    BY <1>5 DEF Chained
  <2>2. b + 1 \in Blks /\ b \in 0 .. NBlks - 1
    BY <2>1, <1>1 DEF Blks
  <2> QED BY <2>1, <2>2, <1>1, <1>2
<1> QED BY <1>3, <1>4, <1>5 DEF Descends

LEMMA ChainedWalk ==
  /\ Walk(3, Chained, [i \in 1 .. NBlks - 3 |-> i + 2], NBlks - 3)
  /\ {[i \in 1 .. NBlks - 3 |-> i + 2][j] : j \in 1 .. NBlks - 3} = Blks \ Reserved
<1> DEFINE w == [i \in 1 .. NBlks - 3 |-> i + 2]
<1>1. NBlks \in Nat /\ NBlks > 3 /\ NBlks - 3 \in Nat /\ NBlks - 3 # 0
  BY NullIsNoBlock
<1>2. \A i \in 1 .. NBlks - 3 : w[i] = i + 2 /\ i + 2 \in Blks
  BY <1>1 DEF Blks
<1>3. w \in [1 .. NBlks - 3 -> Blks]
  BY <1>2
<1> HIDE DEF w
<1>4. w[1] = 3
  BY <1>1, <1>2
<1>5. ASSUME NEW i \in 1 .. NBlks - 3
      PROVE  Chained[w[i]] = IF i = NBlks - 3 THEN NULL ELSE w[i + 1]
  <2>1. Chained[i + 2] = IF i + 2 = NBlks - 1 THEN NULL ELSE (i + 2) + 1
    BY <1>2 DEF Chained
  <2>2. i # NBlks - 3 => i + 1 \in 1 .. NBlks - 3
    BY <1>1
  <2>3. i # NBlks - 3 => w[i + 1] = (i + 2) + 1
    BY <2>2, <1>2
  <2>4. i + 2 = NBlks - 1 <=> i = NBlks - 3
    BY <1>1
  <2> QED BY <1>2, <2>1, <2>3, <2>4
<1>6. Walk(3, Chained, w, NBlks - 3)
  BY <1>1, <1>3, <1>4, <1>5 DEF Walk
<1>7. ASSUME NEW b
      PROVE  b \in Blks \ Reserved <=> \E j \in 1 .. NBlks - 3 : b = w[j]
  <2>1. ASSUME b \in Blks \ Reserved
        PROVE  \E j \in 1 .. NBlks - 3 : b = w[j]
    <3>1. b \in 3 .. NBlks - 1
      BY <2>1, <1>1 DEF Blks, Reserved
    <3>2. b - 2 \in 1 .. NBlks - 3 /\ b = (b - 2) + 2
      BY <3>1, <1>1
    <3>3. b = w[b - 2]
      BY <3>2, <1>2
    <3> QED BY <3>2, <3>3
  <2>2. ASSUME NEW j \in 1 .. NBlks - 3, b = w[j]
        PROVE  b \in Blks \ Reserved
    <3>1. b = j + 2 /\ b \in Blks /\ j + 2 \notin 0 .. 2
      BY <2>2, <1>1, <1>2
    <3> QED BY <3>1 DEF Reserved
  <2> QED BY <2>1, <2>2
<1>8. {w[j] : j \in 1 .. NBlks - 3} = Blks \ Reserved
  BY <1>7
<1> QED BY <1>6, <1>8 DEF w

-----------------------------------------------------------------------------
(* The invariant.                                                          *)

\* A fresh list satisfies it, in whatever state it is made.
Fresh ==
  /\ mode = "ok" /\ blk_list_head = 3 /\ next = Chained
  /\ no_free_blks \in BOOLEAN /\ blk_not_init = TRUE /\ held = {}

LEMMA FreshHolds == Fresh => IInv
<1> SUFFICES ASSUME Fresh PROVE IInv
  OBVIOUS
<1>1. 3 \in Blks /\ NULL \notin Blks /\ 3 # NULL
  BY NullIsNoBlock DEF Blks
<1>2. Chained \in [Blks -> Blks \cup {NULL}]
  BY NullIsNoBlock DEF Chained, Blks
<1>3. TypeOK
  BY <1>1, <1>2 DEF Fresh, TypeOK
<1>4. Acyclic
  BY ChainedDescends DEF Fresh, Acyclic
<1>5. Listed = Blks \ Reserved
  <2>1. Walk(blk_list_head, next, [i \in 1 .. NBlks - 3 |-> i + 2], NBlks - 3)
    BY ChainedWalk DEF Fresh
  <2>2. NBlks - 3 \in Nat
    BY NullIsNoBlock
  <2> QED BY <1>4, <2>1, <2>2, ChainedWalk, HeadSpellsNow DEF HeadSpells
<1>6. NoBlockLost
  BY <1>5 DEF Fresh, NoBlockLost
<1> QED BY <1>1, <1>3, <1>4, <1>6 DEF Fresh, IInv

\* What the list holds in a state of the invariant, as a walk.
LEMMA ListWalk ==
  ASSUME IInv
  PROVE  \E m \in Nat : \E w :
           /\ Walk(blk_list_head, next, w, m)
           /\ Listed = {w[i] : i \in 1 .. m}
           /\ \A i, j \in 1 .. m : w[i] = w[j] => i = j
<1>1. PICK m, w : m \in Nat /\ Walk(blk_list_head, next, w, m)
  BY HeadWalk DEF IInv
<1>2. Listed = {w[i] : i \in 1 .. m}
  BY <1>1, ListedIs DEF IInv
<1>3. \A i, j \in 1 .. m : w[i] = w[j] => i = j
  BY <1>1, WalkDescends DEF IInv, Acyclic
<1> QED BY <1>1, <1>2, <1>3

\* A malloc moves the head to the next block.
LEMMA MallocStep == IInv /\ Malloc => IInv'
<1> SUFFICES ASSUME IInv, Malloc PROVE IInv'
  OBVIOUS
<1> DEFINE h == blk_list_head
<1>1. /\ ~no_free_blks /\ h # NULL /\ next[h] # NULL
      /\ held' = held \cup {h} /\ blk_list_head' = next[h]
      /\ UNCHANGED <<mode, next, no_free_blks, blk_not_init>>
  BY DEF Malloc
<1>2. h \in Blks /\ next[h] \in Blks /\ next \in [Blks -> Blks \cup {NULL}]
  BY <1>1 DEF IInv, TypeOK
<1>3. TypeOK'
  BY <1>1, <1>2 DEF IInv, TypeOK
<1>4. Acyclic'
  BY <1>1 DEF IInv, Acyclic
<1>m. PICK m \in Nat : \E w :
       /\ Walk(h, next, w, m)
       /\ Listed = {w[i] : i \in 1 .. m}
       /\ \A i, j \in 1 .. m : w[i] = w[j] => i = j
  BY ListWalk
<1>5. PICK w :
       /\ Walk(h, next, w, m)
       /\ Listed = {w[i] : i \in 1 .. m}
       /\ \A i, j \in 1 .. m : w[i] = w[j] => i = j
  BY <1>m
<1>6. /\ m # 0 /\ m # 1 /\ m - 1 \in Nat /\ w \in [1 .. m -> Blks] /\ w[1] = h
      /\ \A i \in 1 .. m : next[w[i]] = IF i = m THEN NULL ELSE w[i + 1]
  BY <1>1, <1>5 DEF Walk
<1> DEFINE v == [i \in 1 .. m - 1 |-> w[i + 1]]
<1>7. \A i \in 1 .. m - 1 : v[i] = w[i + 1] /\ i + 1 \in 1 .. m /\ (i = m - 1 <=> i + 1 = m)
  BY <1>6
<1>8. v \in [1 .. m - 1 -> Blks]
  BY <1>6, <1>7
<1> HIDE DEF v, h
<1>9. Walk(next[h], next, v, m - 1)
  <2>1. 1 \in 1 .. m /\ 1 \in 1 .. m - 1 /\ 1 + 1 = 2 /\ m - 1 # 0
    BY <1>6
  <2>2. next[h] = v[1]
    BY <2>1, <1>6, <1>7
  <2>3. ASSUME NEW i \in 1 .. m - 1
        PROVE  next[v[i]] = IF i = m - 1 THEN NULL ELSE v[i + 1]
    <3>1. next[v[i]] = IF i + 1 = m THEN NULL ELSE w[(i + 1) + 1]
      BY <1>6, <1>7
    <3>2. i # m - 1 => i + 1 \in 1 .. m - 1
      BY <1>6
    <3> QED BY <3>1, <3>2, <1>7
  <2> QED BY <2>1, <2>2, <2>3, <1>6, <1>8 DEF Walk
<1>10. Listed' = {v[i] : i \in 1 .. m - 1}
  <2>1. Walk(blk_list_head', next', v, m - 1)
    BY <1>1, <1>9
  <2> QED BY <2>1, <1>4, <1>6, HeadSpellsNext DEF HeadSpells
<1>11. Listed' = Listed \ {h}
  <2>1. ASSUME NEW b, b \in Listed, b # h
        PROVE  b \in Listed'
    <3>1. PICK i \in 1 .. m : b = w[i]
      BY <2>1, <1>5
    <3>2. i - 1 \in 1 .. m - 1 /\ (i - 1) + 1 = i
      BY <2>1, <3>1, <1>6
    <3>3. b = v[i - 1]
      BY <3>1, <3>2, <1>7
    <3> QED BY <3>2, <3>3, <1>10
  <2>2. ASSUME NEW b, b \in Listed'
        PROVE  b \in Listed /\ b # h
    <3>1. PICK i \in 1 .. m - 1 : b = v[i]
      BY <2>2, <1>10
    <3>2. i + 1 \in 1 .. m /\ b = w[i + 1] /\ i + 1 # 1 /\ 1 \in 1 .. m
      BY <3>1, <1>6, <1>7
    <3> QED BY <3>2, <1>5, <1>6
  <2> QED BY <2>1, <2>2
<1>12. h \in Listed
  BY <1>5, <1>6
<1>13. NoBlockLost'
  BY <1>1, <1>11, <1>12 DEF IInv, NoBlockLost, h
<1> QED BY <1>1, <1>2, <1>3, <1>4, <1>13, NullIsNoBlock DEF IInv

\* The malloc of the last block sets the flag, or the kernel aborts.
LEMMA MallocLastStep == IInv /\ MallocLast => IInv'
<1> SUFFICES ASSUME IInv, MallocLast PROVE IInv'
  OBVIOUS
<1>1. next' = next /\ blk_not_init' = blk_not_init
  BY DEF MallocLast
<1>2. Acyclic'
  BY <1>1 DEF IInv, Acyclic
<1>3. CASE no_free_blks'
  <2>1. /\ held' = held \cup {blk_list_head} /\ blk_list_head # NULL
        /\ blk_list_head' = NULL /\ no_free_blks' = TRUE /\ mode' = mode
    BY <1>3 DEF MallocLast
  <2>2. TypeOK'
    BY <2>1, <1>1 DEF IInv, TypeOK
  <2>3. NoBlockLost'
    BY <2>1 DEF NoBlockLost
  <2> QED BY <2>1, <2>2, <2>3, <1>1, <1>2 DEF IInv
<1>4. CASE ~no_free_blks'
  <2>1. /\ mode' = "wild" /\ blk_list_head' = blk_list_head
        /\ no_free_blks' = no_free_blks /\ held' = held
    BY <1>4 DEF MallocLast
  <2>2. TypeOK'
    BY <2>1, <1>1 DEF IInv, TypeOK
  <2>3. PICK m, w : /\ m \in Nat
                    /\ Walk(blk_list_head, next, w, m)
                    /\ Listed = {w[i] : i \in 1 .. m}
    BY ListWalk
  <2>4. Listed' = {w[i] : i \in 1 .. m}
    BY <2>1, <2>3, <1>1, <1>2, HeadSpellsNext DEF HeadSpells
  <2>5. NoBlockLost'
    BY <2>1, <2>3, <2>4 DEF IInv, NoBlockLost
  <2> QED BY <2>1, <2>2, <2>5, <1>1, <1>2 DEF IInv
<1> QED BY <1>3, <1>4

\* find_blk_list_end finds the last block of the walk.
LEMMA EndIsLast ==
  ASSUME NEW m \in Nat, NEW w, Walk(blk_list_head, next, w, m),
         Listed = {w[i] : i \in 1 .. m}, blk_list_head # NULL
  PROVE  m # 0 /\ EndOfList = w[m] /\ w[m] \in Blks /\ next[w[m]] = NULL
<1>1. /\ m # 0 /\ m \in 1 .. m
      /\ \A i \in 1 .. m : w[i] \in Blks
      /\ \A i \in 1 .. m : next[w[i]] = IF i = m THEN NULL ELSE w[i + 1]
  BY DEF Walk
<1>2. w[m] \in Listed /\ next[w[m]] = NULL
  BY <1>1
<1>3. ASSUME NEW b \in Listed, next[b] = NULL
      PROVE  b = w[m]
  <2>1. PICK i \in 1 .. m : b = w[i]
    OBVIOUS
  <2>2. CASE i # m
    <3>1. i + 1 \in 1 .. m
      BY <2>2, <1>1
    <3>2. next[b] = w[i + 1] /\ w[i + 1] \in Blks
      BY <2>1, <2>2, <3>1, <1>1
    <3> QED BY <3>2, <1>3, NullIsNoBlock
  <2> QED BY <2>1, <2>2
<1>4. EndOfList = w[m]
  BY <1>2, <1>3 DEF EndOfList
<1> QED BY <1>1, <1>2, <1>4

\* A free puts the block behind the end, or makes it the head of an empty list,
\* and then its stale next leads wherever it leads.
LEMMA MfreeStep ==
  ASSUME IInv, NEW b \in Blks, Mfree(b)
  PROVE  IInv'
<1>1. /\ b \in held /\ held' = held \ {b} /\ PutToBlklistEnd(b)
      /\ UNCHANGED <<mode, no_free_blks, blk_not_init>>
  BY DEF Mfree
<1>2. next \in [Blks -> Blks \cup {NULL}]
  BY DEF IInv, TypeOK
<1>3. CASE blk_list_head = NULL
  <2>1. blk_list_head' = b /\ next' = next
    BY <1>1, <1>3 DEF PutToBlklistEnd
  <2>2. no_free_blks
    BY <1>3 DEF IInv
  <2>3. TypeOK'
    BY <1>1, <2>1 DEF IInv, TypeOK
  <2>4. Acyclic'
    BY <2>1 DEF IInv, Acyclic
  <2> QED BY <1>1, <2>2, <2>3, <2>4 DEF IInv, NoBlockLost
<1>4. CASE blk_list_head # NULL
  <2> DEFINE e == EndOfList
             n2 == [next EXCEPT ![e] = b, ![b] = NULL]
  <2>1. blk_list_head' = blk_list_head /\ next' = n2
    BY <1>1, <1>4 DEF PutToBlklistEnd
  <2>m. PICK m \in Nat : \E w :
         /\ Walk(blk_list_head, next, w, m)
         /\ Listed = {w[i] : i \in 1 .. m}
         /\ \A i, j \in 1 .. m : w[i] = w[j] => i = j
    BY ListWalk
  <2>2. PICK w :
         /\ Walk(blk_list_head, next, w, m)
         /\ Listed = {w[i] : i \in 1 .. m}
         /\ \A i, j \in 1 .. m : w[i] = w[j] => i = j
    BY <2>m
  <2>3. m # 0 /\ e = w[m] /\ e \in Blks /\ next[e] = NULL
    BY <2>2, <1>4, EndIsLast
  <2> HIDE DEF e
  <2>4. /\ n2 \in [Blks -> Blks \cup {NULL}]
        /\ \A c \in Blks : n2[c] = IF c = b THEN NULL ELSE IF c = e THEN b ELSE next[c]
    BY <1>2, <2>3
  <2>5. TypeOK'
    BY <1>1, <2>1, <2>4 DEF IInv, TypeOK
  <2>6. Acyclic'
    <3>1. PICK rk : Descends(next, rk)
      BY DEF IInv, Acyclic
    <3>2. \E rk2 : Descends(n2, rk2)
      BY <3>1, <1>2, <2>3, PutDescends
    <3> QED BY <3>2, <2>1 DEF Acyclic
  <2> HIDE DEF n2
  <2>7. ASSUME ~no_free_blks PROVE NoBlockLost'
    <3> DEFINE v == [i \in 1 .. m + 1 |-> IF i = m + 1 THEN b ELSE w[i]]
    <3>1. b \notin Listed
      BY <1>1, <2>7 DEF IInv, NoBlockLost
    <3>2. /\ w \in [1 .. m -> Blks] /\ w[1] = blk_list_head
          /\ \A i \in 1 .. m : next[w[i]] = IF i = m THEN NULL ELSE w[i + 1]
      BY <2>2, <2>3 DEF Walk
    <3>3. \A i \in 1 .. m : w[i] # b /\ w[i] \in Blks
      BY <2>2, <3>1, <3>2
    <3>4. /\ m + 1 \in Nat /\ m + 1 # 0 /\ m + 1 \in 1 .. m + 1 /\ m \in 1 .. m
          /\ \A i \in 1 .. m + 1 : i # m + 1 => i \in 1 .. m
          /\ \A i \in 1 .. m : i \in 1 .. m + 1 /\ i # m + 1 /\ i + 1 \in 1 .. m + 1
      BY <2>3
    <3>5. v \in [1 .. m + 1 -> Blks]
      BY <3>3, <3>4
    <3>6. v[m + 1] = b /\ \A i \in 1 .. m : v[i] = w[i]
      BY <3>4
    <3> HIDE DEF v
    <3>7. ASSUME NEW i \in 1 .. m + 1
          PROVE  n2[v[i]] = IF i = m + 1 THEN NULL ELSE v[i + 1]
      <4>1. CASE i = m + 1
        BY <4>1, <3>6, <2>4
      <4>2. CASE i = m
        <5>1. v[i] = e /\ e # b /\ i # m + 1
          BY <4>2, <2>3, <3>3, <3>4, <3>6
        <5> QED BY <5>1, <4>2, <2>3, <2>4, <3>6
      <4>3. CASE i # m /\ i # m + 1
        <5>1. i \in 1 .. m /\ i + 1 \in 1 .. m
          BY <4>3, <2>3
        <5>2. v[i] = w[i] /\ v[i + 1] = w[i + 1] /\ w[i] # b /\ w[i] \in Blks
          BY <5>1, <3>3, <3>6
        <5>3. w[i] # e
          BY <5>1, <4>3, <2>2, <2>3, <3>4
        <5>4. n2[w[i]] = next[w[i]]
          BY <5>2, <5>3, <2>4
        <5> QED BY <5>1, <5>2, <5>4, <4>3, <3>2
      <4> QED BY <4>1, <4>2, <4>3
    <3>8. v[1] = blk_list_head
      <4>1. 1 \in 1 .. m
        BY <2>3
      <4> QED BY <4>1, <3>2, <3>6
    <3>9. Walk(blk_list_head, n2, v, m + 1)
      BY <3>4, <3>5, <3>7, <3>8 DEF Walk
    <3>10. Listed' = {v[i] : i \in 1 .. m + 1}
      <4>1. Walk(blk_list_head', next', v, m + 1)
        BY <2>1, <3>9
      <4> QED BY <4>1, <2>6, <3>4, HeadSpellsNext DEF HeadSpells
    <3>11. Listed' = Listed \cup {b}
      <4>1. \A c : c \in Listed' <=> \E i \in 1 .. m + 1 : c = v[i]
        BY <3>10
      <4>2. \A c : c \in Listed <=> \E i \in 1 .. m : c = w[i]
        BY <2>2
      <4>3. \A c : c \in Listed' <=> c \in Listed \/ c = b
        BY <3>4, <3>6, <4>1, <4>2
      <4> QED BY <4>3
    <3> QED BY <1>1, <3>11 DEF IInv, NoBlockLost
  <2>8. NoBlockLost'
    BY <1>1, <2>7 DEF NoBlockLost
  <2> QED BY <1>1, <1>4, <2>1, <2>5, <2>6, <2>8 DEF IInv
<1> QED BY <1>3, <1>4

\* The next owner of the page, and a reboot, find a fresh list.
LEMMA FreshStep == IInv /\ (NextOwner \/ Boot) => IInv'
<1> SUFFICES ASSUME IInv, NextOwner \/ Boot PROVE IInv'
  OBVIOUS
<1>1. Fresh'
  BY DEF IInv, TypeOK, NextOwner, Boot, FlagAfterInit, Fresh
<1>2. (Fresh => IInv)'
  BY FreshHolds, PTL
<1> QED BY <1>1, <1>2

LEMMA StutterStep == IInv /\ UNCHANGED vars => IInv'
<1> SUFFICES ASSUME IInv, UNCHANGED vars PROVE IInv'
  OBVIOUS
<1>1. TypeOK' /\ Acyclic'
  BY DEF IInv, TypeOK, Acyclic, vars
<1>2. PICK m, w : /\ m \in Nat
                  /\ Walk(blk_list_head, next, w, m)
                  /\ Listed = {w[i] : i \in 1 .. m}
  BY ListWalk
<1>3. Listed' = {w[i] : i \in 1 .. m}
  BY <1>1, <1>2, HeadSpellsNext DEF HeadSpells, vars
<1> QED BY <1>1, <1>2, <1>3 DEF IInv, NoBlockLost, vars

LEMMA InitHolds == Init => IInv
BY FreshHolds DEF Init, Fresh

LEMMA NextStep == IInv /\ [Next]_vars => IInv'
BY MallocStep, MallocLastStep, MfreeStep, FreshStep, StutterStep DEF Next

-----------------------------------------------------------------------------
(* The theorems.                                                           *)

\* The pointers of the blocks, stale or not, descend in some order: no order of
\* allocations and frees, by however many owners of the page, makes a ring.
THEOREM Invariance == Spec => []IInv
<1> QED BY InitHolds, NextStep, PTL DEF Spec

\* The head and the next pointers are blocks of the page or NULL.
THEOREM TypeCorrect == Spec => []TypeOK
<1>1. IInv => TypeOK
  BY DEF IInv
<1> QED BY <1>1, Invariance, PTL

\* find_blk_list_end comes to the end of the list.
THEOREM EndIsFound == Spec => []WalkEnds
<1>1. IInv => WalkEnds
  <2> SUFFICES ASSUME IInv PROVE Node(NBlks + 1) = NULL
    BY DEF WalkEnds
  <2>1. PICK m, w : m \in Nat /\ Walk(blk_list_head, next, w, m)
    BY ListWalk
  <2> QED BY <2>1, ListedIs DEF IInv
<1> QED BY <1>1, Invariance, PTL

\* Until the last block was taken, a task finds every block of the page.
THEOREM BlocksStayAccounted == Spec => []NoBlockLost
<1>1. IInv => NoBlockLost
  BY DEF IInv
<1> QED BY <1>1, Invariance, PTL
=============================================================================
