---------------------------- MODULE KernelProofs ----------------------------
(***************************************************************************)
(* Proofs about Kernel, for every number of pages, blocks and priorities,  *)
(* and then about KernelLists: that its links spell the lists of Kernel.   *)
(***************************************************************************)
EXTENDS KernelLists, SequenceTheorems, FiniteSetTheorems, WellFoundedInduction, TLAPS

-----------------------------------------------------------------------------
(* What the list operations do to the set of their elements.               *)

\* Appending an element that is not there keeps a list free of duplicates.
LEMMA AppendAdds ==
  ASSUME NEW S, NEW s \in Seq(S), NEW e \in S, IsInjective(s), e \notin Range(s)
  PROVE  /\ Append(s, e) \in Seq(S)
         /\ IsInjective(Append(s, e))
         /\ Range(Append(s, e)) = Range(s) \cup {e}
<1>1. /\ Append(s, e) \in Seq(S)
      /\ Len(Append(s, e)) = Len(s) + 1
      /\ \A i \in 1 .. Len(s) : Append(s, e)[i] = s[i]
      /\ Append(s, e)[Len(s) + 1] = e
      /\ DOMAIN Append(s, e) = 1 .. Len(s) + 1
      /\ DOMAIN s = 1 .. Len(s)
      /\ Len(s) \in Nat
  BY AppendProperties, LenProperties
<1>2. \A i \in 1 .. Len(s) + 1 : i \in 1 .. Len(s) \/ i = Len(s) + 1
  BY <1>1
<1>3. IsInjective(Append(s, e))
  BY <1>1, <1>2 DEF IsInjective, Range
<1>4. Range(Append(s, e)) = Range(s) \cup {e}
  BY <1>1, <1>2 DEF Range
<1> QED BY <1>1, <1>3, <1>4

\* Taking the head of a list without duplicates removes just that element.
LEMMA TailRemovesHead ==
  ASSUME NEW S, NEW s \in Seq(S), s # <<>>, IsInjective(s)
  PROVE  /\ Tail(s) \in Seq(S)
         /\ IsInjective(Tail(s))
         /\ Head(s) \in Range(s)
         /\ Range(Tail(s)) = Range(s) \ {Head(s)}
<1>1. /\ Tail(s) \in Seq(S)
      /\ Len(Tail(s)) = Len(s) - 1
      /\ \A i \in 1 .. Len(Tail(s)) : Tail(s)[i] = s[i + 1]
  BY HeadTailProperties
<1>2. /\ Len(s) \in Nat \ {0}
      /\ DOMAIN s = 1 .. Len(s)
      /\ DOMAIN Tail(s) = 1 .. Len(s) - 1
      /\ Head(s) = s[1]
  BY <1>1, LenProperties, EmptySeq
<1>3. IsInjective(Tail(s))
  BY <1>1, <1>2 DEF IsInjective
<1>4. Head(s) \in Range(s)
  BY <1>2 DEF Range
<1>5. Range(Tail(s)) \subseteq Range(s) \ {Head(s)}
  BY <1>1, <1>2 DEF Range, IsInjective
<1>6. ASSUME NEW e \in Range(s), e # Head(s)
      PROVE  e \in Range(Tail(s))
  <2>1. PICK i \in 1 .. Len(s) : s[i] = e
    BY <1>2 DEF Range
  <2>2. i - 1 \in 1 .. Len(s) - 1 /\ Tail(s)[i - 1] = e
    BY <2>1, <1>1, <1>2, <1>6
  <2> QED BY <2>2, <1>2 DEF Range
<1> QED BY <1>1, <1>3, <1>4, <1>5, <1>6

\* The same for the last element.
LEMMA FrontRemovesLast ==
  ASSUME NEW S, NEW s \in Seq(S), s # <<>>, IsInjective(s)
  PROVE  /\ Front(s) \in Seq(S)
         /\ IsInjective(Front(s))
         /\ Last(s) \in Range(s)
         /\ Range(Front(s)) = Range(s) \ {Last(s)}
         /\ DOMAIN Front(s) = 1 .. Len(s) - 1 /\ Last(s) = s[Len(s)]
         /\ \A i \in 1 .. Len(s) - 1 : Front(s)[i] = s[i]
<1>1. /\ Len(s) \in Nat \ {0}
      /\ DOMAIN s = 1 .. Len(s)
      /\ \A i \in 1 .. Len(s) : s[i] \in S
  BY LenProperties, EmptySeq, ElementOfSeq
<1>2. /\ Front(s) \in Seq(S)
      /\ Len(Front(s)) = Len(s) - 1
      /\ \A i \in 1 .. Len(s) - 1 : Front(s)[i] = s[i]
  <2>1. \A i \in 1 .. Len(s) - 1 : s[i] \in S
    BY <1>1
  <2>2. 1 \in Int /\ Len(s) - 1 \in Int
    BY <1>1
  <2>3. /\ SubSeq(s, 1, Len(s) - 1) \in Seq(S)
        /\ Len(SubSeq(s, 1, Len(s) - 1))
             = IF 1 <= Len(s) - 1 THEN Len(s) - 1 - 1 + 1 ELSE 0
        /\ \A i \in 1 .. Len(s) - 1 - 1 + 1 :
             SubSeq(s, 1, Len(s) - 1)[i] = s[1 + i - 1]
    BY <2>1, <2>2, SubSeqProperties
  <2> QED BY <2>3, <1>1 DEF Front
<1>3. DOMAIN Front(s) = 1 .. Len(s) - 1 /\ Last(s) = s[Len(s)]
  BY <1>2, LenProperties DEF Last
<1>4. IsInjective(Front(s))
  BY <1>1, <1>2, <1>3 DEF IsInjective
<1>5. Last(s) \in Range(s)
  BY <1>1, <1>3 DEF Range
<1>6. Range(Front(s)) \subseteq Range(s) \ {Last(s)}
  BY <1>1, <1>2, <1>3 DEF Range, IsInjective
<1>7. Range(s) \ {Last(s)} \subseteq Range(Front(s))
  <2>1. ASSUME NEW e \in Range(s), e # Last(s)
        PROVE  e \in Range(Front(s))
    <3>1. PICK i \in 1 .. Len(s) : s[i] = e
      BY <1>1 DEF Range
    <3>2. i \in 1 .. Len(s) - 1
      BY <3>1, <1>1, <1>3, <2>1
    <3> QED BY <3>1, <3>2, <1>2, <1>3 DEF Range
  <2> QED BY <2>1
<1> QED BY <1>2, <1>3, <1>4, <1>5, <1>6, <1>7

-----------------------------------------------------------------------------
(* What the operations on the ready lists do to the set of queued tasks.   *)

\* Lists without duplicates, each task on the list of its priority.
Lists(r, prio) ==
  /\ r \in [Prios -> Seq(Pages)]
  /\ \A p \in Prios : IsInjective(r[p])
  /\ \A p \in Prios : \A t \in Range(r[p]) : prio[t] = p

\* A task is queued exactly when it is on the list of its own priority.
LEMMA QueuedHome ==
  ASSUME NEW r, NEW prio \in [Pages -> Prios], Lists(r, prio)
  PROVE  /\ QueuedIn(r) \subseteq Pages
         /\ \A t \in Pages : t \in QueuedIn(r) <=> t \in Range(r[prio[t]])
<1>1. \A p \in Prios : Range(r[p]) \subseteq Pages
  <2> TAKE p \in Prios
  <2>1. r[p] \in Seq(Pages) BY DEF Lists
  <2>2. DOMAIN r[p] = 1 .. Len(r[p]) /\ \A i \in 1 .. Len(r[p]) : r[p][i] \in Pages
    BY <2>1, LenProperties, ElementOfSeq
  <2> QED BY <2>2 DEF Range
<1> QED BY <1>1 DEF QueuedIn, Lists

\* task_enqueue adds a task that was on no list.
LEMMA EnqueueAdds ==
  ASSUME NEW r, NEW prio \in [Pages -> Prios], Lists(r, prio),
         NEW t \in Pages, t \notin QueuedIn(r), NEW p \in Prios,
         NEW prio2, prio2[t] = p, \A u \in Pages : u # t => prio2[u] = prio[u]
  PROVE  /\ Lists(TaskEnqueue(r, t, p), prio2)
         /\ QueuedIn(TaskEnqueue(r, t, p)) = QueuedIn(r) \cup {t}
         /\ Range(TaskEnqueue(r, t, p)[p]) = Range(r[p]) \cup {t}
         /\ \A q \in Prios : q # p => TaskEnqueue(r, t, p)[q] = r[q]
<1> DEFINE r2 == TaskEnqueue(r, t, p)
<1>1. r \in [Prios -> Seq(Pages)] /\ r[p] \in Seq(Pages)
  BY DEF Lists
<1>2. \A q \in Prios : t \notin Range(r[q])
  BY DEF QueuedIn
<1>3. r2 = [r EXCEPT ![p] = Append(r[p], t)]
  BY DEF TaskEnqueue
<1>4. /\ Append(r[p], t) \in Seq(Pages)
      /\ IsInjective(Append(r[p], t))
      /\ Range(Append(r[p], t)) = Range(r[p]) \cup {t}
  BY <1>1, <1>2, AppendAdds DEF Lists
<1>5. /\ r2 \in [Prios -> Seq(Pages)]
      /\ r2[p] = Append(r[p], t)
      /\ \A q \in Prios : q # p => r2[q] = r[q]
  BY <1>1, <1>3, <1>4
<1>6. \A q \in Prios : Range(r2[q]) = IF q = p THEN Range(r[q]) \cup {t} ELSE Range(r[q])
  BY <1>4, <1>5
<1>7. \A q \in Prios : IsInjective(r2[q])
  BY <1>4, <1>5 DEF Lists
<1>8. \A q \in Prios : \A u \in Range(r2[q]) : prio2[u] = q
  <2> TAKE q \in Prios
  <2> TAKE u \in Range(r2[q])
  <2>1. CASE u = t
    BY <2>1, <1>2, <1>6
  <2>2. CASE u # t
    <3>1. u \in Range(r[q]) BY <2>2, <1>6
    <3>2. prio2[u] = prio[u] BY <2>2, <3>1, QueuedHome DEF QueuedIn
    <3> QED BY <3>1, <3>2 DEF Lists
  <2> QED BY <2>1, <2>2
<1>9. QueuedIn(r2) = QueuedIn(r) \cup {t}
  <2>1. \A u : u \in QueuedIn(r2) <=> \E q \in Prios : u \in Range(r2[q])
    BY DEF QueuedIn
  <2>2. \A u : u \in QueuedIn(r) <=> \E q \in Prios : u \in Range(r[q])
    BY DEF QueuedIn
  <2> HIDE DEF r2
  <2>3. \A u : u \in QueuedIn(r2) <=> u \in QueuedIn(r) \/ u = t
    BY <1>6, <2>1, <2>2
  <2> QED BY <2>3
<1>10. Lists(r2, prio2)
  BY <1>5, <1>7, <1>8 DEF Lists
<1>11. \A q \in Prios : q # p => r2[q] = r[q]
  BY <1>5
<1>12. Range(r2[p]) = Range(r[p]) \cup {t}
  <2> HIDE DEF r2
  <2> QED BY <1>6
<1> QED BY <1>9, <1>10, <1>11, <1>12, Zenon

\* task_pop of a task that is last on its list removes that task only.
LEMMA PopRemovesLast ==
  ASSUME NEW r, NEW prio \in [Pages -> Prios], Lists(r, prio),
         NEW t \in QueuedIn(r), Last(r[prio[t]]) = t
  PROVE  /\ Lists(TaskPop(r, t, prio[t]), prio)
         /\ QueuedIn(TaskPop(r, t, prio[t])) = QueuedIn(r) \ {t}
         /\ \A q \in Prios : Range(TaskPop(r, t, prio[t])[q]) = Range(r[q]) \ {t}
<1> DEFINE p == prio[t]
           r2 == TaskPop(r, t, p)
<1>1. t \in Pages /\ t \in Range(r[p])
  BY QueuedHome
<1>2. p \in Prios /\ r \in [Prios -> Seq(Pages)] /\ r[p] \in Seq(Pages)
  BY <1>1 DEF Lists
<1>3. r[p] # <<>>
  <2> SUFFICES ASSUME r[p] = <<>> PROVE FALSE
    OBVIOUS
  <2>1. DOMAIN r[p] = {} BY LenProperties, EmptySeq
  <2> QED BY <2>1, <1>1 DEF Range
<1>4. /\ Front(r[p]) \in Seq(Pages)
      /\ IsInjective(Front(r[p]))
      /\ Range(Front(r[p])) = Range(r[p]) \ {t}
  BY <1>2, <1>3, FrontRemovesLast DEF Lists
<1>5. r2 = [r EXCEPT ![p] = Front(r[p])]
  BY <1>3 DEF TaskPop
<1>6. /\ r2 \in [Prios -> Seq(Pages)]
      /\ r2[p] = Front(r[p])
      /\ \A q \in Prios : q # p => r2[q] = r[q]
  BY <1>2, <1>4, <1>5
<1>7. \A q \in Prios : q # p => t \notin Range(r[q])
  BY DEF Lists
<1>8. \A q \in Prios : Range(r2[q]) = Range(r[q]) \ {t}
  BY <1>4, <1>6, <1>7
<1>9. \A q \in Prios : IsInjective(r2[q])
  BY <1>4, <1>6 DEF Lists
<1>10. \A q \in Prios : \A u \in Range(r2[q]) : prio[u] = q
  BY <1>8 DEF Lists
<1>11. QueuedIn(r2) = QueuedIn(r) \ {t}
  BY <1>8 DEF QueuedIn
<1> QED BY <1>6, <1>8, <1>9, <1>10, <1>11 DEF Lists

\* choose_task only rotates the list it chooses.
LEMMA RotateKeeps ==
  ASSUME NEW r, NEW prio \in [Pages -> Prios], Lists(r, prio),
         NEW p \in Prios, r[p] # <<>>
  PROVE  LET r2 == TaskEnqueue([r EXCEPT ![p] = Tail(@)], Head(r[p]), prio[Head(r[p])])
         IN  /\ Head(r[p]) \in QueuedIn(r)
             /\ Lists(r2, prio)
             /\ \A q \in Prios : Range(r2[q]) = Range(r[q])
             /\ QueuedIn(r2) = QueuedIn(r)
<1> DEFINE t == Head(r[p])
           r1 == [r EXCEPT ![p] = Tail(r[p])]
           r2 == TaskEnqueue(r1, t, prio[t])
<1>1. r \in [Prios -> Seq(Pages)] /\ r[p] \in Seq(Pages) /\ IsInjective(r[p])
  BY DEF Lists
<1>2. /\ Tail(r[p]) \in Seq(Pages)
      /\ IsInjective(Tail(r[p]))
      /\ t \in Range(r[p])
      /\ Range(Tail(r[p])) = Range(r[p]) \ {t}
  BY <1>1, TailRemovesHead
<1>3. /\ prio[t] = p
      /\ t \in QueuedIn(r)
      /\ t \in Pages
  BY <1>2, QueuedHome DEF Lists, QueuedIn
<1>4. /\ r1 \in [Prios -> Seq(Pages)]
      /\ r1[p] = Tail(r[p])
      /\ \A q \in Prios : q # p => r1[q] = r[q]
  BY <1>1, <1>2
<1>5. \A q \in Prios : q # p => t \notin Range(r[q])
  BY <1>3 DEF Lists
<1>6. \A q \in Prios : Range(r1[q]) = Range(r[q]) \ {t}
  BY <1>2, <1>4, <1>5
<1>7. Lists(r1, prio)
  <2>1. \A q \in Prios : IsInjective(r1[q])
    BY <1>2, <1>4 DEF Lists
  <2>2. \A q \in Prios : \A u \in Range(r1[q]) : prio[u] = q
    BY <1>6 DEF Lists
  <2> QED BY <1>4, <2>1, <2>2 DEF Lists
<1>8. t \notin QueuedIn(r1)
  <2>1. \A q \in Prios : t \notin Range(r1[q])
    BY <1>6
  <2> QED BY <2>1 DEF QueuedIn
<1>9. /\ Lists(r2, prio)
     /\ Range(r2[p]) = Range(r1[p]) \cup {t}
      /\ \A q \in Prios : q # p => r2[q] = r1[q]
  <2>1. r2 = TaskEnqueue(r1, t, p)
    BY <1>3
  <2> HIDE DEF t, r1, r2
  <2>2. t \in Pages /\ prio[t] = p /\ \A u \in Pages : u # t => prio[u] = prio[u]
    BY <1>3
  <2>3. Lists(TaskEnqueue(r1, t, p), prio)
    BY <1>7, <1>8, <2>2, EnqueueAdds
  <2>4. Range(TaskEnqueue(r1, t, p)[p]) = Range(r1[p]) \cup {t}
    BY <1>7, <1>8, <2>2, EnqueueAdds
  <2>5. \A q \in Prios : q # p => TaskEnqueue(r1, t, p)[q] = r1[q]
    BY <1>7, <1>8, <2>2, EnqueueAdds
  <2> QED BY <2>1, <2>3, <2>4, <2>5, Zenon
<1>10. \A q \in Prios : Range(r2[q]) = Range(r[q])
  <2> HIDE DEF t, r1, r2
  <2>1. Range(r2[p]) = Range(r[p])
    BY <1>2, <1>6, <1>9
  <2> QED BY <1>4, <1>9, <2>1
<1>11. QueuedIn(r2) = QueuedIn(r)
  BY <1>10 DEF QueuedIn
<1> QED BY <1>3, <1>9, <1>10, <1>11

-----------------------------------------------------------------------------
(* The inductive invariant.                                                *)

\* The current task is queued unless it is spinning in __exit, no exited task
\* is queued, the shell always is, and the directory tree's page never is.
Anchored ==
  /\ curr \in Queued \cup spinning
  /\ spinning \cap Queued = {}
  /\ ShellPage \in Queued
  /\ RootPage \notin Queued

\* No id has been given out that is still to come.
IdsGivenOut == \A t \in Queued : tid[t] <= taskid

IInv ==
  /\ TypeOK
  /\ ReadyListsSound
  /\ Anchored
  /\ PagesAccounted
  /\ KBlksAccounted
  /\ TableOpensOwnPage
  /\ TidsUnique
  /\ IdsGivenOut

\* ReadyListsSound says two things: the shape of the lists, and the status.
LEMMA ReadyListsSplit ==
  ASSUME TypeOK
  PROVE  ReadyListsSound <=>
           /\ Lists(ready, priority)
           /\ \A t \in Queued : status[t] = IF t = curr THEN "RUNNING" ELSE "READY"
<1>1. \A u : u \in Queued <=> \E p \in Prios : u \in Range(ready[p])
  BY DEF Queued, QueuedIn
<1>2. ready \in [Prios -> Seq(Pages)]
  BY DEF TypeOK
<1> QED BY <1>1, <1>2 DEF ReadyListsSound, Lists

\* The free lists main() leaves hold everything but the first two nodes.
LEMMA BootList ==
  ASSUME NEW n \in Nat, n >= 2,
         NEW s, s = [i \in 1 .. n - 2 |-> i + 1]
  PROVE  /\ s \in Seq(0 .. n - 1)
         /\ IsInjective(s)
         /\ Range(s) = (0 .. n - 1) \ {0, 1}
<1>1. DOMAIN s = 1 .. n - 2 /\ \A i \in 1 .. n - 2 : s[i] = i + 1 /\ s[i] \in 0 .. n - 1
  OBVIOUS
<1>2. n - 2 \in Nat /\ s \in [1 .. n - 2 -> 0 .. n - 1]
  BY <1>1
<1>3. s \in Seq(0 .. n - 1)
  BY <1>2, SeqDef
<1>4. IsInjective(s)
  BY <1>1 DEF IsInjective
<1>5. \A e \in (0 .. n - 1) \ {0, 1} : e - 1 \in 1 .. n - 2 /\ s[e - 1] = e
  BY <1>1
<1>6. \A i \in 1 .. n - 2 : s[i] \in (0 .. n - 1) \ {0, 1}
  BY <1>1
<1>7. Range(s) = (0 .. n - 1) \ {0, 1}
  <2>1. Range(s) \subseteq (0 .. n - 1) \ {0, 1}
    BY <1>1, <1>6 DEF Range
  <2>2. ASSUME NEW e \in (0 .. n - 1) \ {0, 1}
        PROVE  e \in Range(s)
    <3>1. e - 1 \in DOMAIN s /\ s[e - 1] = e
      BY <1>1, <1>5
    <3> QED BY <3>1 DEF Range
  <2> QED BY <2>1, <2>2
<1> QED BY <1>3, <1>4, <1>7

\* The system boots into the invariant.
LEMMA InitHolds == Init => IInv
<1> SUFFICES ASSUME Init PROVE IInv
  OBVIOUS
<1> USE DEF Pages, KBlks, RootPage, ShellPage, QueueBlk, ShellPgt
<1>1. /\ NPages \in Nat /\ NPages >= 2 /\ NKBlks \in Nat /\ NKBlks >= 2
      /\ NPrio - 1 \in Prios /\ MaxTid \in Nat
  BY KernelAssumption DEF Prios
<1>2. /\ free \in Seq(Pages) /\ IsInjective(free) /\ Range(free) = Pages \ {0, 1}
  BY <1>1, BootList DEF Init, BootFree
<1>3. /\ kfree \in Seq(KBlks) /\ IsInjective(kfree) /\ Range(kfree) = KBlks \ {0, 1}
  BY <1>1, BootList DEF Init, BootKFree
<1>4. /\ ready = [p \in Prios |-> IF p = NPrio - 1 THEN <<1>> ELSE <<>>]
      /\ \A p \in Prios : Range(ready[p]) = IF p = NPrio - 1 THEN {1} ELSE {}
      /\ \A p \in Prios : IsInjective(ready[p])
      /\ ready \in [Prios -> Seq(Pages)]
  <2>1. /\ <<>> \in Seq(Pages) /\ IsInjective(<<>>) /\ Range(<<>>) = {}
    BY DEF IsInjective, Range
  <2>2. <<1>> \in Seq(Pages)
    BY <1>1
  <2>3. DOMAIN <<1>> = {1} /\ <<1>>[1] = 1
    OBVIOUS
  <2>4. IsInjective(<<1>>) /\ Range(<<1>>) = {1}
    BY <2>3 DEF IsInjective, Range
  <2>5. ready = [p \in Prios |-> IF p = NPrio - 1 THEN <<1>> ELSE <<>>]
    BY DEF Init, BootReady
  <2> QED BY <2>1, <2>2, <2>4, <2>5
<1>5. Queued = {1}
  <2>1. \A u : u \in Queued <=> \E p \in Prios : u \in Range(ready[p])
    BY DEF Queued, QueuedIn
  <2> QED BY <1>1, <1>4, <2>1
<1>6. /\ mode = "user" /\ curr = 1 /\ curr \in Pages
      /\ spinning = {} /\ newborn = {} /\ taskid = 0 /\ inuse = {0, 1}
      /\ priority = [t \in Pages |-> NPrio - 1]
      /\ tid = [t \in Pages |-> 0]
      /\ pgt = [t \in Pages |-> 1]
      /\ status = [t \in Pages |-> IF t = 1 THEN "RUNNING" ELSE "none"]
      /\ rw = [k \in KBlks |-> IF k = 1 THEN {1} ELSE {}]
  BY <1>1 DEF Init, BootStatus, BootRw
<1>7. TypeOK
  <2>1. 0 \in 0 .. MaxTid /\ 1 \in KBlks /\ {0, 1} \subseteq Pages
    BY <1>1
  <2> QED BY <1>1, <1>2, <1>3, <1>4, <1>6, <2>1 DEF TypeOK
<1>8. ReadyListsSound
  BY <1>1, <1>4, <1>6 DEF ReadyListsSound
<1>9. Anchored /\ IdsGivenOut /\ TidsUnique
  BY <1>5, <1>6 DEF Anchored, IdsGivenOut, TidsUnique
<1>10. PagesAccounted
  BY <1>2, <1>5, <1>6 DEF PagesAccounted
<1>11. KBlksAccounted
  <2>1. {pgt[t] : t \in Queued} = {1}
    BY <1>5, <1>6
  <2> QED BY <1>3, <1>5, <1>6, <2>1 DEF KBlksAccounted
<1>12. TableOpensOwnPage
  <2>1. 1 \in KBlks /\ 1 \in Pages
    BY <1>1
  <2>2. pgt[1] = 1 /\ rw[1] = {1}
    BY <2>1, <1>6
  <2> QED BY <2>1, <2>2, <1>5 DEF TableOpensOwnPage
<1> QED BY <1>7, <1>8, <1>9, <1>10, <1>11, <1>12 DEF IInv

\* A step that leaves the tasks and the pools alone keeps the invariant.
LEMMA ModeStep ==
  ASSUME IInv,
         mode' \in {"user", "getc", "restart", "abort", "wild"},
         UNCHANGED <<curr, ready, taskVars, poolVars, spinning, newborn>>
  PROVE  IInv'
<1>1. UNCHANGED <<curr, ready, status, priority, tid, taskid, free, inuse, kfree,
                  pgt, rw, spinning, newborn>>
  BY DEF taskVars, poolVars
<1>2. Queued' = Queued
  BY <1>1 DEF Queued, QueuedIn
<1>3. TypeOK'
  BY <1>1 DEF IInv, TypeOK
<1>4. ReadyListsSound'
  BY <1>1 DEF IInv, ReadyListsSound
<1>5. Anchored' /\ TidsUnique' /\ IdsGivenOut'
  BY <1>1, <1>2 DEF IInv, Anchored, TidsUnique, IdsGivenOut
<1>6. PagesAccounted' /\ KBlksAccounted' /\ TableOpensOwnPage'
  BY <1>1, <1>2 DEF IInv, PagesAccounted, KBlksAccounted, TableOpensOwnPage
<1> QED BY <1>3, <1>4, <1>5, <1>6 DEF IInv

\* What a creation or a fork takes from the two free lists.
LEMMA SpawnTakes ==
  ASSUME IInv, NEW p \in Prios, NEW shared, Spawn(p, shared)
  PROVE  LET t == Head(free)
             k == Head(kfree)
         IN  /\ t \in Pages /\ t \notin inuse /\ t # curr
             /\ free' \in Seq(Pages) /\ IsInjective(free')
             /\ Range(free') = Range(free) \ {t}
             /\ k \in KBlks /\ k # QueueBlk /\ \A u \in Queued : pgt[u] # k
             /\ kfree' \in Seq(KBlks) /\ IsInjective(kfree')
             /\ Range(kfree') = Range(kfree) \ {k}
<1> DEFINE t == Head(free)
           k == Head(kfree)
<1>1. /\ free # <<>> /\ kfree # <<>> /\ curr \notin spinning
      /\ free' = Tail(free) /\ kfree' = Tail(kfree)
  BY DEF Spawn, InProgram, PoolsLeft
<1>2. free \in Seq(Pages) /\ kfree \in Seq(KBlks)
  BY DEF IInv, TypeOK
<1>3. /\ free' \in Seq(Pages) /\ IsInjective(free')
      /\ t \in Range(free) /\ Range(free') = Range(free) \ {t}
  BY <1>1, <1>2, TailRemovesHead DEF IInv, PagesAccounted
<1>4. /\ kfree' \in Seq(KBlks) /\ IsInjective(kfree')
      /\ k \in Range(kfree) /\ Range(kfree') = Range(kfree) \ {k}
  BY <1>1, <1>2, TailRemovesHead DEF IInv, KBlksAccounted
<1>5. t \in Pages /\ t \notin inuse
  BY <1>3 DEF IInv, PagesAccounted
<1>6. curr \in Queued
  BY <1>1 DEF IInv, Anchored
<1>7. t # curr
  BY <1>5, <1>6 DEF IInv, PagesAccounted
<1>8. k \in KBlks /\ k # QueueBlk /\ \A u \in Queued : pgt[u] # k
  BY <1>4 DEF IInv, KBlksAccounted
<1> QED BY <1>3, <1>4, <1>5, <1>7, <1>8

\* A creation or a fork keeps the invariant.
LEMMA SpawnStep ==
  ASSUME IInv, NEW p \in Prios, NEW shared,
         shared = {} \/ shared = {curr},
         Spawn(p, shared)
  PROVE  IInv'
<1> DEFINE t == Head(free)
           k == Head(kfree)
<1>1. /\ t \in Pages /\ t \notin inuse /\ t # curr
      /\ free' \in Seq(Pages) /\ IsInjective(free') /\ Range(free') = Range(free) \ {t}
      /\ k \in KBlks /\ k # QueueBlk /\ \A u \in Queued : pgt[u] # k
      /\ kfree' \in Seq(KBlks) /\ IsInjective(kfree') /\ Range(kfree') = Range(kfree) \ {k}
  BY SpawnTakes
<1>2. /\ mode' = mode /\ curr' = curr
      /\ t \notin Queued /\ curr \notin spinning
      /\ ready' = TaskEnqueue(ready, t, p)
      /\ status' = [status EXCEPT ![t] = "READY"]
      /\ priority' = [priority EXCEPT ![t] = p]
      /\ tid' = [tid EXCEPT ![t] = NextTid]
      /\ taskid' = NextTid /\ taskid < MaxTid
      /\ inuse' = inuse \cup {t}
      /\ pgt' = [pgt EXCEPT ![t] = k]
      /\ rw' = [rw EXCEPT ![k] = TaskPgtSetup(rw[k], t) \cup shared]
      /\ spinning' = spinning \ {t}
      /\ newborn' = newborn \cup {t}
  BY DEF Spawn, InProgram
<1> HIDE DEF t, k
<1>3. TypeOK
  BY DEF IInv
<1>4. Lists(ready, priority) /\ \A u \in Queued : status[u] = IF u = curr THEN "RUNNING" ELSE "READY"
  BY <1>3, ReadyListsSplit DEF IInv
<1>5. priority \in [Pages -> Prios] /\ priority' \in [Pages -> Prios]
      /\ priority'[t] = p /\ \A u \in Pages : u # t => priority'[u] = priority[u]
  BY <1>1, <1>2, <1>3 DEF TypeOK
<1>6. Lists(ready', priority') /\ Queued' = Queued \cup {t}
  <2>1. t \notin QueuedIn(ready)
    BY <1>2 DEF Queued
  <2>2. /\ Lists(TaskEnqueue(ready, t, p), priority')
        /\ QueuedIn(TaskEnqueue(ready, t, p)) = QueuedIn(ready) \cup {t}
    BY <1>1, <1>4, <1>5, <2>1, EnqueueAdds
  <2> QED BY <1>2, <2>2 DEF Queued
<1>7. taskid' \in 0 .. MaxTid /\ taskid' = taskid + 1 /\ taskid \in 0 .. MaxTid
  BY <1>2, <1>3, KernelAssumption DEF TypeOK, NextTid
<1>8. shared \subseteq Pages /\ TaskPgtSetup(rw[k], t) = {t}
  BY <1>3 DEF TypeOK, TaskPgtSetup
<1>9. TypeOK'
  <2>1. ready' \in [Prios -> Seq(Pages)]
    BY <1>6 DEF Lists
  <2>2. rw' \in [KBlks -> SUBSET Pages]
    BY <1>1, <1>2, <1>3, <1>8 DEF TypeOK
  <2>3. tid' \in [Pages -> 0 .. MaxTid]
    BY <1>1, <1>2, <1>3, <1>7 DEF TypeOK
  <2>4. pgt' \in [Pages -> KBlks] /\ status' \in [Pages -> {"none", "READY", "RUNNING", "TERMINATE"}]
    BY <1>1, <1>2, <1>3 DEF TypeOK
  <2> QED BY <1>1, <1>2, <1>3, <1>5, <1>7, <2>1, <2>2, <2>3, <2>4 DEF TypeOK
<1>10. ReadyListsSound'
  <2>1. \A u \in Queued : u \in Pages
    BY <1>4, <1>5, QueuedHome DEF Queued
  <2>2. \A u \in Queued' : status'[u] = IF u = curr' THEN "RUNNING" ELSE "READY"
    BY <1>1, <1>2, <1>3, <1>4, <1>6, <2>1 DEF TypeOK
  <2> QED BY <1>6, <2>2 DEF ReadyListsSound, Lists, Queued, QueuedIn
<1>11. Anchored'
  BY <1>1, <1>2, <1>6 DEF IInv, Anchored, PagesAccounted
<1>12. PagesAccounted'
  BY <1>1, <1>2, <1>6 DEF IInv, PagesAccounted
<1>13. /\ Queued \subseteq Pages
       /\ \A u \in Queued : u # t
       /\ pgt'[t] = k /\ \A u \in Queued : pgt'[u] = pgt[u]
       /\ tid'[t] = taskid' /\ \A u \in Queued : tid'[u] = tid[u]
  <2>1. Queued \subseteq Pages
    BY <1>4, <1>5, QueuedHome DEF Queued
  <2> QED BY <1>1, <1>2, <1>3, <2>1 DEF TypeOK
<1>14. KBlksAccounted'
  <2>1. {pgt'[u] : u \in Queued'} = {pgt[u] : u \in Queued} \cup {k}
    BY <1>6, <1>13
  <2>2. Range(kfree') = KBlks \ ({QueueBlk} \cup {pgt'[u] : u \in Queued'})
    BY <1>1, <2>1 DEF IInv, KBlksAccounted
  <2>3. \A u \in Queued' : pgt'[u] # QueueBlk
    BY <1>1, <1>6, <1>13 DEF IInv, KBlksAccounted
  <2>4. \A u, v \in Queued' : pgt'[u] = pgt'[v] => u = v
    BY <1>1, <1>6, <1>13 DEF IInv, KBlksAccounted
  <2> QED BY <1>1, <2>2, <2>3, <2>4 DEF KBlksAccounted
<1>15. TableOpensOwnPage'
  <2>1. rw'[k] = {t} \cup shared /\ \A u \in Queued : rw'[pgt[u]] = rw[pgt[u]]
    BY <1>1, <1>2, <1>3, <1>8, <1>13 DEF TypeOK
  <2>2. \E u \in Pages : {t} \cup shared \subseteq {t, u}
    BY <1>3 DEF TypeOK
  <2> QED BY <1>6, <1>13, <2>1, <2>2 DEF IInv, TableOpensOwnPage
<1>16. IdsGivenOut' /\ TidsUnique'
  <2>1. \A u \in Queued : tid[u] \in 0 .. MaxTid /\ tid[u] <= taskid
    BY <1>3, <1>13 DEF TypeOK, IInv, IdsGivenOut
  <2>2. IdsGivenOut'
    BY <1>6, <1>7, <1>13, <2>1 DEF IdsGivenOut
  <2>3. \A u \in Queued : tid'[u] # tid'[t]
    BY <1>7, <1>13, <2>1
  <2>4. TidsUnique'
    BY <1>6, <1>13, <2>3 DEF IInv, TidsUnique
  <2> QED BY <2>2, <2>4
<1> QED BY <1>9, <1>10, <1>11, <1>12, <1>14, <1>15, <1>16 DEF IInv

\* An exit keeps the invariant when the task is last on its list.
LEMMA ExitStep ==
  ASSUME IInv, ~ExitBehindSpawn, Exit
  PROVE  IInv'
<1>1. /\ curr \notin spinning /\ curr # ShellPage
      /\ Last(ready[priority[curr]]) = curr
      /\ mode' = mode /\ curr' = curr
      /\ status' = [status EXCEPT ![curr] = "TERMINATE"]
      /\ ready' = TaskPop(ready, curr, priority[curr])
      /\ inuse' = inuse \ {curr}
      /\ free' = Append(free, curr)
      /\ kfree' = Append(kfree, pgt[curr])
      /\ spinning' = spinning \cup {curr}
      /\ UNCHANGED <<priority, tid, taskid, pgt, rw, newborn>>
  BY DEF Exit, InProgram, PageFree, KBlkFree
<1>2. TypeOK
  BY DEF IInv
<1>3. Lists(ready, priority) /\ \A u \in Queued : status[u] = IF u = curr THEN "RUNNING" ELSE "READY"
  BY <1>2, ReadyListsSplit DEF IInv
<1>4. curr \in Queued /\ curr # RootPage /\ curr \in Pages /\ priority \in [Pages -> Prios]
  BY <1>1, <1>2 DEF IInv, Anchored, TypeOK
<1>5. Lists(ready', priority') /\ Queued' = Queued \ {curr}
  BY <1>1, <1>3, <1>4, PopRemovesLast DEF Queued
<1>6. Queued \subseteq Pages
  BY <1>3, <1>4, QueuedHome DEF Queued
<1>7. /\ free' \in Seq(Pages) /\ IsInjective(free')
      /\ Range(free') = Range(free) \cup {curr}
  <2>1. curr \in inuse /\ curr \notin Range(free)
    BY <1>4 DEF IInv, PagesAccounted
  <2> QED BY <1>1, <1>2, <1>4, <2>1, AppendAdds DEF IInv, PagesAccounted, TypeOK
<1>8. /\ kfree' \in Seq(KBlks) /\ IsInjective(kfree')
      /\ Range(kfree') = Range(kfree) \cup {pgt[curr]}
  <2>1. pgt[curr] \in KBlks /\ pgt[curr] \notin Range(kfree)
    BY <1>2, <1>4 DEF IInv, KBlksAccounted, TypeOK
  <2> QED BY <1>1, <1>2, <2>1, AppendAdds DEF IInv, KBlksAccounted, TypeOK
<1>9. TypeOK'
  <2>1. ready' \in [Prios -> Seq(Pages)]
    BY <1>5 DEF Lists
  <2> QED BY <1>1, <1>2, <1>4, <1>7, <1>8, <2>1 DEF TypeOK
<1>10. ReadyListsSound'
  <2>1. \A u \in Queued' : status'[u] = IF u = curr' THEN "RUNNING" ELSE "READY"
    BY <1>1, <1>2, <1>3, <1>5, <1>6 DEF TypeOK
  <2> QED BY <1>5, <2>1 DEF ReadyListsSound, Lists, Queued, QueuedIn
<1>11. Anchored'
  BY <1>1, <1>5 DEF IInv, Anchored
<1>12. PagesAccounted'
  BY <1>1, <1>4, <1>5, <1>7 DEF IInv, PagesAccounted
<1>13. KBlksAccounted'
  <2>1. \A u \in Queued' : pgt[u] # pgt[curr]
    BY <1>4, <1>5 DEF IInv, KBlksAccounted
  <2>2. {pgt[u] : u \in Queued'} = {pgt[u] : u \in Queued} \ {pgt[curr]}
    BY <1>4, <1>5, <2>1
  <2>3. pgt[curr] \in KBlks /\ pgt[curr] # QueueBlk
    BY <1>2, <1>4 DEF IInv, KBlksAccounted, TypeOK
  <2>4. Range(kfree') = KBlks \ ({QueueBlk} \cup {pgt[u] : u \in Queued'})
    BY <1>4, <1>8, <2>2, <2>3 DEF IInv, KBlksAccounted
  <2> QED BY <1>1, <1>5, <1>8, <2>4 DEF IInv, KBlksAccounted
<1>14. TableOpensOwnPage' /\ TidsUnique' /\ IdsGivenOut'
  BY <1>1, <1>5 DEF IInv, TableOpensOwnPage, TidsUnique, IdsGivenOut
<1> QED BY <1>9, <1>10, <1>11, <1>12, <1>13, <1>14 DEF IInv

\* A non-empty set of naturals has a least element.
LEMMA LeastElement ==
  ASSUME NEW T, T \subseteq Nat, T # {}
  PROVE  \E x \in T : \A y \in T : x <= y
<1>1. \E x \in T : \A y \in T : ~ (<<y, x>> \in OpToRel(<, Nat))
  BY WFMin, NatLessThanWellFounded
<1>2. PICK x \in T : \A y \in T : ~ (<<y, x>> \in OpToRel(<, Nat))
  BY <1>1
<1>3. \A y \in T : <<y, x>> \in OpToRel(<, Nat) <=> y < x
  BY DEF OpToRel
<1>4. \A y \in T : x <= y
  <2> TAKE y \in T
  <2>1. ~(y < x) /\ x \in Nat /\ y \in Nat
    BY <1>2, <1>3
  <2> QED BY <2>1
<1> QED BY <1>4

\* choose_task always finds a READY head when a tick makes the current task
\* READY: the shell is queued, and so is everybody choose_task may look at.
LEMMA ChosenExists ==
  ASSUME IInv
  PROVE  LET s == [status EXCEPT ![curr] = "READY"]
         IN  /\ \A t \in Queued : s[t] = "READY"
             /\ Chosen(ready, s) # {}
<1> DEFINE s == [status EXCEPT ![curr] = "READY"]
           full == {p \in Prios : ready[p] # <<>>}
<1>1. TypeOK
  BY DEF IInv
<1>2. Lists(ready, priority) /\ \A u \in Queued : status[u] = IF u = curr THEN "RUNNING" ELSE "READY"
  BY <1>1, ReadyListsSplit DEF IInv
<1>3. Queued \subseteq Pages
  BY <1>1, <1>2, QueuedHome DEF Queued, TypeOK
<1>4. \A t \in Queued : s[t] = "READY"
  BY <1>1, <1>2, <1>3 DEF TypeOK
<1>5. \A p \in full : s[Head(ready[p])] = "READY"
  <2> TAKE p \in full
  <2>1. Head(ready[p]) \in Range(ready[p])
    BY <1>2, TailRemovesHead DEF Lists
  <2> QED BY <1>4, <2>1 DEF Queued, QueuedIn
<1>6. full # {}
  <2>1. PICK p \in Prios : ShellPage \in Range(ready[p])
    BY DEF IInv, Anchored, Queued, QueuedIn
  <2>2. ready[p] # <<>>
    <3> SUFFICES ASSUME ready[p] = <<>> PROVE FALSE
      OBVIOUS
    <3>1. DOMAIN ready[p] = {} BY LenProperties, EmptySeq
    <3> QED BY <2>1, <3>1 DEF Range
  <2> QED BY <2>1, <2>2
<1>7. PICK p \in full : \A q \in full : p <= q
  <2>1. full \subseteq Nat
    BY KernelAssumption DEF Prios
  <2> HIDE DEF full
  <2> QED BY <1>6, <2>1, LeastElement
<1>8. p \in Prios /\ ready[p] # <<>> /\ \A q \in Prios : q < p => ready[q] = <<>>
  BY <1>7, KernelAssumption DEF Prios
<1>9. p \in Chosen(ready, s)
  BY <1>5, <1>7, <1>8 DEF Chosen
<1> QED BY <1>4, <1>9

\* A tick keeps the invariant.
LEMMA TickStep ==
  ASSUME IInv, Tick
  PROVE  IInv'
<1> DEFINE s == [status EXCEPT ![curr] = "READY"]
<1>1. Chosen(ready, s) # {} /\ \A u \in Queued : s[u] = "READY"
  BY ChosenExists
<1>2. TypeOK
  BY DEF IInv
<1>3. Lists(ready, priority) /\ priority \in [Pages -> Prios]
  BY <1>2, ReadyListsSplit DEF IInv, TypeOK
<1>4. PICK p \in Prios :
        /\ ready[p] # <<>>
        /\ curr' = Head(ready[p])
        /\ status' = [s EXCEPT ![Head(ready[p])] = "RUNNING"]
        /\ ready' = TaskEnqueue([ready EXCEPT ![p] = Tail(@)], Head(ready[p]),
                                priority[Head(ready[p])])
        /\ newborn' = {} /\ mode' = "user"
  BY <1>1 DEF Tick, Dispatch, Chosen
<1>5. UNCHANGED <<priority, tid, taskid, free, inuse, kfree, pgt, rw, spinning>>
  BY DEF Tick, poolVars
<1>6. /\ curr' \in Queued
      /\ Lists(ready', priority')
      /\ Queued' = Queued
  BY <1>3, <1>4, <1>5, RotateKeeps DEF Queued
<1>7. Queued \subseteq Pages
  BY <1>3, QueuedHome DEF Queued
<1>8. s \in [Pages -> {"none", "READY", "RUNNING", "TERMINATE"}]
  BY <1>2 DEF TypeOK
<1> HIDE DEF s
<1>9. /\ status' \in [Pages -> {"none", "READY", "RUNNING", "TERMINATE"}]
      /\ \A u \in Pages : status'[u] = IF u = curr' THEN "RUNNING" ELSE s[u]
  BY <1>4, <1>6, <1>7, <1>8
<1>10. TypeOK'
  <2>1. ready' \in [Prios -> Seq(Pages)] /\ curr' \in Pages
    BY <1>6, <1>7 DEF Lists
  <2> QED BY <1>2, <1>4, <1>5, <1>9, <2>1 DEF TypeOK
<1>11. ReadyListsSound'
  <2>1. \A u \in Queued' : status'[u] = IF u = curr' THEN "RUNNING" ELSE "READY"
    BY <1>1, <1>6, <1>7, <1>9
  <2> QED BY <1>6, <2>1 DEF ReadyListsSound, Lists, Queued, QueuedIn
<1>12. Anchored'
  BY <1>5, <1>6 DEF IInv, Anchored
<1>13. PagesAccounted' /\ KBlksAccounted'
  BY <1>5, <1>6 DEF IInv, PagesAccounted, KBlksAccounted
<1>14. TableOpensOwnPage' /\ TidsUnique' /\ IdsGivenOut'
  BY <1>5, <1>6 DEF IInv, TableOpensOwnPage, TidsUnique, IdsGivenOut
<1> QED BY <1>10, <1>11, <1>12, <1>13, <1>14 DEF IInv

\* A reset keeps the invariant: it leads back to an initial state.
LEMMA BootStep ==
  ASSUME Boot
  PROVE  IInv'
<1>1. Init'
  BY DEF Boot, Init, BootReady, BootStatus, BootRw, BootFree, BootKFree
<1> QED BY <1>1, InitHolds, PTL

\* Every step keeps the invariant when no program exits behind a new task.
LEMMA NextStep ==
  ASSUME IInv, ~ExitBehindSpawn, [Next]_vars
  PROVE  IInv'
<1>1. CASE \E p \in Prios : TaskCreate(p)
  BY <1>1, SpawnStep DEF TaskCreate
<1>2. CASE Fork
  <2>1. priority[curr] \in Prios
    BY DEF IInv, TypeOK
  <2> QED BY <1>2, <2>1, SpawnStep DEF Fork
<1>3. CASE SpawnGoesWild
  BY <1>3, ModeStep DEF SpawnGoesWild
<1>4. CASE Exit
  BY <1>4, ExitStep
<1>5. CASE ExitGoesWild
  BY <1>5, ModeStep DEF ExitGoesWild
<1>6. CASE Tick
  BY <1>6, TickStep
<1>7. CASE Yield \/ ReadConsole \/ KeyPressed \/ Restart
  BY <1>7, ModeStep DEF Yield, ReadConsole, KeyPressed, Restart
<1>8. CASE Boot
  BY <1>8, BootStep
<1>9. CASE UNCHANGED vars
  <2>1. mode' \in {"user", "getc", "restart", "abort", "wild"}
    BY <1>9 DEF vars, IInv, TypeOK
  <2> QED BY <1>9, <2>1, ModeStep DEF vars
<1> QED BY <1>1, <1>2, <1>3, <1>4, <1>5, <1>6, <1>7, <1>8, <1>9 DEF Next

-----------------------------------------------------------------------------
(* Who may be overtaken.                                                   *)

\* After a dispatch nobody is: all higher lists are empty and the chosen task
\* is at the end of its own.
LEMMA DispatchOvertakesNobody ==
  ASSUME IInv, Tick
  PROVE  OnlyNewbornOvertaken'
<1> DEFINE s == [status EXCEPT ![curr] = "READY"]
<1>1. Chosen(ready, s) # {} /\ \A u \in Queued : s[u] = "READY"
  BY ChosenExists
<1>2. Lists(ready, priority) /\ priority \in [Pages -> Prios]
  BY ReadyListsSplit DEF IInv, TypeOK
<1>3. PICK p \in Chosen(ready, s) :
        /\ curr' = Head(ready[p])
        /\ ready' = TaskEnqueue([ready EXCEPT ![p] = Tail(@)], Head(ready[p]),
                                priority[Head(ready[p])])
  BY <1>1 DEF Tick, Dispatch
<1> DEFINE t == Head(ready[p])
<1>4. /\ p \in Prios /\ ready[p] # <<>>
      /\ \A q \in Prios : q < p => ~(ready[q] # <<>> /\ s[Head(ready[q])] = "READY")
  BY DEF Chosen
<1>5. \A q \in Prios : ready[q] # <<>> => Head(ready[q]) \in Range(ready[q])
  BY <1>2, TailRemovesHead DEF Lists
<1>6. \A q \in Prios : q < p => ready[q] = <<>>
  BY <1>1, <1>4, <1>5 DEF Queued, QueuedIn
<1>7. priority[t] = p /\ priority' = priority
  BY <1>2, <1>4, <1>5 DEF Lists, Tick
<1>8. /\ ready' = [ready EXCEPT ![p] = Append(Tail(ready[p]), t)]
      /\ ready \in [Prios -> Seq(Pages)] /\ ready[p] \in Seq(Pages)
  BY <1>2, <1>3, <1>4, <1>7 DEF TaskEnqueue, Lists
<1>9. \A q \in Prios : q < p => ready'[q] = <<>>
  BY <1>4, <1>6, <1>8, KernelAssumption DEF Prios
<1>10. Range(<<>>) = {}
  BY DEF Range
<1>11. ready'[p] = Append(Tail(ready[p]), t) /\ Tail(ready[p]) \in Seq(Pages) /\ t \in Pages
  BY <1>4, <1>8, HeadTailProperties
<1>12. /\ DOMAIN ready'[p] = 1 .. Len(Tail(ready[p])) + 1
       /\ ready'[p][Len(Tail(ready[p])) + 1] = t
       /\ Len(Tail(ready[p])) \in Nat
  BY <1>11, AppendProperties, LenProperties
<1> HIDE DEF t
<1>13. \E i \in DOMAIN ready'[p] :
         ready'[p][i] = t /\ \A j \in DOMAIN ready'[p] : j > i => ready'[p][j] \in newborn'
  BY <1>12
<1>14. curr' = t
  BY <1>3 DEF t
<1> QED BY <1>7, <1>9, <1>10, <1>13, <1>14 DEF OnlyNewbornOvertaken

\* A creation or a fork lets the current task overtake the new task only.
LEMMA SpawnOvertakesNewborn ==
  ASSUME IInv, OnlyNewbornOvertaken, NEW p \in Prios, NEW shared, Spawn(p, shared)
  PROVE  OnlyNewbornOvertaken'
<1> DEFINE t == Head(free)
           own == ready[priority[curr]]
<1>1. t \in Pages /\ t # curr
  BY SpawnTakes
<1>2. /\ curr' = curr /\ curr \notin spinning /\ t \notin Queued
      /\ ready' = [ready EXCEPT ![p] = Append(ready[p], t)]
      /\ priority' = [priority EXCEPT ![t] = p]
      /\ newborn' = newborn \cup {t}
  BY DEF Spawn, InProgram, TaskEnqueue
<1> HIDE DEF t
<1>3. /\ ready \in [Prios -> Seq(Pages)] /\ curr \in Pages
      /\ priority \in [Pages -> Prios] /\ priority[curr] \in Prios
  BY DEF IInv, TypeOK
<1>4. priority'[curr'] = priority[curr]
  BY <1>1, <1>2, <1>3
<1>5. \A q \in Prios :
        /\ DOMAIN ready[q] = 1 .. Len(ready[q])
        /\ Len(ready[q]) \in Nat
        /\ ready'[q] = IF q = p THEN Append(ready[q], t) ELSE ready[q]
  BY <1>2, <1>3, LenProperties
<1>6. /\ DOMAIN Append(ready[p], t) = 1 .. Len(ready[p]) + 1
      /\ \A i \in 1 .. Len(ready[p]) : Append(ready[p], t)[i] = ready[p][i]
      /\ Append(ready[p], t)[Len(ready[p]) + 1] = t
  BY <1>1, <1>3, AppendProperties, LenProperties
<1>7. \A q \in Prios : Range(ready'[q]) \subseteq Range(ready[q]) \cup {t}
  <2> TAKE q \in Prios
  <2>1. CASE q # p
    BY <2>1, <1>5
  <2>2. CASE q = p
    <3>1. ready'[p] = Append(ready[p], t)
      BY <1>5
    <3>2. DOMAIN ready[p] = 1 .. Len(ready[p]) /\ Len(ready[p]) \in Nat
      BY <1>5
    <3>3. ASSUME NEW i \in DOMAIN ready'[p]
          PROVE  ready'[p][i] \in Range(ready[p]) \cup {t}
      <4>1. i \in DOMAIN ready[p] \/ i = Len(ready[p]) + 1
        BY <1>6, <3>1, <3>2
      <4> QED BY <1>6, <3>1, <3>2, <4>1 DEF Range
    <3> QED BY <2>2, <3>3 DEF Range
  <2> QED BY <2>1, <2>2
<1>8. \A q \in Prios : q < priority'[curr'] => Range(ready'[q]) \subseteq newborn'
  BY <1>2, <1>4, <1>7 DEF OnlyNewbornOvertaken
<1>9. PICK i \in DOMAIN own :
        own[i] = curr /\ \A j \in DOMAIN own : j > i => own[j] \in newborn
  BY <1>2 DEF OnlyNewbornOvertaken
<1>10. LET own2 == ready'[priority[curr]]
       IN  /\ i \in DOMAIN own2 /\ own2[i] = curr
           /\ \A j \in DOMAIN own2 : j > i => own2[j] \in newborn'
  <2>1. CASE priority[curr] # p
    BY <2>1, <1>2, <1>3, <1>5, <1>9
  <2>2. CASE priority[curr] = p
    <3>1. ready'[p] = Append(ready[p], t) /\ own = ready[p]
      BY <2>2, <1>5
    <3>2. DOMAIN own = 1 .. Len(own) /\ Len(own) \in Nat
      BY <1>5, <3>1
    <3>3. i \in DOMAIN ready'[p] /\ ready'[p][i] = curr
      BY <1>6, <1>9, <3>1, <3>2
    <3>4. ASSUME NEW j \in DOMAIN ready'[p], j > i
          PROVE  ready'[p][j] \in newborn'
      <4>1. j \in DOMAIN own \/ j = Len(own) + 1
        BY <1>6, <3>1, <3>2
      <4>2. CASE j \in DOMAIN own
        BY <4>2, <1>2, <1>6, <1>9, <3>1, <3>2, <3>4
      <4>3. CASE j = Len(own) + 1
        BY <4>3, <1>2, <1>6, <3>1
      <4> QED BY <4>1, <4>2, <4>3
    <3> QED BY <2>2, <3>3, <3>4
  <2> QED BY <2>1, <2>2
<1>11. \E k \in DOMAIN ready'[priority'[curr']] :
         /\ ready'[priority'[curr']][k] = curr'
         /\ \A j \in DOMAIN ready'[priority'[curr']] :
              j > k => ready'[priority'[curr']][j] \in newborn'
  BY <1>2, <1>4, <1>10, Zenon
<1> QED BY <1>8, <1>11, Zenon DEF OnlyNewbornOvertaken

\* An exit takes a task away and leaves the current one spinning.
LEMMA ExitOvertakesNobody ==
  ASSUME IInv, OnlyNewbornOvertaken, ~ExitBehindSpawn, Exit
  PROVE  OnlyNewbornOvertaken'
<1>1. /\ curr' = curr /\ curr \notin spinning /\ curr \in spinning'
      /\ Last(ready[priority[curr]]) = curr
      /\ ready' = TaskPop(ready, curr, priority[curr])
      /\ UNCHANGED <<priority, newborn>>
  BY DEF Exit, InProgram
<1>2. \A q \in Prios : q # priority[curr] => ready'[q] = ready[q]
  BY <1>1 DEF TaskPop, IInv, TypeOK
<1>3. priority[curr] \in Nat /\ Prios \subseteq Nat
  BY KernelAssumption DEF IInv, TypeOK, Prios
<1> QED BY <1>1, <1>2, <1>3 DEF OnlyNewbornOvertaken

\* A tick moves up the list it chooses and leaves the others alone; it chooses
\* the list of a task with nobody above it.
LEMMA TickMovesUp ==
  ASSUME IInv, Tick, NEW p \in Prios, NEW i \in DOMAIN ready[p]
  PROVE  MovesUp(p, i)
<1> DEFINE s == [status EXCEPT ![curr] = "READY"]
<1>1. Chosen(ready, s) # {} /\ \A u \in Queued : s[u] = "READY"
  BY ChosenExists
<1>2. Lists(ready, priority) /\ priority \in [Pages -> Prios]
  BY ReadyListsSplit DEF IInv, TypeOK
<1>3. PICK c \in Chosen(ready, s) :
        /\ curr' = Head(ready[c])
        /\ ready' = TaskEnqueue([ready EXCEPT ![c] = Tail(@)], Head(ready[c]),
                                priority[Head(ready[c])])
  BY <1>1 DEF Tick, Dispatch
<1>4. /\ c \in Prios /\ ready[c] # <<>>
      /\ \A q \in Prios : q < c => ~(ready[q] # <<>> /\ s[Head(ready[q])] = "READY")
  BY DEF Chosen
<1>5. \A q \in Prios : ready[q] # <<>> => Head(ready[q]) \in Range(ready[q])
  BY <1>2, TailRemovesHead DEF Lists
<1>6. \A q \in Prios : q < c => ready[q] = <<>>
  BY <1>1, <1>4, <1>5 DEF Queued, QueuedIn
<1>7. priority[Head(ready[c])] = c
  BY <1>2, <1>4, <1>5 DEF Lists
<1>8. /\ ready' = [ready EXCEPT ![c] = Append(Tail(ready[c]), Head(ready[c]))]
      /\ ready \in [Prios -> Seq(Pages)] /\ ready[c] \in Seq(Pages) /\ ready[p] \in Seq(Pages)
  BY <1>2, <1>3, <1>4, <1>7 DEF TaskEnqueue, Lists
<1>9. i \in 1 .. Len(ready[p]) /\ Len(ready[p]) \in Nat /\ Prios \subseteq Nat
  BY <1>8, LenProperties, KernelAssumption DEF Prios
<1>10. CASE p # c
  <2>1. ready'[p] = ready[p] /\ i <= i
    BY <1>8, <1>9, <1>10
  <2>2. ready[p] # <<>>
    BY <1>9
  <2>3. c < p
    BY <1>4, <1>6, <1>9, <1>10, <2>2
  <2>4. ~ \A q \in Prios : q < p => ready[q] = <<>>
    BY <1>4, <2>3
  <2> QED BY <2>1, <2>4 DEF MovesUp
<1>11. CASE p = c /\ i = 1
  BY <1>3, <1>11 DEF MovesUp
<1>12. CASE p = c /\ i # 1
  <2>1. ready'[p] = Append(Tail(ready[p]), Head(ready[p]))
    BY <1>4, <1>8, <1>12
  <2>2. /\ Tail(ready[p]) \in Seq(Pages) /\ Len(Tail(ready[p])) = Len(ready[p]) - 1
        /\ Tail(ready[p])[i - 1] = ready[p][i] /\ Head(ready[p]) \in Pages
    BY <1>4, <1>8, <1>9, <1>12
  <2>3. i - 1 \in DOMAIN ready'[p] /\ ready'[p][i - 1] = ready[p][i]
    BY <1>9, <1>12, <2>1, <2>2
  <2>4. i - 1 < i /\ i - 1 <= i
    BY <1>9
  <2> QED BY <2>3, <2>4 DEF MovesUp
<1> QED BY <1>10, <1>11, <1>12

\* Whatever else happens puts tasks at the end of a list, or takes away the one
\* that exits.
LEMMA OthersKeepPlaces ==
  ASSUME IInv, ~ExitBehindSpawn, Next, ~Tick, mode \in {"user", "getc"},
         NEW p \in Prios, NEW i \in DOMAIN ready[p]
  PROVE  MovesUp(p, i)
<1>1. /\ ready \in [Prios -> Seq(Pages)] /\ ready[p] \in Seq(Pages)
      /\ priority[curr] \in Prios /\ curr \in Pages
  BY DEF IInv, TypeOK
<1>2. i \in 1 .. Len(ready[p]) /\ Len(ready[p]) \in Nat /\ i <= i
  BY <1>1, LenProperties
<1>3. SUFFICES ready[p][i] \in spinning' \/ (i \in DOMAIN ready'[p] /\ ready'[p][i] = ready[p][i])
  BY <1>2 DEF MovesUp
<1>4. ASSUME NEW q \in Prios, NEW shared, Spawn(q, shared)
      PROVE  i \in DOMAIN ready'[p] /\ ready'[p][i] = ready[p][i]
  <2> DEFINE t == Head(free)
  <2>1. t \in Pages
    BY <1>4, SpawnTakes
  <2>2. ready' = [ready EXCEPT ![q] = Append(ready[q], t)]
    BY <1>4 DEF Spawn, TaskEnqueue
  <2> HIDE DEF t
  <2>3. ready'[p] = IF p = q THEN Append(ready[p], t) ELSE ready[p]
    BY <1>1, <2>2
  <2> QED BY <1>1, <1>2, <2>1, <2>3, AppendProperties
<1>5. CASE \E q \in Prios : TaskCreate(q)
  BY <1>4, <1>5 DEF TaskCreate
<1>6. CASE Fork
  BY <1>1, <1>4, <1>6 DEF Fork
<1>7. CASE Exit
  <2> DEFINE h == priority[curr]
  <2>1. /\ ready[h] # <<>> /\ Last(ready[h]) = curr
        /\ ready' = TaskPop(ready, curr, h) /\ spinning' = spinning \cup {curr}
    BY <1>7 DEF Exit
  <2>2. ready' = [ready EXCEPT ![h] = Front(ready[h])]
    BY <2>1 DEF TaskPop
  <2>3. CASE p # h
    BY <1>1, <1>2, <2>2, <2>3
  <2>4. CASE p = h
    <3>1. ready'[p] = Front(ready[p])
      BY <1>1, <2>2, <2>4
    <3>2. /\ DOMAIN Front(ready[p]) = 1 .. Len(ready[p]) - 1
          /\ Last(ready[p]) = ready[p][Len(ready[p])]
          /\ \A j \in 1 .. Len(ready[p]) - 1 : Front(ready[p])[j] = ready[p][j]
      <4>1. IsInjective(ready[p]) /\ ready[p] # <<>>
        BY <2>1, <2>4 DEF IInv, ReadyListsSound
      <4> QED BY <1>1, <4>1, FrontRemovesLast
    <3>3. CASE i = Len(ready[p])
      BY <2>1, <2>4, <3>2, <3>3
    <3>4. CASE i # Len(ready[p])
      <4>1. i \in 1 .. Len(ready[p]) - 1
        BY <1>2, <3>4
      <4> QED BY <3>1, <3>2, <4>1
    <3> QED BY <3>3, <3>4
  <2> QED BY <2>3, <2>4
<1>8. CASE ready' = ready
  BY <1>8
<1>9. SpawnGoesWild \/ ExitGoesWild \/ Yield \/ ReadConsole \/ KeyPressed \/ Restart
        => ready' = ready
  BY DEF SpawnGoesWild, ExitGoesWild, Yield, ReadConsole, KeyPressed, Restart
<1>10. ~Boot
  BY DEF Boot
<1> QED BY <1>5, <1>6, <1>7, <1>8, <1>9, <1>10 DEF Next

-----------------------------------------------------------------------------
(* The theorems.                                                           *)

\* The invariant holds in every reachable state, for programs that do not
\* exit in the time slice in which they put a task behind themselves.
THEOREM Invariance == ~ExitBehindSpawn => (Spec => []IInv)
<1> SUFFICES ASSUME ~ExitBehindSpawn PROVE Spec => []IInv
  OBVIOUS
<1>1. Init => IInv
  BY InitHolds
<1>2. IInv /\ [Next]_vars => IInv'
  BY NextStep
<1> QED BY <1>1, <1>2, PTL DEF Spec

\* The state keeps its types: no operation stores a page, a block, a priority
\* or a status that is not one.
THEOREM TypeCorrect == ~ExitBehindSpawn => (Spec => []TypeOK)
<1>1. IInv => TypeOK
  BY DEF IInv
<1> QED BY <1>1, Invariance, PTL

\* The ready lists never hold a task twice, on the wrong list or in the wrong
\* status.
THEOREM ListsStaySound == ~ExitBehindSpawn => (Spec => []ReadyListsSound)
<1>1. IInv => ReadyListsSound
  BY DEF IInv
<1> QED BY <1>1, Invariance, PTL

\* choose_task never falls off its end.
THEOREM SchedulerAlwaysChooses == ~ExitBehindSpawn => (Spec => []SomeTaskIsChosen)
<1>1. IInv => SomeTaskIsChosen
  BY ChosenExists DEF SomeTaskIsChosen
<1> QED BY <1>1, Invariance, PTL

\* No task that has called __exit is on a ready list.
THEOREM ExitIsFinal == ~ExitBehindSpawn => (Spec => []ExitedTaskLeavesQueues)
<1>1. IInv => ExitedTaskLeavesQueues
  BY DEF IInv, Anchored, ExitedTaskLeavesQueues
<1> QED BY <1>1, Invariance, PTL

\* No page leaks, and none is free while a task owns it.
THEOREM PagesStayAccounted == ~ExitBehindSpawn => (Spec => []PagesAccounted)
<1>1. IInv => PagesAccounted
  BY DEF IInv
<1> QED BY <1>1, Invariance, PTL

\* No kernel block leaks, and no two tasks have the same page table.
THEOREM KBlksStayAccounted == ~ExitBehindSpawn => (Spec => []KBlksAccounted)
<1>1. IInv => KBlksAccounted
  BY DEF IInv
<1> QED BY <1>1, Invariance, PTL

\* A task's table opens its own page and at most its parent's.
THEOREM TablesStayPrivate == ~ExitBehindSpawn => (Spec => []TableOpensOwnPage)
<1>1. IInv => TableOpensOwnPage
  BY DEF IInv
<1> QED BY <1>1, Invariance, PTL

\* Tasks on the ready lists keep different ids.
THEOREM IdsStayUnique == ~ExitBehindSpawn => (Spec => []TidsUnique)
<1>1. IInv => TidsUnique
  BY DEF IInv
<1> QED BY <1>1, Invariance, PTL

\* No step rewrites the table of a queued task or the one the CPU is using,
\* although exit_handler gives the latter back before it is left.
THEOREM ActiveTablesHold == ~ExitBehindSpawn => (Spec => ActiveTablesStable)
<1>1. ASSUME IInv, [Next]_vars
      PROVE  [mode' = "user" /\ mode \in {"user", "getc"} =>
                \A t \in Queued \cup {curr} : rw'[pgt[t]] = rw[pgt[t]]]_vars
  <2>1. CASE \E p \in Prios, shared \in {{}, {curr}} : Spawn(p, shared)
    <3>1. PICK p \in Prios, shared \in {{}, {curr}} : Spawn(p, shared)
      BY <2>1
    <3>2. \A t \in Queued : pgt[t] # Head(kfree)
      BY <1>1, <3>1, SpawnTakes
    <3>3. curr \in Queued /\ rw' = [rw EXCEPT ![Head(kfree)] = TaskPgtSetup(@, Head(free)) \cup shared]
      BY <1>1, <3>1 DEF Spawn, InProgram, IInv, Anchored
    <3>4. \A t \in Queued : pgt[t] \in KBlks
      <4>1. Queued \subseteq Pages
        BY <1>1, ReadyListsSplit, QueuedHome DEF IInv, TypeOK, Queued
      <4> QED BY <1>1, <4>1 DEF IInv, TypeOK
    <3> QED BY <1>1, <3>2, <3>3, <3>4 DEF IInv, TypeOK
  <2>2. CASE UNCHANGED rw
    BY <2>2
  <2>3. CASE Boot
    BY <2>3 DEF Boot
  <2>4. CASE UNCHANGED vars
    BY <2>4
  <2> QED
    <3>1. \A p \in Prios : TaskCreate(p) => \E shared \in {{}, {curr}} : Spawn(p, shared)
      BY DEF TaskCreate
    <3>2. Fork => \E p \in Prios, shared \in {{}, {curr}} : Spawn(p, shared)
      BY <1>1 DEF Fork, IInv, TypeOK
    <3>3. SpawnGoesWild \/ Exit \/ ExitGoesWild \/ Tick \/ Yield
            \/ ReadConsole \/ KeyPressed \/ Restart => UNCHANGED rw
      BY DEF SpawnGoesWild, Exit, ExitGoesWild, Tick, Yield, ReadConsole, KeyPressed,
             Restart, poolVars
    <3> QED BY <1>1, <2>1, <2>2, <2>3, <2>4, <3>1, <3>2, <3>3 DEF Next
<1> QED BY <1>1, Invariance, PTL DEF Spec, ActiveTablesStable

\* Strict priority up to one time slice: a task above the running one, or
\* behind it on its own list, arrived after the last dispatch.
THEOREM PriorityHolds == ~ExitBehindSpawn => (Spec => []OnlyNewbornOvertaken)
<1> SUFFICES ASSUME ~ExitBehindSpawn PROVE Spec => []OnlyNewbornOvertaken
  OBVIOUS
<1>1. Init => OnlyNewbornOvertaken
  <2> SUFFICES ASSUME Init PROVE OnlyNewbornOvertaken
    OBVIOUS
  <2>1. /\ curr = 1 /\ priority[curr] = NPrio - 1 /\ NPrio - 1 \in Prios
        /\ ready = [p \in Prios |-> IF p = NPrio - 1 THEN <<1>> ELSE <<>>]
    BY KernelAssumption DEF Init, BootReady, ShellPage, Pages, Prios
  <2>2. /\ \A p \in Prios : p < NPrio - 1 => ready[p] = <<>>
        /\ ready[NPrio - 1] = <<1>>
    BY <2>1, KernelAssumption DEF Prios
  <2>3. Range(<<>>) = {} /\ DOMAIN <<1>> = {1} /\ <<1>>[1] = 1
    BY DEF Range
  <2> QED BY <2>1, <2>2, <2>3 DEF OnlyNewbornOvertaken
<1>2. IInv /\ OnlyNewbornOvertaken /\ [Next]_vars => OnlyNewbornOvertaken'
  <2> SUFFICES ASSUME IInv, OnlyNewbornOvertaken, [Next]_vars
               PROVE  OnlyNewbornOvertaken'
    OBVIOUS
  <2>1. CASE \E p \in Prios : TaskCreate(p)
    BY <2>1, SpawnOvertakesNewborn DEF TaskCreate
  <2>2. CASE Fork
    <3>1. priority[curr] \in Prios
      BY DEF IInv, TypeOK
    <3> QED BY <2>2, <3>1, SpawnOvertakesNewborn DEF Fork
  <2>3. CASE Exit
    BY <2>3, ExitOvertakesNobody
  <2>4. CASE Tick
    BY <2>4, DispatchOvertakesNobody
  <2>5. CASE UNCHANGED <<curr, ready, priority, spinning, newborn>>
    BY <2>5 DEF OnlyNewbornOvertaken
  <2>6. SpawnGoesWild \/ ExitGoesWild \/ Yield \/ ReadConsole \/ KeyPressed \/ Restart
          \/ UNCHANGED vars => UNCHANGED <<curr, ready, priority, spinning, newborn>>
    BY DEF SpawnGoesWild, ExitGoesWild, Yield, ReadConsole, KeyPressed, Restart, vars, taskVars
  <2>7. CASE Boot
    <3>1. Init'
      BY <2>7 DEF Boot, Init, BootReady, BootStatus, BootRw, BootFree, BootKFree
    <3> QED BY <3>1, <1>1, PTL
  <2> QED BY <2>1, <2>2, <2>3, <2>4, <2>5, <2>6, <2>7 DEF Next
<1> QED BY <1>1, <1>2, Invariance, PTL DEF Spec

\* The safety half of RoundRobin, for every number of tasks and priorities: a
\* task's distance to its turn never grows and, with nobody above it, shrinks
\* at every tick, so that ticks alone bring its turn.
THEOREM WaitersAdvance == ~ExitBehindSpawn => (Spec => WaitersMoveUp)
<1> SUFFICES ASSUME ~ExitBehindSpawn PROVE Spec => WaitersMoveUp
  OBVIOUS
<1>1. IInv /\ [Next]_vars =>
        [\A p \in Prios : \A i \in DOMAIN ready[p] :
           mode \in {"user", "getc"} => MovesUp(p, i)]_vars
  BY TickMovesUp, OthersKeepPlaces
<1> QED BY <1>1, Invariance, PTL DEF Spec, WaitersMoveUp

-----------------------------------------------------------------------------
(* The loop that walks a list.                                             *)

\* A loop over the links of s stands on the (k+1)-st node after k turns, until
\* it reaches the first node it may stop at, the j-th.
LEMMA TurnStands ==
  ASSUME NEW S, NULL \notin S, NEW next \in [S -> S \cup {NULL}],
         NEW s \in Seq(S), NEW h, Spelled(h, next, s),
         NEW node, NEW j \in 1 .. Len(s),
         \A i \in 1 .. j - 1 : s[i] # node,
         j = Len(s) \/ s[j] = node,
         NEW k \in Nat
  PROVE  Turn(next, h, node, k) = IF k < j THEN s[k + 1] ELSE s[j]
<1> DEFINE Step(f, i) == IF i = 0 THEN h
                         ELSE LET m == f[i - 1]
                              IN  IF m = node \/ next[m] = NULL THEN m ELSE next[m]
           P(f) == f = [i \in Nat |-> Step(f, i)]
           g == [i \in Nat |-> IF i < j THEN s[i + 1] ELSE s[j]]
           at == CHOOSE f : P(f)
<1>0. Len(s) \in Nat /\ j \in Nat /\ 1 <= j /\ j <= Len(s)
  BY LenProperties
<1>1. /\ \A i \in 1 .. Len(s) : s[i] \in S
      /\ s # <<>>
      /\ h = s[1]
      /\ \A i \in 1 .. Len(s) : next[s[i]] = IF i = Len(s) THEN NULL ELSE s[i + 1]
  BY LenProperties, ElementOfSeq, EmptySeq DEF Spelled
<1>2. /\ g = [i \in Nat |-> g[i]]
      /\ \A i \in Nat : g[i] = IF i < j THEN s[i + 1] ELSE s[j]
  BY Zenon
<1> HIDE DEF g
<1>3. ASSUME NEW i \in Nat PROVE g[i] = Step(g, i)
  <2>1. CASE i = 0
    <3>1. g[0] = s[1]
      <4>1. 0 \in Nat /\ 0 < j /\ 0 + 1 = 1
        BY <1>0
      <4> QED BY <1>2, <4>1
    <3>2. g[i] = h
      BY <2>1, <3>1, <1>1
    <3> QED BY <2>1, <3>2
  <2>2. CASE i \in 1 .. j - 1
    <3>1. i - 1 \in Nat /\ i - 1 < j /\ (i - 1) + 1 = i /\ i < j
         /\ i \in 1 .. Len(s) /\ i + 1 \in 1 .. Len(s) /\ i # Len(s) /\ i # 0
      BY <2>2, <1>0
    <3>2. g[i - 1] = s[i] /\ g[i] = s[i + 1]
      BY <3>1, <1>2
    <3>3. next[s[i]] = s[i + 1] /\ s[i + 1] \in S /\ s[i] # node
      BY <2>2, <3>1, <1>1
    <3> QED BY <3>1, <3>2, <3>3
  <2>3. CASE i >= j
    <3>1. i # 0 /\ i - 1 \in Nat /\ ~(i < j) /\ (i - 1 < j => (i - 1) + 1 = j)
      BY <2>3, <1>0
    <3>2. g[i - 1] = s[j] /\ g[i] = s[j]
      BY <3>1, <1>2
    <3>3. s[j] = node \/ next[s[j]] = NULL
      BY <1>1
    <3> QED BY <3>1, <3>2, <3>3
  <2> QED BY <2>1, <2>2, <2>3, <1>0
<1>4. P(g)
  BY <1>2, <1>3
<1>5. P(at)
  BY <1>4
<1>6. Turn(next, h, node, k) = at[k]
  BY DEF Turn
<1>7. at = [i \in Nat |-> Step(at, i)]
  BY <1>5
<1> HIDE DEF at, P
<1>8. \A i \in Nat : at[i] = g[i]
  <2> DEFINE Bad == {i \in Nat : at[i] # g[i]}
  <2> SUFFICES ASSUME Bad # {} PROVE FALSE
    OBVIOUS
  <2>1. PICK i \in Bad : \A l \in Bad : i <= l
    BY LeastElement
  <2>2. at[i] = Step(at, i) /\ g[i] = Step(g, i)
    BY <1>3, <1>7
  <2>3. i # 0
    BY <2>1, <2>2
  <2>4. i - 1 \in Nat /\ i - 1 \notin Bad
    BY <2>1, <2>3
  <2> QED BY <2>1, <2>2, <2>3, <2>4
<1> QED BY <1>2, <1>6, <1>8

\* A list without duplicates is no longer than the number of nodes.
LEMMA ListFits ==
  ASSUME NEW S, IsFiniteSet(S), NEW s \in Seq(S), IsInjective(s)
  PROVE  Len(s) <= Cardinality(S) /\ Cardinality(S) \in Nat
<1>1. /\ Len(s) \in Nat /\ DOMAIN s = 1 .. Len(s) /\ s \in [1 .. Len(s) -> S]
  BY LenProperties
<1>2. s \in Injection(1 .. Len(s), S)
  BY <1>1 DEF Injection, IsInjective, IsInjective
<1>3. Cardinality(1 .. Len(s)) = Len(s)
  BY <1>1, FS_Interval
<1> QED BY <1>2, <1>3, FS_Injection, FS_CardinalityType

\* find_blk_list_end and its like stop at the last node.
LEMMA EndIsLast ==
  ASSUME NEW S, NULL \notin S, IsFiniteSet(S), NEW next \in [S -> S \cup {NULL}],
         NEW s \in Seq(S), s # <<>>, IsInjective(s), NEW h, Spelled(h, next, s)
  PROVE  EndOf(next, h) = s[Len(s)]
<1>1. /\ Len(s) \in Nat \ {0} /\ DOMAIN next = S
      /\ \A i \in 1 .. Len(s) : s[i] \in S
  BY LenProperties, EmptySeq, ElementOfSeq
<1>2. Len(s) <= Cardinality(S) /\ Cardinality(S) \in Nat
  BY ListFits
<1>3. \A i \in 1 .. Len(s) - 1 : s[i] # NULL
  BY <1>1
<1>4. Turn(next, h, NULL, Cardinality(S)) =
        IF Cardinality(S) < Len(s) THEN s[Cardinality(S) + 1] ELSE s[Len(s)]
  BY <1>1, <1>2, <1>3, TurnStands
<1> QED BY <1>1, <1>2, <1>4 DEF EndOf, Search

\* which_page finds a page that is on the list.
LEMMA SearchFinds ==
  ASSUME NEW S, NULL \notin S, IsFiniteSet(S), NEW next \in [S -> S \cup {NULL}],
         NEW s \in Seq(S), IsInjective(s), NEW h, Spelled(h, next, s),
         NEW node \in Range(s)
  PROVE  Search(next, h, node) = node
<1>1. /\ Len(s) \in Nat /\ DOMAIN next = S /\ DOMAIN s = 1 .. Len(s)
  BY LenProperties
<1>2. PICK j \in 1 .. Len(s) : s[j] = node
  BY <1>1 DEF Range
<1>3. Len(s) <= Cardinality(S) /\ Cardinality(S) \in Nat
  BY ListFits
<1>4. \A i \in 1 .. j - 1 : s[i] # node
  BY <1>1, <1>2 DEF IsInjective
<1>5. Turn(next, h, node, Cardinality(S)) =
        IF Cardinality(S) < j THEN s[Cardinality(S) + 1] ELSE s[j]
  BY <1>2, <1>3, <1>4, TurnStands
<1> QED BY <1>1, <1>2, <1>3, <1>5 DEF Search

-----------------------------------------------------------------------------
(* What the stores do to a list.                                           *)

\* A store changes the field of one node.
LEMMA StoreAt ==
  ASSUME NEW S, NULL \notin S, NEW f \in [S -> S \cup {NULL}],
         NEW ptr \in S \cup {NULL}, NEW v \in S \cup {NULL}
  PROVE  /\ Store(f, ptr, v) \in [S -> S \cup {NULL}]
         /\ \A n \in S : Store(f, ptr, v)[n] = IF n = ptr THEN v ELSE f[n]
BY DEF Store

\* A list that no store touches is spelled as before.
LEMMA SpelledElsewhere ==
  ASSUME NEW next, NEW next2, NEW s, NEW h, Spelled(h, next, s),
         \A n \in Range(s) : next2[n] = next[n]
  PROVE  Spelled(h, next2, s)
<1>1. \A i \in DOMAIN s : next2[s[i]] = next[s[i]]
  BY DEF Range
<1> QED BY <1>1 DEF Spelled

LEMMA BackLinkedElsewhere ==
  ASSUME NEW prev, NEW prev2, NEW s, BackLinked(prev, s),
         \A n \in Range(s) : prev2[n] = prev[n]
  PROVE  BackLinked(prev2, s)
<1>1. \A i \in DOMAIN s : prev2[s[i]] = prev[s[i]]
  BY DEF Range
<1> QED BY <1>1 DEF BackLinked

\* The stores that put a node behind the last one.
LEMMA AppendSpells ==
  ASSUME NEW S, NULL \notin S, NEW next \in [S -> S \cup {NULL}],
         NEW s \in Seq(S), s # <<>>, IsInjective(s), NEW h, Spelled(h, next, s),
         NEW e \in S, e \notin Range(s)
  PROVE  /\ Store(Store(next, s[Len(s)], e), e, NULL) \in [S -> S \cup {NULL}]
         /\ Spelled(h, Store(Store(next, s[Len(s)], e), e, NULL), Append(s, e))
<1> DEFINE a == Append(s, e)
           end == s[Len(s)]
           n1 == Store(next, end, e)
           n2 == Store(n1, e, NULL)
<1>0. Len(s) \in Nat \ {0}
  BY LenProperties, EmptySeq
<1>1. /\ DOMAIN s = 1 .. Len(s)
      /\ \A i \in 1 .. Len(s) : s[i] \in S /\ s[i] # e
  BY LenProperties, EmptySeq, ElementOfSeq DEF Range
<1>2. /\ Len(a) = Len(s) + 1 /\ DOMAIN a = 1 .. Len(s) + 1 /\ a # <<>>
      /\ \A i \in 1 .. Len(s) : a[i] = s[i]
      /\ a[Len(s) + 1] = e
  BY <1>1, AppendProperties, LenProperties
<1>3. end \in S /\ end # e
  BY <1>0, <1>1
<1>4. /\ n1 \in [S -> S \cup {NULL}]
      /\ \A n \in S : n1[n] = IF n = end THEN e ELSE next[n]
  BY <1>3, StoreAt
<1>5. /\ n2 \in [S -> S \cup {NULL}]
      /\ \A n \in S : n2[n] = IF n = e THEN NULL ELSE n1[n]
  BY <1>4, StoreAt
<1> HIDE DEF n1, n2, a, end
<1>6. h = a[1]
  BY <1>0, <1>1, <1>2 DEF Spelled
<1>7. ASSUME NEW i \in 1 .. Len(s) + 1
      PROVE  n2[a[i]] = IF i = Len(s) + 1 THEN NULL ELSE a[i + 1]
  <2>1. CASE i = Len(s) + 1
    BY <2>1, <1>2, <1>5
  <2>2. CASE i = Len(s)
    <3>1. a[i] = end /\ a[i + 1] = e
      BY <2>2, <1>0, <1>1, <1>2 DEF end
    <3> QED BY <2>2, <3>1, <1>0, <1>1, <1>3, <1>4, <1>5
  <2>3. CASE i \in 1 .. Len(s) - 1
    <3>1. i \in 1 .. Len(s) /\ i + 1 \in 1 .. Len(s) /\ i # Len(s) /\ Len(s) \in 1 .. Len(s)
      BY <2>3, <1>0
    <3>2. s[i] # end
      BY <3>1, <1>0, <1>1 DEF IsInjective, end
    <3>3. next[s[i]] = s[i + 1]
      BY <3>1, <1>0, <1>1 DEF Spelled
    <3>4. a[i] = s[i] /\ a[i + 1] = s[i + 1] /\ s[i] \in S /\ s[i] # e
      BY <3>1, <1>0, <1>1, <1>2
    <3>5. n2[s[i]] = next[s[i]]
      BY <3>2, <3>4, <1>4, <1>5
    <3> QED BY <3>1, <3>3, <3>4, <3>5
  <2> QED BY <2>1, <2>2, <2>3, <1>0
<1> QED BY <1>2, <1>5, <1>6, <1>7 DEF Spelled, a, end, n1, n2

LEMMA AppendBackLinks ==
  ASSUME NEW S, NULL \notin S, NEW prev \in [S -> S \cup {NULL}],
         NEW s \in Seq(S), s # <<>>, BackLinked(prev, s),
         NEW e \in S, e \notin Range(s)
  PROVE  /\ Store(prev, e, s[Len(s)]) \in [S -> S \cup {NULL}]
         /\ BackLinked(Store(prev, e, s[Len(s)]), Append(s, e))
<1> DEFINE a == Append(s, e)
           p1 == Store(prev, e, s[Len(s)])
<1>0. Len(s) \in Nat \ {0}
  BY LenProperties, EmptySeq
<1>1. /\ DOMAIN s = 1 .. Len(s)
      /\ \A i \in 1 .. Len(s) : s[i] \in S /\ s[i] # e
  BY LenProperties, EmptySeq, ElementOfSeq DEF Range
<1>2. /\ DOMAIN a = 1 .. Len(s) + 1
      /\ \A i \in 1 .. Len(s) : a[i] = s[i]
      /\ a[Len(s) + 1] = e
  BY <1>1, AppendProperties, LenProperties
<1>3. s[Len(s)] \in S \cup {NULL}
  BY <1>0, <1>1
<1>4. /\ p1 \in [S -> S \cup {NULL}]
      /\ \A n \in S : p1[n] = IF n = e THEN s[Len(s)] ELSE prev[n]
  BY <1>3, StoreAt
<1> HIDE DEF p1, a
<1>5. ASSUME NEW i \in 1 .. Len(s) + 1
      PROVE  p1[a[i]] = IF i = 1 THEN NULL ELSE a[i - 1]
  <2>1. CASE i = Len(s) + 1
    <3>1. i # 1 /\ a[i] = e /\ a[i - 1] = s[Len(s)]
      BY <2>1, <1>0, <1>1, <1>2
    <3> QED BY <3>1, <1>4
  <2>2. CASE i \in 1 .. Len(s)
    <3>1. a[i] = s[i] /\ s[i] \in S /\ s[i] # e
      BY <2>2, <1>0, <1>1, <1>2
    <3>2. prev[s[i]] = IF i = 1 THEN NULL ELSE s[i - 1]
      BY <2>2, <1>0, <1>1 DEF BackLinked
    <3>3. i # 1 => a[i - 1] = s[i - 1]
      BY <2>2, <1>0, <1>1, <1>2
    <3> QED BY <3>1, <3>2, <3>3, <1>4
  <2> QED BY <2>1, <2>2, <1>0
<1> QED BY <1>2, <1>4, <1>5 DEF BackLinked, a, p1

\* The stores that make a node the only one.
LEMMA FirstSpells ==
  ASSUME NEW S, NULL \notin S, NEW next \in [S -> S \cup {NULL}],
         NEW s \in Seq(S), s = <<>>, NEW e \in S
  PROVE  /\ Store(next, e, NULL) \in [S -> S \cup {NULL}]
         /\ Spelled(e, Store(next, e, NULL), Append(s, e))
         /\ BackLinked(Store(next, e, NULL), Append(s, e))
<1>1. Append(s, e) = <<e>> /\ Append(s, e) # <<>> /\ Len(Append(s, e)) = 1
      /\ DOMAIN Append(s, e) = 1 .. 1 /\ Append(s, e)[1] = e
  OBVIOUS
<1>2. /\ Store(next, e, NULL) \in [S -> S \cup {NULL}]
      /\ Store(next, e, NULL)[e] = NULL
  BY StoreAt
<1> QED BY <1>1, <1>2 DEF Spelled, BackLinked

\* The stores that take the head off.
LEMMA TailSpells ==
  ASSUME NEW S, NULL \notin S, NEW next \in [S -> S \cup {NULL}],
         NEW s \in Seq(S), s # <<>>, IsInjective(s), NEW h, Spelled(h, next, s)
  PROVE  /\ h = s[1] /\ h \in S /\ next[h] \in S \cup {NULL}
         /\ Store(next, h, NULL) \in [S -> S \cup {NULL}]
         /\ Spelled(next[h], Store(next, h, NULL), Tail(s))
<1> DEFINE r == Tail(s)
           n1 == Store(next, h, NULL)
<1>0. Len(s) \in Nat \ {0}
  BY LenProperties, EmptySeq
<1>1. /\ DOMAIN s = 1 .. Len(s) /\ 1 \in 1 .. Len(s)
      /\ \A i \in 1 .. Len(s) : s[i] \in S
  BY LenProperties, EmptySeq, ElementOfSeq
<1>2. /\ r \in Seq(S) /\ Len(r) = Len(s) - 1 /\ DOMAIN r = 1 .. Len(s) - 1
      /\ \A i \in 1 .. Len(s) - 1 : r[i] = s[i + 1]
  BY HeadTailProperties, LenProperties
<1>3. /\ h = s[1] /\ h \in S
      /\ \A i \in 1 .. Len(s) : next[s[i]] = IF i = Len(s) THEN NULL ELSE s[i + 1]
  BY <1>0, <1>1 DEF Spelled
<1>4. /\ n1 \in [S -> S \cup {NULL}]
      /\ \A n \in S : n1[n] = IF n = h THEN NULL ELSE next[n]
  BY <1>3, StoreAt
<1> HIDE DEF n1, r
<1>5. next[h] = IF r = <<>> THEN NULL ELSE r[1]
  <2>1. CASE Len(s) = 1
    <3>1. r = <<>>
      BY <2>1, <1>2, EmptySeq
    <3> QED BY <2>1, <3>1, <1>0, <1>1, <1>3
  <2>2. CASE Len(s) # 1
    <3>1. Len(r) # 0 /\ 1 \in 1 .. Len(s) - 1 /\ 1 + 1 = 2
      BY <2>2, <1>0, <1>2
    <3>2. r # <<>> /\ r[1] = s[2]
      BY <3>1, <1>2, EmptySeq
    <3>3. next[s[1]] = s[2]
      BY <2>2, <3>1, <1>1, <1>3
    <3> QED BY <3>2, <3>3, <1>3
  <2> QED BY <2>1, <2>2
<1>6. ASSUME NEW i \in 1 .. Len(s) - 1
      PROVE  n1[r[i]] = IF i = Len(s) - 1 THEN NULL ELSE r[i + 1]
  <2>1. i + 1 \in 1 .. Len(s) /\ i + 1 # 1 /\ (i + 1 = Len(s) <=> i = Len(s) - 1)
    BY <1>0
  <2>2. r[i] = s[i + 1] /\ s[i + 1] \in S /\ s[i + 1] # h
    BY <2>1, <1>0, <1>1, <1>2, <1>3 DEF IsInjective
  <2>3. next[s[i + 1]] = IF i + 1 = Len(s) THEN NULL ELSE s[(i + 1) + 1]
    BY <2>1, <1>3
  <2>4. i # Len(s) - 1 => i + 1 \in 1 .. Len(s) - 1
    BY <1>0
  <2>5. i # Len(s) - 1 => r[i + 1] = s[(i + 1) + 1]
    BY <2>4, <1>2
  <2> QED BY <2>1, <2>2, <2>3, <2>5, <1>4
<1>7. next[h] \in S \cup {NULL}
  BY <1>3
<1> QED BY <1>2, <1>3, <1>4, <1>5, <1>6, <1>7 DEF Spelled, r, n1

LEMMA TailBackLinks ==
  ASSUME NEW S, NULL \notin S, NEW prev \in [S -> S \cup {NULL}],
         NEW s \in Seq(S), s # <<>>, IsInjective(s), BackLinked(prev, s),
         NEW n, n = IF Tail(s) = <<>> THEN NULL ELSE Tail(s)[1]
  PROVE  /\ Store(prev, n, NULL) \in [S -> S \cup {NULL}]
         /\ BackLinked(Store(prev, n, NULL), Tail(s))
<1> DEFINE r == Tail(s)
           p1 == Store(prev, n, NULL)
<1>0. Len(s) \in Nat \ {0}
  BY LenProperties, EmptySeq
<1>1. /\ DOMAIN s = 1 .. Len(s)
      /\ \A i \in 1 .. Len(s) : s[i] \in S
  BY LenProperties, EmptySeq, ElementOfSeq
<1>2. /\ r \in Seq(S) /\ Len(r) = Len(s) - 1 /\ DOMAIN r = 1 .. Len(s) - 1
      /\ \A i \in 1 .. Len(s) - 1 : r[i] = s[i + 1]
  BY HeadTailProperties, LenProperties
<1> HIDE DEF p1, r
<1>3. n \in S \cup {NULL} /\ (r # <<>> => n = s[2] /\ n \in S)
  <2>1. CASE r = <<>>
    BY <2>1 DEF r
  <2>2. CASE r # <<>>
    <3>1. 1 \in 1 .. Len(s) - 1
      BY <2>2, <1>0, <1>1, <1>2, EmptySeq
    <3>2. n = s[2] /\ 2 \in 1 .. Len(s)
      BY <2>2, <3>1, <1>0, <1>1, <1>2 DEF r
    <3> QED BY <3>2, <1>0, <1>1
  <2> QED BY <2>1, <2>2
<1>4. /\ p1 \in [S -> S \cup {NULL}]
      /\ \A m \in S : p1[m] = IF m = n THEN NULL ELSE prev[m]
  <2>1. n \in S \cup {NULL} /\ NULL \in S \cup {NULL}
    BY <1>3
  <2>2. p1 \in [S -> S \cup {NULL}]
    BY <2>1, StoreAt DEF p1
  <2>3. \A m \in S : p1[m] = IF m = n THEN NULL ELSE prev[m]
    BY <2>1, StoreAt DEF p1
  <2> QED BY <2>2, <2>3, Zenon
<1>5. ASSUME NEW i \in 1 .. Len(s) - 1
      PROVE  p1[r[i]] = IF i = 1 THEN NULL ELSE r[i - 1]
  <2>1. i + 1 \in 1 .. Len(s) /\ i + 1 # 1 /\ (i + 1) - 1 = i /\ (i + 1 = 2 <=> i = 1)
        /\ 2 \in 1 .. Len(s)
    BY <1>0
  <2>2. r # <<>>
    BY <1>0, <1>1, <1>2, EmptySeq
  <2>3. r[i] = s[i + 1] /\ s[i + 1] \in S /\ (s[i + 1] = n <=> i = 1)
    BY <2>1, <2>2, <1>0, <1>1, <1>2, <1>3 DEF IsInjective
  <2>4. prev[s[i + 1]] = s[i]
    BY <2>1, <1>0, <1>1 DEF BackLinked
  <2>5. i # 1 => r[i - 1] = s[i]
    BY <1>0, <1>1, <1>2
  <2> QED BY <2>3, <2>4, <2>5, <1>4
<1> QED BY <1>2, <1>4, <1>5 DEF BackLinked, r, p1

\* A list without its j-th element.
Without(s, j) == [i \in 1 .. Len(s) - 1 |-> IF i < j THEN s[i] ELSE s[i + 1]]

LEMMA WithoutRemoves ==
  ASSUME NEW S, NEW s \in Seq(S), IsInjective(s), NEW j \in 1 .. Len(s)
  PROVE  /\ Without(s, j) \in Seq(S) /\ Len(Without(s, j)) = Len(s) - 1
         /\ IsInjective(Without(s, j))
         /\ Range(Without(s, j)) = Range(s) \ {s[j]}
<1> DEFINE w == Without(s, j)
<1>0. Len(s) \in Nat /\ Len(s) - 1 \in Nat /\ j \in Nat /\ 1 <= j /\ j <= Len(s)
  BY LenProperties
<1>1. /\ DOMAIN s = 1 .. Len(s)
      /\ \A i \in 1 .. Len(s) : s[i] \in S
  BY LenProperties, ElementOfSeq
<1>2. /\ DOMAIN w = 1 .. Len(s) - 1
      /\ \A i \in 1 .. Len(s) - 1 : w[i] = IF i < j THEN s[i] ELSE s[i + 1]
      /\ w = [i \in 1 .. Len(s) - 1 |-> w[i]]
  BY DEF Without
<1> HIDE DEF w
<1>3. \A i \in 1 .. Len(s) - 1 : i \in 1 .. Len(s) /\ i + 1 \in 1 .. Len(s)
  BY <1>0
<1>4. \A i \in 1 .. Len(s) - 1 : w[i] \in S
  BY <1>1, <1>2, <1>3
<1>5. w \in [1 .. Len(s) - 1 -> S]
  BY <1>2, <1>4
<1>6. w \in Seq(S)
  BY <1>0, <1>5, SeqDef
<1>7. Len(w) = Len(s) - 1
  BY <1>0, <1>2, <1>6, LenProperties
<1>8. ASSUME NEW a \in 1 .. Len(s) - 1, NEW b \in 1 .. Len(s) - 1, w[a] = w[b]
      PROVE  a = b
  <2>1. PICK x \in 1 .. Len(s) : w[a] = s[x] /\ x = IF a < j THEN a ELSE a + 1
    BY <1>2, <1>3
  <2>2. PICK y \in 1 .. Len(s) : w[b] = s[y] /\ y = IF b < j THEN b ELSE b + 1
    BY <1>2, <1>3
  <2>3. x = y
    BY <1>8, <2>1, <2>2, <1>1 DEF IsInjective
  <2> QED BY <2>1, <2>2, <2>3, <1>0
<1>9. IsInjective(w)
  BY <1>2, <1>8 DEF IsInjective
<1>10. ASSUME NEW e \in Range(w) PROVE e \in Range(s) \ {s[j]}
  <2>1. PICK a \in 1 .. Len(s) - 1 : e = w[a]
    BY <1>2 DEF Range
  <2>2. PICK x \in 1 .. Len(s) : w[a] = s[x] /\ x = IF a < j THEN a ELSE a + 1
    BY <1>2, <1>3
  <2>3. x # j
    BY <2>2, <1>0
  <2>4. s[x] # s[j]
    BY <2>3, <1>1 DEF IsInjective
  <2> QED BY <2>1, <2>2, <2>4, <1>1 DEF Range
<1>11. ASSUME NEW e \in Range(s) \ {s[j]} PROVE e \in Range(w)
  <2>1. PICK x \in 1 .. Len(s) : e = s[x] /\ x # j
    BY <1>1 DEF Range
  <2>2. CASE x < j
    <3>1. x \in 1 .. Len(s) - 1
      BY <2>2, <1>0
    <3> QED BY <2>1, <2>2, <3>1, <1>2 DEF Range
  <2>3. CASE ~(x < j)
    <3>1. x - 1 \in 1 .. Len(s) - 1 /\ ~(x - 1 < j) /\ (x - 1) + 1 = x
      BY <2>1, <2>3, <1>0
    <3>2. w[x - 1] = s[x]
      BY <3>1, <1>2
    <3> QED BY <2>1, <3>1, <3>2, <1>2 DEF Range
  <2> QED BY <2>2, <2>3
<1>12. Range(w) = Range(s) \ {s[j]}
  BY <1>10, <1>11
<1> QED BY <1>6, <1>7, <1>9, <1>12 DEF w

\* The stores that take a node out of a list, unless it is the head.
LEMMA RemoveSpells ==
  ASSUME NEW S, NULL \notin S,
         NEW next \in [S -> S \cup {NULL}], NEW prev \in [S -> S \cup {NULL}],
         NEW s \in Seq(S), IsInjective(s), NEW h,
         Spelled(h, next, s), BackLinked(prev, s),
         NEW j \in 2 .. Len(s)
  PROVE  LET t == s[j]
             before == prev[t]
             after == next[t]
             n2 == Store(Store(next, before, after), t, NULL)
             p2 == Store(Store(prev, after, before), t, NULL)
         IN  /\ before \in Range(s)
             /\ after = (IF j = Len(s) THEN NULL ELSE s[j + 1])
             /\ after \in Range(s) \cup {NULL}
             /\ n2 \in [S -> S \cup {NULL}] /\ p2 \in [S -> S \cup {NULL}]
             /\ \A n \in S \ Range(s) : n2[n] = next[n] /\ p2[n] = prev[n]
             /\ Spelled(h, n2, Without(s, j)) /\ BackLinked(p2, Without(s, j))
<1> DEFINE t == s[j]
           before == prev[t]
           after == next[t]
           n1 == Store(next, before, after)
           n2 == Store(n1, t, NULL)
           p1 == Store(prev, after, before)
           p2 == Store(p1, t, NULL)
           w == Without(s, j)
<1>0. /\ Len(s) \in Nat /\ Len(s) >= 2 /\ j \in Nat /\ j \in 1 .. Len(s)
      /\ j - 1 \in 1 .. Len(s) /\ j # 1 /\ (j # Len(s) => j + 1 \in 1 .. Len(s))
  BY LenProperties
<1>1. /\ DOMAIN s = 1 .. Len(s)
      /\ \A i \in 1 .. Len(s) : s[i] \in S
      /\ \A i, k \in 1 .. Len(s) : s[i] = s[k] => i = k
      /\ \A i \in 1 .. Len(s) : next[s[i]] = IF i = Len(s) THEN NULL ELSE s[i + 1]
      /\ \A i \in 1 .. Len(s) : prev[s[i]] = IF i = 1 THEN NULL ELSE s[i - 1]
  BY LenProperties, ElementOfSeq DEF IsInjective, Spelled, BackLinked
<1>2. /\ before = s[j - 1] /\ before \in S /\ t \in S
      /\ after = IF j = Len(s) THEN NULL ELSE s[j + 1]
      /\ after \in S \cup {NULL}
  BY <1>0, <1>1
<1>3. before \in Range(s) /\ after \in Range(s) \cup {NULL} /\ t \in Range(s)
  <2>1. \A i \in 1 .. Len(s) : s[i] \in Range(s)
    BY <1>1 DEF Range
  <2> QED BY <2>1, <1>0, <1>2
<1>13. \A i \in 1 .. Len(s) :
         /\ (i # j => s[i] # t) /\ (i # j - 1 => s[i] # before)
         /\ (i # j + 1 => s[i] # after)
  <2> TAKE i \in 1 .. Len(s)
  <2>0. i # j => s[i] # t
    BY <1>0, <1>1
  <2>1. i # j - 1 => s[i] # before
    <3>1. j - 1 \in 1 .. Len(s) /\ before = s[j - 1]
      BY <1>0, <1>2
    <3>2. \A k \in 1 .. Len(s) : s[i] = s[k] => i = k
      BY <1>1
    <3> HIDE DEF before
    <3> QED BY <3>1, <3>2
  <2>2. s[i] # NULL
    <3>1. s[i] \in S
      BY ElementOfSeq
    <3> QED BY <3>1
  <2>3. j # Len(s) /\ i # j + 1 => s[i] # s[j + 1]
    BY <1>0, <1>1
  <2> QED BY <2>0, <2>1, <2>2, <2>3, <1>2
<1>14. t \in S \cup {NULL} /\ before \in S \cup {NULL} /\ after \in S \cup {NULL}
  BY <1>2
<1> HIDE DEF before, after, t
<1>4. /\ n1 \in [S -> S \cup {NULL}]
      /\ \A n \in S : n1[n] = IF n = before THEN after ELSE next[n]
  BY <1>2, StoreAt
<1>5. /\ n2 \in [S -> S \cup {NULL}]
      /\ \A n \in S : n2[n] = IF n = t THEN NULL ELSE n1[n]
  BY <1>4, <1>14, StoreAt
<1>6. /\ p1 \in [S -> S \cup {NULL}]
      /\ \A n \in S : p1[n] = IF n = after THEN before ELSE prev[n]
  BY <1>14, StoreAt
<1>7. /\ p2 \in [S -> S \cup {NULL}]
      /\ \A n \in S : p2[n] = IF n = t THEN NULL ELSE p1[n]
  BY <1>6, <1>14, StoreAt
<1> HIDE DEF n1, n2, p1, p2
<1>8. /\ DOMAIN w = 1 .. Len(s) - 1 /\ Len(w) = Len(s) - 1 /\ w # <<>>
      /\ \A i \in 1 .. Len(s) - 1 : w[i] = IF i < j THEN s[i] ELSE s[i + 1]
  <2>1. Len(w) = Len(s) - 1 /\ w \in Seq(S)
    BY <1>0, WithoutRemoves
  <2>2. Len(w) # 0
    BY <2>1, <1>0
  <2> QED BY <2>1, <2>2, EmptySeq DEF Without
<1> HIDE DEF w
<1>9. h = w[1]
  <2>1. s # <<>> /\ 1 \in 1 .. Len(s) - 1 /\ 1 < j
    BY <1>0, EmptySeq
  <2> QED BY <2>1, <1>8 DEF Spelled
<1>10. ASSUME NEW i \in 1 .. Len(s) - 1
       PROVE  /\ n2[w[i]] = IF i = Len(s) - 1 THEN NULL ELSE w[i + 1]
              /\ p2[w[i]] = IF i = 1 THEN NULL ELSE w[i - 1]
  <2>0. /\ i \in 1 .. Len(s) /\ i + 1 \in 1 .. Len(s) /\ i # Len(s) /\ i + 1 # 1 /\ (i + 1) - 1 = i
        /\ (i # Len(s) - 1 => i + 1 \in 1 .. Len(s) - 1 /\ i + 1 # Len(s))
        /\ (i = Len(s) - 1 => i + 1 = Len(s))
        /\ (i # 1 => i - 1 \in 1 .. Len(s) - 1 /\ i - 1 \in 1 .. Len(s) /\ (i - 1) + 1 = i)
    BY <1>0
  <2>1. CASE i < j - 1
    <3>1. /\ i < j /\ i + 1 < j /\ i # Len(s) - 1 /\ i # j /\ i # j - 1 /\ i # j + 1
          /\ (i # 1 => i - 1 < j)
      BY <2>1, <1>0
    <3>2. w[i] = s[i] /\ w[i + 1] = s[i + 1] /\ (i # 1 => w[i - 1] = s[i - 1])
      BY <2>0, <3>1, <1>8
    <3>3. s[i] \in S /\ s[i] # t /\ s[i] # before /\ s[i] # after
      BY <2>0, <3>1, <1>1, <1>13
    <3>4. n2[s[i]] = next[s[i]] /\ p2[s[i]] = prev[s[i]]
      BY <3>3, <1>4, <1>5, <1>6, <1>7
    <3> QED BY <2>0, <3>1, <3>2, <3>4, <1>1
  <2>2. CASE i = j - 1
    <3>1. /\ i < j /\ ~(i + 1 < j) /\ (i + 1) + 1 = j + 1 /\ (i = Len(s) - 1 <=> j = Len(s))
          /\ i # j /\ i # j + 1 /\ (i # 1 => i - 1 < j)
      BY <2>2, <1>0
    <3>2. /\ w[i] = s[i] /\ w[i] = before
          /\ (i # Len(s) - 1 => w[i + 1] = s[j + 1])
          /\ (i # 1 => w[i - 1] = s[i - 1])
      BY <2>0, <2>2, <3>1, <1>2, <1>8
    <3>3. s[i] \in S /\ s[i] # t /\ s[i] # after
      BY <2>0, <3>1, <1>1, <1>13
    <3>4. n2[s[i]] = after /\ p2[s[i]] = prev[s[i]]
      BY <3>2, <3>3, <1>4, <1>5, <1>6, <1>7
    <3> QED BY <2>0, <3>1, <3>2, <3>4, <1>1, <1>2
  <2>3. CASE i = j
    <3>1. /\ ~(i < j) /\ ~(i + 1 < j) /\ i # 1 /\ i - 1 < j /\ i + 1 # j /\ i + 1 # j - 1
      BY <2>3, <1>0
    <3>2. w[i] = s[i + 1] /\ (i # Len(s) - 1 => w[i + 1] = s[(i + 1) + 1]) /\ w[i - 1] = s[i - 1]
      BY <2>0, <3>1, <1>8
    <3>3. s[i + 1] \in S /\ s[i + 1] # t /\ s[i + 1] # before /\ s[i + 1] = after
      BY <2>0, <2>3, <3>1, <1>1, <1>2, <1>13
    <3>4. n2[s[i + 1]] = next[s[i + 1]] /\ p2[s[i + 1]] = before
      BY <3>3, <1>4, <1>5, <1>6, <1>7
    <3> QED BY <2>0, <2>3, <3>1, <3>2, <3>4, <1>1, <1>2
  <2>4. CASE i > j
    <3>1. /\ ~(i < j) /\ ~(i + 1 < j) /\ i # 1 /\ ~(i - 1 < j)
          /\ i + 1 # j /\ i + 1 # j - 1 /\ i + 1 # j + 1
      BY <2>4, <1>0
    <3>2. w[i] = s[i + 1] /\ (i # Len(s) - 1 => w[i + 1] = s[(i + 1) + 1]) /\ w[i - 1] = s[i]
      BY <2>0, <3>1, <1>8
    <3>3. s[i + 1] \in S /\ s[i + 1] # t /\ s[i + 1] # before /\ s[i + 1] # after
      BY <2>0, <3>1, <1>1, <1>13
    <3>4. n2[s[i + 1]] = next[s[i + 1]] /\ p2[s[i + 1]] = prev[s[i + 1]]
      BY <3>3, <1>4, <1>5, <1>6, <1>7
    <3>5. next[s[i + 1]] = IF i + 1 = Len(s) THEN NULL ELSE s[(i + 1) + 1]
      BY <2>0, <1>1
    <3>6. prev[s[i + 1]] = s[i]
      BY <2>0, <1>1
    <3> QED BY <2>0, <3>1, <3>2, <3>4, <3>5, <3>6
  <2>5. i < j - 1 \/ i = j - 1 \/ i = j \/ i > j
    BY <1>0
  <2> QED BY <2>1, <2>2, <2>3, <2>4, <2>5
<1>11. Spelled(h, n2, w) /\ BackLinked(p2, w)
  BY <1>8, <1>9, <1>10 DEF Spelled, BackLinked
<1>12. \A n \in S \ Range(s) : n2[n] = next[n] /\ p2[n] = prev[n]
  BY <1>2, <1>3, <1>4, <1>5, <1>6, <1>7
<1> QED BY <1>2, <1>3, <1>5, <1>7, <1>11, <1>12 DEF t, before, after, n1, n2, p1, p2, w

LEMMA RemoveChanges ==
  ASSUME NEW S, NULL \notin S,
         NEW next \in [S -> S \cup {NULL}], NEW prev \in [S -> S \cup {NULL}],
         NEW s \in Seq(S), IsInjective(s), NEW h,
         Spelled(h, next, s), BackLinked(prev, s),
         NEW j \in 2 .. Len(s), NEW t, t = s[j],
         NEW before, before = prev[t], NEW after, after = next[t]
  PROVE  /\ before \in Range(s)
         /\ after \in Range(s) \cup {NULL}
         /\ Store(Store(next, before, after), t, NULL) \in [S -> S \cup {NULL}]
         /\ Store(Store(prev, after, before), t, NULL) \in [S -> S \cup {NULL}]
         /\ \A n \in S \ Range(s) :
              /\ Store(Store(next, before, after), t, NULL)[n] = next[n]
              /\ Store(Store(prev, after, before), t, NULL)[n] = prev[n]
         /\ Spelled(h, Store(Store(next, before, after), t, NULL), Without(s, j))
         /\ BackLinked(Store(Store(prev, after, before), t, NULL), Without(s, j))
BY RemoveSpells

-----------------------------------------------------------------------------
(* The ready lists.                                                        *)

\* Nodes are numbers from 0 on, and finitely many.
LEMMA Nodes ==
  /\ NULL \notin Pages /\ IsFiniteSet(Pages) /\ Cardinality(Pages) = NPages
  /\ NULL \notin KBlks /\ IsFiniteSet(KBlks) /\ Cardinality(KBlks) = NKBlks
<1>1. 0 \in Int /\ NPages - 1 \in Int /\ NKBlks - 1 \in Int
      /\ ~(0 > NPages - 1) /\ (NPages - 1) - 0 + 1 = NPages
      /\ ~(0 > NKBlks - 1) /\ (NKBlks - 1) - 0 + 1 = NKBlks
  BY KernelAssumption
<1>2. NULL \notin Pages /\ NULL \notin KBlks
  BY DEF NULL, Pages, KBlks
<1> QED BY <1>1, <1>2, FS_Interval DEF Pages, KBlks

PageLinks == [Pages -> Pages \cup {NULL}]

LEMMA PageStore ==
  ASSUME NEW f \in PageLinks, NEW ptr \in Pages \cup {NULL}, NEW v \in Pages \cup {NULL}
  PROVE  /\ Store(f, ptr, v) \in PageLinks
         /\ \A n \in Pages : Store(f, ptr, v)[n] = IF n = ptr THEN v ELSE f[n]
BY Nodes, StoreAt DEF PageLinks

\* The links spell the ready lists r.
TaskLinks(head, next, prev, r) ==
  /\ head \in [Prios -> Pages \cup {NULL}]
  /\ next \in PageLinks /\ prev \in PageLinks
  /\ \A p \in Prios : Spelled(head[p], next, r[p]) /\ BackLinked(prev, r[p])

TaskLists(l, r) ==
  /\ l = [head |-> l.head, next |-> l.next, prev |-> l.prev]
  /\ TaskLinks(l.head, l.next, l.prev, r)

\* What an operation on the list of p must show.
LEMMA OneListChanges ==
  ASSUME NEW r, NEW prio, Lists(r, prio),
         NEW head, NEW next, NEW prev, TaskLinks(head, next, prev, r),
         NEW next2 \in PageLinks, NEW prev2 \in PageLinks,
         NEW r2, NEW p \in Prios, NEW head2 \in [Prios -> Pages \cup {NULL}],
         \A q \in Prios : q # p => r2[q] = r[q] /\ head2[q] = head[q],
         Spelled(head2[p], next2, r2[p]), BackLinked(prev2, r2[p]),
         \A n \in Pages : (\E q \in Prios : q # p /\ n \in Range(r[q]))
                            => next2[n] = next[n] /\ prev2[n] = prev[n]
  PROVE  TaskLinks(head2, next2, prev2, r2)
<1>1. \A q \in Prios : Spelled(head[q], next, r[q]) /\ BackLinked(prev, r[q])
  BY DEF TaskLinks
<1>2. ASSUME NEW q \in Prios, q # p
      PROVE  Spelled(head2[q], next2, r2[q]) /\ BackLinked(prev2, r2[q])
  <2>1. r[q] \in Seq(Pages) /\ Range(r[q]) \subseteq Pages
    <3>1. r[q] \in Seq(Pages)
      BY DEF Lists
    <3>2. DOMAIN r[q] = 1 .. Len(r[q]) /\ \A i \in 1 .. Len(r[q]) : r[q][i] \in Pages
      BY <3>1, LenProperties, ElementOfSeq
    <3> QED BY <3>1, <3>2 DEF Range
  <2>2. \A n \in Range(r[q]) : next2[n] = next[n] /\ prev2[n] = prev[n]
    BY <1>2, <2>1
  <2>3. Spelled(head[q], next2, r[q]) /\ BackLinked(prev2, r[q])
    BY <1>1, <2>2, SpelledElsewhere, BackLinkedElsewhere
  <2> QED BY <1>2, <2>3
<1> QED BY <1>2 DEF TaskLinks

\* task_enqueue.
LEMMA LinkTaskSpells ==
  ASSUME NEW l, NEW r, NEW prio, Lists(r, prio), TaskLists(l, r),
         NEW t \in Pages, t \notin QueuedIn(r), NEW p \in Prios
  PROVE  TaskLists(LinkTask(l, t, p), TaskEnqueue(r, t, p))
<1> DEFINE s == r[p]
           r2 == TaskEnqueue(r, t, p)
           head == l.head
           next == l.next
           prev == l.prev
           end == s[Len(s)]
           h1 == [head EXCEPT ![p] = t]
           n1 == Store(next, t, NULL)
           p1 == Store(prev, t, NULL)
           n2 == Store(next, end, t)
           n3 == Store(n2, t, NULL)
           p2 == Store(prev, t, end)
<1>1. /\ r \in [Prios -> Seq(Pages)] /\ s \in Seq(Pages) /\ IsInjective(s)
      /\ t \notin Range(s) /\ \A q \in Prios : t \notin Range(r[q])
      /\ \A q \in Prios : q # p => Range(r[q]) \cap Range(s) = {}
  BY DEF Lists, QueuedIn
<1>2. /\ TaskLinks(head, next, prev, r)
      /\ head \in [Prios -> Pages \cup {NULL}]
      /\ next \in PageLinks /\ prev \in PageLinks
      /\ Spelled(head[p], next, s) /\ BackLinked(prev, s)
  BY DEF TaskLists, TaskLinks
<1>3. r2[p] = Append(s, t) /\ \A q \in Prios : q # p => r2[q] = r[q]
  BY <1>1 DEF TaskEnqueue
<1>4. LinkTask(l, t, p) =
        IF head[p] = NULL
        THEN [head |-> h1, next |-> n1, prev |-> p1]
        ELSE LET e == EndOf(next, head[p])
             IN  [head |-> head, next |-> Store(Store(next, e, t), t, NULL),
                  prev |-> Store(prev, t, e)]
  BY DEF LinkTask
<1> HIDE DEF s, r2, head, next, prev
<1>5. CASE s = <<>>
  <2>1. head[p] = NULL
    BY <1>2, <1>5 DEF Spelled
  <2>2. n1 \in PageLinks /\ \A n \in Pages : n1[n] = IF n = t THEN NULL ELSE next[n]
    BY <1>2, PageStore
  <2>3. p1 \in PageLinks /\ \A n \in Pages : p1[n] = IF n = t THEN NULL ELSE prev[n]
    BY <1>2, PageStore
  <2>4. Spelled(t, n1, Append(s, t)) /\ BackLinked(p1, Append(s, t))
    BY <1>1, <1>2, <1>5, Nodes, FirstSpells DEF PageLinks
  <2>5. /\ h1 \in [Prios -> Pages \cup {NULL}] /\ h1[p] = t
        /\ \A q \in Prios : q # p => h1[q] = head[q]
    BY <1>2
  <2> HIDE DEF h1, n1, p1
  <2>6. Spelled(h1[p], n1, r2[p]) /\ BackLinked(p1, r2[p])
    BY <2>4, <2>5, <1>3
  <2>7. \A n \in Pages : (\E q \in Prios : q # p /\ n \in Range(r[q]))
                            => n1[n] = next[n] /\ p1[n] = prev[n]
    BY <1>1, <2>2, <2>3
  <2>8. \A q \in Prios : q # p => r2[q] = r[q] /\ h1[q] = head[q]
    BY <1>3, <2>5
  <2>9. TaskLinks(h1, n1, p1, r2)
    BY <1>2, <2>2, <2>3, <2>5, <2>6, <2>7, <2>8, OneListChanges
  <2>10. LinkTask(l, t, p) = [head |-> h1, next |-> n1, prev |-> p1]
    BY <1>4, <2>1
  <2> QED BY <2>9, <2>10 DEF r2, TaskLists
<1>6. CASE s # <<>>
  <2>1. /\ head[p] = s[1] /\ head[p] \in Pages /\ head[p] # NULL
        /\ end \in Pages /\ end \in Range(s)
    <3>1. /\ 1 \in 1 .. Len(s) /\ Len(s) \in 1 .. Len(s) /\ DOMAIN s = 1 .. Len(s)
      BY <1>1, <1>6, LenProperties, EmptySeq
    <3>2. s[1] \in Pages /\ s[Len(s)] \in Pages /\ s[Len(s)] \in Range(s)
      BY <1>1, <3>1, ElementOfSeq DEF Range
    <3> QED BY <1>2, <1>6, <3>2, Nodes DEF Spelled
  <2>2. EndOf(next, head[p]) = end
    BY <1>1, <1>2, <1>6, Nodes, EndIsLast DEF PageLinks
  <2>3. n3 \in PageLinks /\ Spelled(head[p], n3, r2[p])
    <3>1. n3 \in PageLinks /\ Spelled(head[p], n3, Append(s, t))
      BY <1>1, <1>2, <1>6, Nodes, AppendSpells DEF PageLinks
    <3> QED BY <3>1, <1>3
  <2>4. p2 \in PageLinks /\ BackLinked(p2, r2[p])
    <3>1. p2 \in PageLinks /\ BackLinked(p2, Append(s, t))
      BY <1>1, <1>2, <1>6, Nodes, AppendBackLinks DEF PageLinks
    <3> QED BY <3>1, <1>3
  <2> HIDE DEF end
  <2>5. n2 \in PageLinks /\ \A n \in Pages : n2[n] = IF n = end THEN t ELSE next[n]
    BY <1>2, <2>1, PageStore
  <2>6. \A n \in Pages : p2[n] = IF n = t THEN end ELSE prev[n]
    BY <1>2, <2>1, PageStore
  <2> HIDE DEF n2, p2
  <2>7. \A n \in Pages : n3[n] = IF n = t THEN NULL ELSE n2[n]
    BY <2>5, PageStore
  <2> HIDE DEF n3
  <2>8. \A n \in Pages : (\E q \in Prios : q # p /\ n \in Range(r[q]))
                            => n3[n] = next[n] /\ p2[n] = prev[n]
    BY <1>1, <2>1, <2>5, <2>6, <2>7
  <2>9. TaskLinks(head, n3, p2, r2)
    <3>1. \A q \in Prios : q # p => r2[q] = r[q] /\ head[q] = head[q]
      BY <1>3
    <3> QED BY <3>1, <1>2, <2>3, <2>4, <2>8, OneListChanges
  <2>10. LinkTask(l, t, p) = [head |-> head, next |-> n3, prev |-> p2]
    BY <1>4, <2>1, <2>2 DEF n2, n3, p2
  <2> QED BY <2>9, <2>10 DEF r2, TaskLists
<1> QED BY <1>5, <1>6

\* task_dequeue.
LEMMA UnlinkHeadSpells ==
  ASSUME NEW l, NEW r, NEW prio, Lists(r, prio), TaskLists(l, r),
         NEW p \in Prios, r[p] # <<>>
  PROVE  /\ l.head[p] = Head(r[p])
         /\ TaskLists(UnlinkHead(l, p), [r EXCEPT ![p] = Tail(@)])
<1> DEFINE s == r[p]
           r2 == [r EXCEPT ![p] = Tail(s)]
           head == l.head
           next == l.next
           prev == l.prev
           h == head[p]
           n == next[h]
           h1 == [head EXCEPT ![p] = n]
           n1 == Store(next, h, NULL)
           p1 == Store(prev, n, NULL)
<1>1. /\ r \in [Prios -> Seq(Pages)] /\ s \in Seq(Pages) /\ IsInjective(s) /\ s # <<>>
      /\ \A q \in Prios : q # p => Range(r[q]) \cap Range(s) = {}
  BY DEF Lists
<1>2. /\ TaskLinks(head, next, prev, r)
      /\ head \in [Prios -> Pages \cup {NULL}]
      /\ next \in PageLinks /\ prev \in PageLinks
      /\ Spelled(h, next, s) /\ BackLinked(prev, s)
  BY DEF TaskLists, TaskLinks
<1>3. r2[p] = Tail(s) /\ \A q \in Prios : q # p => r2[q] = r[q]
  BY <1>1
<1>4. UnlinkHead(l, p) = [head |-> h1, next |-> n1, prev |-> p1]
  BY DEF UnlinkHead
<1>5. Head(s) = s[1] /\ Head(s) \in Range(s) /\ Range(Tail(s)) \subseteq Range(s)
      /\ Tail(s) \in Seq(Pages)
  BY <1>1, TailRemovesHead
<1> HIDE DEF s, r2, head, next, prev
<1>6. /\ h = s[1] /\ h \in Pages /\ n \in Pages \cup {NULL}
      /\ n1 \in PageLinks /\ Spelled(n, n1, Tail(s))
  BY <1>1, <1>2, Nodes, TailSpells DEF PageLinks
<1> HIDE DEF h
<1>7. n = IF Tail(s) = <<>> THEN NULL ELSE Tail(s)[1]
  BY <1>6 DEF Spelled
<1> HIDE DEF n
<1>8. p1 \in PageLinks /\ BackLinked(p1, Tail(s))
  BY <1>1, <1>2, <1>7, Nodes, TailBackLinks DEF PageLinks
<1>9. n \in Range(s) \cup {NULL}
  <2>1. CASE Tail(s) = <<>>
    BY <2>1, <1>7
  <2>2. CASE Tail(s) # <<>>
    <3>1. 1 \in DOMAIN Tail(s)
      BY <2>2, <1>5, LenProperties, EmptySeq
    <3>2. Tail(s)[1] \in Range(Tail(s))
      BY <3>1 DEF Range
    <3> QED BY <2>2, <3>2, <1>5, <1>7
  <2> QED BY <2>1, <2>2
<1>10. \A m \in Pages : n1[m] = IF m = h THEN NULL ELSE next[m]
  <2>1. h \in Pages \cup {NULL} /\ NULL \in Pages \cup {NULL} /\ next \in PageLinks
    BY <1>2, <1>6
  <2> QED BY <2>1, PageStore
<1>11. \A m \in Pages : p1[m] = IF m = n THEN NULL ELSE prev[m]
  <2>1. n \in Pages \cup {NULL} /\ prev \in PageLinks
    BY <1>2, <1>6
  <2> QED BY <2>1, Nodes DEF Store, PageLinks
<1>12. /\ h1 \in [Prios -> Pages \cup {NULL}] /\ h1[p] = n
       /\ \A q \in Prios : q # p => h1[q] = head[q]
  BY <1>2, <1>6
<1> HIDE DEF h1, n1, p1
<1>13. Spelled(h1[p], n1, r2[p]) /\ BackLinked(p1, r2[p])
  BY <1>3, <1>6, <1>8, <1>12
<1>14. h \in Range(s)
  BY <1>5, <1>6
<1>15. \A m \in Pages : (\E q \in Prios : q # p /\ m \in Range(r[q]))
                          => n1[m] = next[m] /\ p1[m] = prev[m]
  <2> SUFFICES ASSUME NEW m \in Pages, NEW q \in Prios, q # p, m \in Range(r[q])
               PROVE  n1[m] = next[m] /\ p1[m] = prev[m]
    OBVIOUS
  <2>1. m \notin Range(s) /\ m # NULL
    BY <1>1, Nodes
  <2>2. m # h /\ m # n
    BY <2>1, <1>9, <1>14
  <2> QED BY <2>2, <1>10, <1>11
<1>16. \A q \in Prios : q # p => r2[q] = r[q] /\ h1[q] = head[q]
  BY <1>3, <1>12
<1>17. TaskLinks(h1, n1, p1, r2)
  BY <1>2, <1>6, <1>8, <1>12, <1>13, <1>15, <1>16, OneListChanges
<1>18. TaskLists(UnlinkHead(l, p), r2)
  BY <1>4, <1>17 DEF TaskLists
<1>19. l.head[p] = Head(r[p])
  BY <1>5, <1>6 DEF h, head, s
<1> QED BY <1>18, <1>19 DEF r2, s

\* task_pop of the last task on its list.
LEMMA UnlinkLastSpells ==
  ASSUME NEW l, NEW r, NEW prio, Lists(r, prio), TaskLists(l, r),
         NEW p \in Prios, r[p] # <<>>, NEW t, t = Last(r[p])
  PROVE  TaskLists(UnlinkLast(l, t, p), TaskPop(r, t, p))
<1> DEFINE s == r[p]
           r2 == TaskPop(r, t, p)
           head == l.head
           next == l.next
           prev == l.prev
<1>1. /\ r \in [Prios -> Seq(Pages)] /\ s \in Seq(Pages) /\ IsInjective(s) /\ s # <<>>
      /\ \A q \in Prios : q # p => Range(r[q]) \cap Range(s) = {}
  BY DEF Lists
<1>2. /\ TaskLinks(head, next, prev, r)
      /\ head \in [Prios -> Pages \cup {NULL}]
      /\ next \in PageLinks /\ prev \in PageLinks
      /\ Spelled(head[p], next, s) /\ BackLinked(prev, s)
  BY DEF TaskLists, TaskLinks
<1>3. r2[p] = Front(s) /\ \A q \in Prios : q # p => r2[q] = r[q]
  BY <1>1 DEF TaskPop
<1>4. l = [head |-> head, next |-> next, prev |-> prev]
  BY DEF TaskLists
<1>5. UnlinkLast(l, t, p) =
        IF next[t] # NULL \/ head[p] = NULL THEN l
        ELSE IF next[head[p]] = NULL THEN [l EXCEPT !.head[p] = NULL]
        ELSE [head |-> head,
              next |-> Store(Store(next, prev[t], NULL), t, NULL),
              prev |-> Store(prev, t, NULL)]
  BY DEF UnlinkLast
<1> HIDE DEF s, r2, head, next, prev
<1>6. Len(s) \in Nat \ {0} /\ DOMAIN s = 1 .. Len(s)
  BY <1>1, LenProperties, EmptySeq
<1>7. /\ t = s[Len(s)] /\ t \in Pages /\ t # NULL /\ t \in Range(s)
      /\ head[p] = s[1] /\ head[p] \in Pages /\ head[p] # NULL
      /\ next[t] = NULL /\ next[s[1]] = IF 1 = Len(s) THEN NULL ELSE s[2]
  <2>1. 1 \in 1 .. Len(s) /\ Len(s) \in 1 .. Len(s)
    BY <1>6
  <2>2. t = s[Len(s)]
    BY DEF Last, s
  <2>3. s[1] \in Pages /\ s[Len(s)] \in Pages
    BY <2>1, <1>1, ElementOfSeq
  <2>4. t \in Range(s)
    BY <2>1, <2>2, <1>6 DEF Range
  <2>5. head[p] = s[1]
    BY <1>1, <1>2 DEF Spelled
  <2>6. next[s[Len(s)]] = NULL /\ next[s[1]] = IF 1 = Len(s) THEN NULL ELSE s[1 + 1]
    BY <2>1, <1>2, <1>6 DEF Spelled
  <2>7. next[s[1]] = IF 1 = Len(s) THEN NULL ELSE s[2]
    BY <2>6
  <2> QED BY <2>2, <2>3, <2>4, <2>5, <2>6, <2>7, Nodes
<1>8. /\ Front(s) \in Seq(Pages) /\ Len(Front(s)) = Len(s) - 1
      /\ \A i \in 1 .. Len(s) - 1 : Front(s)[i] = s[i]
  <2>1. \A i \in 1 .. Len(s) - 1 : s[i] \in Pages
    BY <1>1, <1>6, ElementOfSeq
  <2>2. 1 \in Int /\ Len(s) - 1 \in Int
    BY <1>6
  <2>3. /\ SubSeq(s, 1, Len(s) - 1) \in Seq(Pages)
        /\ Len(SubSeq(s, 1, Len(s) - 1))
             = IF 1 <= Len(s) - 1 THEN Len(s) - 1 - 1 + 1 ELSE 0
        /\ \A i \in 1 .. Len(s) - 1 - 1 + 1 :
             SubSeq(s, 1, Len(s) - 1)[i] = s[1 + i - 1]
    BY <2>1, <2>2, SubSeqProperties
  <2> QED BY <2>3, <1>6 DEF Front
<1>9. CASE Len(s) = 1
  <2> DEFINE h1 == [head EXCEPT ![p] = NULL]
  <2>1. /\ h1 \in [Prios -> Pages \cup {NULL}] /\ h1[p] = NULL
        /\ \A q \in Prios : q # p => h1[q] = head[q]
    BY <1>2
  <2>2. UnlinkLast(l, t, p) = [head |-> h1, next |-> next, prev |-> prev]
    BY <1>4, <1>5, <1>7, <1>9
  <2> HIDE DEF h1
  <2>3. Front(s) = <<>>
    BY <1>8, <1>9, EmptySeq
  <2>4. Spelled(h1[p], next, r2[p]) /\ BackLinked(prev, r2[p])
    BY <2>1, <2>3, <1>3 DEF Spelled, BackLinked
  <2>5. \A q \in Prios : q # p => r2[q] = r[q] /\ h1[q] = head[q]
    BY <2>1, <1>3
  <2>6. \A m \in Pages : (\E q \in Prios : q # p /\ m \in Range(r[q]))
                           => next[m] = next[m] /\ prev[m] = prev[m]
    OBVIOUS
  <2>7. TaskLinks(h1, next, prev, r2)
    BY <2>1, <2>4, <2>5, <2>6, <1>2, OneListChanges
  <2> QED BY <2>2, <2>7 DEF TaskLists, r2
<1>10. CASE Len(s) # 1
  <2> DEFINE w == Without(s, Len(s))
             n1 == Store(Store(next, prev[t], NULL), t, NULL)
             p1 == Store(prev, t, NULL)
  <2>1. Len(s) \in 2 .. Len(s)
    BY <1>6, <1>10
  <2>2. /\ n1 \in PageLinks /\ p1 \in PageLinks
        /\ \A n \in Pages \ Range(s) : n1[n] = next[n] /\ p1[n] = prev[n]
        /\ Spelled(head[p], n1, w) /\ BackLinked(p1, w)
    <3>1. Store(prev, NULL, prev[t]) = prev
      BY DEF Store
    <3> DEFINE after == next[t]
               before == prev[t]
               n2 == Store(Store(next, before, after), t, NULL)
               p2 == Store(Store(prev, after, before), t, NULL)
    <3>2. /\ next \in [Pages -> Pages \cup {NULL}] /\ prev \in [Pages -> Pages \cup {NULL}]
      BY <1>2 DEF PageLinks
    <3>3. NULL = after /\ t = s[Len(s)]
      BY <1>7
    <3>4. n1 = n2 /\ p1 = p2
      BY <3>1, <3>3
    <3>5. after = next[t] /\ before = prev[t]
      OBVIOUS
    <3> HIDE DEF w, after, before
    <3>6. /\ n2 \in [Pages -> Pages \cup {NULL}] /\ p2 \in [Pages -> Pages \cup {NULL}]
          /\ \A n \in Pages \ Range(s) : n2[n] = next[n] /\ p2[n] = prev[n]
          /\ Spelled(head[p], n2, w) /\ BackLinked(p2, w)
      <4>1. Spelled(head[p], next, s) /\ BackLinked(prev, s)
        BY <1>2
      <4>2. s \in Seq(Pages) /\ IsInjective(s) /\ NULL \notin Pages
        BY <1>1, Nodes
      <4> QED BY <2>1, <3>2, <3>3, <3>5, <4>1, <4>2, RemoveChanges DEF w
    <3> HIDE DEF n1, p1, n2, p2
    <3> QED BY <3>4, <3>6 DEF PageLinks
  <2>3. w = Front(s)
    <3>1. w \in Seq(Pages) /\ Len(w) = Len(s) - 1
      <4>1. Len(s) \in 1 .. Len(s)
        BY <1>6
      <4> QED BY <4>1, <1>1, WithoutRemoves
    <3>2. \A i \in 1 .. Len(s) - 1 : w[i] = s[i]
      BY <1>6 DEF Without
    <3> HIDE DEF w
    <3> QED BY <3>1, <3>2, <1>8, SeqEqual
  <2> HIDE DEF w, n1, p1
  <2>4. s[2] # NULL /\ next[head[p]] # NULL
    <3>1. s[2] \in Pages
      BY <2>1, <1>1, <1>6, ElementOfSeq
    <3> QED BY <3>1, <1>7, <1>10, Nodes
  <2>5. UnlinkLast(l, t, p) = [head |-> head, next |-> n1, prev |-> p1]
    BY <2>4, <1>5, <1>7 DEF n1, p1
  <2>6. Spelled(head[p], n1, r2[p]) /\ BackLinked(p1, r2[p])
    BY <2>2, <2>3, <1>3
  <2>7. \A q \in Prios : q # p => r2[q] = r[q] /\ head[q] = head[q]
    BY <1>3
  <2>8. \A m \in Pages : (\E q \in Prios : q # p /\ m \in Range(r[q]))
                           => n1[m] = next[m] /\ p1[m] = prev[m]
    BY <2>2, <1>1
  <2>9. TaskLinks(head, n1, p1, r2)
    BY <2>2, <2>6, <2>7, <2>8, <1>2, OneListChanges
  <2> QED BY <2>5, <2>9 DEF TaskLists, r2
<1> QED BY <1>9, <1>10

-----------------------------------------------------------------------------
(* The page lists.                                                         *)

\* The links spell the free list f and the list in use u, which share no page.
PageLinked(fh, ih, next, prev, f, u) ==
  /\ fh \in Pages \cup {NULL} /\ ih \in Pages \cup {NULL}
  /\ next \in PageLinks /\ prev \in PageLinks
  /\ f \in Seq(Pages) /\ IsInjective(f)
  /\ u \in Seq(Pages) /\ IsInjective(u)
  /\ Range(f) \cap Range(u) = {}
  /\ Spelled(fh, next, f)
  /\ Spelled(ih, next, u) /\ BackLinked(prev, u)

PageLists(l, f, u) ==
  /\ l = [free |-> l.free, inuse |-> l.inuse, next |-> l.next, prev |-> l.prev]
  /\ PageLinked(l.free, l.inuse, l.next, l.prev, f, u)

\* insert_to_inuse_list, of a page that is on neither list.
LEMMA InsertSpells ==
  ASSUME NEW fh, NEW ih, NEW next, NEW prev, NEW f, NEW u,
         PageLinked(fh, ih, next, prev, f, u),
         NEW t \in Pages, t \notin Range(f), t \notin Range(u)
  PROVE  PageLists(InsertToInuseList([free |-> fh, inuse |-> ih, next |-> next,
                                      prev |-> prev], t), f, Append(u, t))
<1> DEFINE l == [free |-> fh, inuse |-> ih, next |-> next, prev |-> prev]
           a == Append(u, t)
           end == u[Len(u)]
           n1 == Store(next, t, NULL)
           p1 == Store(prev, t, NULL)
           n2 == Store(next, end, t)
           n3 == Store(n2, t, NULL)
           p2 == Store(prev, t, end)
<1>1. /\ fh \in Pages \cup {NULL} /\ ih \in Pages \cup {NULL}
      /\ next \in PageLinks /\ prev \in PageLinks
      /\ f \in Seq(Pages) /\ IsInjective(f) /\ u \in Seq(Pages) /\ IsInjective(u)
      /\ Range(f) \cap Range(u) = {}
      /\ Spelled(fh, next, f) /\ Spelled(ih, next, u) /\ BackLinked(prev, u)
  BY DEF PageLinked
<1>2. /\ InsertToInuseList(l, t) =
           IF ih = NULL
           THEN [l EXCEPT !.inuse = t, !.next = Store(@, t, NULL),
                          !.prev = Store(@, t, NULL)]
           ELSE LET end2 == EndOf(next, ih)
                IN  [l EXCEPT !.next = Store(Store(@, end2, t), t, NULL),
                              !.prev = Store(@, t, end2)]
  BY DEF InsertToInuseList
<1>3. a \in Seq(Pages) /\ IsInjective(a) /\ Range(a) = Range(u) \cup {t}
  BY <1>1, AppendAdds
<1>4. Range(f) \subseteq Pages /\ Range(f) \cap Range(a) = {}
  <2>1. \A i \in DOMAIN f : f[i] \in Pages
    BY <1>1, LenProperties, ElementOfSeq
  <2> QED BY <2>1, <1>1, <1>3 DEF Range
<1>5. /\ NULL \in Pages \cup {NULL} /\ t \in Pages \cup {NULL}
      /\ next \in PageLinks /\ prev \in PageLinks
  BY <1>1
<1>6. CASE u = <<>>
  <2>1. ih = NULL
    BY <1>1, <1>6 DEF Spelled
  <2>2. InsertToInuseList(l, t) = [free |-> fh, inuse |-> t, next |-> n1, prev |-> p1]
    BY <1>2, <2>1
  <2>3. n1 \in PageLinks /\ \A n \in Pages : n1[n] = IF n = t THEN NULL ELSE next[n]
    BY <1>5, PageStore
  <2>4. p1 \in PageLinks /\ Spelled(t, n1, a) /\ BackLinked(p1, a)
    <3>1. next \in [Pages -> Pages \cup {NULL}] /\ prev \in [Pages -> Pages \cup {NULL}]
      BY <1>1 DEF PageLinks
    <3>2. Spelled(t, n1, a)
      BY <3>1, <1>1, <1>6, Nodes, FirstSpells
    <3>3. p1 \in [Pages -> Pages \cup {NULL}] /\ BackLinked(p1, a)
      BY <3>1, <1>1, <1>6, Nodes, FirstSpells
    <3> QED BY <3>2, <3>3 DEF PageLinks
  <2> HIDE DEF n1, p1
  <2>5. \A n \in Range(f) : n1[n] = next[n]
    BY <2>3, <1>4
  <2>6. Spelled(fh, n1, f)
    BY <2>5, <1>1, SpelledElsewhere
  <2>7. PageLinked(fh, t, n1, p1, f, a)
    BY <2>3, <2>4, <2>6, <1>1, <1>3, <1>4, <1>5 DEF PageLinked
  <2> QED BY <2>2, <2>7 DEF PageLists
<1>7. CASE u # <<>>
  <2>1. ih # NULL /\ end \in Pages /\ end \in Range(u)
    <3>1. 1 \in 1 .. Len(u) /\ Len(u) \in 1 .. Len(u) /\ DOMAIN u = 1 .. Len(u)
      BY <1>1, <1>7, LenProperties, EmptySeq
    <3>2. u[1] \in Pages /\ end \in Pages /\ end \in Range(u)
      BY <1>1, <3>1, ElementOfSeq DEF Range
    <3> QED BY <1>1, <1>7, <3>2, Nodes DEF Spelled
  <2>2. next \in [Pages -> Pages \cup {NULL}] /\ prev \in [Pages -> Pages \cup {NULL}]
    BY <1>1 DEF PageLinks
  <2>3. EndOf(next, ih) = end
    BY <2>2, <1>1, <1>7, Nodes, EndIsLast
  <2>4. InsertToInuseList(l, t) = [free |-> fh, inuse |-> ih, next |-> n3, prev |-> p2]
    BY <1>2, <2>1, <2>3
  <2>5. n3 \in PageLinks /\ Spelled(ih, n3, a)
    BY <2>2, <1>1, <1>7, Nodes, AppendSpells DEF PageLinks
  <2>6. p2 \in PageLinks /\ BackLinked(p2, a)
    BY <2>2, <1>1, <1>7, Nodes, AppendBackLinks DEF PageLinks
  <2> HIDE DEF end
  <2>7. n2 \in PageLinks /\ \A n \in Pages : n2[n] = IF n = end THEN t ELSE next[n]
    <3>1. end \in Pages \cup {NULL}
      BY <2>1
    <3> QED BY <3>1, <1>5, PageStore
  <2> HIDE DEF n2
  <2>8. \A n \in Pages : n3[n] = IF n = t THEN NULL ELSE n2[n]
    BY <2>7, <1>5, PageStore
  <2> HIDE DEF n3, p2
  <2>9. \A n \in Range(f) : n3[n] = next[n]
    BY <2>1, <2>7, <2>8, <1>1, <1>4
  <2>10. Spelled(fh, n3, f)
    BY <2>9, <1>1, SpelledElsewhere
  <2>11. PageLinked(fh, ih, n3, p2, f, a)
    BY <2>5, <2>6, <2>10, <1>1, <1>3, <1>4 DEF PageLinked
  <2> QED BY <2>4, <2>11 DEF PageLists
<1> QED BY <1>6, <1>7

\* page_alloc.
LEMMA PageAllocSpells ==
  ASSUME NEW l, NEW f, NEW u, PageLists(l, f, u), f # <<>>
  PROVE  /\ l.free = Head(f)
         /\ PageLists(PageAlloc(l), Tail(f), Append(u, Head(f)))
<1> DEFINE fh == l.free
           ih == l.inuse
           next == l.next
           prev == l.prev
           n == next[fh]
           n1 == Store(next, fh, NULL)
           p1 == Store(prev, n, NULL)
<1>1. /\ PageLinked(fh, ih, next, prev, f, u)
      /\ fh \in Pages \cup {NULL} /\ ih \in Pages \cup {NULL}
      /\ next \in PageLinks /\ prev \in PageLinks
      /\ f \in Seq(Pages) /\ IsInjective(f) /\ u \in Seq(Pages) /\ IsInjective(u)
      /\ Range(f) \cap Range(u) = {}
      /\ Spelled(fh, next, f) /\ Spelled(ih, next, u) /\ BackLinked(prev, u)
  BY DEF PageLists, PageLinked
<1>2. PageAlloc(l) = InsertToInuseList([free |-> n, inuse |-> ih, next |-> n1,
                                        prev |-> p1], fh)
  BY DEF PageAlloc
<1> HIDE DEF fh, ih, next, prev
<1>4. /\ Head(f) = f[1] /\ Head(f) \in Range(f) /\ Tail(f) \in Seq(Pages)
      /\ IsInjective(Tail(f)) /\ Range(Tail(f)) = Range(f) \ {Head(f)}
  BY <1>1, TailRemovesHead
<1>5. next \in [Pages -> Pages \cup {NULL}]
  BY <1>1 DEF PageLinks
<1>6. /\ fh = f[1] /\ fh \in Pages /\ n \in Pages \cup {NULL}
      /\ n1 \in PageLinks /\ Spelled(n, n1, Tail(f))
  BY <1>1, <1>5, Nodes, TailSpells DEF PageLinks
<1> HIDE DEF n
<1>7. n \in Range(f) \cup {NULL}
  <2>1. n = IF Tail(f) = <<>> THEN NULL ELSE Tail(f)[1]
    BY <1>6 DEF Spelled
  <2>2. CASE Tail(f) = <<>>
    BY <2>1, <2>2
  <2>3. CASE Tail(f) # <<>>
    <3>1. 1 \in DOMAIN Tail(f)
      BY <2>3, <1>4, LenProperties, EmptySeq
    <3>2. Tail(f)[1] \in Range(Tail(f))
      BY <3>1 DEF Range
    <3> QED BY <2>1, <2>3, <3>2, <1>4
  <2> QED BY <2>2, <2>3
<1>8. /\ NULL \in Pages \cup {NULL} /\ fh \in Pages \cup {NULL} /\ n \in Pages \cup {NULL}
      /\ next \in PageLinks /\ prev \in PageLinks
  BY <1>1, <1>6
<1>9. n1 \in PageLinks /\ \A m \in Pages : n1[m] = IF m = fh THEN NULL ELSE next[m]
  BY <1>8, Nodes DEF Store, PageLinks
<1>10. p1 \in PageLinks /\ \A m \in Pages : p1[m] = IF m = n THEN NULL ELSE prev[m]
  BY <1>8, Nodes DEF Store, PageLinks
<1> HIDE DEF n1, p1
<1>11. Range(u) \subseteq Pages
  <2>1. \A i \in DOMAIN u : u[i] \in Pages
    BY <1>1, LenProperties, ElementOfSeq
  <2> QED BY <2>1 DEF Range
<1>12. \A m \in Range(u) : n1[m] = next[m] /\ p1[m] = prev[m]
  BY <1>1, <1>4, <1>6, <1>7, <1>9, <1>10, <1>11, Nodes
<1>13. Spelled(ih, n1, u) /\ BackLinked(p1, u)
  BY <1>1, <1>12, SpelledElsewhere, BackLinkedElsewhere
<1>14. Range(Tail(f)) \cap Range(u) = {}
  BY <1>1, <1>4
<1>15. PageLinked(n, ih, n1, p1, Tail(f), u)
  BY <1>1, <1>4, <1>6, <1>10, <1>13, <1>14 DEF PageLinked
<1>16. fh \notin Range(Tail(f)) /\ fh \notin Range(u)
  BY <1>1, <1>4, <1>6
<1>17. PageLists(InsertToInuseList([free |-> n, inuse |-> ih, next |-> n1,
                                      prev |-> p1], fh), Tail(f), Append(u, fh))
  BY <1>6, <1>15, <1>16, InsertSpells
<1>18. fh = Head(f)
  BY <1>4, <1>6
<1> QED BY <1>2, <1>17, <1>18 DEF fh

\* add_to_free_list_end, of a page that is on neither list.
LEMMA AddSpells ==
  ASSUME NEW fh, NEW ih, NEW next, NEW prev, NEW f, NEW u,
         PageLinked(fh, ih, next, prev, f, u),
         NEW t \in Pages, t \notin Range(f), t \notin Range(u)
  PROVE  PageLists(AddToFreeListEnd([free |-> fh, inuse |-> ih, next |-> next,
                                     prev |-> prev], t), Append(f, t), u)
<1> DEFINE l == [free |-> fh, inuse |-> ih, next |-> next, prev |-> prev]
           a == Append(f, t)
           end == f[Len(f)]
           n1 == Store(next, t, NULL)
           n2 == Store(next, end, t)
           n3 == Store(n2, t, NULL)
           p2 == Store(prev, t, end)
<1>1. /\ fh \in Pages \cup {NULL} /\ ih \in Pages \cup {NULL}
      /\ next \in PageLinks /\ prev \in PageLinks
      /\ f \in Seq(Pages) /\ IsInjective(f) /\ u \in Seq(Pages) /\ IsInjective(u)
      /\ Range(f) \cap Range(u) = {}
      /\ Spelled(fh, next, f) /\ Spelled(ih, next, u) /\ BackLinked(prev, u)
  BY DEF PageLinked
<1>2. /\ AddToFreeListEnd(l, t) =
           IF fh = NULL
           THEN [l EXCEPT !.free = t, !.next = Store(@, t, NULL)]
           ELSE LET end2 == EndOf(next, fh)
                IN  [l EXCEPT !.next = Store(Store(@, end2, t), t, NULL),
                              !.prev = Store(@, t, end2)]
  BY DEF AddToFreeListEnd
<1>3. a \in Seq(Pages) /\ IsInjective(a) /\ Range(a) = Range(f) \cup {t}
  BY <1>1, AppendAdds
<1>4. Range(u) \subseteq Pages /\ Range(a) \cap Range(u) = {}
  <2>1. \A i \in DOMAIN u : u[i] \in Pages
    BY <1>1, LenProperties, ElementOfSeq
  <2> QED BY <2>1, <1>1, <1>3 DEF Range
<1>5. /\ NULL \in Pages \cup {NULL} /\ t \in Pages \cup {NULL}
      /\ next \in PageLinks /\ prev \in PageLinks
  BY <1>1
<1>6. CASE f = <<>>
  <2>1. fh = NULL
    BY <1>1, <1>6 DEF Spelled
  <2>2. AddToFreeListEnd(l, t) = [free |-> t, inuse |-> ih, next |-> n1, prev |-> prev]
    BY <1>2, <2>1
  <2>3. n1 \in PageLinks /\ \A n \in Pages : n1[n] = IF n = t THEN NULL ELSE next[n]
    BY <1>5, PageStore
  <2>4. Spelled(t, n1, a)
    <3>1. next \in [Pages -> Pages \cup {NULL}]
      BY <1>1 DEF PageLinks
    <3> QED BY <3>1, <1>1, <1>6, Nodes, FirstSpells
  <2> HIDE DEF n1
  <2>5. \A n \in Range(u) : n1[n] = next[n]
    BY <2>3, <1>4
  <2>6. Spelled(ih, n1, u)
    BY <2>5, <1>1, SpelledElsewhere
  <2>7. PageLinked(t, ih, n1, prev, a, u)
    BY <2>3, <2>4, <2>6, <1>1, <1>3, <1>4, <1>5 DEF PageLinked
  <2> QED BY <2>2, <2>7 DEF PageLists
<1>7. CASE f # <<>>
  <2>1. fh # NULL /\ end \in Pages /\ end \in Range(f)
    <3>1. 1 \in 1 .. Len(f) /\ Len(f) \in 1 .. Len(f) /\ DOMAIN f = 1 .. Len(f)
      BY <1>1, <1>7, LenProperties, EmptySeq
    <3>2. f[1] \in Pages /\ end \in Pages /\ end \in Range(f)
      BY <1>1, <3>1, ElementOfSeq DEF Range
    <3> QED BY <1>1, <1>7, <3>2, Nodes DEF Spelled
  <2>2. next \in [Pages -> Pages \cup {NULL}]
    BY <1>1 DEF PageLinks
  <2>3. EndOf(next, fh) = end
    BY <2>2, <1>1, <1>7, Nodes, EndIsLast
  <2>4. AddToFreeListEnd(l, t) = [free |-> fh, inuse |-> ih, next |-> n3, prev |-> p2]
    BY <1>2, <2>1, <2>3
  <2>5. n3 \in PageLinks /\ Spelled(fh, n3, a)
    BY <2>2, <1>1, <1>7, Nodes, AppendSpells DEF PageLinks
  <2> HIDE DEF end
  <2>6. end \in Pages \cup {NULL}
    BY <2>1
  <2>7. n2 \in PageLinks /\ \A n \in Pages : n2[n] = IF n = end THEN t ELSE next[n]
    BY <2>6, <1>5, PageStore
  <2>8. p2 \in PageLinks /\ \A n \in Pages : p2[n] = IF n = t THEN end ELSE prev[n]
    BY <2>6, <1>5, PageStore
  <2> HIDE DEF n2, p2
  <2>9. \A n \in Pages : n3[n] = IF n = t THEN NULL ELSE n2[n]
    BY <2>7, <1>5, PageStore
  <2> HIDE DEF n3
  <2>10. \A n \in Range(u) : n3[n] = next[n] /\ p2[n] = prev[n]
    BY <2>1, <2>7, <2>8, <2>9, <1>1, <1>4
  <2>11. Spelled(ih, n3, u) /\ BackLinked(p2, u)
    BY <2>10, <1>1, SpelledElsewhere, BackLinkedElsewhere
  <2>12. PageLinked(fh, ih, n3, p2, a, u)
    BY <2>5, <2>8, <2>11, <1>1, <1>3, <1>4 DEF PageLinked
  <2> QED BY <2>4, <2>12 DEF PageLists
<1> QED BY <1>6, <1>7

\* page_free of a page in use, unless it is the head of the list.
LEMMA PageFreeSpells ==
  ASSUME NEW l, NEW f, NEW u, PageLists(l, f, u), NEW t \in Range(u), t # u[1]
  PROVE  \E w \in Seq(Pages) :
           /\ PageLists(PageFreeLinks(l, t), Append(f, t), w)
           /\ Range(w) = Range(u) \ {t} /\ w[1] = u[1]
<1> DEFINE fh == l.free
           ih == l.inuse
           next == l.next
           prev == l.prev
           before == prev[t]
           after == next[t]
           n2 == Store(Store(next, before, after), t, NULL)
           p2 == Store(Store(prev, after, before), t, NULL)
<1>1. /\ PageLinked(fh, ih, next, prev, f, u)
      /\ fh \in Pages \cup {NULL} /\ ih \in Pages \cup {NULL}
      /\ next \in PageLinks /\ prev \in PageLinks
      /\ f \in Seq(Pages) /\ IsInjective(f) /\ u \in Seq(Pages) /\ IsInjective(u)
      /\ Range(f) \cap Range(u) = {}
      /\ Spelled(fh, next, f) /\ Spelled(ih, next, u) /\ BackLinked(prev, u)
  BY DEF PageLists, PageLinked
<1>2. l = [free |-> fh, inuse |-> ih, next |-> next, prev |-> prev]
  BY DEF PageLists
<1>3. PageFreeLinks(l, t) =
        LET pg == Search(next, ih, t)
        IN  AddToFreeListEnd(DeleteFromInuseList(l, pg), pg)
  BY DEF PageFreeLinks, WhichPage
<1>4. before # NULL =>
        DeleteFromInuseList(l, t) = [free |-> fh, inuse |-> ih, next |-> n2, prev |-> p2]
  <2>1. before # NULL =>
          DeleteFromInuseList(l, t) = [l EXCEPT !.next = n2, !.prev = p2]
    BY DEF DeleteFromInuseList
  <2> HIDE DEF fh, ih, next, prev, n2, p2, before
  <2> QED BY <1>2, <2>1
<1> HIDE DEF fh, ih, next, prev
<1>5. next \in [Pages -> Pages \cup {NULL}] /\ prev \in [Pages -> Pages \cup {NULL}]
  BY <1>1 DEF PageLinks
<1>6. Search(next, ih, t) = t
  BY <1>1, <1>5, Nodes, SearchFinds
<1>7. PICK j \in 2 .. Len(u) : t = u[j]
  <2>1. DOMAIN u = 1 .. Len(u) /\ Len(u) \in Nat
    BY <1>1, LenProperties
  <2>2. PICK j \in 1 .. Len(u) : t = u[j]
    BY <2>1 DEF Range
  <2>3. j # 1
    BY <2>2
  <2> QED BY <2>1, <2>2, <2>3
<1>8. Len(u) \in Nat /\ j \in 1 .. Len(u) /\ DOMAIN u = 1 .. Len(u) /\ 1 < j /\ 1 \in 1 .. Len(u) - 1
  BY <1>1, <1>7, LenProperties
<1> DEFINE w == Without(u, j)
<1>9. /\ w \in Seq(Pages) /\ IsInjective(w) /\ Range(w) = Range(u) \ {t}
  BY <1>1, <1>7, <1>8, WithoutRemoves
<1>10. w[1] = u[1]
  BY <1>8 DEF Without
<1>11. before = prev[t] /\ after = next[t]
  OBVIOUS
<1> HIDE DEF before, after
<1>12. /\ before \in Range(u)
       /\ n2 \in [Pages -> Pages \cup {NULL}] /\ p2 \in [Pages -> Pages \cup {NULL}]
       /\ \A n \in Pages \ Range(u) : n2[n] = next[n] /\ p2[n] = prev[n]
       /\ Spelled(ih, n2, w) /\ BackLinked(p2, w)
  <2>1. u \in Seq(Pages) /\ IsInjective(u) /\ NULL \notin Pages
        /\ Spelled(ih, next, u) /\ BackLinked(prev, u)
    BY <1>1, Nodes
  <2> HIDE DEF w
  <2> QED BY <2>1, <1>5, <1>7, <1>11, RemoveChanges DEF w
<1> HIDE DEF n2, p2, w
<1>13. Range(f) \subseteq Pages /\ Range(u) \subseteq Pages
  <2>1. \A i \in DOMAIN f : f[i] \in Pages
    BY <1>1, LenProperties, ElementOfSeq
  <2>2. \A i \in DOMAIN u : u[i] \in Pages
    BY <1>1, LenProperties, ElementOfSeq
  <2> QED BY <2>1, <2>2 DEF Range
<1>14. \A n \in Range(f) : n2[n] = next[n]
  BY <1>1, <1>12, <1>13
<1>15. Spelled(fh, n2, f)
  BY <1>1, <1>14, SpelledElsewhere
<1>16. Range(f) \cap Range(w) = {} /\ t \notin Range(w) /\ t \notin Range(f) /\ t \in Pages
  BY <1>1, <1>9, <1>13
<1>17. PageLinked(fh, ih, n2, p2, f, w)
  BY <1>1, <1>9, <1>12, <1>15, <1>16 DEF PageLinked, PageLinks
<1>18. before # NULL
  BY <1>12, <1>13, Nodes
<1>19. PageFreeLinks(l, t) =
         AddToFreeListEnd([free |-> fh, inuse |-> ih, next |-> n2, prev |-> p2], t)
  BY <1>3, <1>4, <1>6, <1>18
<1>20. PageLists(PageFreeLinks(l, t), Append(f, t), w)
  BY <1>16, <1>17, <1>19, AddSpells
<1> QED BY <1>9, <1>10, <1>20

-----------------------------------------------------------------------------
(* The kernel blocks.                                                      *)

KBlkLists(l, f) ==
  /\ l = [head |-> l.head, next |-> l.next]
  /\ l.next \in [KBlks -> KBlks \cup {NULL}]
  /\ f \in Seq(KBlks) /\ IsInjective(f)
  /\ Spelled(l.head, l.next, f)

\* kblk_alloc.
LEMMA KBlkAllocSpells ==
  ASSUME NEW l, NEW f, KBlkLists(l, f), f # <<>>
  PROVE  KBlkLists(KBlkAllocLinks(l), Tail(f))
<1> DEFINE h == l.head
           next == l.next
           n1 == Store(next, h, NULL)
<1>1. /\ next \in [KBlks -> KBlks \cup {NULL}]
      /\ f \in Seq(KBlks) /\ IsInjective(f) /\ Spelled(h, next, f)
  BY DEF KBlkLists
<1>2. KBlkAllocLinks(l) = [head |-> next[h], next |-> n1]
  BY DEF KBlkAllocLinks
<1> HIDE DEF h, next
<1>3. n1 \in [KBlks -> KBlks \cup {NULL}] /\ Spelled(next[h], n1, Tail(f))
  BY <1>1, Nodes, TailSpells
<1>4. Tail(f) \in Seq(KBlks) /\ IsInjective(Tail(f))
  BY <1>1, TailRemovesHead
<1> QED BY <1>2, <1>3, <1>4 DEF KBlkLists

\* kblk_free of a block that is not free.
LEMMA KBlkFreeSpells ==
  ASSUME NEW l, NEW f, KBlkLists(l, f), f # <<>>, NEW k \in KBlks, k \notin Range(f)
  PROVE  KBlkLists(KBlkFreeLinks(l, k), Append(f, k))
<1> DEFINE h == l.head
           next == l.next
           n2 == Store(Store(next, f[Len(f)], k), k, NULL)
<1>1. /\ next \in [KBlks -> KBlks \cup {NULL}]
      /\ f \in Seq(KBlks) /\ IsInjective(f) /\ Spelled(h, next, f)
      /\ l = [head |-> h, next |-> next]
  BY DEF KBlkLists
<1>2. KBlkFreeLinks(l, k) =
        [l EXCEPT !.next = Store(Store(next, EndOf(next, h), k), k, NULL)]
  BY DEF KBlkFreeLinks
<1> HIDE DEF h, next
<1>3. EndOf(next, h) = f[Len(f)]
  BY <1>1, Nodes, EndIsLast
<1>4. n2 \in [KBlks -> KBlks \cup {NULL}] /\ Spelled(h, n2, Append(f, k))
  BY <1>1, Nodes, AppendSpells
<1>5. KBlkFreeLinks(l, k) = [head |-> h, next |-> n2]
  BY <1>1, <1>2, <1>3
<1>6. Append(f, k) \in Seq(KBlks) /\ IsInjective(Append(f, k))
  BY <1>1, AppendAdds
<1> QED BY <1>4, <1>5, <1>6 DEF KBlkLists

-----------------------------------------------------------------------------
(* The invariant.                                                          *)

\* The directory tree's page is the head of the list in use and stays it, so
\* that delete_from_inuse_list always finds a page before the one it takes.
ListIInv ==
  /\ TaskLists(tl, ready)
  /\ \E u \in Seq(Pages) :
       PageLists(pl, free, u) /\ u # <<>> /\ u[1] = RootPage /\ Range(u) = inuse
  /\ KBlkLists(kl, kfree)

\* The list of all nodes, as main() links it.
LEMMA OrderSpells ==
  ASSUME NEW n \in Nat, n >= 2, NEW s, s = [i \in 1 .. n |-> i - 1],
         NEW S, S = 0 .. n - 1
  PROVE  /\ s \in Seq(S) /\ IsInjective(s) /\ s # <<>>
         /\ NextInOrder(n) \in [S -> S \cup {NULL}]
         /\ PrevInOrder(n) \in [S -> S \cup {NULL}]
         /\ Spelled(0, NextInOrder(n), s)
         /\ Head(s) = 0 /\ Tail(s) # <<>> /\ Head(Tail(s)) = 1
         /\ Tail(Tail(s)) = [i \in 1 .. n - 2 |-> i + 1]
<1> DEFINE next == NextInOrder(n)
           t == Tail(s)
           tt == Tail(t)
<1>1. DOMAIN s = 1 .. n /\ \A i \in 1 .. n : s[i] = i - 1 /\ s[i] \in S
  OBVIOUS
<1>2. s \in Seq(S) /\ Len(s) = n
  <2>1. s \in [1 .. n -> S]
    BY <1>1
  <2> QED BY <2>1, SeqDef, LenProperties
<1>3. IsInjective(s) /\ s # <<>>
  BY <1>1, <1>2, EmptySeq DEF IsInjective
<1>4. next \in [S -> S \cup {NULL}] /\ \A i \in S : next[i] = IF i = n - 1 THEN NULL ELSE i + 1
  BY DEF NextInOrder
<1>5. PrevInOrder(n) \in [S -> S \cup {NULL}]
  BY DEF PrevInOrder, NULL
<1> HIDE DEF next
<1>6. \A i \in 1 .. n : next[s[i]] = IF i = n THEN NULL ELSE s[i + 1]
  <2> TAKE i \in 1 .. n
  <2>1. i - 1 \in S /\ s[i] = i - 1 /\ (i - 1 = n - 1 <=> i = n) /\ (i - 1) + 1 = i
    BY <1>1
  <2>2. i # n => s[i + 1] = (i + 1) - 1 /\ (i + 1) - 1 = i
    BY <1>1
  <2> QED BY <2>1, <2>2, <1>4
<1>7. Spelled(0, next, s)
  <2>1. s[1] = 0
    BY <1>1
  <2> QED BY <2>1, <1>1, <1>2, <1>3, <1>6 DEF Spelled
<1>8. /\ t \in Seq(S) /\ Len(t) = n - 1 /\ \A i \in 1 .. n - 1 : t[i] = s[i + 1]
  BY <1>2, <1>3, HeadTailProperties
<1>9. t # <<>>
  BY <1>8, EmptySeq
<1> HIDE DEF t
<1>10. /\ tt \in Seq(S) /\ Len(tt) = n - 2 /\ \A i \in 1 .. n - 2 : tt[i] = t[i + 1]
  BY <1>8, <1>9, HeadTailProperties
<1>11. Head(s) = 0 /\ Head(t) = 1
  <2>0. 1 \in 1 .. n - 1 /\ 1 \in 1 .. n /\ 1 + 1 \in 1 .. n /\ (1 + 1) - 1 = 1 /\ 1 - 1 = 0
    OBVIOUS
  <2>1. s[1] = 0 /\ t[1] = s[1 + 1] /\ s[1 + 1] = 1
    BY <2>0, <1>1, <1>8
  <2>2. Head(s) = s[1] /\ Head(t) = t[1]
    BY <1>2, <1>3, <1>8, <1>9
  <2> HIDE DEF t
  <2> QED BY <2>1, <2>2
<1> HIDE DEF tt
<1>12. tt = [i \in 1 .. n - 2 |-> i + 1]
  <2>1. DOMAIN tt = 1 .. n - 2 /\ tt \in [1 .. n - 2 -> S]
    BY <1>10, LenProperties
  <2>2. \A i \in 1 .. n - 2 : tt[i] = i + 1
    <3> TAKE i \in 1 .. n - 2
    <3>1. i + 1 \in 1 .. n - 1 /\ (i + 1) + 1 \in 1 .. n
      OBVIOUS
    <3>2. tt[i] = t[i + 1] /\ t[i + 1] = s[(i + 1) + 1]
      BY <3>1, <1>8, <1>10
    <3>3. s[(i + 1) + 1] = ((i + 1) + 1) - 1
      BY <3>1, <1>1
    <3> QED BY <3>2, <3>3
  <2> QED BY <2>1, <2>2
<1> QED BY <1>2, <1>3, <1>4, <1>5, <1>7, <1>9, <1>11, <1>12 DEF next, t, tt

\* What main() leaves behind.
LEMMA BootTasks == TaskLists(BootTl, BootReady)
<1> DEFINE p == NPrio - 1
           prio == [t \in Pages |-> p]
           r0 == [q \in Prios |-> <<>>]
           l1 == LinkTask(NoTasks, ShellPage, p)
           r1 == TaskEnqueue(r0, ShellPage, p)
           l2 == UnlinkHead(l1, p)
           r2 == [r1 EXCEPT ![p] = Tail(r1[p])]
           l3 == LinkTask(l2, ShellPage, p)
           r3 == TaskEnqueue(r2, ShellPage, p)
<1>1. p \in Prios /\ ShellPage \in Pages
  BY KernelAssumption DEF Prios, Pages, ShellPage
<1>2. prio \in [Pages -> Prios] /\ prio[ShellPage] = p
  BY <1>1
<1>3. Lists(r0, prio) /\ ShellPage \notin QueuedIn(r0)
  <2>1. Range(<<>>) = {} /\ IsInjective(<<>>)
    BY DEF Range, IsInjective
  <2>2. r0 \in [Prios -> Seq(Pages)] /\ \A q \in Prios : r0[q] = <<>>
    OBVIOUS
  <2> HIDE DEF r0
  <2> QED BY <2>1, <2>2 DEF Lists, QueuedIn
<1>4. TaskLists(NoTasks, r0)
  <2>1. \A q \in Prios : Spelled(NULL, NoTasks.next, r0[q]) /\ BackLinked(NoTasks.prev, r0[q])
    BY DEF Spelled, BackLinked
  <2>2. /\ NoTasks.head \in [Prios -> Pages \cup {NULL}]
        /\ NoTasks.next \in PageLinks /\ NoTasks.prev \in PageLinks
        /\ \A q \in Prios : NoTasks.head[q] = NULL
        /\ NoTasks = [head |-> NoTasks.head, next |-> NoTasks.next, prev |-> NoTasks.prev]
    BY DEF NoTasks, PageLinks
  <2> QED BY <2>1, <2>2 DEF TaskLists, TaskLinks
<1> HIDE DEF r0, prio, p
<1>5. TaskLists(l1, r1)
  BY <1>1, <1>3, <1>4, LinkTaskSpells
<1>6. Lists(r1, prio)
  BY <1>1, <1>2, <1>3, EnqueueAdds
<1>7. /\ \A q \in Prios : r1[q] = IF q = p THEN <<ShellPage>> ELSE <<>>
      /\ r1 = [q \in Prios |-> r1[q]]
  BY <1>1 DEF TaskEnqueue, r0
<1> HIDE DEF l1, r1
<1>8. r1[p] # <<>> /\ Tail(r1[p]) = <<>>
  <2>1. r1[p] = <<ShellPage>> /\ <<ShellPage>> \in Seq(Pages)
    BY <1>1, <1>7
  <2>2. r1[p] \in Seq(Pages) /\ Len(r1[p]) = 1
    BY <2>1
  <2>3. r1[p] # <<>>
    BY <2>2, EmptySeq
  <2>4. Tail(r1[p]) \in Seq(Pages) /\ Len(Tail(r1[p])) = 0
    BY <2>2, <2>3, HeadTailProperties
  <2> QED BY <2>3, <2>4, EmptySeq
<1>9. TaskLists(l2, r2)
  BY <1>1, <1>5, <1>6, <1>8, UnlinkHeadSpells
<1>10. r2 = r0
  BY <1>1, <1>7, <1>8 DEF r0
<1> HIDE DEF l2, r2
<1>11. TaskLists(l3, r3)
  BY <1>1, <1>3, <1>9, <1>10, LinkTaskSpells
<1>12. r3 = BootReady
  BY <1>1, <1>10 DEF TaskEnqueue, r0, BootReady, p
<1>13. l3 = BootTl
  BY DEF BootTl, l2, l1, p
<1> QED BY <1>11, <1>12, <1>13

LEMMA BootPages ==
  \E u \in Seq(Pages) :
    /\ PageLists(BootPl, BootFree, u) /\ u # <<>> /\ u[1] = RootPage
    /\ Range(u) = {RootPage, ShellPage}
<1> DEFINE f == [i \in 1 .. NPages |-> i - 1]
           l1 == PageAlloc(AllFree)
           l2 == PageAlloc(l1)
<1>1. /\ f \in Seq(Pages) /\ IsInjective(f) /\ f # <<>>
      /\ NextInOrder(NPages) \in PageLinks /\ PrevInOrder(NPages) \in PageLinks
      /\ Spelled(0, NextInOrder(NPages), f)
      /\ Head(f) = 0 /\ Tail(f) # <<>> /\ Head(Tail(f)) = 1
      /\ Tail(Tail(f)) = BootFree
  BY KernelAssumption, OrderSpells DEF Pages, PageLinks, BootFree
<1>2. 0 \in Pages /\ 1 \in Pages
  BY KernelAssumption DEF Pages
<1> HIDE DEF f
<1>3. PageLists(AllFree, f, <<>>)
  <2>1. /\ AllFree.free = 0 /\ AllFree.inuse = NULL
        /\ AllFree.next = NextInOrder(NPages) /\ AllFree.prev = PrevInOrder(NPages)
        /\ AllFree = [free |-> 0, inuse |-> NULL, next |-> NextInOrder(NPages),
                      prev |-> PrevInOrder(NPages)]
    BY DEF AllFree
  <2>2. /\ <<>> \in Seq(Pages) /\ IsInjective(<<>>) /\ Range(<<>>) = {}
        /\ Spelled(NULL, NextInOrder(NPages), <<>>) /\ BackLinked(PrevInOrder(NPages), <<>>)
    BY DEF IsInjective, Range, Spelled, BackLinked
  <2>3. PageLinked(0, NULL, NextInOrder(NPages), PrevInOrder(NPages), f, <<>>)
    BY <2>2, <1>1, <1>2 DEF PageLinked
  <2> QED BY <2>1, <2>3 DEF PageLists
<1>4. PageLists(l1, Tail(f), Append(<<>>, 0))
  BY <1>1, <1>3, PageAllocSpells
<1> HIDE DEF l1
<1>5. PageLists(l2, BootFree, Append(Append(<<>>, 0), 1))
  BY <1>1, <1>4, PageAllocSpells
<1> DEFINE none == <<>>
<1>6. /\ none \in Seq(Pages) /\ IsInjective(none) /\ Range(none) = {}
  BY DEF IsInjective, Range
<1> DEFINE a == Append(none, 0)
           b == Append(a, 1)
<1>7. a \in Seq(Pages) /\ IsInjective(a) /\ Range(a) = {0} /\ Len(a) = 1 /\ a[1] = 0
  <2>1. Len(a) = 1 /\ a[1] = 0
    OBVIOUS
  <2>2. a \in Seq(Pages) /\ IsInjective(a) /\ Range(a) = {} \cup {0}
    <3> HIDE DEF none
    <3>1. 0 \notin Range(none)
      BY <1>6
    <3> QED BY <3>1, <1>2, <1>6, AppendAdds
  <2> QED BY <2>1, <2>2
<1> HIDE DEF a
<1>9. b \in Seq(Pages) /\ b # <<>> /\ b[1] = 0 /\ Range(b) = {0, 1}
  <2>1. b \in Seq(Pages) /\ Range(b) = {0} \cup {1}
    BY <1>2, <1>7, AppendAdds
  <2>2. Len(b) = 2 /\ b[1] = a[1]
    <3>1. /\ Len(b) = Len(a) + 1
          /\ \A i \in 1 .. Len(a) : b[i] = a[i]
      <4>1. ASSUME NEW e \in Pages
            PROVE  /\ Len(Append(a, e)) = Len(a) + 1
                   /\ \A i \in 1 .. Len(a) : Append(a, e)[i] = a[i]
        <5>1. a \in Seq(Pages)
          BY <1>7
        <5> QED BY <5>1, AppendProperties
      <4> QED BY <4>1, <1>2
    <3> QED BY <3>1, <1>7
  <2> HIDE DEF b
  <2>3. b # <<>>
    BY <2>1, <2>2, EmptySeq
  <2> QED BY <2>1, <2>2, <2>3, <1>7
<1>8. l2 = BootPl
  BY DEF BootPl, l1
<1> QED BY <1>5, <1>8, <1>9 DEF RootPage, ShellPage, a, none

LEMMA BootKBlks == KBlkLists(BootKl, BootKFree)
<1> DEFINE f == [i \in 1 .. NKBlks |-> i - 1]
           l1 == KBlkAllocLinks(AllKFree)
<1>1. /\ f \in Seq(KBlks) /\ IsInjective(f) /\ f # <<>>
      /\ NextInOrder(NKBlks) \in [KBlks -> KBlks \cup {NULL}]
      /\ Spelled(0, NextInOrder(NKBlks), f) /\ Tail(f) # <<>>
      /\ Tail(Tail(f)) = BootKFree
  BY KernelAssumption, OrderSpells DEF KBlks, BootKFree
<1> HIDE DEF f
<1>2. KBlkLists(AllKFree, f)
  BY <1>1 DEF AllKFree, KBlkLists
<1>3. KBlkLists(l1, Tail(f))
  BY <1>1, <1>2, KBlkAllocSpells
<1>4. KBlkLists(KBlkAllocLinks(l1), BootKFree)
  <2> HIDE DEF l1
  <2> QED BY <1>1, <1>3, KBlkAllocSpells
<1> QED BY <1>4 DEF BootKl

LEMMA ListInitHolds == ListInit => ListIInv
BY BootTasks, BootPages, BootKBlks DEF ListInit, Init, ListIInv

-----------------------------------------------------------------------------
(* The steps.                                                              *)

\* Every step of the links is a step of Kernel.
LEMMA StepIsKernelStep == [ListNext]_<<vars, listVars>> => [Next]_vars
BY DEF ListNext, ListTaskCreate, ListFork, ListExit, ListTick, ListsAlone, ListBoot,
       Next, Fork

LEMMA ListSpawnStep ==
  ASSUME IInv, ListIInv, NEW p \in Prios, NEW shared, Spawn(p, shared), SpawnLinks(p)
  PROVE  ListIInv'
<1> DEFINE t == Head(free)
           k == Head(kfree)
<1>1. /\ free # <<>> /\ kfree # <<>> /\ t \notin Queued
      /\ free' = Tail(free) /\ kfree' = Tail(kfree) /\ inuse' = inuse \cup {t}
      /\ ready' = TaskEnqueue(ready, t, p)
  BY DEF Spawn, PoolsLeft
<1>2. t \in Pages
  BY SpawnTakes
<1>3. Lists(ready, priority)
  BY ReadyListsSplit DEF IInv
<1>4. PICK u \in Seq(Pages) :
        PageLists(pl, free, u) /\ u # <<>> /\ u[1] = RootPage /\ Range(u) = inuse
  BY DEF ListIInv
<1>5. TaskLists(tl, ready) /\ KBlkLists(kl, kfree)
  BY DEF ListIInv
<1>6. pl.free = t /\ PageLists(pl', free', Append(u, t))
  BY <1>1, <1>4, PageAllocSpells DEF SpawnLinks
<1>7. KBlkLists(kl', kfree')
  BY <1>1, <1>5, KBlkAllocSpells DEF SpawnLinks
<1> HIDE DEF t
<1>8. TaskLists(tl', ready')
  <2>1. t \notin QueuedIn(ready)
    BY <1>1 DEF Queued
  <2>2. TaskLists(LinkTask(tl, t, p), TaskEnqueue(ready, t, p))
    BY <2>1, <1>2, <1>3, <1>5, LinkTaskSpells
  <2> QED BY <2>2, <1>1, <1>6 DEF SpawnLinks
<1>9. Append(u, t) \in Seq(Pages) /\ Append(u, t) # <<>> /\ Append(u, t)[1] = RootPage
      /\ Range(Append(u, t)) = inuse'
  <2>1. u \in Seq(Pages) /\ IsInjective(u) /\ t \notin Range(u)
    <3>1. t \notin inuse
      BY SpawnTakes DEF t
    <3> QED BY <3>1, <1>4 DEF PageLists, PageLinked
  <2>2. Append(u, t) \in Seq(Pages) /\ Range(Append(u, t)) = Range(u) \cup {t}
    BY <2>1, <1>2, AppendAdds
  <2>3. /\ Append(u, t) # <<>>
        /\ \A i \in 1 .. Len(u) : Append(u, t)[i] = u[i]
    BY <2>1, <1>2, AppendProperties
  <2>4. 1 \in 1 .. Len(u)
    BY <1>4, LenProperties, EmptySeq
  <2> QED BY <2>2, <2>3, <2>4, <1>1, <1>4
<1>10. \E w \in Seq(Pages) :
         PageLists(pl', free', w) /\ w # <<>> /\ w[1] = RootPage /\ Range(w) = inuse'
  BY <1>6, <1>9
<1> QED BY <1>7, <1>8, <1>10 DEF ListIInv

LEMMA ListExitStep ==
  ASSUME IInv, ListIInv, ~ExitBehindSpawn, ListExit
  PROVE  ListIInv'
<1>1. /\ curr # ShellPage /\ curr \notin spinning /\ kfree # <<>>
      /\ ready[priority[curr]] # <<>> /\ Last(ready[priority[curr]]) = curr
      /\ ready' = TaskPop(ready, curr, priority[curr])
      /\ inuse' = inuse \ {curr}
      /\ free' = Append(free, curr) /\ kfree' = Append(kfree, pgt[curr])
      /\ tl' = UnlinkLast(tl, curr, priority[curr])
      /\ pl' = PageFreeLinks(pl, curr) /\ kl' = KBlkFreeLinks(kl, pgt[curr])
  BY DEF ListExit, Exit, InProgram, PageFree, KBlkFree
<1>2. curr \in Pages /\ priority[curr] \in Prios /\ pgt[curr] \in KBlks
  BY DEF IInv, TypeOK
<1>3. Lists(ready, priority)
  BY ReadyListsSplit DEF IInv
<1>4. curr \in Queued /\ RootPage \notin Queued
  BY <1>1 DEF IInv, Anchored
<1>5. curr \in inuse /\ curr # RootPage
  BY <1>4 DEF IInv, PagesAccounted
<1>6. pgt[curr] \notin Range(kfree)
  BY <1>4 DEF IInv, KBlksAccounted
<1>7. TaskLists(tl, ready) /\ KBlkLists(kl, kfree)
  BY DEF ListIInv
<1>8. TaskLists(tl', ready')
  BY <1>1, <1>2, <1>3, <1>7, UnlinkLastSpells
<1>9. KBlkLists(kl', kfree')
  BY <1>1, <1>2, <1>6, <1>7, KBlkFreeSpells
<1>10. PICK u \in Seq(Pages) :
         PageLists(pl, free, u) /\ u # <<>> /\ u[1] = RootPage /\ Range(u) = inuse
  BY DEF ListIInv
<1>11. PICK w \in Seq(Pages) :
         /\ PageLists(PageFreeLinks(pl, curr), Append(free, curr), w)
         /\ Range(w) = Range(u) \ {curr} /\ w[1] = u[1]
  BY <1>5, <1>10, PageFreeSpells
<1>12. w # <<>>
  <2>1. RootPage \in Range(w)
    BY <1>5, <1>10, <1>11 DEF IInv, PagesAccounted
  <2>2. Range(<<>>) = {}
    BY DEF Range
  <2> QED BY <2>1, <2>2
<1>13. \E v \in Seq(Pages) :
         PageLists(pl', free', v) /\ v # <<>> /\ v[1] = RootPage /\ Range(v) = inuse'
  BY <1>1, <1>10, <1>11, <1>12
<1> QED BY <1>8, <1>9, <1>13 DEF ListIInv

\* The heads of the lists choose as the lists do.
LEMMA ChosenHeadIsChosen ==
  ASSUME TaskLists(tl, ready), Lists(ready, priority), NEW s
  PROVE  ChosenHead(tl, s) = Chosen(ready, s)
<1>1. \A p \in Prios : /\ tl.head[p] # NULL <=> ready[p] # <<>>
                       /\ ready[p] # <<>> => tl.head[p] = Head(ready[p])
  <2> TAKE p \in Prios
  <2>1. tl.head[p] = IF ready[p] = <<>> THEN NULL ELSE ready[p][1]
    BY DEF TaskLists, TaskLinks, Spelled
  <2>2. ready[p] \in Seq(Pages)
    BY DEF Lists
  <2>3. ready[p] # <<>> => ready[p][1] \in Pages /\ Head(ready[p]) = ready[p][1]
    <3>1. ready[p] # <<>> => 1 \in 1 .. Len(ready[p])
      BY <2>2, LenProperties, EmptySeq
    <3>2. ready[p] # <<>> => ready[p][1] \in Pages
      BY <2>2, <3>1, ElementOfSeq
    <3> QED BY <2>2, <3>2
  <2> QED BY <2>1, <2>3, Nodes
<1> QED BY <1>1 DEF ChosenHead, Chosen

LEMMA ListTickStep ==
  ASSUME IInv, ListIInv, ListTick
  PROVE  ListIInv'
<1> DEFINE s == [status EXCEPT ![curr] = "READY"]
<1>1. Lists(ready, priority) /\ TaskLists(tl, ready) /\ Prios \subseteq Nat
  BY ReadyListsSplit, KernelAssumption DEF IInv, ListIInv, Prios
<1>2. ChosenHead(tl, s) = Chosen(ready, s) /\ Chosen(ready, s) # {}
  BY <1>1, ChosenHeadIsChosen, ChosenExists
<1>3. PICK p \in Chosen(ready, s) :
        ready' = TaskEnqueue([ready EXCEPT ![p] = Tail(@)], Head(ready[p]),
                             priority[Head(ready[p])])
  BY <1>2 DEF ListTick, Tick, Dispatch
<1>4. PICK q \in Chosen(ready, s) :
        tl' = LinkTask(UnlinkHead(tl, q), tl.head[q], priority[tl.head[q]])
  BY <1>2 DEF ListTick
<1> HIDE DEF s
<1>5. p \in Prios /\ q \in Prios /\ ready[p] # <<>> /\ ~(p < q) /\ ~(q < p)
  BY DEF Chosen
<1>6. p = q
  BY <1>1, <1>5
<1> DEFINE t == Head(ready[p])
           r1 == [ready EXCEPT ![p] = Tail(ready[p])]
<1>7. tl.head[p] = t /\ TaskLists(UnlinkHead(tl, p), r1)
  BY <1>1, <1>5, UnlinkHeadSpells
<1>8. /\ ready \in [Prios -> Seq(Pages)] /\ ready[p] \in Seq(Pages) /\ IsInjective(ready[p])
      /\ priority \in [Pages -> Prios]
  BY <1>1, <1>5 DEF Lists, IInv, TypeOK
<1>9. /\ Tail(ready[p]) \in Seq(Pages) /\ IsInjective(Tail(ready[p]))
      /\ t \in Range(ready[p]) /\ Range(Tail(ready[p])) = Range(ready[p]) \ {t}
  BY <1>5, <1>8, TailRemovesHead
<1>10. \A x \in Prios : r1[x] = IF x = p THEN Tail(ready[p]) ELSE ready[x]
  BY <1>8
<1>11. r1 \in [Prios -> Seq(Pages)]
  BY <1>8, <1>9
<1> HIDE DEF t, r1
<1>12. Lists(r1, priority)
  BY <1>1, <1>9, <1>10, <1>11 DEF Lists
<1>13. priority[t] = p /\ t \in Pages
  <2>1. priority[t] = p
    BY <1>1, <1>5, <1>9 DEF Lists
  <2>2. Range(ready[p]) \subseteq Pages
    <3>1. \A i \in DOMAIN ready[p] : ready[p][i] \in Pages
      BY <1>8, LenProperties, ElementOfSeq
    <3> QED BY <3>1 DEF Range
  <2> QED BY <2>1, <2>2, <1>9
<1>14. t \notin QueuedIn(r1)
  <2> SUFFICES ASSUME NEW x \in Prios, t \in Range(r1[x]) PROVE FALSE
    BY DEF QueuedIn
  <2>1. x # p
    BY <1>9, <1>10
  <2>2. priority[t] = x
    BY <1>12 DEF Lists
  <2> QED BY <2>1, <2>2, <1>13
<1>15. TaskLists(LinkTask(UnlinkHead(tl, p), t, p), TaskEnqueue(r1, t, p))
  BY <1>5, <1>7, <1>12, <1>13, <1>14, LinkTaskSpells
<1>16. tl' = LinkTask(UnlinkHead(tl, p), t, p) /\ ready' = TaskEnqueue(r1, t, p)
  BY <1>3, <1>4, <1>6, <1>7, <1>13 DEF t, r1
<1>17. UNCHANGED <<free, inuse, kfree, pl, kl>>
  BY DEF ListTick, Tick, poolVars
<1> QED BY <1>15, <1>16, <1>17 DEF ListIInv

\* What touches no list keeps the links.
LEMMA ListAloneStep ==
  ASSUME ListIInv, UNCHANGED <<ready, free, inuse, kfree, tl, pl, kl>>
  PROVE  ListIInv'
BY DEF ListIInv

LEMMA ListNextStep ==
  ASSUME IInv, ListIInv, ~ExitBehindSpawn, [ListNext]_<<vars, listVars>>
  PROVE  ListIInv'
<1>1. CASE \E p \in Prios : ListTaskCreate(p)
  BY <1>1, ListSpawnStep DEF ListTaskCreate, TaskCreate
<1>2. CASE ListFork
  <2>1. priority[curr] \in Prios
    BY DEF IInv, TypeOK
  <2> QED BY <1>2, <2>1, ListSpawnStep DEF ListFork, Fork
<1>3. CASE ListExit
  BY <1>3, ListExitStep
<1>4. CASE ListTick
  BY <1>4, ListTickStep
<1>5. CASE ListsAlone
  <2>1. UNCHANGED <<ready, free, inuse, kfree, tl, pl, kl>>
    BY <1>5 DEF ListsAlone, SpawnGoesWild, ExitGoesWild, Yield, ReadConsole, KeyPressed,
                Restart, poolVars, listVars
  <2> QED BY <2>1, ListAloneStep
<1>6. CASE ListBoot
  <2>1. /\ tl' = BootTl /\ pl' = BootPl /\ kl' = BootKl
        /\ ready' = BootReady /\ free' = BootFree /\ kfree' = BootKFree
        /\ inuse' = {RootPage, ShellPage}
    BY <1>6 DEF ListBoot, Boot
  <2> QED BY <2>1, BootTasks, BootPages, BootKBlks DEF ListIInv
<1>7. CASE UNCHANGED <<vars, listVars>>
  BY <1>7, ListAloneStep DEF vars, poolVars, listVars
<1> QED BY <1>1, <1>2, <1>3, <1>4, <1>5, <1>6, <1>7 DEF ListNext

\* The invariant is what TLC checks.
LEMMA ListIInvSpells ==
  ASSUME IInv, ListIInv
  PROVE  LinksSpellLists
<1>1. PICK u \in Seq(Pages) :
        PageLists(pl, free, u) /\ u # <<>> /\ u[1] = RootPage /\ Range(u) = inuse
  BY DEF ListIInv
<1>2. /\ pl.next \in [Pages -> Pages \cup {NULL}] /\ IsInjective(u)
      /\ Spelled(pl.free, pl.next, free)
      /\ Spelled(pl.inuse, pl.next, u) /\ BackLinked(pl.prev, u)
  BY <1>1 DEF PageLists, PageLinked, PageLinks
<1> DEFINE n == Len(u)
           s == [i \in 1 .. n |-> Turn(pl.next, pl.inuse, NULL, i - 1)]
<1>3. n \in Nat \ {0} /\ \A i \in 1 .. n : u[i] \in Pages
  BY <1>1, LenProperties, EmptySeq, ElementOfSeq
<1>4. n <= NPages
  BY <1>1, <1>2, Nodes, ListFits
<1>5. \A i \in 1 .. n : Turn(pl.next, pl.inuse, NULL, i - 1) = u[i]
  <2> TAKE i \in 1 .. n
  <2>1. n \in 1 .. Len(u) /\ i - 1 \in Nat /\ (i - 1 < n) /\ (i - 1) + 1 = i
    BY <1>3
  <2>2. \A j \in 1 .. n - 1 : u[j] # NULL
    BY <1>3, Nodes
  <2>3. Turn(pl.next, pl.inuse, NULL, i - 1) = IF i - 1 < n THEN u[(i - 1) + 1] ELSE u[n]
    BY <2>1, <2>2, <1>1, <1>2, Nodes, TurnStands
  <2> QED BY <2>1, <2>3
<1>6. s = u
  <2>1. u \in [1 .. n -> Pages]
    BY <1>1, LenProperties
  <2> QED BY <2>1, <1>5
<1>7. n \in 1 .. NPages
  BY <1>3, <1>4, KernelAssumption
<1>8. \E m \in 1 .. NPages :
        LET v == [i \in 1 .. m |-> Turn(pl.next, pl.inuse, NULL, i - 1)]
        IN  /\ Spelled(pl.inuse, pl.next, v) /\ BackLinked(pl.prev, v)
            /\ IsInjective(v) /\ Range(v) = inuse
  BY <1>1, <1>2, <1>6, <1>7
<1>9. /\ \A p \in Prios : Spelled(tl.head[p], tl.next, ready[p]) /\ BackLinked(tl.prev, ready[p])
      /\ Spelled(kl.head, kl.next, kfree)
  BY DEF ListIInv, TaskLists, TaskLinks, KBlkLists
<1> QED BY <1>2, <1>8, <1>9 DEF LinksSpellLists

-----------------------------------------------------------------------------
(* The theorems.                                                           *)

\* Every step of the code on its links is a step of Kernel, so that the
\* theorems above hold of it (each action has Kernel's as a conjunct).
THEOREM LinksFollowKernel == ListSpec => Spec
<1>1. ListInit => Init
  BY DEF ListInit
<1> QED BY <1>1, StepIsKernelStep, PTL DEF ListSpec, Spec

\* The links are the lists, after any sequence of creations, forks, exits and
\* dispatches, whatever was left in the nodes before.
THEOREM LinksStaySound == ~ExitBehindSpawn => (ListSpec => []LinksSpellLists)
<1> SUFFICES ASSUME ~ExitBehindSpawn PROVE ListSpec => []LinksSpellLists
  OBVIOUS
<1>1. ListSpec => []IInv
  BY LinksFollowKernel, Invariance, PTL
<1>2. ListInit => ListIInv
  BY ListInitHolds
<1>3. IInv /\ ListIInv /\ [ListNext]_<<vars, listVars>> => ListIInv'
  BY ListNextStep
<1>4. IInv /\ ListIInv => LinksSpellLists
  BY ListIInvSpells
<1> QED BY <1>1, <1>2, <1>3, <1>4, PTL DEF ListSpec
=============================================================================
