------------------------------ MODULE ForkProofs ------------------------------
(***************************************************************************)
(* What can and what cannot go wrong with the frame that parent and child  *)
(* share, for any number of tasks and forks and any placing of the ticks.  *)
(***************************************************************************)
EXTENDS Fork, SequenceTheorems, TLAPS

Created == 1 .. n

-----------------------------------------------------------------------------
(* The inductive invariant.                                                *)

\* The tasks that exist and what __fork gave them.  Every one of them uses
\* the frame of the first, since the frame pointer is only ever copied.
Tree ==
  /\ queue \in Seq(Created) /\ curr \in Created
  /\ forks = [t \in Tasks |-> IF t = 1 THEN n - 1 ELSE 0]
  /\ parent[1] = NoTask
  /\ \A t \in Created :
       /\ fp[t] = 1
       /\ pc[t] # "none"
       /\ parent[t] \in Created \cup {NoTask}
       /\ rw[t] = IF parent[t] = NoTask THEN {t} ELSE {t, parent[t]}
  /\ \A t \in Tasks \ Created :
       parent[t] = NoTask /\ took[t] = "none" /\ t \notin early

\* Before its first __fork the first task has not tested anything.
Alone == n = 1 => pc[1] = "call" /\ took[1] = "none"

\* The parent 1 and its child 2, before anybody else uses the frame: what r
\* may be at each point of the one and of the other.
Pair ==
  /\ parent[2] = 1
  /\ r0[1] = 2 /\ r0[2] = 0
  /\ took[1] = "none" <=> pc[1] \in {"store", "test"}
  /\ took[2] = "none" <=> pc[2] \in {"store", "test"}
  /\ pc[1] # "store" /\ pc[2] = "store" => frame[1] = 2
  /\ pc[1] = "store" /\ pc[2] # "store" => frame[1] = 0
  /\ took[1] = "child" => pc[2] # "store" /\ frame[1] = 0
  /\ took[2] = "parent" => pc[1] # "store" /\ frame[1] # 0
  /\ 2 \notin early /\ pc[2] # "store" =>
       took[1] = "parent" /\ frame[1] = 0 /\ took[2] # "parent"

SharedFrame == n = 2 => Pair

\* An abort leaves everything as it was.
AbortClosed == mode = "abort" => fp[curr] \notin rw[curr]

IInv == TypeOK /\ Tree /\ Alone /\ SharedFrame /\ AbortClosed

LEMMA CreatedAreTasks ==
  TypeOK => /\ Created \subseteq Tasks /\ 1 \in Created
            /\ n \in Nat /\ n >= 1 /\ n <= NTasks /\ NTasks \in Nat
BY ForkAssumption DEF TypeOK, Created, Tasks

LEMMA InitHolds == Init => IInv
<1> SUFFICES ASSUME Init PROVE IInv
  OBVIOUS
<1>1. 1 \in Tasks /\ Created = {1} /\ NTasks \in Nat /\ NTasks >= 1
  BY ForkAssumption DEF Init, Created, Tasks
<1>2. <<1>> \in Seq({1}) /\ <<1>> \in Seq(Tasks)
  BY <1>1
<1>3. TypeOK
  BY <1>1, <1>2 DEF Init, TypeOK, Tasks, NoTask
<1>4. Tree
  <2>1. forks = [t \in Tasks |-> IF t = 1 THEN n - 1 ELSE 0]
    BY DEF Init
  <2> QED BY <1>1, <1>2, <2>1 DEF Init, Tree, NoTask
<1>5. Alone /\ SharedFrame /\ AbortClosed
  BY <1>1 DEF Init, Alone, SharedFrame, AbortClosed
<1> QED BY <1>3, <1>4, <1>5 DEF IInv

-----------------------------------------------------------------------------
(* The steps.                                                              *)

LEMMA ForkStep ==
  ASSUME IInv, Fork
  PROVE  IInv'
<1> DEFINE c == n + 1
<1>1. /\ mode = "user" /\ pc[curr] = "call" /\ n < NTasks /\ n' = c
      /\ queue' = Append(queue, c)
      /\ r0' = [r0 EXCEPT ![curr] = c, ![c] = 0]
      /\ fp' = [fp EXCEPT ![c] = fp[curr]]
      /\ frame' = [frame EXCEPT ![c] = frame[curr]]
      /\ rw' = [rw EXCEPT ![c] = {c, curr}]
      /\ pc' = [pc EXCEPT ![curr] = "store", ![c] = "store"]
      /\ parent' = [parent EXCEPT ![c] = curr]
      /\ forks' = [forks EXCEPT ![fp[curr]] = @ + 1]
      /\ UNCHANGED <<mode, curr, early, took>>
  BY DEF Fork, Results, ChildMayWrite
<1>2. /\ TypeOK /\ Tree /\ Alone
      /\ Created \subseteq Tasks /\ 1 \in Created /\ n \in Nat /\ n >= 1
      /\ NTasks \in Nat
  BY CreatedAreTasks DEF IInv
<1>3. /\ c \in Tasks /\ c \notin Created /\ Created' = Created \cup {c}
      /\ curr \in Created /\ curr \in Tasks /\ curr # c /\ fp[curr] = 1 /\ 1 \in Tasks
      /\ NoTask \notin Tasks
  <2>1. c \in Tasks /\ c \notin Created /\ 1 \in Tasks /\ NoTask \notin Tasks
    BY <1>1, <1>2 DEF Created, Tasks, NoTask
  <2>2. Created' = Created \cup {c}
    BY <1>1, <1>2 DEF Created
  <2>3. curr \in Created /\ fp[curr] = 1
    BY <1>2 DEF Tree
  <2> QED BY <1>2, <2>1, <2>2, <2>3
<1>4. Append(queue, c) \in Seq(Created') /\ Append(queue, c) \in Seq(Tasks)
  <2>1. queue \in Seq(Created \cup {c}) /\ queue \in Seq(Tasks)
    BY <1>2 DEF Tree, TypeOK
  <2> QED BY <1>3, <2>1
<1>5. forks' = [t \in Tasks |-> IF t = 1 THEN n' - 1 ELSE 0]
  BY <1>1, <1>2, <1>3 DEF Tree
<1>6. TypeOK'
  <2>1. n \in 0 .. NTasks /\ 0 \in 0 .. NTasks /\ n' - 1 = n
    BY <1>1, <1>2
  <2>2. forks' \in [Tasks -> 0 .. NTasks]
    BY <1>5, <2>1
  <2>3. fp' \in [Tasks -> Tasks] /\ frame' \in [Tasks -> Tasks \cup {0}]
        /\ rw' \in [Tasks -> SUBSET Tasks] /\ parent' \in [Tasks -> Tasks \cup {NoTask}]
        /\ r0' \in [Tasks -> Tasks \cup {0}]
        /\ pc' \in [Tasks -> {"none", "call", "store", "test", "branch", "spin"}]
    BY <1>1, <1>2, <1>3 DEF TypeOK
  <2> QED BY <1>1, <1>2, <1>3, <1>4, <2>2, <2>3 DEF TypeOK
<1>7. Tree'
  <2>1. ASSUME NEW t \in Created'
        PROVE  /\ fp'[t] = 1 /\ pc'[t] # "none"
               /\ parent'[t] \in Created' \cup {NoTask}
               /\ rw'[t] = IF parent'[t] = NoTask THEN {t} ELSE {t, parent'[t]}
    <3>1. CASE t = c
      BY <1>1, <1>2, <1>3, <3>1 DEF TypeOK
    <3>2. CASE t # c
      <4>1. t \in Created /\ t \in Tasks
        BY <1>2, <1>3, <3>2
      <4>2. fp'[t] = fp[t] /\ parent'[t] = parent[t] /\ rw'[t] = rw[t]
            /\ pc'[t] \in {pc[t], "store"}
        BY <1>1, <1>2, <1>3, <3>2, <4>1 DEF TypeOK
      <4> QED BY <1>2, <1>3, <4>1, <4>2 DEF Tree
    <3> QED BY <3>1, <3>2
  <2>2. ASSUME NEW t \in Tasks \ Created'
        PROVE  parent'[t] = NoTask /\ took'[t] = "none" /\ t \notin early'
    BY <1>1, <1>2, <1>3 DEF TypeOK, Tree
  <2>3. parent'[1] = NoTask
    BY <1>1, <1>2, <1>3 DEF TypeOK, Tree
  <2> QED BY <1>1, <1>3, <1>4, <1>5, <2>1, <2>2, <2>3 DEF Tree
<1>8. Alone'
  BY <1>1, <1>2 DEF Alone
<1>9. SharedFrame'
  <2> SUFFICES ASSUME n' = 2 PROVE Pair'
    BY DEF SharedFrame
  <2>1. n = 1 /\ c = 2 /\ curr = 1
    BY <1>1, <1>2, <1>3 DEF Created
  <2>2. took[1] = "none" /\ took[2] = "none" /\ 2 \notin early
    BY <1>2, <1>3, <2>1 DEF Alone, Tree
  <2>3. pc'[1] = "store" /\ pc'[2] = "store" /\ r0'[1] = 2 /\ r0'[2] = 0 /\ parent'[2] = 1
    BY <1>1, <1>2, <1>3, <2>1 DEF TypeOK
  <2> QED BY <1>1, <2>2, <2>3 DEF Pair
<1>10. AbortClosed'
  BY <1>1 DEF AbortClosed
<1> QED BY <1>6, <1>7, <1>8, <1>9, <1>10 DEF IInv

LEMMA StoreStep ==
  ASSUME IInv, Store
  PROVE  IInv'
<1>1. /\ mode = "user" /\ pc[curr] = "store"
      /\ frame' = [frame EXCEPT ![fp[curr]] = r0[curr]]
      /\ pc' = [pc EXCEPT ![curr] = "test"]
      /\ early' = IF parent[curr] # NoTask /\ pc[parent[curr]] \in {"store", "test"}
                  THEN early \cup {curr} ELSE early
      /\ UNCHANGED <<mode, n, queue, curr, r0, fp, rw, parent, forks, took>>
  BY DEF Store
<1>2. TypeOK /\ Tree /\ Alone /\ SharedFrame /\ Created \subseteq Tasks /\ 1 \in Created
  BY CreatedAreTasks DEF IInv
<1>3. /\ Created' = Created /\ curr \in Created /\ curr \in Tasks
      /\ fp[curr] = 1 /\ 1 \in Tasks
  BY <1>1, <1>2 DEF Created, Tree
<1>4. TypeOK'
  BY <1>1, <1>2, <1>3 DEF TypeOK
<1>5. Tree'
  <2>1. \A t \in Created : pc'[t] # "none"
    BY <1>1, <1>2, <1>3 DEF Tree, TypeOK
  <2>2. \A t \in Tasks \ Created : t \notin early'
    BY <1>1, <1>2, <1>3 DEF Tree
  <2> QED BY <1>1, <1>2, <1>3, <2>1, <2>2 DEF Tree
<1>6. Alone'
  BY <1>1, <1>2, <1>3 DEF Alone, Created
<1>7. SharedFrame'
  <2> SUFFICES ASSUME n = 2 PROVE Pair'
    BY <1>1 DEF SharedFrame
  <2>1. Pair /\ Created = {1, 2} /\ 2 \in Tasks
    BY <1>2 DEF SharedFrame, Created
  <2>2. CASE curr = 1
    <3>1. frame'[1] = 2 /\ pc'[1] = "test" /\ pc'[2] = pc[2] /\ took[1] = "none"
      BY <1>1, <1>2, <1>3, <2>1, <2>2 DEF Pair, TypeOK
    <3>2. early' = early
      BY <1>1, <1>2, <2>2 DEF Tree
    <3>3. 2 \in early \/ pc[2] = "store"
      BY <2>1, <3>1 DEF Pair
    <3> QED BY <1>1, <2>1, <3>1, <3>2, <3>3 DEF Pair
  <2>3. CASE curr = 2
    <3>1. frame'[1] = 0 /\ pc'[2] = "test" /\ pc'[1] = pc[1] /\ took[2] = "none"
      BY <1>1, <1>2, <1>3, <2>1, <2>3 DEF Pair, TypeOK
    <3>2. took[1] # "child"
      BY <1>1, <2>1, <2>3 DEF Pair
    <3>3. 2 \notin early' => took[1] = "parent"
      BY <1>1, <1>2, <1>3, <2>1, <2>3, <3>2 DEF Pair, TypeOK, NoTask
    <3> QED BY <1>1, <2>1, <3>1, <3>2, <3>3 DEF Pair
  <2> QED BY <1>3, <2>1, <2>2, <2>3
<1>8. AbortClosed'
  BY <1>1 DEF AbortClosed
<1> QED BY <1>4, <1>5, <1>6, <1>7, <1>8 DEF IInv

LEMMA TestStep ==
  ASSUME IInv, Test
  PROVE  IInv'
<1>1. /\ mode = "user" /\ pc[curr] = "test"
      /\ took' = [took EXCEPT ![curr] = IF frame[fp[curr]] # 0 THEN "parent" ELSE "child"]
      /\ pc' = [pc EXCEPT ![curr] = "branch"]
      /\ UNCHANGED <<mode, n, queue, curr, r0, fp, frame, rw, parent, forks, early>>
  BY DEF Test
<1>2. TypeOK /\ Tree /\ Alone /\ SharedFrame /\ Created \subseteq Tasks /\ 1 \in Created
  BY CreatedAreTasks DEF IInv
<1>3. /\ Created' = Created /\ curr \in Created /\ curr \in Tasks
      /\ fp[curr] = 1 /\ 1 \in Tasks
  BY <1>1, <1>2 DEF Created, Tree
<1>4. TypeOK'
  BY <1>1, <1>2, <1>3 DEF TypeOK
<1>5. Tree'
  <2>1. \A t \in Created : pc'[t] # "none"
    BY <1>1, <1>2, <1>3 DEF Tree, TypeOK
  <2>2. \A t \in Tasks \ Created : took'[t] = "none"
    BY <1>1, <1>2, <1>3 DEF Tree, TypeOK
  <2> QED BY <1>1, <1>2, <1>3, <2>1, <2>2 DEF Tree
<1>6. Alone'
  BY <1>1, <1>2, <1>3 DEF Alone, Created
<1>7. SharedFrame'
  <2> SUFFICES ASSUME n = 2 PROVE Pair'
    BY <1>1 DEF SharedFrame
  <2>1. Pair /\ Created = {1, 2} /\ 2 \in Tasks
    BY <1>2 DEF SharedFrame, Created
  <2>2. CASE curr = 1
    <3>1. /\ pc'[1] = "branch" /\ pc'[2] = pc[2] /\ took'[2] = took[2]
          /\ took'[1] = IF frame[1] # 0 THEN "parent" ELSE "child"
          /\ took[1] = "none"
      BY <1>1, <1>2, <1>3, <2>1, <2>2 DEF Pair, TypeOK
    <3>2. 2 \in early \/ pc[2] = "store"
      BY <2>1, <3>1 DEF Pair
    <3> QED BY <1>1, <2>1, <2>2, <3>1, <3>2 DEF Pair
  <2>3. CASE curr = 2
    <3>1. /\ pc'[2] = "branch" /\ pc'[1] = pc[1] /\ took'[1] = took[1]
          /\ took'[2] = IF frame[1] # 0 THEN "parent" ELSE "child"
          /\ took[2] = "none"
      BY <1>1, <1>2, <1>3, <2>1, <2>3 DEF Pair, TypeOK
    <3> QED BY <1>1, <2>1, <2>3, <3>1 DEF Pair
  <2> QED BY <1>3, <2>1, <2>2, <2>3
<1>8. AbortClosed'
  BY <1>1 DEF AbortClosed
<1> QED BY <1>4, <1>5, <1>6, <1>7, <1>8 DEF IInv

LEMMA StoreAbortsStep ==
  ASSUME IInv, StoreAborts
  PROVE  IInv'
<1>1. /\ fp[curr] \notin rw[curr] /\ mode' = "abort"
      /\ UNCHANGED <<n, queue, curr, pc, r0, fp, frame, rw, parent, forks, early, took>>
  BY DEF StoreAborts, FrameOpen
<1>2. Created' = Created
  BY <1>1 DEF Created
<1> QED BY <1>1, <1>2 DEF IInv, TypeOK, Tree, Alone, SharedFrame, Pair, AbortClosed

\* A step of a task that neither stores, nor tests, nor forks.
LEMMA QuietStep ==
  ASSUME IInv, mode = "user",
         pc[curr] = "branch", NEW p \in {"call", "spin"},
         pc' = [pc EXCEPT ![curr] = p],
         queue' \in Seq(Created), queue' \in Seq(Tasks),
         UNCHANGED <<mode, n, curr, r0, fp, frame, rw, parent, forks, early, took>>
  PROVE  IInv'
<1>1. /\ TypeOK /\ Tree /\ Alone /\ SharedFrame /\ Created \subseteq Tasks /\ 1 \in Created
      /\ Created' = Created /\ curr \in Created
  BY CreatedAreTasks DEF IInv, Tree, Created
<1>2. TypeOK'
  BY <1>1 DEF TypeOK
<1>3. Tree'
  <2>1. \A t \in Created : pc'[t] # "none"
    BY <1>1 DEF Tree, TypeOK
  <2> QED BY <1>1, <2>1 DEF Tree
<1>4. Alone'
  BY <1>1 DEF Alone, Created
<1>5. SharedFrame'
  <2> SUFFICES ASSUME n = 2 PROVE Pair'
    BY DEF SharedFrame
  <2>1. Pair /\ Created = {1, 2}
    BY <1>1 DEF SharedFrame, Created
  <2>2. \A t \in {1, 2} : /\ pc'[t] = "store" <=> pc[t] = "store"
                          /\ pc'[t] = "test" <=> pc[t] = "test"
    BY <1>1, <2>1 DEF TypeOK
  <2> QED BY <2>1, <2>2 DEF Pair
<1>6. AbortClosed'
  BY DEF AbortClosed
<1> QED BY <1>2, <1>3, <1>4, <1>5, <1>6 DEF IInv

\* What is left of a sequence without its last element.
LEMMA FrontStays ==
  ASSUME NEW S, NEW s \in Seq(S), s # <<>>
  PROVE  Front(s) \in Seq(S)
<1>1. Len(s) \in Nat \ {0} /\ \A i \in 1 .. Len(s) : s[i] \in S
  BY EmptySeq, ElementOfSeq
<1>2. Front(s) = [i \in 1 .. Len(s) - 1 |-> s[i]]
  BY <1>1 DEF Front
<1>3. Len(s) - 1 \in Nat /\ \A i \in 1 .. Len(s) - 1 : s[i] \in S
  BY <1>1
<1> QED BY <1>2, <1>3, SeqDef

LEMMA ExitStep ==
  ASSUME IInv, Exit
  PROVE  IInv'
<1>1. queue \in Seq(Created) /\ queue \in Seq(Tasks)
  BY DEF IInv, Tree, TypeOK
<1>2. queue' \in Seq(Created) /\ queue' \in Seq(Tasks)
  <2>1. queue # <<>> => Front(queue) \in Seq(Created) /\ Front(queue) \in Seq(Tasks)
    BY <1>1, FrontStays
  <2> QED BY <1>1, <2>1 DEF Exit
<1> QED BY <1>2, QuietStep DEF Exit

LEMMA TickStep ==
  ASSUME IInv, Tick
  PROVE  IInv'
<1>1. /\ mode = "user" /\ queue # <<>> /\ curr' = Head(queue)
      /\ queue' = Append(Tail(queue), Head(queue))
      /\ UNCHANGED <<mode, n, pc, r0, fp, frame, rw, parent, forks, early, took>>
  BY DEF Tick
<1>2. TypeOK /\ Tree /\ Alone /\ SharedFrame /\ Created \subseteq Tasks /\ Created' = Created
  BY <1>1, CreatedAreTasks DEF IInv, Created
<1>3. /\ Head(queue) \in Created /\ Head(queue) \in Tasks
      /\ queue' \in Seq(Created) /\ queue' \in Seq(Tasks)
  <2>1. queue \in Seq(Created) /\ queue \in Seq(Tasks)
    BY <1>2 DEF Tree, TypeOK
  <2>2. Head(queue) \in Created /\ Tail(queue) \in Seq(Created) /\ Tail(queue) \in Seq(Tasks)
    BY <1>1, <2>1
  <2> QED BY <1>1, <1>2, <2>2
<1>4. TypeOK' /\ Alone' /\ AbortClosed'
  BY <1>1, <1>2, <1>3 DEF TypeOK, Alone, AbortClosed
<1>5. Tree'
  BY <1>1, <1>2, <1>3 DEF Tree
<1>6. SharedFrame'
  BY <1>1, <1>2 DEF SharedFrame, Pair
<1> QED BY <1>4, <1>5, <1>6 DEF IInv

LEMMA NextStep ==
  ASSUME IInv, [Next]_vars
  PROVE  IInv'
<1>1. CASE Fork
  BY <1>1, ForkStep
<1>2. CASE Store
  BY <1>2, StoreStep
<1>3. CASE StoreAborts
  BY <1>3, StoreAbortsStep
<1>4. CASE Test
  BY <1>4, TestStep
<1>5. CASE ForkNext
  <2>1. queue \in Seq(Created) /\ queue \in Seq(Tasks)
    BY DEF IInv, Tree, TypeOK
  <2> QED BY <1>5, <2>1, QuietStep DEF ForkNext
<1>6. CASE Exit
  BY <1>6, ExitStep
<1>7. CASE Tick
  BY <1>7, TickStep
<1>8. CASE UNCHANGED vars
  <2>1. Created' = Created
    BY <1>8 DEF vars, Created
  <2> QED BY <1>8, <2>1
      DEF vars, IInv, TypeOK, Tree, Alone, SharedFrame, Pair, AbortClosed
<1> QED BY <1>1, <1>2, <1>3, <1>4, <1>5, <1>6, <1>7, <1>8 DEF Next

LEMMA Invariant == Spec => []IInv
<1>1. IInv /\ [Next]_vars => IInv'
  BY NextStep
<1> QED BY <1>1, InitHolds, PTL DEF Spec

-----------------------------------------------------------------------------
(* The theorems.                                                           *)

\* After the first fork from a frame the two that are through their tests are
\* the tasks 1 and 2 (syscall.c:128-154).
LEMMA ThroughIsPair ==
  ASSUME IInv, NEW t \in Tasks, NEW c \in Tasks, Through(t, c)
  PROVE  t = 1 /\ c = 2 /\ Pair
<1>1. TypeOK /\ Tree /\ SharedFrame /\ n \in Nat /\ n >= 1
  BY CreatedAreTasks DEF IInv
<1>2. t = 1 /\ n = 2
  BY <1>1 DEF Through, Tree
<1>3. c \in Created /\ c # 1
  BY <1>1, <1>2 DEF Through, Tree, NoTask
<1> QED BY <1>1, <1>2, <1>3 DEF Created, SharedFrame

\* Every state of the fork model is of its types (syscall.c:93-163).
THEOREM TypeCorrect == Spec => []TypeOK
<1>1. IInv => TypeOK
  BY DEF IInv
<1> QED BY <1>1, Invariant, PTL

\* If the parent has tested r before the child stores to it, each takes its
\* own branch, for every placing of the ticks (syscall.c:128-154,
\* fork_test.c:38-51).
THEOREM ForkIsRight == Spec => []ForkIsRightUnlessOvertaken
<1>1. IInv => ForkIsRightUnlessOvertaken
  <2> SUFFICES ASSUME IInv, NEW t \in Tasks, NEW c \in Tasks,
                      Through(t, c), c \notin early
               PROVE  took[t] = "parent" /\ took[c] = "child"
    BY DEF ForkIsRightUnlessOvertaken
  <2>1. t = 1 /\ c = 2 /\ Pair /\ TypeOK
    BY ThroughIsPair DEF IInv
  <2>2. took[c] \in {"parent", "child"}
    BY <2>1 DEF TypeOK, Through
  <2> QED BY <2>1, <2>2 DEF Pair, Through
<1> QED BY <1>1, Invariant, PTL

\* In any order of their stores and tests one of parent and child at least
\* takes its own branch (syscall.c:128-154).
THEOREM NotExchanged == Spec => []BranchesNotExchanged
<1>1. IInv => BranchesNotExchanged
  BY ThroughIsPair DEF BranchesNotExchanged, Pair
<1> QED BY <1>1, Invariant, PTL

\* The frame of the function is open to its owner and to the owner's
\* children, whoever runs (syscall.c:152-154).
THEOREM OnlyGrandchildrenAbort == Spec => []AbortsOnlyGrandchildren
<1>1. IInv => AbortsOnlyGrandchildren
  <2> SUFFICES ASSUME IInv, mode = "abort"
               PROVE  fp[curr] # curr /\ fp[curr] # parent[curr]
    BY DEF AbortsOnlyGrandchildren
  <2>1. fp[curr] \notin rw[curr] /\ curr \in Created /\ fp[curr] = 1
    BY DEF IInv, AbortClosed, Tree
  <2>2. rw[curr] = IF parent[curr] = NoTask THEN {curr} ELSE {curr, parent[curr]}
    BY <2>1 DEF IInv, Tree
  <2> QED BY <2>1, <2>2 DEF NoTask
<1> QED BY <1>1, Invariant, PTL
===============================================================================
