--------------------------------- MODULE Fork ---------------------------------
(***************************************************************************)
(* What __fork gives to the function that calls it:                        *)
(*     int r = __fork() ; ... if (r != 0) <parent> else <child>            *)
(* (userproc/fork_test.c:38-51), at the level of the instructions that     *)
(* touch r.                                                                *)
(*                                                                         *)
(* fork_handler copies the stack and moves the stack pointer to the copy,  *)
(* but the frame pointer that the function saved is a word of the stack    *)
(* and is copied as it is.  The code is built without optimisation, so r   *)
(* lies in memory and is addressed through the frame pointer: parent and   *)
(* child share it, and set_pte lets the child write there.                 *)
(*                                                                         *)
(* The tasks are of one priority; task k is the k-th one and owns the k-th *)
(* page.  Pages do not come back here: the life of pages is Kernel's.      *)
(***************************************************************************)
EXTENDS Naturals, SequencesExt

CONSTANTS
  NTasks,       \* bound of the checks: tasks in all
  ForksAgain    \* may the function call __fork once more after its test?

ASSUME ForkAssumption ==
  /\ NTasks \in Nat \ {0}
  /\ ForksAgain \in BOOLEAN

Tasks == 1 .. NTasks
NoTask == 0

VARIABLES
  mode,      \* "user", or "abort" after a data abort
  n,         \* tasks created so far
  queue,     \* the ready list of their priority
  curr,      \* curr_running_task
  pc,        \* "none": not created.  The next thing a task does: "call"
             \* __fork, "store" its result in r, "test" r; "branch": it took
             \* a branch; "spin": it is in the for(;;) of __exit
  r0,        \* the register with the result of __fork
  fp,        \* the page the frame pointer of the function points into
  frame,     \* r, in the copy of the function's frame in each page
  rw,        \* the pages each task may write
  parent,    \* history: who forked a task
  forks,     \* history: calls of __fork from a frame
  early,     \* history: tasks that stored r while their parent had not
             \* tested it yet
  took       \* history: the branch each task took last

vars == <<mode, n, queue, curr, pc, r0, fp, frame, rw, parent, forks, early, took>>

\* fork_test_main, started by the shell, up to its call of __fork.
Init ==
  /\ mode = "user" /\ n = 1 /\ queue = <<1>> /\ curr = 1
  /\ pc = [t \in Tasks |-> IF t = 1 THEN "call" ELSE "none"]
  /\ r0 = [t \in Tasks |-> 0]
  /\ fp = [t \in Tasks |-> t]
  /\ frame = [t \in Tasks |-> 0]
  /\ rw = [t \in Tasks |-> {t}]
  /\ parent = [t \in Tasks |-> NoTask]
  /\ forks = [t \in Tasks |-> 0]
  /\ early = {}
  /\ took = [t \in Tasks |-> "none"]

-----------------------------------------------------------------------------
\* Mutant: the id is advanced once more after the parent got it.
IdTooHigh(t, c) == [r0 EXCEPT ![t] = c + 1, ![c] = 0]

\* Mutant: the two results are exchanged.
ResultsExchanged(t, c) == [r0 EXCEPT ![t] = 0, ![c] = c]

\* Mutant: the child's copy of the context keeps the parent's result.
ChildKeepsResult(t, c) == [r0 EXCEPT ![t] = c, ![c] = c]

\* The results of fork_handler: 0 to the child, its id to the parent.
Results(t, c) == [r0 EXCEPT ![t] = c, ![c] = 0]

\* Mutant: set_pte is forgotten.
OwnPageOnly(t, c) == {c}

\* task_pgt_setup and set_pte.
ChildMayWrite(t, c) == {c, t}

\* fork_handler, and the return through the stub and __fork of both tasks.
Fork ==
  LET c == n + 1
  IN  /\ mode = "user"
      /\ pc[curr] = "call"
      /\ n < NTasks
      /\ n' = c
      /\ queue' = Append(queue, c)
      /\ r0' = Results(curr, c)
      /\ fp' = [fp EXCEPT ![c] = fp[curr]]
      /\ frame' = [frame EXCEPT ![c] = frame[curr]]
      /\ rw' = [rw EXCEPT ![c] = ChildMayWrite(curr, c)]
      /\ pc' = [pc EXCEPT ![curr] = "store", ![c] = "store"]
      /\ parent' = [parent EXCEPT ![c] = curr]
      /\ forks' = [forks EXCEPT ![fp[curr]] = @ + 1]
      /\ UNCHANGED <<mode, curr, early, took>>

\* The frame of the function is in a page the task may use.
FrameOpen == fp[curr] \in rw[curr]

\* r = <result>.
Store ==
  /\ mode = "user"
  /\ pc[curr] = "store"
  /\ FrameOpen
  /\ frame' = [frame EXCEPT ![fp[curr]] = r0[curr]]
  /\ pc' = [pc EXCEPT ![curr] = "test"]
  /\ early' = IF parent[curr] # NoTask /\ pc[parent[curr]] \in {"store", "test"}
              THEN early \cup {curr} ELSE early
  /\ UNCHANGED <<mode, n, queue, curr, r0, fp, rw, parent, forks, took>>

\* The same instruction through a frame pointer into a page that is closed.
StoreAborts ==
  /\ mode = "user"
  /\ pc[curr] = "store"
  /\ ~FrameOpen
  /\ mode' = "abort"
  /\ UNCHANGED <<n, queue, curr, pc, r0, fp, frame, rw, parent, forks, early, took>>

\* if (r != 0).
Test ==
  /\ mode = "user"
  /\ pc[curr] = "test"
  /\ took' = [took EXCEPT ![curr] = IF frame[fp[curr]] # 0 THEN "parent" ELSE "child"]
  /\ pc' = [pc EXCEPT ![curr] = "branch"]
  /\ UNCHANGED <<mode, n, queue, curr, r0, fp, frame, rw, parent, forks, early>>

\* The branch goes on to another __fork of the same function.
ForkNext ==
  /\ mode = "user"
  /\ ForksAgain
  /\ pc[curr] = "branch"
  /\ pc' = [pc EXCEPT ![curr] = "call"]
  /\ UNCHANGED <<mode, n, queue, curr, r0, fp, frame, rw, parent, forks, early, took>>

\* __exit at the end of the branch: task_pop removes the task only if nobody
\* is behind it.
Exit ==
  /\ mode = "user"
  /\ pc[curr] = "branch"
  /\ pc' = [pc EXCEPT ![curr] = "spin"]
  /\ queue' = IF queue # <<>> /\ Last(queue) = curr THEN Front(queue) ELSE queue
  /\ UNCHANGED <<mode, n, curr, r0, fp, frame, rw, parent, forks, early, took>>

\* timer0_isr, between any two instructions: the head of the list runs and is
\* put at its end.
Tick ==
  /\ mode = "user"
  /\ queue # <<>>
  /\ curr' = Head(queue)
  /\ queue' = Append(Tail(queue), Head(queue))
  /\ UNCHANGED <<mode, n, pc, r0, fp, frame, rw, parent, forks, early, took>>

Next ==
  \/ Fork
  \/ Store
  \/ StoreAborts
  \/ Test
  \/ ForkNext
  \/ Exit
  \/ Tick

Spec == Init /\ [][Next]_vars

-----------------------------------------------------------------------------
(* Properties.                                                             *)

\* The type invariant.
TypeOK ==
  /\ mode \in {"user", "abort"}
  /\ n \in Tasks
  /\ queue \in Seq(Tasks)
  /\ curr \in Tasks
  /\ pc \in [Tasks -> {"none", "call", "store", "test", "branch", "spin"}]
  /\ r0 \in [Tasks -> Tasks \cup {0}]
  /\ fp \in [Tasks -> Tasks]
  /\ frame \in [Tasks -> Tasks \cup {0}]
  /\ rw \in [Tasks -> SUBSET Tasks]
  /\ parent \in [Tasks -> Tasks \cup {NoTask}]
  /\ forks \in [Tasks -> 0 .. NTasks]
  /\ early \in SUBSET Tasks
  /\ took \in [Tasks -> {"none", "parent", "child"}]

\* Parent t and child c are through the test after the only fork from the
\* frame they share.
Through(t, c) ==
  /\ parent[c] = t /\ fp[c] = t /\ forks[t] = 1
  /\ took[t] # "none" /\ took[c] # "none"

\* The sharing of r does harm in one order only: if the parent has tested r
\* before the child stores to it, each of them takes its own branch, whatever
\* the ticks do (syscall.c:128-154, fork_test.c:38-51).
ForkIsRightUnlessOvertaken ==
  \A t, c \in Tasks :
    Through(t, c) /\ c \notin early => took[t] = "parent" /\ took[c] = "child"

\* Parent and child never exchange their branches: in any order of their
\* stores and tests one of them at least takes its own.
BranchesNotExchanged ==
  \A t, c \in Tasks :
    Through(t, c) => ~(took[t] = "child" /\ took[c] = "parent")

\* A task loses the page its frame pointer points into only if it was forked
\* by a task that had been forked itself (syscall.c:152-154): a frame is
\* open to its owner and to the owner's children.
AbortsOnlyGrandchildren ==
  mode = "abort" => fp[curr] # curr /\ fp[curr] # parent[curr]

\* After a fork the parent takes the parent's branch and the child takes the
\* child's (fork_test.c:41-50).
BranchesTellApart ==
  \A t, c \in Tasks : Through(t, c) => took[t] = "parent" /\ took[c] = "child"
=============================================================================
