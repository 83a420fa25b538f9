------------------------------- MODULE Kernel -------------------------------
(***************************************************************************)
(* The task life cycle of the kernel: creation, fork, dispatch and exit,   *)
(* with the three pools a task lives on.                                   *)
(*                                                                         *)
(* A task is named by the 1M page it owns: its TASK_INFO lies at the start *)
(* of the page (kernel/task.c:191-221).  A ready list is the sequence of   *)
(* tasks met when next_ptr is followed from its head; KernelLists has the  *)
(* pointers.  The free pages and the free kernel blocks are sequences too, *)
(* because both lists are taken at the head and given back at the end.     *)
(*                                                                         *)
(* One CPU; system calls and the timer handler run with interrupts masked  *)
(* (kernel/exception.s), so each is one action and what interleaves is the *)
(* tick with the code of the user tasks.                                   *)
(***************************************************************************)
EXTENDS Naturals, SequencesExt

CONSTANTS
  NPages,           \* pages of user memory: PAGE_NUM
  NKBlks,           \* 16K kernel blocks on the free list after boot
  NPrio,            \* MAXNUM_PRIORITY; 0 is the highest priority
  MaxTid,           \* bound of the checks: the last task id handed out
  ExitBehindSpawn   \* may a program call __exit in the very time slice in
                    \* which it put a new task behind itself?

ASSUME KernelAssumption ==
  /\ NPages \in Nat /\ NPages >= 2      \* the directory tree and the shell
  /\ NKBlks \in Nat /\ NKBlks >= 2      \* the IPC queue and the shell's table
  /\ NPrio \in Nat \ {0}
  /\ MaxTid \in Nat
  /\ ExitBehindSpawn \in BOOLEAN

Pages == 0 .. NPages - 1
KBlks == 0 .. NKBlks - 1
Prios == 0 .. NPrio - 1

RootPage  == 0      \* path_tree_init takes the first page
ShellPage == 1      \* do_task_create takes the second for the shell
QueueBlk  == 0      \* ipc_buf_alloc takes the first kernel block
ShellPgt  == 1      \* the shell's page table is in the second

VARIABLES
  mode,       \* "user": a task runs.  "getc": the kernel waits for a key.
              \* The CPU has left the system: "restart" on request, "abort"
              \* on a data abort of user code, "wild" after the kernel went
              \* through a NULL or dangling pointer.
  curr,       \* curr_running_task
  ready,      \* task_ready_list
  status,     \* task_status in each page ("none": never held a task)
  priority,   \* priority in each page
  tid,        \* task_id in each page
  taskid,     \* the last task id given out
  free,       \* the free page list
  inuse,      \* the in-use page list, whose order no operation here sees
  kfree,      \* the free list of kernel blocks
  pgt,        \* pgtbase in each page
  rw,         \* per kernel block: the pages that, read as a level 1 table,
              \* it lets user code write
  spinning,   \* tasks in the for(;;) at the end of __exit
  newborn     \* history: tasks enqueued since the last dispatch

taskVars == <<status, priority, tid, taskid>>
poolVars == <<free, inuse, kfree, pgt, rw>>
vars == <<mode, curr, ready, taskVars, poolVars, spinning, newborn>>

\* Every task on a ready list.
QueuedIn(r) == UNION {Range(r[p]) : p \in Prios}
Queued == QueuedIn(ready)

-----------------------------------------------------------------------------
(* The operations on the lists.                                            *)

\* Mutant: a new node becomes the head.
EnqueueFirst(r, t, p) == [r EXCEPT ![p] = <<t>> \o @]

\* task_enqueue: to the end of the list of the task's priority.
TaskEnqueue(r, t, p) == [r EXCEPT ![p] = Append(@, t)]

\* Mutant: task_pop without effect.
PopNothing(r, t, p) == r

\* Mutant: "only itself on the list" is taken for granted.
PopAll(r, t, p) == [r EXCEPT ![p] = <<>>]

\* Mutant: the head is removed, as task_dequeue does.
PopHead(r, t, p) == IF r[p] # <<>> THEN [r EXCEPT ![p] = Tail(@)] ELSE r

\* task_pop: only the last task of a list is ever removed; a task with a
\* successor stays where it is.
TaskPop(r, t, p) ==
  IF r[p] # <<>> /\ Last(r[p]) = t THEN [r EXCEPT ![p] = Front(@)] ELSE r

\* Mutant: the ready lists are searched from the lowest priority up.
LowestFirst(r, s) ==
  {p \in Prios : /\ r[p] # <<>> /\ s[Head(r[p])] = "READY"
                 /\ \A q \in Prios : q > p => r[q] = <<>>}

\* The index at which choose_task stops: the first non-empty list whose head
\* is READY.  Empty when the search falls off the end of the function.
Chosen(r, s) ==
  {p \in Prios : /\ r[p] # <<>> /\ s[Head(r[p])] = "READY"
                 /\ \A q \in Prios : q < p => ~(r[q] # <<>> /\ s[Head(r[q])] = "READY")}

\* Mutant: page_free takes the page off the in-use list only.
PageLost(list, t) == list

\* page_free.  No free page is ever marked FREE, so its test of the status
\* always passes.
PageFree(list, t) == Append(list, t)

\* Mutant: the block of the page table is forgotten.
KBlkLost(list, k) == list

\* kblk_free.
KBlkFree(list, k) == Append(list, k)

\* Mutant: only the entries that grant access are written.
KeepOldEntries(old, t) == old \cup {t}

\* task_pgt_setup: all user memory is closed, then the task's page opened.
TaskPgtSetup(old, t) == {t}

\* Mutant: the id is advanced by the caller and by create_task.
TidTwice == taskid + 2

\* Mutant: the counter is not advanced.
SameTid == taskid

\* ++taskid in create_task and fork_handler.
NextTid == taskid + 1

-----------------------------------------------------------------------------
\* What main() leaves behind when the first task starts.
BootReady == [p \in Prios |-> IF p = NPrio - 1 THEN <<ShellPage>> ELSE <<>>]
BootStatus == [t \in Pages |-> IF t = ShellPage THEN "RUNNING" ELSE "none"]
BootRw == [k \in KBlks |-> IF k = ShellPgt THEN {ShellPage} ELSE {}]
BootFree == [i \in 1 .. NPages - 2 |-> i + 1]
BootKFree == [i \in 1 .. NKBlks - 2 |-> i + 1]

\* main(): the page lists, the kernel blocks, the directory tree, the shell.
Init ==
  /\ mode = "user" /\ curr = ShellPage
  /\ ready = BootReady /\ status = BootStatus
  /\ priority = [t \in Pages |-> NPrio - 1]
  /\ tid = [t \in Pages |-> 0] /\ taskid = 0
  /\ free = BootFree /\ inuse = {RootPage, ShellPage}
  /\ kfree = BootKFree /\ pgt = [t \in Pages |-> ShellPgt] /\ rw = BootRw
  /\ spinning = {} /\ newborn = {}

\* Mutant: __exit returns to its caller.
ExitReturns == mode = "user"

\* The running task executes code of its own, so it may make a system call.
InProgram == mode = "user" /\ curr \notin spinning

\* Both allocations of a new task find a block.
PoolsLeft == free # <<>> /\ kfree # <<>>

\* A page table block and a page become a task of priority p, whose table
\* lets it write the pages of "shared" besides its own.
Spawn(p, shared) ==
  LET t == Head(free)
      k == Head(kfree)
  IN  /\ InProgram
      /\ PoolsLeft
      /\ taskid < MaxTid
      /\ t \notin Queued
      /\ free' = Tail(free)
      /\ inuse' = inuse \cup {t}
      /\ kfree' = Tail(kfree)
      /\ pgt' = [pgt EXCEPT ![t] = k]
      /\ rw' = [rw EXCEPT ![k] = TaskPgtSetup(@, t) \cup shared]
      /\ taskid' = NextTid
      /\ tid' = [tid EXCEPT ![t] = NextTid]
      /\ priority' = [priority EXCEPT ![t] = p]
      /\ status' = [status EXCEPT ![t] = "READY"]
      /\ ready' = TaskEnqueue(ready, t, p)
      /\ spinning' = spinning \ {t}
      /\ newborn' = newborn \cup {t}
      /\ UNCHANGED <<mode, curr>>

\* __do_taskCreate.
TaskCreate(p) == Spawn(p, {})

\* __fork: same priority; the child may also write its parent's page, which
\* the frame pointer copied with the stack points into.
Fork == Spawn(priority[curr], {curr})

\* page_alloc and kblk_alloc do not look whether their list is empty: taking
\* the last node stores through NULL, which may be ignored or abort, and
\* taking one more reads through it.  A page that is still on a ready list
\* (see Exit) is wiped under the list.
SpawnGoesWild ==
  /\ InProgram
  /\ taskid < MaxTid
  /\ \/ Len(free) <= 1
     \/ Len(kfree) <= 1
     \/ free # <<>> /\ Head(free) \in Queued
  /\ mode' = "wild"
  /\ UNCHANGED <<curr, ready, taskVars, poolVars, spinning, newborn>>

\* __exit.  The page and the table go back to their lists while the CPU is
\* still using both; the task spins until the next tick.  The shell's command
\* loop never ends, so the shell never exits.
Exit ==
  /\ InProgram
  /\ curr # ShellPage
  /\ \/ ExitBehindSpawn
     \/ ready[priority[curr]] # <<>> /\ Last(ready[priority[curr]]) = curr
  /\ kfree # <<>>
  /\ status' = [status EXCEPT ![curr] = "TERMINATE"]
  /\ ready' = TaskPop(ready, curr, priority[curr])
  /\ inuse' = inuse \ {curr}
  /\ free' = PageFree(free, curr)
  /\ kfree' = KBlkFree(kfree, pgt[curr])
  /\ spinning' = spinning \cup {curr}
  /\ UNCHANGED <<mode, curr, priority, tid, taskid, pgt, rw, newborn>>

\* kblk_free follows the head of an empty list.
ExitGoesWild ==
  /\ InProgram
  /\ curr # ShellPage
  /\ kfree = <<>>
  /\ mode' = "wild"
  /\ UNCHANGED <<curr, ready, taskVars, poolVars, spinning, newborn>>

\* choose_task and sched: the head of the chosen list runs, and is put back at
\* the end of the list of its priority.
Dispatch(s) ==
  \/ \E p \in Chosen(ready, s) :
       LET t == Head(ready[p])
       IN  /\ curr' = t
           /\ status' = [s EXCEPT ![t] = "RUNNING"]
           /\ ready' = TaskEnqueue([ready EXCEPT ![p] = Tail(@)], t, priority[t])
           /\ newborn' = {}
           /\ mode' = "user"
  \/ /\ Chosen(ready, s) = {}
     /\ mode' = "wild"
     /\ UNCHANGED <<curr, ready, status, newborn>>

\* timer0_isr.  It finds a task in user code, spinning ones included, and
\* makes it READY whatever its status was.
Tick ==
  /\ mode = "user"
  /\ Dispatch([status EXCEPT ![curr] = "READY"])
  /\ UNCHANGED <<priority, tid, taskid, poolVars, spinning>>

\* __yield.  The stub stores to the timer before the svc, in user mode, where
\* the tables of task_pgt_setup close the device's section: a data abort, and
\* yield_handler is never reached.
Yield ==
  /\ InProgram
  /\ mode' = "abort"
  /\ UNCHANGED <<curr, ready, taskVars, poolVars, spinning, newborn>>

\* __read of the console: uart_getC polls inside the handler.
ReadConsole ==
  /\ InProgram
  /\ mode' = "getc"
  /\ UNCHANGED <<curr, ready, taskVars, poolVars, spinning, newborn>>

\* The last key the reader asked for.
KeyPressed ==
  /\ mode = "getc"
  /\ mode' = "user"
  /\ UNCHANGED <<curr, ready, taskVars, poolVars, spinning, newborn>>

\* __restart arms the watchdog.
Restart ==
  /\ InProgram
  /\ mode' = "restart"
  /\ UNCHANGED <<curr, ready, taskVars, poolVars, spinning, newborn>>

\* The watchdog, armed by restart_handler or by an abort handler, resets the
\* board, and main() runs again.
Boot ==
  /\ mode \in {"restart", "abort", "wild"}
  /\ mode' = "user" /\ curr' = ShellPage
  /\ ready' = BootReady /\ status' = BootStatus
  /\ priority' = [t \in Pages |-> NPrio - 1]
  /\ tid' = [t \in Pages |-> 0] /\ taskid' = 0
  /\ free' = BootFree /\ inuse' = {RootPage, ShellPage}
  /\ kfree' = BootKFree /\ pgt' = [t \in Pages |-> ShellPgt] /\ rw' = BootRw
  /\ spinning' = {} /\ newborn' = {}

Next ==
  \/ \E p \in Prios : TaskCreate(p)
  \/ Fork
  \/ SpawnGoesWild
  \/ Exit
  \/ ExitGoesWild
  \/ Tick
  \/ Yield
  \/ ReadConsole
  \/ KeyPressed
  \/ Restart
  \/ Boot

Spec == Init /\ [][Next]_vars

\* An overflow of the timer stays pending while the kernel is at work, so a
\* tick that is possible again and again is taken.  Nothing obliges anybody to
\* press a key or the watchdog to fire.
FairSpec == Spec /\ SF_vars(Tick)

-----------------------------------------------------------------------------
(* Properties.                                                             *)

\* The type invariant.
TypeOK ==
  /\ mode \in {"user", "getc", "restart", "abort", "wild"}
  /\ curr \in Pages
  /\ ready \in [Prios -> Seq(Pages)]
  /\ status \in [Pages -> {"none", "READY", "RUNNING", "TERMINATE"}]
  /\ priority \in [Pages -> Prios]
  /\ tid \in [Pages -> 0 .. MaxTid]
  /\ taskid \in 0 .. MaxTid
  /\ free \in Seq(Pages)
  /\ inuse \in SUBSET Pages
  /\ kfree \in Seq(KBlks)
  /\ pgt \in [Pages -> KBlks]
  /\ rw \in [KBlks -> SUBSET Pages]
  /\ spinning \in SUBSET Pages
  /\ newborn \in SUBSET Pages

\* No task is on a ready list twice; it is on the list of its own priority,
\* RUNNING if it is the current task and READY otherwise.
ReadyListsSound ==
  \A p \in Prios :
    /\ IsInjective(ready[p])
    /\ \A t \in Range(ready[p]) :
         /\ priority[t] = p
         /\ status[t] = IF t = curr THEN "RUNNING" ELSE "READY"

\* choose_task has no return statement for the case that no list has a READY
\* head (task.c:37-56): whenever a tick may come, there is one.
SomeTaskIsChosen ==
  mode = "user" => Chosen(ready, [status EXCEPT ![curr] = "READY"]) # {}

\* exit_handler takes the task off its ready list (syscall.c:86-87): a task that
\* has called __exit is never scheduled again, although the tick that ends
\* it sets its status back to READY.
ExitedTaskLeavesQueues == spinning \cap Queued = {}

\* Every page is free or in use, once, and the pages in use are those of the
\* directory tree and of the tasks on the ready lists: no page leaks over
\* creations, forks and exits, and none is free under a task.
PagesAccounted ==
  /\ IsInjective(free)
  /\ Range(free) = Pages \ inuse
  /\ inuse = {RootPage} \cup Queued

\* Every kernel block is free, or the IPC queue, or the page table of exactly
\* one task on a ready list.
KBlksAccounted ==
  /\ IsInjective(kfree)
  /\ Range(kfree) = KBlks \ ({QueueBlk} \cup {pgt[t] : t \in Queued})
  /\ \A t \in Queued : pgt[t] # QueueBlk
  /\ \A t, u \in Queued : pgt[t] = pgt[u] => t = u

\* A task's table opens its own page and at most one more, the page its parent
\* had at the fork, however often the block was a table before.
TableOpensOwnPage ==
  \A t \in Queued : /\ t \in rw[pgt[t]]
                     /\ \E u \in Pages : rw[pgt[t]] \subseteq {t, u}

\* Tasks on the ready lists have different ids.
TidsUnique == \A t, u \in Queued : tid[t] = tid[u] => t = u

\* A creation does not reschedule, so a task may wait behind one of lower
\* priority, but only until the next dispatch: whoever waits above the current
\* task, or behind it in its own list, was put there by the current task.
OnlyNewbornOvertaken ==
  /\ \A p \in Prios : p < priority[curr] => Range(ready[p]) \subseteq newborn
  /\ curr \notin spinning =>
       LET own == ready[priority[curr]]
       IN  \E i \in DOMAIN own :
             own[i] = curr /\ \A j \in DOMAIN own : j > i => own[j] \in newborn

\* The table the CPU translates through is not rewritten, neither a waiting
\* task's nor the freed one of a task that is still spinning in __exit.
ActiveTablesStable ==
  [][mode' = "user" /\ mode \in {"user", "getc"} =>
       \A t \in Queued \cup {curr} : rw'[pgt[t]] = rw[pgt[t]]]_vars

\* The i-th task of list p exits or is dispatched, or keeps its place or gets a
\* better one; with nobody above it, a tick takes it a place forward.
MovesUp(p, i) ==
  LET t == ready[p][i]
      top == \A q \in Prios : q < p => ready[q] = <<>>
  IN  \/ t \in spinning'
      \/ Tick /\ curr' = t
      \/ \E j \in DOMAIN ready'[p] :
           ready'[p][j] = t /\ IF Tick /\ top THEN j < i ELSE j <= i

\* No step but its own dispatch or exit moves a waiting task back on its list,
\* whatever is created, forked or ended meanwhile; and while nobody waits above
\* it, every tick dispatches it or takes one place off its distance to the head
\* (task.c:37-56, 245-296).
WaitersMoveUp ==
  [][\A p \in Prios : \A i \in DOMAIN ready[p] :
       mode \in {"user", "getc"} => MovesUp(p, i)]_vars

\* Round robin: a task that stays on its list with nobody above it is
\* dispatched again and again, as long as the console does not keep the
\* kernel waiting for a key for ever.
TopQueued(t) ==
  /\ t \in Range(ready[priority[t]])
  /\ \A p \in Prios : p < priority[t] => ready[p] = <<>>

RoundRobin ==
  \A t \in Pages :
    ([]<>(mode = "user") /\ <>[]TopQueued(t)) => []<>(curr = t /\ mode = "user")
=============================================================================
