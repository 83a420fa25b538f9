# BeagleboneLabOS: specifications and proofs

TLA+ modules for BeagleboneLabOS, a small preemptive kernel for the BeagleBone
Black (ARMv7-A, one CPU) with its shell and test programs, the TLC
configurations that check them on small instances, and TLAPS proofs of what
matters most. Paths below are relative to `src/`; every definition was
translated from the code, and `PROJECT.json` names its lines.

## 1. The system

### How it runs

User tasks run in user mode on page tables of their own. The kernel is entered
in two ways only: a system call (`svc`, `kernel/exception.s` `svc_entry`,
dispatched by `syscall_handler`) and the 5 ms tick (`irq_entry`,
`timer0_isr`). Both run with interrupts masked to the end, and so does
everything they call, including `uart_getC`, which polls. There are no locks and
no sleeping: **the only interleaving in the system is the tick between two
instructions of user code**. A system call is therefore one atomic action in most
modules; `Ipc` splits two of them into their loop turns and shows that the mask
is what keeps them whole, and `Context` takes the two entries themselves apart,
with the few instructions around them where a tick makes a difference.

An abort, or a request of `__restart`, arms the watchdog, and the board boots
again: nothing is persistent, so the only recovery is the initial state.

### Components

| Component | State it keeps | Operations | Correct when |
|---|---|---|---|
| Tasks and scheduler (`kernel/task.c`, `task_asm.s`) | a ready list per priority, `curr_running_task`, `taskid`; per task: status, priority, links, saved context | create, fork, enqueue, dequeue, pop, choose, dispatch, exit | lists hold each live task once with the right status; `choose_task` always finds one; a task that exited never runs again; nobody starves among equals |
| System calls (`kernel/syscall.c`, `klib/usyscall.c`) | none of its own | 19 handlers | each handler leaves the pools, lists and tables consistent |
| User pages (`kernel/memory.c`) | free list, in-use list, status of 446 pages of 1 MB | `page_alloc`, `page_free` | every page free or owned, once |
| Kernel blocks (`kernel/memory.c`) | free list of 16 KB blocks (page tables, IPC ring) | `kblk_alloc`, `kblk_free` | every block free or owned, once |
| Blocks of a page (`kernel/memory.c`) | list of 4 KB blocks in each page, two flags | `blks_init`, `blk_alloc`, `free_blk` | no block lost or shared, the list stays a list |
| MMU (`kernel/mmu.c`) | level 1 table per task | `task_pgt_setup`, `set_pte`, `switch_mm` | a task can write its own page, and no page of others |
| Interrupts, exceptions, tick (`kernel/interrupt.c`, `exception.s`, `driver/timer.c`) | timer, masks, saved context | `irq_entry`, `svc_entry`, `timer0_isr`, abort handlers, reload | the tick preempts user code and only user code; a task comes back with its registers, gets its slice and no more |
| IPC and kernel queue (`kernel/ipc.c`, `klib/queue.c`) | one ring of 128 bytes | `enqueue`, `dequeue`, the read and write of `/ipc0` | a bounded FIFO of bytes; calls do not mix |
| Directory tree, open files (`kernel/file.c`) | tree of three directories and four files; descriptors and directory per task | open, close, chdir, listings, paths | a descriptor means the file that was opened, whoever had the page before; a path is the way that was gone; listings fit |
| Shell and commands (`userproc/shell.c`, `commands.c`) | line buffer | line editor, `ls`, `cd`, `pwd`, `test`, `reboot` | stays in its buffer, carries out the line as it was edited, shows what is there |
| Test programs (`userproc/*_test.c`) | locals | sequences of system calls | print what their messages say |
| Strings, memory, formatting (`klib/string.c`, `mem.c`, `stdio.c`) | none | pure functions | as their comments say |
| Boot (`kernel/main.c`, `start.s`) | none | sets up all of the above | leaves a consistent initial state |
| Drivers, debug output, build | device registers | register access | not modelled |

### What interacts with what

* A **task is a page**: `TASK_INFO`, the stack and the 4 KB blocks lie in it, and
  its page table is a kernel block. Creation takes one of each, exit gives both
  back *while the CPU still uses them*, until the next tick.
* The **tick** marks the interrupted task READY without looking at its status;
  that includes a task that has just exited.
* A **fork** copies the stack. Addresses stored in the stack are copied with it, so
  the child keeps pointing into its parent's page; the MMU is told to allow that.
* **IPC** is shared by all tasks without a lock; its safety rests on the masked
  interrupts of the system calls.
* **Descriptors and the current directory** lie in `TASK_INFO`: a fork copies them, a
  creation resets the one and inherits the other, an exit closes nothing.
* The **kernel's lists run through the nodes**: a task, a page record and a block
  record carry their own links from list to list, and a fork copies a set of them.
* **ls** is a protocol of two sides: the handler joins names with `;;`, the shell
  cuts them apart with `strtok_fst`.

### What is hard here

Sequences of legal calls (create, then exit in one slice); stale state (freed
page still in use, page table blocks that are not cleared, `no_free_blks`);
ticks between two instructions (fork, IPC, the way back from a call); an overflow
that comes while another is served; links left in a node that moved; pools at their
end; error results that are cut to `uint8_t`; off-by-one room in buffers (`ls`, the command line);
a scheduler that must neither fall off its loop nor starve anyone.
`PROJECT.json` lists each with its line under `hazards`; those no property covers yet say why.

## 2. Modules

| Module | What it is |
|---|---|
| `Kernel` | task life cycle: create, fork, exit, tick, console wait, abort, reboot, over ready lists, pages, kernel blocks and page tables; lists are sequences |
| `KernelLists` | the same actions on heads and links, as the code has them, superposed on `Kernel` |
| `KernelProofs` | the inductive invariants of both: twelve theorems about `Kernel`, and that the links spell the sequences |
| `Context` | registers, saved contexts, the ways into and out of the kernel, the timer |
| `ContextProofs` | its inductive invariants, five theorems |
| `Fifo` | abstract bounded FIFO: what the kernel queue promises |
| `Ipc`, `MCIpc` | the ring and the read and write calls of two tasks, byte by byte; refines `Fifo` |
| `IpcProofs` | its inductive invariant and the refinement: six theorems |
| `BlkAlloc` | the 4 KB blocks of a page, with the pointers of the list |
| `BlkAllocProofs` | its inductive invariant and four theorems |
| `Fork` | the frame that a forked child shares with its parent, instruction by instruction |
| `ForkProofs` | its inductive invariant and four theorems |
| `DirTree` | the directory tree: its construction and its searches, as functions on nodes |
| `Files` | descriptors and directories of tasks over `DirTree` |
| `FilesProofs` | what building the tree does to its lists, the tree that results, and the inductive invariant of `Files`: nine theorems |
| `Session` | abstract command line: a line with a limit, a directory, answers |
| `Shell`, `MCShell` | the line buffer, the tokeniser and the commands; refines `Session` |
| `ShellProofs` | the buffer is never left, and the refinement of `Session`: three theorems |
| `Ls`, `MCLs` | `ls`: handler, tokeniser and printing loop over one buffer |
| `LsProofs` | its inductive invariant and four theorems |

### Kernel

A task is named by its page. `ready[p]` is the sequence met by following
`next_ptr` from `task_ready_list[p].head`; `free` and `kfree` are the free lists
in order (both are taken at the head and refilled at the end); `inuse` is a set,
since no operation depends on its order. `rw[k]` is the set of pages that block
`k`, read as a level 1 table, lets user code write: it outlives the task that
`k` belonged to, as the memory does. `spinning` is the set of tasks in the
`for(;;)` behind `__exit`. `newborn` is a history variable.

| Action | Code |
|---|---|
| `TaskCreate(p)` | `task_create_handler`, `create_task`, `task_enqueue`, `task_pgt_setup` |
| `Fork` | `fork_handler` with `set_pte` |
| `Exit` | `exit_handler`, `task_pop`, `page_free`, `free_pgt` |
| `Tick` | `timer0_isr`, `choose_task`, `sched` |
| `ReadConsole`, `KeyPressed` | `read_handler` down to the polling `uart_getC` |
| `Yield` | the stub `syscall_yield`, which aborts before its `svc` |
| `Restart`, `Boot` | `restart_handler`, watchdog, `kernal_entry` |
| `SpawnGoesWild`, `ExitGoesWild` | `page_alloc`, `kblk_alloc` and `kblk_free` on an empty list, which go through NULL; what follows is undefined, so only the reboot is modelled |

`TaskPop` keeps the code's condition: a task with a successor is *not* removed.
`ExitBehindSpawn` says whether programs may run into that, that is, call
`__exit` in the slice in which they created or forked a task of their own
priority. In the test programs prints lie between the two, which makes it
unlikely; nothing makes it impossible.

### KernelLists

`tl`, `pl` and `kl` are the heads and the `next` and `prev` of tasks, pages and kernel
blocks. Each action of `Kernel` is conjoined with what its handler does to these, read
from the links alone: `LinkTask` walks to the end over `next_ptr`, `WhichPage` walks the
list in use and stops at its last page if it finds nothing, `ChosenHead` looks at heads
only. `Search` and `EndOf` are the loops, as a recursive function of the number of
turns. Nothing in the links knows of the sequences; that both agree is the property
`LinksSpellLists`. The `prev` of kernel blocks is left out, since no code reads it.
A task's links lie in the `TASK_INFO` that a fork copies; `task_enqueue` writes both
before anyone reads them, which is why `LinkTask` covers the fork as well.

### Context

`at` is the program counter, as far as an interrupt can tell places apart: in the
program, before and behind the `svc` of a stub, at the `blx lr` that ends `svc_entry`,
at the `bx r9` that ends `switch_task`. The last two run with interrupts enabled
already. `reg` and `ctx` hold what a register holds *for its owner*: the program's own
value, the id a stub puts in `r0`, a result, a way back. `Call` and `Tick` say which of
them the entries overwrite before they save them (`r9`, `r10`, `r12`) and that a
handler's result goes to the saved `r0`. `left` and `ovf` are the timer and its pending
interrupt: time goes by in steps, calls and ticks, `Tick` clears the interrupt at its
start and reloads the slice at its end, and in between the counter runs on. `want` is
what the program knows its registers to be.

A call is `svc_entry`, the handler and the way back up to `blx lr`. The `pop` behind
the `svc` is run by a forked child only: the way back of a call jumps to the stub's
caller directly, and what the stub pushed is taken back with the caller's frame, as
the compiler sets `sp` from `fp` without optimisation. Which task is dispatched is left
open, since `Kernel` decides it.

### Ipc and Fifo

`head`, `end`, `n_data` and `data` are the fields of `struct QUEUE`. `StartWrite`,
`WriteByte`, `WriteRefused`, `WriteReturn` (and the four of a read) are the entry,
a loop turn, the early return and the end of the two functions. `Tick` has the
guard `Unmasked`, which is the `svc_entry` masking; its mutant shows that both
call properties need it. The refinement mapping is `buf <- Contents`, the
`n_data` bytes from `head` on, modulo `Size`.

### BlkAlloc

`next` is the pointer of each `BLK_INFO`, including those of blocks that are
held, because two operations leave it stale. `NextOwner` is the page's next task
calling `blks_init`. `NullStore` is the outcome of `NULL->prev = ...` when the
last block is taken: the kernel table maps address 0, where the board has no
memory, so the store may be ignored or abort; both are checked.

### Fork

The program is `int r = __fork(); if (r != 0) ... else ...`
(`userproc/fork_test.c:38-51`). The makefiles pass no optimisation flag, so `r` lives
in memory at a fixed distance from the frame pointer. `fp[t]` is the page that
pointer points into: a child gets its parent's. `Store` and `Test` are the two
instructions that touch `r`; `StoreAborts` is the store when the task's table
does not open that page. Ticks rotate the list of the one priority the tasks
have. Pages are not reused in this module.

### DirTree and Files

`DirTree` has one operator per function of `kernel/file.c`, on nodes numbered in the
order of their allocation; `Chain` is the walk over siblings. `TreeAfter[n]` is the tree
after the first `n` calls of `file_in_ram_init`, and `BuildTree` makes one of them a
step. In `Files`, `openfiles` and `cwdn` are the fields of `TASK_INFO` by page: `Exit`
leaves them, and the page's next owner finds them. `FirstFree` skips descriptor 2 and
`ReadWrite` goes through the descriptor and the function pointer without a test, as the
code does: through NULL it ends in `wild`. `CloseBehindTable` and `ClosePageTable` are
`file_close` on the two words behind the array. `given` and `trail` are what a program can
know: the properties relate them to the kernel's fields. `misuse` and `nodir` are histories
that no guard reads: who used a descriptor it was not given, itself and in this life of its
page, and who closed the word that holds its directory, or descends from a task that did.

### Session and Shell

`Session` is a line of at most so many characters, a directory, and the answers to
commands; it knows no buffer. `Shell` has the buffer `cmdbuf`, the position `s`, and the
actions of `main_shell`'s loop, one per key: every key first drops a line whose length
has reached the limit (`Buf`, `Pos`), also Enter and Backspace. `Enter` appends the blank,
cuts the line with `strtok_fst` and carries the command out. The mapping is
`line <- ` the string in the buffer and `path <- ` the path of `cwdn`. `nul` says that a NUL
may be among the keys of the line: it hides what follows from `_strlen`, and
`ImplementsSession` holds up to it.

### Ls

`Collect` and `CollectStops` are a turn of the handler's loop, `Show` a turn of
`lsdir`'s, with `strtok_fst` inside it as `TokenEnd` and `Token`. `top` is the highest
index that the last turn touched. Characters are numbers; which letters a name
has does not matter, where strings end does.

## 3. Runs

| Run | Bounds | Shows |
|---|---|---|
| `kernel` (`KernelLists`) | 5 pages, 5 kernel blocks, 3 priorities, task ids up to 5 | all properties of `Kernel`, `RoundRobin` included, and `LinksSpellLists` |
| `kernel_exit` | 2 priorities, `ExitBehindSpawn` | violation, finding 1 |
| `context` | 3 tasks, slice 3, reload 5, calls and ticks of 1 or 2 units | registers, way back and slices |
| `context_long` | 2 tasks, slice 4, reload 5, calls of any length | violation, finding 4 |
| `ipc` | ring of 3, two tasks, messages of 2 and 4 bytes, reads of 1 and 3, 8 bytes in all | `Fifo` is implemented, calls do not mix |
| `blk` | 8 blocks, 5 of them usable; both outcomes of the NULL store | list and blocks stay sound |
| `blk_dry` | 6 blocks, the store ignored | violation, finding 2 |
| `fork` | 4 tasks, repeated forks | when the shared frame does harm |
| `fork_twins` | 2 tasks, one fork | violation, finding 3 |
| `files` | 2 pages, 4 descriptors, 3 names to open and 3 to go to | tree, descriptors, paths, misuse and what it hands on |
| `shell` | buffer of 7, two letters, all commands and directories | `Session` is implemented |
| `ls` | up to 3 names of 1 to 3 characters, buffers of 2 to 18 bytes | listing and tokeniser agree |

**Why the bounds are enough.** Three pages besides the directory tree and the
shell let two tasks live while a third is created, and five ids make every page
and block be reused, and lists get two nodes and a node in the middle, at both ends
and alone; the pools run dry within the bound. Three priorities give
above, equal and below. A slice of 3 lets a call begin in one slice and end in the
next; with a reload of 5 both overflow in every place: in a call, in the tick, between
two instructions. The board's values are 5 ms and 100 ms, and only their order matters
(`ContextAssumption`). A ring of 3 is shorter than one message and is gone around
several times by 8 bytes; it gets full and empty in mid-call. Five usable blocks
reach every shape of a singly linked list: empty, one, two ends, a stale pointer to
a block before, on and behind the end. With four tasks a fork by a parent, by a
child and by a grandchild all happen. Two pages are a parent and a child, and each page
has any number of successive owners; 4 descriptors give the console's two, the reserved
one and one more, so that the table is full after one `open`. A buffer of 7 has a limit
of 5 characters, longer than the longest command with its argument. The buffers of
`ls` end at each possible place relative to three names. What does not depend on a bound
is proved (section 5).

**The properties**, beyond a type invariant:

* `ReadyListsSound`, `SomeTaskIsChosen`, `ExitedTaskLeavesQueues`: the lists and the
  statuses agree after any sequence of operations, so that `choose_task`, which has
  no `return` behind its loop, always returns, and never a task that exited.
* `LinksSpellLists`: following the links meets exactly the nodes of the sequences; no
  stale link cuts a list or joins two.
* `PagesAccounted`, `KBlksAccounted`: no leak, no double free, nothing free in use.
* `TableOpensOwnPage`, `ActiveTablesStable`: a recycled table opens no old page; the
  table the CPU walks is never rewritten, not even between exit and the tick.
* `TidsUnique`, `OnlyNewbornOvertaken`: the priority rule of the scheduler, in the
  form that the code keeps: creation does not reschedule, so whoever waits above
  the running task was put there since the last dispatch.
* `WaitersMoveUp`: a task that waits on a ready list keeps its place or gets a better one in
  every step, and with nobody above it each tick takes it one place forward or dispatches it.
* `RegistersKept`, `TaskGoesOn`: a tick at any instruction, on the way back from a call
  included, gives the task its place back, `r0`, and the registers that no entry overwrites;
  `r9`, `r10`, `r12` (overwritten before they are saved) and `lr` are outside the property.
* `SliceNotPostponed`: no task outruns its slice by calling, counted in instructions, with
  a call as one of them, and not in time. (That none is sent away before
  it has run, `SliceIsUsed`, breaks by the same stale tick as `TaskGoesOn`; it is proved
  in section 5 and belongs to no run.)
* `MessagesUnbroken`, `ReadsContiguous`, `ImplementsFifo`: see `Ipc`.
* `WalkEnds`, `NoBlockLost`: the list never closes to a ring, and until a page ran
  dry every owner finds all of its blocks.
* `ForkIsRightUnlessOvertaken`, `BranchesNotExchanged`, `AbortsOnlyGrandchildren`: the
  one order that breaks a fork, what cannot happen even then, and which fork aborts.
* `TreeIsSpelled`: at each point of the boot the sibling, parent and list pointers are
  the tree the calls describe: under each directory what was made there, in the order of
  the calls, and every file once in the list of all files, forwards and backwards.
* `GivenIsOpen`, `ReachesDriver`, `WildOnlyByMisuse`, `PathFollowsResults`: what a program
  was told of its descriptors and its directory is what the kernel has, over forks,
  creations and successive owners of a page. Only a task's own misuse leads through NULL,
  or a directory that an ancestor closed: a NULL `cwdn` is the one thing a misuser hands
  on, and whoever inherits it is hit without having misused anything.
* `LineStaysInside`, `ImplementsSession`: one test for an exact length is enough for the
  buffer, for the blank that Enter appends and for the argument of `cd`.
* `LsStaysInside`, `LsShowsDirectory`, `LsEnds`: the room that the handler leaves is what the
  tokeniser needs, by exactly one byte, and the loop ends.

**Liveness and fairness.** `RoundRobin`: a task that stays on its list with nobody
above it runs again and again, provided the console does not hold the kernel for
ever (the premise is in the formula: `uart_getC` polls with interrupts masked).
Fairness is `SF_vars(Tick)`. Strong, because a system call disables the tick and
a program may make calls for ever; justified, because the timer's overflow stays
pending in the interrupt controller while the CPU masks it, so it is taken on the
first return to user code (`Context` has this in detail, and bounds it by
`SliceNotPostponed`). What does not need fairness, that each tick brings a waiting task
nearer, is the property `WaitersMoveUp`. Nothing is assumed of keys or of the watchdog. `LsEnds`
assumes `WF_vars(Next)`: the shell is scheduled, which is `RoundRobin`.

Deadlock checking is off only in `fork` and `fork_twins` (all tasks of the test
have exited, or an abort has stopped the program), `ls` (the command is over), and
`files` and `shell` (the mode after a use of NULL or a store outside the buffer, from
which nothing is modelled).

Each property of a passing run has a mutant of the code, written just before the
definition it replaces, that breaks it.

## 4. Where the code and its documentation disagree

1. **A task that exits behind one it created stays on its list**
   (`kernel/task.c:298`, run `kernel_exit`). `task_pop` returns if the task has a
   successor; the next tick marks the dead task READY and it is scheduled for ever, on a
   page that is on the free list. The comment at `kernel/syscall.c:86` says it is removed.
2. **A page that once ran out of blocks never gives out another**
   (`kernel/memory.c:315`, run `blk_dry`): `no_free_blks` is never cleared.
3. **Parent and child can both take the child's branch after a fork**
   (`kernel/syscall.c:118`, run `fork_twins`): they share the variable that holds the
   result.
4. **After a call that outlasts the slice a task can lose its place**
   (`kernel/interrupt.c:224`, run `context_long`). A read that waits for a key lets the
   timer run on its own 100 ms reload; if its next overflow falls between the clearing of
   `IRQSTATUS` and `reload_ostick`, it is pending when `switch_task` unmasks interrupts. The
   tick then comes at `bx r9`, and `irq_entry` saves the address of that `bx r9` in `r9`:
   the task jumps on the spot whenever it is dispatched. `task.c:148` says that `r9` keeps
   the way back. The window is short; with `~LongCalls` it is proved not to exist.

Seen in the model without a run of their own, because they hold at every such step and
not only in some order:

* A forked child may write its parent's page (`kernel/syscall.c:152`), and that stays so
  when the parent has exited and the page has a new owner, against the comment at line
  102 ("for this task's use only"). `Kernel` has it: `rw` of the child's table keeps the page.
* A program that closes the first number behind its table clears its `cwdn`
  (`kernel/file.c:336`), and a task it creates or forks afterwards has the NULL too
  (`kernel/syscall.c:177`): the child's first `chdir` goes through it although the child
  misused nothing. No document says otherwise; `WildOnlyByMisuse` says who is hit.
* `__yield` resets the board (`kernel/syscall_asm.s:80`, against `README_en.md:26`): its
  stub writes to the timer from user mode, where the device is closed. It is the action
  `Yield`.
* A read of an empty ring returns the number of bytes asked for, all of them 255
  (`klib/queue.c:77`): the -1 that the message at line 76 announces is cut to `uint8_t`, and
  `ipc_read_func` counts it, so the test at `userproc/ipc_test.c:48` never fires. It is
  `ReadNothing` in `Ipc`.
* A task forked by a forked task aborts at its first local variable:
  `AbortsOnlyGrandchildren` holds with the action `StoreAborts` reachable.

## 5. Proofs

All theorems hold for every value of the constants allowed by the named
assumptions (`KernelAssumption`, `ContextAssumption`, `IpcAssumption`, `BlkAssumption`,
`ForkAssumption`, `FilesAssumption`, `ShellAssumption`, `LsAssumption`), which TLC evaluates
in the runs. `ShellTreeFacts` in `Shell` is an assumption of another kind: facts about the
one tree that the boot makes, a value without parameters; TLC computes them. What `Files`
needs of that tree (`BootTreeFacts`) is proved.

**KernelProofs** proves, under `~ExitBehindSpawn` (finding 1 shows that the premise is
needed), that `Spec` implies `[]` of `TypeOK`, `ReadyListsSound`, `SomeTaskIsChosen`,
`ExitedTaskLeavesQueues`, `PagesAccounted`, `KBlksAccounted`, `TableOpensOwnPage`,
`TidsUnique`, `OnlyNewbornOvertaken`, and the action properties `ActiveTablesStable` and
`WaitersMoveUp`.
The invariant `IInv` adds two parts that none of these states:
`Anchored` ties the running task to the lists (it is queued unless it spins in
`__exit`, no spinning task is queued, the shell always is, the directory tree's page
never is), without which `SomeTaskIsChosen` and the
freshness of a page are not preserved; and `IdsGivenOut` bounds the ids in the lists
by `taskid`, which `TidsUnique` needs when the counter advances. The step lemma has one
lemma per action; below it, lemmas say what `Append`, `Tail` and `Front` do to a list
without duplicates. `PriorityHolds` has an induction of its own on top of `IInv`. `WaitersAdvance` is the
safety half of `RoundRobin`: by `IInv` everyone queued is ready at a tick, so the first list
that is not empty is served and all behind its head move one place forward; creations and
forks append, and what exits, under the premise, is the last of its list.

Its second part, about `KernelLists`, proves `LinksSpellLists` under the same premise. That `ListSpec`
implies `Spec` is by construction, since each action has one of `Kernel`'s as a conjunct; what
has to be shown is that the links, which are computed from themselves, do not drift away
from the sequences. The invariant is, for each list, that the two agree, and for the list in
use, which `Kernel` has as a set, that there is a sequence that spells it with the directory
tree's page in front; that page is never freed, so the list never runs empty and a page that
leaves it has one before it.
The loops enter by one lemma: on a list that is spelled without repetition, the walk over
`next` is at the node it looks for, or at the last, after as many turns as there are
nodes. Each list operation then has a lemma on sequences (append, tail, remove one), and
the steps only say which list is which. That the pools and lists do not share nodes is
taken from `Kernel`'s invariant, which is why that one comes first.

**ContextProofs** proves `TypeOK` and `RegistersKept` without a premise, and `TaskGoesOn`,
`SliceNotPostponed` and `SliceIsUsed` under `~LongCalls` (finding 4 shows that it is
needed). `BaseInv` adds `PlacesFit`: wherever a tick may fall, the registers it saves there
are good for the place they lead back to (`lr` at the `blx lr`, the id in `r0` at a `svc`).
The timing invariant relates `left`, `ovf` and `ran`: after a dispatch the timer
has its slice and cannot be pending before the task has run, which needs `CallTime + TickTime < Reload`.

**FilesProofs** has two parts. The first is about the tree, with `TreeIsSpelled` as its
result, and says more than that property: `PathNodeAppends` and `FileNodeAppends` hold for
every tree that is `WellFormed`, of any size and with any names. They say that
`create_path_node` and `create_file_under_node`, which walk to the last child, the last file
and the end of the list of all files and store a few pointers there, add one structure at
the end of the lists it belongs to, change no other list, and leave the tree `WellFormed`:
every list of a directory leads through exactly the structures that name it as their
parent, in the order of their allocation, the way up from every directory ends at one
without a parent, and the list of all files is in that order too, both ways. The walks
enter through one lemma, `ChainIs`: if the pointers lead through a sequence of structures,
following them meets that sequence, whatever its length; its induction is on the least turn
at which the two would differ. On this stands `Built`, which holds of the tree after each of the
calls of `file_in_ram_init`: it is `WellFormed`, and under each directory the lists are what
the calls so far made there. `BuiltIsSpelled` is `TreeIsSpelled`, and `BootTreeFacts` collects
what the second part needs of the finished tree: `find_file` finds what has the name,
`find_target_subdir` goes one name up or down the path, a file has the functions of its name.

The second part proves `TypeOK`, `GivenIsOpen`, `WildOnlyByMisuse`, `ReachesDriver` and
`PathFollowsResults` for any tasks, descriptors and names. The invariant adds, to what a
program was told, that a task outside `nodir` has a directory and knows its path, that the
tree is complete once a task lives, and that a task in `wild` is live; only what belongs to
live tasks is claimed, since a page keeps its old owner's table until the next creation.

**ShellProofs** proves `LineStaysInside`, `TypeOK` and the refinement `ImplementsSession` for
every buffer size, alphabet and spelling. Its invariant is that in a line without NUL the
buffer holds exactly `s` characters and zeros behind them, with `s` at most the limit: so
the exact comparison in the code can not be stepped over. The same invariant makes the
string in the buffer the line of the `Session` (`KeptIs`, `CharPut`, `CharTaken`), and
`Enter` follows from three lemmas: `WordsAre` says that the tokens of `strtok_fst`, which
looks for a blank in the line with a blank put behind it, are the first word of the line
and the first word of what is behind it; `TargetIs` that `cd` goes where the path of the
`Session` leads, with what `ShellTreeFacts` says of `find_target_subdir`; `AnswerIs` that
what is printed is the answer. `TypeOK` holds with NULs too; the refinement is claimed up to the
first one.

**LsProofs** proves `LsStaysInside` and `LsShowsDirectory` for any names, any number of
entries and any size from two on. `Layout` says where in the buffer the names are: there are
offsets, one entry behind the other with its delimiter, the last of them the length of the
string, and two bytes left behind it; this is what the handler's test, which takes the size
of a pointer for that of the delimiter, leaves over. `Reached` says that what was printed
are the entries before the one whose offset is `start`. The two lemmas `NameCutOff` and
`NothingCutOff` are what `strtok_fst` does at a name and at the end of the string; the
second is the one that needs the second byte. `LoopsAreBounded` is the part of `LsEnds`
that a prover can have: every step lowers `TurnsLeft`, a natural number; that the task is
scheduled and that a step is possible before the end stays with TLC.

**BlkAllocProofs** proves `TypeOK`, `WalkEnds` and `NoBlockLost` for every number of blocks
and either outcome of the store through NULL. A block that is held keeps its `next`, and one put
on an empty list starts the list with that stale pointer, so that blocks still held come
back onto it. The invariant is therefore about all blocks and not about the list: `Acyclic`
says that there is an order of the blocks in which every pointer, stale or not, goes down.
A block put behind the end gets NULL for its pointer and goes to the bottom of the order
(`PutDescends`); on an empty list no pointer changes; and a walk that only goes down ends
(`WalkDescends`). `NoBlockLost` needs besides that the list is not empty before the flag is
set.

**IpcProofs** proves `TypeOK`, `MessagesUnbroken`, `ReadsContiguous`, the refinement
`Spec => Queue!Spec`, and through it `Queue!Conserved`: what was accepted is what was
handed out followed by what waits. `IInv` consists of `RingSound` (`end` is `n_data` slots
behind `head` modulo `Size`, and the slots between hold bytes), `CallsMasked` (only
the running task is in a call), `WriteInMessage` (the unfinished part of a write is a
suffix of a message whose last sent byte ends the stream) and `ReadAtEnd` (a read's
bytes are a suffix of `out`). The arithmetic of `%` is isolated in a few lemmas.

**ForkProofs** proves `TypeOK`, `ForkIsRightUnlessOvertaken`, `BranchesNotExchanged` and
`AbortsOnlyGrandchildren` for any number of tasks. In `IInv`, `Tree` says that the frame
pointer is only ever copied, so every task uses the frame of the first one, and that a
task may write its own page and its parent's; `Pair` says, for each point of the parent
and of its first child, what `r` can be and which branches are still open. `Pair` is
needed because the properties speak of branches already taken: what decides them is the
order of the two stores, which only the value left in the frame records.

**Only model-checked:** `RoundRobin` and `LsEnds` (liveness under fairness and `ENABLED`
are beyond the prover; their safety halves are `WaitersAdvance` and `LoopsAreBounded`), what
`ShellTreeFacts` says of the boot's tree, and the four violations, which are counterexamples and need no proof.

## 6. Assumptions and limits

* On the way back from a system call the code reads `spsr` in system mode
  (`kernel/exception.s:195`), which the architecture leaves unpredictable. The modules
  take the outcome with which the system runs at all: the task's own user state,
  interrupts enabled.
* Undefined continuations (a store or a call through NULL in the kernel, a page
  wiped while listed) end in the mode `wild`, from which only the reboot is modelled.
* Priorities passed by programs are in range, as in every program of the repository.
* `create_task` does not set the saved status register of a new task. In a wiped page it
  is 0, a reserved mode, and `switch_task` writes it to CPSR (`kernel/task_asm.s:99`).
  `Context` carries the value along and takes the outcome with which the system runs:
  user mode, interrupts enabled.
* In `Context` the programs are compiled as the makefiles say, without optimisation: a
  stub's `push` that no `pop` follows is taken back with the caller's frame.
* `Files` has `close` of the descriptors in the table and of the two words behind it;
  farther and negative numbers hit other fields, the stack or other pages, and a `read` or
  `write` of such a number is left out as well.
* In `Shell` a NUL key ends what is claimed of the line it is typed in.
* A step of `Files` and `Shell` is a whole call or key: `Ipc` and `Context` show what a tick
  in between does. `BlkAlloc` has one owner of a page at a time; that parent and child may
  both free a block of the parent's is in `hazards` only.

**Not modelled:** table encodings and the layout of the kernel's memory (`mmu_init`,
`kpage_struct_init`, `page_num_cal`; computed once, from constants, with one outcome); the
number formatting of `stdio.c` and `printk.c` (nothing depends on what it prints); drivers
(register access); debug code and the build; boot assembly (sets stacks and modes).

## 7. What is left

1. Layout arithmetic: `page_list_init` writes past its array, `kpage_blks_init` shifts by
   the wrong block size; both in one boot with one outcome.
2. Blocks of a page under a fork: `BlkAlloc` composed with `Fork`.
