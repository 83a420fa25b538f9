-------------------------------- MODULE Context --------------------------------
(***************************************************************************)
(* How the CPU leaves a task and comes back to it: the registers and the   *)
(* contexts in which they are saved, the ways into the kernel and out of   *)
(* it (exception.s, task_asm.s, the stubs of syscall_asm.s), and the timer *)
(* that drives them.                                                       *)
(*                                                                         *)
(* Tasks run with interrupts enabled, and so do the last instruction of    *)
(* switch_task and that of svc_entry: a step of the model is a stretch of  *)
(* code between two places where an interrupt makes a difference.  The     *)
(* kernel itself runs with interrupts masked, so a call or a tick is one   *)
(* step, in which time goes by.                                            *)
(***************************************************************************)
EXTENDS Integers

CONSTANTS
  Task,       \* tasks, by the page they live in
  Shell,      \* the first one
  Slice,      \* what reload_ostick loads: time until the timer overflows
  Reload,       \* what the timer reloads itself with when it overflows
  CallTime,   \* the longest a system call takes
  TickTime,   \* the longest a tick takes, from its start to reload_ostick
  LongCalls   \* may a call take longer, as a read that waits for a key does?

ASSUME ContextAssumption ==
  /\ Shell \in Task
  /\ Slice \in Nat /\ Reload \in Nat /\ 2 <= Slice /\ Slice <= Reload
  /\ CallTime \in Nat \ {0} /\ TickTime \in Nat \ {0}
  /\ CallTime + TickTime < Reload
  /\ LongCalls \in BOOLEAN
  /\ "own" \notin Task /\ "id" \notin Task /\ "child" \notin Task

\* Where an interrupt may find the CPU.
Place == {"code",         \* in the task's program
          "stub",         \* before the svc of a stub
          "stub_back",    \* behind it
          "blx_lr",       \* the last instruction of svc_entry
          "bx_r9"}        \* the last instruction of switch_task and first_run

VARIABLES
  curr,     \* curr_running_task
  alive,    \* tasks that may be dispatched
  at,       \* the program counter
  reg,      \* the registers; "rest" is r1 to r8, r11 and sp
  psr,      \* the status register a task runs with
  ctx,      \* the context at task_context of each task
  left,     \* time until the timer overflows
  ovf,      \* the timer's interrupt is pending
  want,     \* the program's knowledge: the r0 and the rest it left or was given
  ran       \* history: steps of the current task since its dispatch

vars == <<curr, alive, at, reg, psr, ctx, left, ovf, want, ran>>

\* create_task, in a page that was wiped: r9_return_lr is all it sets.
NewContext(t) ==
  [r0 |-> "own", r9 |-> "code", r10 |-> "zero", r12 |-> "zero", lr |-> "zero",
   rest |-> <<t, 0>>]

\* run_first_sched and first_run, which sets the status register by itself.
Init ==
  /\ curr = Shell /\ alive = {Shell}
  /\ at = "bx_r9" /\ reg = NewContext(Shell) /\ psr = "user"
  /\ ctx = [t \in Task |-> NewContext(t)]
  /\ left = Slice /\ ovf = FALSE
  /\ want = [t \in Task |-> [r0 |-> "own", rest |-> <<t, 0>>]]
  /\ ran = 0

-----------------------------------------------------------------------------
(* The timer.                                                              *)

\* The time left after w units, w not more than Reload.
LeftAfter(w) == IF left > w THEN left - w ELSE Reload - (w - left)
Overflows(w) == left <= w

\* w units go by.
Elapse(w) ==
  /\ left' = LeftAfter(w)
  /\ ovf' = (ovf \/ Overflows(w))

\* Any time goes by, several overflows included.
ElapseLong ==
  /\ left' \in 1 .. Reload
  /\ ovf' = TRUE

\* Mutant: each stub reloads the timer, as the comment at syscall_asm.s:220
\* warns not to.
ReloadOnCall == left' = Slice /\ ovf' = FALSE

\* The time a call takes.
CallElapses == \/ \E w \in 1 .. CallTime : Elapse(w)
               \/ LongCalls /\ ElapseLong

-----------------------------------------------------------------------------
(* The task's side.                                                        *)

\* A step of the task, which a pending interrupt comes before.
TaskStep ==
  /\ ~ovf
  /\ Elapse(1)
  /\ ran' = ran + 1

\* The instruction behind the one that unmasks interrupts may still be
\* executed before a pending one.
Unmasked ==
  /\ Elapse(1)
  /\ ran' = ran + 1

\* The program computes: every register gets a new value.
Compute ==
  /\ at = "code"
  /\ TaskStep
  /\ LET new == <<reg.rest[1], 1 - reg.rest[2]>>
     IN  /\ reg' = [r0 |-> "own", r9 |-> "own", r10 |-> "own", r12 |-> "own",
                    lr |-> "own", rest |-> new]
         /\ want' = [want EXCEPT ![curr] = [r0 |-> "own", rest |-> new]]
  /\ UNCHANGED <<curr, alive, at, psr, ctx>>

\* The program calls a stub, up to its svc.
EnterStub ==
  /\ at = "code" /\ curr \in alive
  /\ TaskStep
  /\ at' = "stub"
  /\ reg' = [reg EXCEPT !.r0 = "id", !.lr = "code"]
  /\ want' = [want EXCEPT ![curr].r0 = "id"]
  /\ UNCHANGED <<curr, alive, psr, ctx>>

\* blx lr: back to the caller of the stub, whose pop is left out.  lr then
\* points behind the instruction.
BlxLr ==
  /\ at = "blx_lr"
  /\ Unmasked
  /\ at' = reg.lr
  /\ reg' = [reg EXCEPT !.lr = "behind blx"]
  /\ UNCHANGED <<curr, alive, psr, ctx, want>>

\* bx r9.
BxR9 ==
  /\ at = "bx_r9"
  /\ Unmasked
  /\ at' = reg.r9
  /\ UNCHANGED <<curr, alive, reg, psr, ctx, want>>

\* The rest of a stub, which only the child of a fork runs.
StubBack ==
  /\ at = "stub_back"
  /\ TaskStep
  /\ at' = "code"
  /\ reg' = [reg EXCEPT !.lr = "code"]
  /\ UNCHANGED <<curr, alive, psr, ctx, want>>

-----------------------------------------------------------------------------
(* The kernel's side.                                                      *)

\* What svc_entry pushes: r9, r10 and ip are overwritten before.
SvcContext == [reg EXCEPT !.r9 = "stub_back", !.r10 = "kernel", !.r12 = psr]

\* Mutant: the result is put in r0 itself, and popped over.
LiveResult(r) == SvcContext

\* The handler stores the result in the context, and the context is popped.
WithResult(r) == [SvcContext EXCEPT !.r0 = r]

\* svc_entry and syscall_handler, for a handler with the result r.
Call(r) ==
  /\ at = "stub"
  /\ ~ovf
  /\ CallElapses
  /\ at' = "blx_lr"
  /\ reg' = [WithResult(r) EXCEPT !.r10 = psr]
  /\ ran' = ran + 1
  /\ UNCHANGED <<curr, psr>>

\* get_tid_handler, and any other call that leaves the tasks as they are.
OtherCall ==
  /\ Call(curr)
  /\ want' = [want EXCEPT ![curr].r0 = curr]
  /\ UNCHANGED <<alive, ctx>>

\* fork_handler copies the stack, and the context with it.
Fork(u) ==
  /\ u \notin alive
  /\ Call(u)
  /\ alive' = alive \cup {u}
  /\ ctx' = [ctx EXCEPT ![u] = [SvcContext EXCEPT !.r0 = "child"]]
  /\ want' = [want EXCEPT ![curr].r0 = u,
                          ![u] = [r0 |-> "child", rest |-> want[curr].rest]]

\* task_create_handler.
TaskCreate(u) ==
  /\ u \notin alive
  /\ Call(u)
  /\ alive' = alive \cup {u}
  /\ ctx' = [ctx EXCEPT ![u] = NewContext(u)]
  /\ want' = [want EXCEPT ![curr].r0 = u, ![u] = [r0 |-> "own", rest |-> <<u, 0>>]]

\* exit_handler; the task then runs in a loop, and r0 has the id still.
Exit ==
  /\ curr # Shell
  /\ Call("id")
  /\ alive' = alive \ {curr}
  /\ UNCHANGED <<ctx, want>>

\* Mutant: the status register is not read before r12 is pushed.
SavedWithoutPsr == [reg EXCEPT !.r9 = at, !.r10 = "kernel"]

\* What irq_entry pushes: r9, r10 and r12 are overwritten before.
Saved == [reg EXCEPT !.r9 = at, !.r10 = "kernel", !.r12 = psr]

\* Mutant: IRQSTATUS is not cleared.
StillPending(w) == ovf \/ Overflows(w)

\* IRQSTATUS is cleared first, and the timer runs on until reload_ostick: an
\* overflow in between stays pending.
PendingAfter(w) == Overflows(w)

\* irq_entry, timer0_isr, sched and switch_task.  choose_task is left open.
Tick(t, w) ==
  /\ ovf
  /\ t \in alive
  /\ LET saved == [ctx EXCEPT ![curr] = Saved]
     IN  /\ ctx' = saved
         /\ reg' = saved[t]
         /\ psr' = saved[t].r12
  /\ curr' = t
  /\ at' = "bx_r9"
  /\ ovf' = PendingAfter(w)
  /\ left' = Slice
  /\ ran' = 0
  /\ UNCHANGED <<alive, want>>

Next ==
  \/ Compute
  \/ EnterStub
  \/ BlxLr
  \/ BxR9
  \/ StubBack
  \/ OtherCall
  \/ \E u \in Task : Fork(u) \/ TaskCreate(u)
  \/ Exit
  \/ \E t \in Task, w \in 1 .. TickTime : Tick(t, w)

Spec == Init /\ [][Next]_vars

-----------------------------------------------------------------------------
(* Properties.                                                             *)

R0 == Task \cup {"own", "id", "child"}
Psr == {"user", "zero"}
Rest == Task \X {0, 1}
Lr == {"own", "zero", "code", "behind blx"}
Contexts ==
  [r0 : R0, r9 : Place, r10 : {"zero", "kernel"}, r12 : Psr, lr : Lr, rest : Rest]
Registers ==
  [r0 : R0, r9 : Place \cup {"own"}, r10 : Psr \cup {"own", "kernel"},
   r12 : Psr \cup {"own"}, lr : Lr, rest : Rest]

\* The type invariant.
TypeOK ==
  /\ curr \in Task
  /\ alive \in SUBSET Task
  /\ at \in Place
  /\ reg \in Registers
  /\ psr \in Psr
  /\ ctx \in [Task -> Contexts]
  /\ left \in 1 .. Reload
  /\ ovf \in BOOLEAN
  /\ want \in [Task -> [r0 : R0, rest : Rest]]
  /\ ran \in Nat

\* A call and a tick keep r0 and the registers that no entry overwrites:
\* whoever runs has in them what it left, and after a call the result of that
\* call, though a tick may fall between any two instructions, the way back from
\* the call included.  r9, r10, r12 and lr are not part of it.
RegistersKept ==
  /\ reg.rest = want[curr].rest
  /\ reg.r0 = want[curr].r0
  /\ \A t \in alive \ {curr} : /\ ctx[t].rest = want[t].rest
                               /\ ctx[t].r0 = want[t].r0

\* A dispatched task gets where it was (task.c:141-146: r9 is the way back
\* from the kernel): a tick at the very jump to it would save the jump as the
\* place to come back to, and the task would jump on the spot for ever.
TaskGoesOn ==
  /\ ~(at = "bx_r9" /\ reg.r9 = "bx_r9")
  /\ \A t \in alive \ {curr} : ctx[t].r9 # "bx_r9"

\* A task that makes one call after the other is preempted all the same: it
\* never runs more instructions than the slice has and one, a call counted as
\* one; the time spent in the kernel is not part of it (syscall_asm.s:220).
SliceNotPostponed == ran <= Slice + 1

\* And the slice is its own: it is never sent away before it has come to run.
SliceIsUsed == [][ran' = 0 => ran > 1]_vars

=============================================================================
