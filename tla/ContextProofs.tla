----------------------------- MODULE ContextProofs -----------------------------
(***************************************************************************)
(* That tasks are left and come back to unharmed, for any number of tasks  *)
(* and any times; and, if no call takes longer than CallTime, that every   *)
(* dispatched task goes on and none runs longer than its slice.            *)
(***************************************************************************)
EXTENDS Context, TLAPS

\* Where a context leads back to, lr is good for.
Fits(r) ==
  /\ r.r9 \in {"stub", "blx_lr"} => r.lr = "code"
  /\ r.r9 = "stub" => r.r0 = "id"

PlacesFit ==
  /\ at \in {"stub", "blx_lr"} => reg.lr = "code"
  /\ at = "bx_r9" => reg.r9 \in Place /\ Fits(reg)
  /\ at \in {"stub", "bx_r9"} => curr \in alive
  /\ at = "stub" => reg.r0 = "id"
  /\ \A t \in alive \ {curr} : Fits(ctx[t])

BaseInv == TypeOK /\ RegistersKept /\ PlacesFit

LEMMA BaseInit == Init => BaseInv
<1> SUFFICES ASSUME Init PROVE BaseInv
  OBVIOUS
<1>1. ASSUME NEW t \in Task
      PROVE  NewContext(t) \in Contexts /\ NewContext(t) \in Registers
  BY DEF NewContext, Contexts, Registers, R0, Psr, Rest, Lr, Place
<1>2. [t \in Task |-> NewContext(t)] \in [Task -> Contexts]
  BY <1>1
<1>3. [t \in Task |-> [r0 |-> "own", rest |-> <<t, 0>>]] \in [Task -> [r0 : R0, rest : Rest]]
  BY DEF R0, Rest
<1>4. Slice \in Nat /\ Reload \in Nat /\ Slice <= Reload /\ Slice >= 1
  BY ContextAssumption
<1>5. TypeOK
  <2>1. left \in 1 .. Reload /\ ran \in Nat
    BY <1>4 DEF Init
  <2>2. reg \in Registers /\ curr \in Task
    BY <1>1, ContextAssumption, Zenon DEF Init
  <2>3. ctx \in [Task -> Contexts] /\ want \in [Task -> [r0 : R0, rest : Rest]]
    BY <1>2, <1>3, Zenon DEF Init
  <2>4. alive \in SUBSET Task /\ at \in Place /\ psr \in Psr /\ ovf \in BOOLEAN
    BY ContextAssumption, Zenon DEF Init, Psr, Place
  <2>5. QED  BY <2>1, <2>2, <2>3, <2>4, Zenon DEF TypeOK
<1>6. RegistersKept
  BY ContextAssumption DEF Init, RegistersKept, NewContext
<1>7. PlacesFit
  BY DEF Init, PlacesFit, Fits, NewContext, Place
<1>8. QED  BY <1>5, <1>6, <1>7 DEF BaseInv

\* What was saved can be loaded.
LEMMA ContextLoads ==
  ASSUME NEW c \in Contexts
  PROVE  c \in Registers /\ c.r12 \in Psr
<1>1. c = [r0 |-> c.r0, r9 |-> c.r9, r10 |-> c.r10, r12 |-> c.r12, lr |-> c.lr,
           rest |-> c.rest]
  BY DEF Contexts
<1>2. /\ c.r0 \in R0 /\ c.r9 \in Place \cup {"own"} /\ c.r12 \in Psr
      /\ c.r10 \in Psr \cup {"own", "kernel"} /\ c.r12 \in Psr \cup {"own"}
      /\ c.lr \in Lr /\ c.rest \in Rest
  BY DEF Contexts, Psr
<1>3. QED  BY <1>1, <1>2 DEF Registers

\* Time goes by within the timer's range.
LEMMA LeftInRange ==
  ASSUME left \in 1 .. Reload, NEW w \in Nat, w <= CallTime \/ w = 1
  PROVE  LeftAfter(w) \in 1 .. Reload
BY ContextAssumption DEF LeftAfter

LEMMA TimeTypes ==
  ASSUME left \in 1 .. Reload, ovf \in BOOLEAN
  PROVE  /\ Elapse(1) => left' \in 1 .. Reload /\ ovf' \in BOOLEAN
         /\ CallElapses => left' \in 1 .. Reload /\ ovf' \in BOOLEAN
<1>1. ASSUME NEW w \in Nat, w <= CallTime \/ w = 1, Elapse(w)
      PROVE  left' \in 1 .. Reload /\ ovf' \in BOOLEAN
  <2>1. left' \in 1 .. Reload
    BY <1>1, LeftInRange DEF Elapse
  <2>2. ovf' \in BOOLEAN
    BY <1>1, Zenon DEF Elapse
  <2>3. QED  BY <2>1, <2>2
<1>2. Elapse(1) => left' \in 1 .. Reload /\ ovf' \in BOOLEAN
  BY <1>1
<1>3. ASSUME NEW w \in 1 .. CallTime, Elapse(w)
      PROVE  left' \in 1 .. Reload /\ ovf' \in BOOLEAN
  <2>1. w \in Nat /\ w <= CallTime
    BY ContextAssumption
  <2>2. QED  BY <1>1, <1>3, <2>1
<1>4. ElapseLong => left' \in 1 .. Reload /\ ovf' \in BOOLEAN
  BY Zenon DEF ElapseLong
<1>5. CallElapses => left' \in 1 .. Reload /\ ovf' \in BOOLEAN
  BY <1>3, <1>4, Zenon DEF CallElapses
<1>6. QED  BY <1>2, <1>5, Zenon

\* A call leads behind the svc with the result in r0, and nothing else changed
\* that the program relies on.
LEMMA CallStep ==
  ASSUME BaseInv, NEW r \in R0, Call(r)
  PROVE  /\ reg' \in Registers /\ reg'.rest = reg.rest /\ reg'.r0 = r
         /\ reg'.lr = "code" /\ at' = "blx_lr"
         /\ left' \in 1 .. Reload /\ ovf' \in BOOLEAN /\ ran' \in Nat
         /\ curr' = curr /\ psr' = psr
<1>1. left' \in 1 .. Reload /\ ovf' \in BOOLEAN
  BY TimeTypes DEF BaseInv, TypeOK, Call
<1>2. reg' = [reg EXCEPT !.r9 = "stub_back", !.r10 = psr, !.r12 = psr, !.r0 = r]
  BY DEF Call, WithResult, SvcContext, BaseInv, TypeOK, Registers
<1>3. reg.lr = "code"
  BY DEF BaseInv, PlacesFit, Call
<1>4. ran' \in Nat /\ at' = "blx_lr" /\ curr' = curr /\ psr' = psr
  BY DEF BaseInv, TypeOK, Call
<1>5. reg \in Registers /\ psr \in Psr
  BY DEF BaseInv, TypeOK
<1>6. /\ reg' \in Registers /\ reg'.rest = reg.rest /\ reg'.r0 = r
      /\ reg'.lr = "code"
  BY <1>2, <1>3, <1>5 DEF Registers, Place
<1>7. QED  BY <1>1, <1>4, <1>6, Zenon

LEMMA BaseStep == BaseInv /\ [Next]_vars => BaseInv'
<1> SUFFICES ASSUME BaseInv, [Next]_vars PROVE BaseInv'
  OBVIOUS
<1> USE DEF BaseInv
<1>u. ASSUME UNCHANGED vars PROVE BaseInv'
  BY <1>u DEF vars, TypeOK, RegistersKept, PlacesFit, Fits
<1>a. ASSUME Compute PROVE BaseInv'
  <2> DEFINE new == <<reg.rest[1], 1 - reg.rest[2]>>
  <2>1. new \in Rest
    BY DEF TypeOK, Registers, Rest
  <2>2. /\ reg' = [r0 |-> "own", r9 |-> "own", r10 |-> "own", r12 |-> "own",
                   lr |-> "own", rest |-> new]
        /\ want' = [want EXCEPT ![curr] = [r0 |-> "own", rest |-> new]]
        /\ at = "code" /\ UNCHANGED <<curr, alive, at, psr, ctx>>
    BY <1>a DEF Compute
  <2>3. left' \in 1 .. Reload /\ ovf' \in BOOLEAN /\ ran' \in Nat
    BY <1>a, TimeTypes DEF Compute, TaskStep, TypeOK
  <2> HIDE DEF new
  <2>4. TypeOK'
    BY <2>1, <2>2, <2>3 DEF TypeOK, Registers, R0, Lr
  <2>5. RegistersKept'
    BY <2>2 DEF RegistersKept, TypeOK
  <2>6. PlacesFit'
    BY <2>2 DEF PlacesFit, Fits
  <2>7. QED  BY <2>4, <2>5, <2>6
<1>b. ASSUME EnterStub PROVE BaseInv'
  <2>1. left' \in 1 .. Reload /\ ovf' \in BOOLEAN /\ ran' \in Nat
    BY <1>b, TimeTypes DEF EnterStub, TaskStep, TypeOK
  <2>2. TypeOK'
    BY <1>b, <2>1 DEF EnterStub, TypeOK, Registers, R0, Lr, Place
  <2>3. RegistersKept'
    BY <1>b DEF EnterStub, RegistersKept, TypeOK, Registers
  <2>4. PlacesFit'
    BY <1>b DEF EnterStub, PlacesFit, Fits, TypeOK, Registers
  <2>5. QED  BY <2>2, <2>3, <2>4
<1>c. ASSUME BlxLr PROVE BaseInv'
  <2>1. left' \in 1 .. Reload /\ ovf' \in BOOLEAN /\ ran' \in Nat
    <3>1. Elapse(1) /\ ran' = ran + 1
      BY <1>c, Zenon DEF BlxLr, Unmasked
    <3>2. QED  BY <3>1, TimeTypes DEF TypeOK
  <2>2. at' = "code"
    BY <1>c DEF BlxLr, PlacesFit
  <2>3. TypeOK'
    <3>1. reg' = [reg EXCEPT !.lr = "behind blx"] /\ UNCHANGED <<curr, alive, psr, ctx, want>>
      BY <1>c DEF BlxLr
    <3>2. reg' \in Registers
      BY <3>1 DEF TypeOK, Registers, Lr
    <3>3. QED  BY <2>1, <2>2, <3>1, <3>2 DEF TypeOK, Place
  <2>4. RegistersKept'
    BY <1>c DEF BlxLr, RegistersKept, TypeOK, Registers
  <2>5. PlacesFit'
    BY <1>c, <2>2 DEF BlxLr, PlacesFit, Fits
  <2>6. QED  BY <2>3, <2>4, <2>5
<1>d. ASSUME BxR9 PROVE BaseInv'
  <2>1. left' \in 1 .. Reload /\ ovf' \in BOOLEAN /\ ran' \in Nat
    BY <1>d, TimeTypes DEF BxR9, Unmasked, TypeOK
  <2>2. at' = reg.r9 /\ at' \in Place /\ Fits(reg)
    BY <1>d DEF BxR9, PlacesFit
  <2>3. TypeOK'
    BY <1>d, <2>1, <2>2 DEF BxR9, TypeOK
  <2>4. RegistersKept'
    BY <1>d DEF BxR9, RegistersKept
  <2>5. PlacesFit'
    BY <1>d, <2>2 DEF BxR9, PlacesFit, Fits
  <2>6. QED  BY <2>3, <2>4, <2>5
<1>e. ASSUME StubBack PROVE BaseInv'
  <2>1. left' \in 1 .. Reload /\ ovf' \in BOOLEAN /\ ran' \in Nat
    BY <1>e, TimeTypes DEF StubBack, TaskStep, TypeOK
  <2>2. TypeOK'
    BY <1>e, <2>1 DEF StubBack, TypeOK, Registers, Lr, Place
  <2>3. RegistersKept'
    BY <1>e DEF StubBack, RegistersKept, TypeOK, Registers
  <2>4. PlacesFit'
    BY <1>e DEF StubBack, PlacesFit, Fits
  <2>5. QED  BY <2>2, <2>3, <2>4
<1>f. ASSUME OtherCall PROVE BaseInv'
  <2>1. curr \in R0
    BY DEF TypeOK, R0
  <2>2. /\ reg' \in Registers /\ reg'.rest = reg.rest /\ reg'.r0 = curr
        /\ reg'.lr = "code" /\ at' = "blx_lr"
        /\ left' \in 1 .. Reload /\ ovf' \in BOOLEAN /\ ran' \in Nat
        /\ curr' = curr /\ psr' = psr
    BY <1>f, <2>1, CallStep DEF OtherCall
  <2>3. /\ want' = [want EXCEPT ![curr].r0 = curr]
        /\ UNCHANGED <<alive, ctx>>
    BY <1>f DEF OtherCall
  <2>4. TypeOK'
    BY <2>1, <2>2, <2>3 DEF TypeOK, Place
  <2>5. RegistersKept'
    BY <2>2, <2>3 DEF RegistersKept, TypeOK
  <2>6. PlacesFit'
    BY <2>2, <2>3 DEF PlacesFit
  <2>7. QED  BY <2>4, <2>5, <2>6
<1>g. ASSUME NEW u \in Task, Fork(u) PROVE BaseInv'
  <2>1. u \in R0 /\ curr \in Task
    BY DEF TypeOK, R0
  <2>2. /\ reg' \in Registers /\ reg'.rest = reg.rest /\ reg'.r0 = u
        /\ reg'.lr = "code" /\ at' = "blx_lr"
        /\ left' \in 1 .. Reload /\ ovf' \in BOOLEAN /\ ran' \in Nat
        /\ curr' = curr /\ psr' = psr
    BY <1>g, <2>1, CallStep DEF Fork
  <2> DEFINE copy == [SvcContext EXCEPT !.r0 = "child"]
  <2>3. /\ u \notin alive /\ alive' = alive \cup {u}
        /\ ctx' = [ctx EXCEPT ![u] = copy]
        /\ want' = [want EXCEPT ![curr].r0 = u,
                                ![u] = [r0 |-> "child", rest |-> want[curr].rest]]
    BY <1>g DEF Fork
  <2>4. copy \in Contexts /\ copy.rest = reg.rest /\ copy.r0 = "child" /\ copy.r9 = "stub_back"
    BY DEF SvcContext, TypeOK, Registers, Contexts, R0, Place, Psr
  <2> HIDE DEF copy
  <2>5. u # curr
    BY <1>g DEF Fork, Call, PlacesFit
  <2>6. TypeOK'
    <3>1. alive' \in SUBSET Task /\ ctx' \in [Task -> Contexts]
      BY <2>1, <2>3, <2>4 DEF TypeOK
    <3>2. /\ [want[curr] EXCEPT !.r0 = u] \in [r0 : R0, rest : Rest]
          /\ [r0 |-> "child", rest |-> want[curr].rest] \in [r0 : R0, rest : Rest]
      BY <2>1 DEF TypeOK, R0
    <3>3. want' \in [Task -> [r0 : R0, rest : Rest]]
      BY <2>1, <2>3, <2>5, <3>2 DEF TypeOK
    <3>4. QED  BY <2>2, <3>1, <3>3 DEF TypeOK, Place
  <2>7. RegistersKept'
    BY <2>1, <2>2, <2>3, <2>4, <2>5 DEF RegistersKept, TypeOK
  <2>8. PlacesFit'
    BY <2>2, <2>3, <2>4, <2>5 DEF PlacesFit, Fits, TypeOK
  <2>9. QED  BY <2>6, <2>7, <2>8
<1>h. ASSUME NEW u \in Task, TaskCreate(u) PROVE BaseInv'
  <2>1. u \in R0 /\ curr \in Task
    BY DEF TypeOK, R0
  <2>2. /\ reg' \in Registers /\ reg'.rest = reg.rest /\ reg'.r0 = u
        /\ reg'.lr = "code" /\ at' = "blx_lr"
        /\ left' \in 1 .. Reload /\ ovf' \in BOOLEAN /\ ran' \in Nat
        /\ curr' = curr /\ psr' = psr
    BY <1>h, <2>1, CallStep DEF TaskCreate
  <2>3. /\ u \notin alive /\ alive' = alive \cup {u}
        /\ ctx' = [ctx EXCEPT ![u] = NewContext(u)]
        /\ want' = [want EXCEPT ![curr].r0 = u,
                                ![u] = [r0 |-> "own", rest |-> <<u, 0>>]]
    BY <1>h DEF TaskCreate
  <2>4. /\ NewContext(u) \in Contexts /\ NewContext(u).rest = <<u, 0>>
        /\ NewContext(u).r0 = "own" /\ NewContext(u).r9 = "code"
    BY DEF NewContext, Contexts, R0, Psr, Rest, Lr, Place
  <2>5. u # curr /\ <<u, 0>> \in Rest /\ "own" \in R0
    BY <1>h DEF TaskCreate, Call, PlacesFit, Rest, R0
  <2>6. TypeOK'
    BY <2>1, <2>2, <2>3, <2>4, <2>5 DEF TypeOK, Place
  <2>7. RegistersKept'
    BY <2>1, <2>2, <2>3, <2>4, <2>5 DEF RegistersKept, TypeOK
  <2>8. PlacesFit'
    BY <2>2, <2>3, <2>4, <2>5 DEF PlacesFit, Fits, TypeOK
  <2>9. QED  BY <2>6, <2>7, <2>8
<1>i. ASSUME Exit PROVE BaseInv'
  <2>1. "id" \in R0
    BY DEF R0
  <2>2. /\ reg' \in Registers /\ reg'.rest = reg.rest /\ reg'.r0 = "id"
        /\ reg'.lr = "code" /\ at' = "blx_lr"
        /\ left' \in 1 .. Reload /\ ovf' \in BOOLEAN /\ ran' \in Nat
        /\ curr' = curr /\ psr' = psr
    BY <1>i, <2>1, CallStep DEF Exit
  <2>3. alive' = alive \ {curr} /\ UNCHANGED <<ctx, want>> /\ at = "stub"
    BY <1>i DEF Exit, Call
  <2>4. reg.r0 = "id"
    BY <2>3 DEF PlacesFit
  <2>5. TypeOK'
    BY <2>2, <2>3 DEF TypeOK, Place
  <2>6. RegistersKept'
    BY <2>2, <2>3, <2>4 DEF RegistersKept
  <2>7. PlacesFit'
    BY <2>2, <2>3 DEF PlacesFit
  <2>8. QED  BY <2>5, <2>6, <2>7
<1>j. ASSUME NEW t \in Task, NEW w \in 1 .. TickTime, Tick(t, w) PROVE BaseInv'
  <2> DEFINE saved == [ctx EXCEPT ![curr] = Saved]
  <2>1. /\ ctx' = saved /\ reg' = saved[t] /\ psr' = saved[t].r12
        /\ curr' = t /\ at' = "bx_r9" /\ t \in alive
        /\ left' = Slice /\ ran' = 0 /\ UNCHANGED <<alive, want>>
        /\ ovf' = PendingAfter(w)
    BY <1>j DEF Tick
  <2>2. /\ Saved \in Contexts /\ Saved.rest = reg.rest /\ Saved.r0 = reg.r0
        /\ Fits(Saved)
    BY DEF Saved, TypeOK, Registers, Contexts, PlacesFit, Fits
  <2>3. curr \in Task /\ saved \in [Task -> Contexts]
    BY <2>2 DEF TypeOK
  <2>4. /\ saved[curr] = Saved
        /\ \A u \in Task \ {curr} : saved[u] = ctx[u]
    BY <2>3 DEF TypeOK
  <2>5. \A u \in alive : /\ saved[u].rest = want[u].rest /\ saved[u].r0 = want[u].r0
                        /\ Fits(saved[u])
    BY <2>2, <2>4 DEF RegistersKept, PlacesFit, TypeOK
  <2> HIDE DEF saved
  <2>6. left' \in 1 .. Reload /\ ovf' \in BOOLEAN
    BY <2>1, ContextAssumption DEF PendingAfter, Overflows
  <2>7. reg' \in Contexts
    BY <2>1, <2>3
  <2>8. reg' \in Registers /\ psr' \in Psr
    <3>1. psr' = reg'.r12
      BY <2>1, Zenon
    <3>2. QED  BY <2>7, <3>1, ContextLoads, Zenon
  <2>9. TypeOK'
    BY <2>1, <2>3, <2>6, <2>8, Zenon DEF TypeOK, Place
  <2>10. RegistersKept'
    BY <2>1, <2>5 DEF RegistersKept
  <2>11. PlacesFit'
    BY <2>1, <2>5, <2>7 DEF PlacesFit, Contexts
  <2>12. QED  BY <2>9, <2>10, <2>11
<1>k. QED
  BY <1>a, <1>b, <1>c, <1>d, <1>e, <1>f, <1>g, <1>h, <1>i, <1>j, <1>u DEF Next

-----------------------------------------------------------------------------
(* Time, if no call takes longer than CallTime.                             *)

\* The slice is spent on the task's own steps, and a tick that is due comes so
\* soon that the timer does not overflow again before it is reloaded.
ClockInv ==
  /\ ovf => /\ left > TickTime /\ 2 <= ran /\ ran <= Slice + 1 /\ at # "bx_r9"
            /\ at = "blx_lr" => left > TickTime + 1 /\ ran <= Slice
  /\ ~ovf => ran + left <= Slice
  /\ at = "bx_r9" => ran = 0 /\ left = Slice
  /\ at # "bx_r9" => ran >= 1

TimeInv == BaseInv /\ ClockInv /\ TaskGoesOn

LEMMA ElapsesTo ==
  ASSUME BaseInv, NEW w \in Nat, Elapse(w)
  PROVE  \/ left > w /\ left' = left - w /\ ovf' = ovf
         \/ left <= w /\ left' = Reload - (w - left) /\ ovf'
<1>1. left \in Nat /\ ovf \in BOOLEAN
  BY ContextAssumption DEF BaseInv, TypeOK
<1>2. CASE left > w
  <2>1. left' = left - w /\ ~ Overflows(w)
    BY <1>1, <1>2 DEF Elapse, LeftAfter, Overflows
  <2>2. ovf' = ovf
    BY <1>1, <2>1, Zenon DEF Elapse
  <2>3. QED  BY <1>2, <2>1, <2>2
<1>3. CASE left <= w
  <2>1. left' = Reload - (w - left) /\ Overflows(w)
    BY <1>1, <1>3 DEF Elapse, LeftAfter, Overflows
  <2>2. ovf'
    BY <2>1, Zenon DEF Elapse
  <2>3. QED  BY <1>3, <2>1, <2>2
<1>4. left > w \/ left <= w
  BY <1>1
<1>5. QED  BY <1>2, <1>3, <1>4, Zenon

LEMMA ElapsesOne ==
  ASSUME BaseInv, Elapse(1)
  PROVE  \/ left > 1 /\ left' = left - 1 /\ ovf' = ovf
         \/ left <= 1 /\ left' = Reload - (1 - left) /\ ovf'
BY ElapsesTo, Zenon

\* A step of a running task, or a call it makes.
LEMMA ClockRuns ==
  ASSUME BaseInv, ClockInv, ~ovf, at # "bx_r9", at' # "bx_r9",
         NEW w \in 1 .. CallTime, Elapse(w), ran' = ran + 1
  PROVE  ClockInv'
<1>1. /\ left \in 1 .. Reload /\ ran \in Nat /\ w \in Nat /\ w >= 1 /\ w <= CallTime
      /\ Slice \in Nat /\ Reload \in Nat /\ CallTime \in Nat /\ TickTime \in Nat
      /\ CallTime + TickTime < Reload
  BY ContextAssumption DEF BaseInv, TypeOK
<1>2. ran + left <= Slice /\ ran >= 1
  BY DEF ClockInv
<1>3. CASE left > w /\ left' = left - w /\ ovf' = ovf
  <2>1. ran' + left' <= Slice /\ ran' >= 1
    BY <1>1, <1>2, <1>3
  <2>2. ~ovf'
    BY <1>3
  <2>3. QED  BY <2>1, <2>2, Zenon DEF ClockInv
<1>4. CASE left <= w /\ left' = Reload - (w - left) /\ ovf'
  <2>1. left' > TickTime + 1 /\ 2 <= ran' /\ ran' <= Slice
    BY <1>1, <1>2, <1>4
  <2>2. left' > TickTime /\ ran' <= Slice + 1 /\ ran' >= 1
    BY <1>1, <1>4, <2>1
  <2>3. QED  BY <1>4, <2>1, <2>2, Zenon DEF ClockInv
<1>5. QED  BY <1>1, <1>3, <1>4, ElapsesTo

LEMMA TaskClock ==
  ASSUME BaseInv, ClockInv, TaskStep, at # "bx_r9", at' # "bx_r9"
  PROVE  ClockInv'
<1>1. 1 \in 1 .. CallTime
  BY ContextAssumption
<1>2. ~ovf /\ Elapse(1) /\ ran' = ran + 1
  BY DEF TaskStep
<1>3. QED  BY <1>1, <1>2, ClockRuns

LEMMA CallClock ==
  ASSUME BaseInv, ClockInv, NEW r, Call(r), ~LongCalls
  PROVE  ClockInv'
<1>1. ~ovf /\ ran' = ran + 1 /\ at # "bx_r9" /\ at' # "bx_r9"
  BY DEF Call
<1>2. PICK w \in 1 .. CallTime : Elapse(w)
  BY Zenon DEF Call, CallElapses
<1>3. QED  BY <1>1, <1>2, ClockRuns

LEMMA TimeInit == Init => TimeInv
<1> SUFFICES ASSUME Init PROVE TimeInv
  OBVIOUS
<1>1. ClockInv
  BY ContextAssumption DEF Init, ClockInv
<1>2. TaskGoesOn
  BY DEF Init, TaskGoesOn, NewContext
<1>3. QED  BY <1>1, <1>2, BaseInit DEF TimeInv

LEMMA TimeStep == TimeInv /\ ~LongCalls /\ [Next]_vars => TimeInv'
<1> SUFFICES ASSUME TimeInv, ~LongCalls, [Next]_vars PROVE ClockInv' /\ TaskGoesOn'
  BY BaseStep DEF TimeInv
<1> USE DEF TimeInv
<1>0. BaseInv
  OBVIOUS
<1>u. ASSUME UNCHANGED vars PROVE ClockInv' /\ TaskGoesOn'
  BY <1>u DEF vars, ClockInv, TaskGoesOn
<1>a. ASSUME Compute PROVE ClockInv' /\ TaskGoesOn'
  <2>1. TaskStep /\ at = "code" /\ UNCHANGED <<curr, alive, at, ctx>>
    BY <1>a DEF Compute
  <2>2. QED  BY <2>1, TaskClock DEF TaskGoesOn
<1>b. ASSUME EnterStub PROVE ClockInv' /\ TaskGoesOn'
  <2>1. TaskStep /\ at = "code" /\ at' = "stub" /\ UNCHANGED <<curr, alive, ctx>>
    BY <1>b DEF EnterStub
  <2>2. QED  BY <2>1, TaskClock DEF TaskGoesOn
<1>c. ASSUME BlxLr PROVE ClockInv' /\ TaskGoesOn'
  <2>1. /\ Elapse(1) /\ ran' = ran + 1 /\ at = "blx_lr" /\ at' = reg.lr
        /\ UNCHANGED <<curr, alive, ctx>>
    BY <1>c, Zenon DEF BlxLr, Unmasked
  <2>2. at' = "code"
    BY <2>1 DEF BaseInv, PlacesFit
  <2>3. ASSUME ~ovf PROVE ClockInv'
    BY <2>1, <2>2, <2>3, TaskClock DEF TaskStep
  <2>4. ASSUME ovf PROVE ClockInv'
    <3>1. /\ left > TickTime + 1 /\ 2 <= ran /\ ran <= Slice
          /\ left \in Nat /\ ran \in Nat /\ TickTime \in Nat /\ Slice \in Nat
      BY <2>1, <2>4, ContextAssumption DEF ClockInv, BaseInv, TypeOK
    <3>2. left' = left - 1 /\ ovf' = ovf
      <4>1. left > 1
        BY <3>1
      <4>2. QED  BY <2>1, <3>1, <4>1, ElapsesOne
    <3>3. left' > TickTime /\ 2 <= ran' /\ ran' <= Slice + 1 /\ ran' >= 1
      BY <2>1, <3>1, <3>2
    <3>4. QED  BY <2>2, <2>4, <3>2, <3>3, Zenon DEF ClockInv
  <2>5. ClockInv'
    BY <2>3, <2>4
  <2>6. QED  BY <2>1, <2>2, <2>5 DEF TaskGoesOn
<1>d. ASSUME BxR9 PROVE ClockInv' /\ TaskGoesOn'
  <2>1. /\ Elapse(1) /\ ran' = ran + 1 /\ at = "bx_r9" /\ at' = reg.r9
        /\ UNCHANGED <<curr, alive, ctx>>
    BY <1>d, Zenon DEF BxR9, Unmasked
  <2>2. at' # "bx_r9"
    BY <2>1 DEF TaskGoesOn
  <2>3. ran = 0 /\ left = Slice /\ ~ovf /\ Slice \in Nat /\ Slice >= 2
    BY <2>1, ContextAssumption DEF ClockInv
  <2>4. left' = Slice - 1 /\ ~ovf'
    BY <2>1, <2>3, ElapsesOne
  <2>5. ran' = 1 /\ ran' + left' <= Slice /\ ran' >= 1
    BY <2>1, <2>3, <2>4
  <2>6. QED  BY <2>1, <2>2, <2>4, <2>5 DEF ClockInv, TaskGoesOn
<1>e. ASSUME StubBack PROVE ClockInv' /\ TaskGoesOn'
  <2>1. TaskStep /\ at = "stub_back" /\ at' = "code" /\ UNCHANGED <<curr, alive, ctx>>
    BY <1>e DEF StubBack
  <2>2. QED  BY <2>1, TaskClock DEF TaskGoesOn
<1>f. ASSUME OtherCall PROVE ClockInv' /\ TaskGoesOn'
  <2>1. Call(curr) /\ UNCHANGED <<alive, ctx>>
    BY <1>f DEF OtherCall
  <2>2. at' = "blx_lr" /\ curr' = curr
    BY <2>1 DEF Call
  <2>3. QED  BY <2>1, <2>2, CallClock DEF TaskGoesOn
<1>g. ASSUME NEW u \in Task, Fork(u) PROVE ClockInv' /\ TaskGoesOn'
  <2> DEFINE copy == [SvcContext EXCEPT !.r0 = "child"]
  <2>1. Call(u) /\ alive' = alive \cup {u} /\ ctx' = [ctx EXCEPT ![u] = copy]
    BY <1>g DEF Fork
  <2>2. at' = "blx_lr" /\ curr' = curr
    BY <2>1 DEF Call
  <2>3. copy.r9 = "stub_back"
    BY DEF SvcContext, BaseInv, TypeOK, Registers
  <2> HIDE DEF copy
  <2>4. TaskGoesOn'
    BY <2>1, <2>2, <2>3 DEF TaskGoesOn, BaseInv, TypeOK
  <2>5. QED  BY <2>1, <2>4, CallClock
<1>h. ASSUME NEW u \in Task, TaskCreate(u) PROVE ClockInv' /\ TaskGoesOn'
  <2>1. /\ Call(u) /\ alive' = alive \cup {u}
        /\ ctx' = [ctx EXCEPT ![u] = NewContext(u)]
    BY <1>h DEF TaskCreate
  <2>2. at' = "blx_lr" /\ curr' = curr
    BY <2>1 DEF Call
  <2>3. NewContext(u).r9 = "code"
    BY DEF NewContext
  <2>4. TaskGoesOn'
    BY <2>1, <2>2, <2>3 DEF TaskGoesOn, BaseInv, TypeOK
  <2>5. QED  BY <2>1, <2>4, CallClock
<1>i. ASSUME Exit PROVE ClockInv' /\ TaskGoesOn'
  <2>1. Call("id") /\ alive' = alive \ {curr} /\ UNCHANGED ctx
    BY <1>i DEF Exit
  <2>2. at' = "blx_lr" /\ curr' = curr
    BY <2>1 DEF Call
  <2>3. QED  BY <2>1, <2>2, CallClock DEF TaskGoesOn
<1>j. ASSUME NEW t \in Task, NEW w \in 1 .. TickTime, Tick(t, w)
      PROVE  ClockInv' /\ TaskGoesOn'
  <2> DEFINE saved == [ctx EXCEPT ![curr] = Saved]
  <2>1. /\ ovf /\ ctx' = saved /\ reg' = saved[t] /\ curr' = t /\ at' = "bx_r9"
        /\ t \in alive /\ left' = Slice /\ ran' = 0 /\ UNCHANGED alive
        /\ ovf' = PendingAfter(w)
    BY <1>j DEF Tick
  <2>2. left > TickTime /\ at # "bx_r9"
    BY <2>1 DEF ClockInv
  <2>3. Saved.r9 = at
    BY DEF Saved, BaseInv, TypeOK, Registers
  <2>4. curr \in Task /\ alive \subseteq Task /\ ctx \in [Task -> Contexts]
    BY DEF BaseInv, TypeOK
  <2>5. \A u \in alive : saved[u].r9 # "bx_r9"
    BY <2>2, <2>3, <2>4 DEF TaskGoesOn
  <2> HIDE DEF saved
  <2>6. TaskGoesOn'
    BY <2>1, <2>5 DEF TaskGoesOn
  <2>7. ~ Overflows(w)
    BY <2>2, ContextAssumption DEF Overflows, BaseInv, TypeOK
  <2>8. ~ovf'
    BY <2>1, <2>7, Zenon DEF PendingAfter
  <2>9. ran' + left' <= Slice
    BY <2>1, ContextAssumption
  <2>10. QED  BY <2>1, <2>6, <2>8, <2>9 DEF ClockInv
<1>k. QED
  BY <1>a, <1>b, <1>c, <1>d, <1>e, <1>f, <1>g, <1>h, <1>i, <1>j, <1>u DEF Next

\* Only a tick sends a task away, and not before the slice was used.
LEMMA TickAfterUse == TimeInv /\ [Next]_vars => (ran' = 0 => ran > 1) \/ UNCHANGED vars
<1> SUFFICES ASSUME TimeInv, Next, ran' = 0 PROVE ran > 1
  OBVIOUS
<1>1. ran \in Nat
  BY DEF TimeInv, BaseInv, TypeOK
<1>2. ran' # ran + 1
  BY <1>1
<1>3. PICK t \in Task, w \in 1 .. TickTime : Tick(t, w)
  BY <1>2 DEF Next, Compute, EnterStub, BlxLr, BxR9, StubBack, OtherCall, Fork,
              TaskCreate, Exit, Call, TaskStep, Unmasked
<1>4. ovf
  BY <1>3 DEF Tick
<1>5. QED  BY <1>1, <1>4 DEF TimeInv, ClockInv

-----------------------------------------------------------------------------
\* The registers, the contexts and the timer keep their types, however long
\* calls take (exception.s, task_asm.s, timer.c:108-130).
THEOREM TypeCorrect == Spec => []TypeOK
<1>1. BaseInv => TypeOK
  BY DEF BaseInv
<1>2. QED  BY BaseInit, BaseStep, <1>1, PTL DEF Spec

\* Ticks and calls give a program r0 and the registers that no entry
\* overwrites as it left them, for any number of tasks and however long calls
\* take (exception.s:41-203, task_asm.s:56-100).
THEOREM RegistersAreKept == Spec => []RegistersKept
<1>1. BaseInv => RegistersKept
  BY DEF BaseInv
<1>2. QED  BY BaseInit, BaseStep, <1>1, PTL DEF Spec

\* If every call ends early enough, no task is stuck at the jump to itself
\* (task_asm.s:100).
THEOREM EveryTaskGoesOn ==
  ASSUME ~LongCalls
  PROVE  Spec => []TaskGoesOn
<1>1. TimeInv => TaskGoesOn
  BY DEF TimeInv
<1>2. TimeInv /\ [Next]_vars => TimeInv'
  BY TimeStep
<1>3. QED  BY TimeInit, <1>1, <1>2, PTL DEF Spec

\* If every call ends early enough, no call puts the next tick off, and none
\* is longer than the slice (timer.c:118, syscall_asm.s:220).
THEOREM NoTaskOutlivesItsSlice ==
  ASSUME ~LongCalls
  PROVE  Spec => []SliceNotPostponed
<1>1. TimeInv => SliceNotPostponed
  <2>1. TimeInv => ran \in Nat /\ left \in Nat /\ Slice \in Nat
    BY ContextAssumption DEF TimeInv, BaseInv, TypeOK
  <2>2. QED  BY <2>1 DEF TimeInv, ClockInv, SliceNotPostponed
<1>2. TimeInv /\ [Next]_vars => TimeInv'
  BY TimeStep
<1>3. QED  BY TimeInit, <1>1, <1>2, PTL DEF Spec

\* If every call ends early enough, no task is sent away in the very step it
\* was dispatched for (timer.c:129-130, task.c:104-110).
THEOREM EverySliceIsUsed ==
  ASSUME ~LongCalls
  PROVE  Spec => SliceIsUsed
<1>1. TimeInv /\ [Next]_vars => [ran' = 0 => ran > 1]_vars
  BY TickAfterUse
<1>2. TimeInv /\ [Next]_vars => TimeInv'
  BY TimeStep
<1>3. QED  BY TimeInit, <1>1, <1>2, PTL DEF Spec, SliceIsUsed
=============================================================================
