--------------------------------- MODULE Ipc ---------------------------------
(***************************************************************************)
(* The IPC file /ipc/ipc0: the ring of kernel/ipc.c over klib/queue.c, and *)
(* the tasks that read and write it through the system calls.              *)
(*                                                                         *)
(* A system call moves its bytes one at a time, each turn of the loops of  *)
(* ipc_read_func and ipc_write_func being a step here.  There is no lock:  *)
(* what keeps two calls apart is that the interrupts are masked from the   *)
(* svc to the return to user code, so that Tick waits for the call.        *)
(***************************************************************************)
EXTENDS Integers, SequencesExt

CONSTANTS
  Size,        \* size of the ring (128 in ipc_buf_alloc)
  Byte,        \* the values of a byte that are written
  Messages,    \* what a task may hand to __write
  ReadSizes,   \* what a task may ask of __read
  Tasks,       \* the tasks that have the file open
  MaxBytes     \* bound of the checks: bytes offered in all

\* What dequeue returns when the ring is empty: -1 cut to uint8_t.
EmptyByte == 255

ASSUME IpcAssumption ==
  /\ Size \in Nat \ {0}
  /\ Byte \subseteq 0 .. 255
  /\ Messages \subseteq Seq(Byte)
  /\ ReadSizes \subseteq Nat
  /\ MaxBytes \in Nat

Slots == 0 .. Size - 1

VARIABLES
  head, end, n_data, data,   \* the fields of struct QUEUE q
  cur,        \* the task that runs
  op,         \* the system call each task is in: "user", "write", "read"
  rest,       \* the bytes a write has still to enqueue
  left,       \* the bytes a read has still to fill
  rbuf,       \* the bytes a read has filled
  ret,        \* the r0 that the last call of each task left
  starved,    \* history: a dequeue of the last read found the ring empty
  in, out     \* history: every byte enqueued, every byte dequeued

ringVars == <<head, end, n_data, data>>
callVars == <<op, rest, left, rbuf, ret, starved>>
vars == <<ringVars, cur, callVars, in, out>>

Init ==
  /\ head = 0 /\ end = 0 /\ n_data = 0
  /\ data = [i \in Slots |-> 0]
  /\ cur \in Tasks
  /\ op = [t \in Tasks |-> "user"]
  /\ rest = [t \in Tasks |-> <<>>]
  /\ left = [t \in Tasks |-> 0]
  /\ rbuf = [t \in Tasks |-> <<>>]
  /\ ret = [t \in Tasks |-> 0]
  /\ starved = [t \in Tasks |-> FALSE]
  /\ in = <<>> /\ out = <<>>

-----------------------------------------------------------------------------
\* Mutant: the ring holds one byte more than it has slots.
FullLate == n_data = Size + 1

QueueIsFull == n_data = Size
QueueIsEmpty == n_data = 0

\* Mutant: the index runs into the slot behind the ring and stays there.
StickAtEnd(i) == IF i + 1 < Size THEN i + 1 ELSE Size - 1

\* The next index.
NextSlot(i) == (i + 1) % Size

\* enqueue, when the ring is not full.
Enqueue(b) ==
  /\ data' = [data EXCEPT ![end] = b]
  /\ end' = NextSlot(end)
  /\ n_data' = n_data + 1
  /\ in' = Append(in, b)
  /\ UNCHANGED <<head, out>>

\* dequeue, when the ring is not empty.
Dequeue ==
  /\ data' = [data EXCEPT ![head] = 0]
  /\ n_data' = n_data - 1
  /\ head' = NextSlot(head)
  /\ out' = Append(out, data[head])
  /\ UNCHANGED <<end, in>>

\* Mutant: the tick is taken in a system call too.
TickAlways == TRUE

\* Interrupts are masked from the svc to the return to user code.
Unmasked == op[cur] = "user"

\* timer0_isr, for any task the scheduler may choose.
Tick ==
  /\ Unmasked
  /\ cur' \in Tasks \ {cur}
  /\ UNCHANGED <<ringVars, callVars, in, out>>

\* __write: the svc, up to the loop.
StartWrite(m) ==
  /\ op[cur] = "user"
  /\ Len(in) + Len(m) <= MaxBytes
  /\ op' = [op EXCEPT ![cur] = "write"]
  /\ rest' = [rest EXCEPT ![cur] = m]
  /\ UNCHANGED <<ringVars, cur, left, rbuf, ret, starved, in, out>>

\* One turn of the loop of ipc_write_func.
WriteByte ==
  /\ op[cur] = "write"
  /\ rest[cur] # <<>>
  /\ ~QueueIsFull
  /\ Enqueue(Head(rest[cur]))
  /\ rest' = [rest EXCEPT ![cur] = Tail(@)]
  /\ UNCHANGED <<cur, op, left, rbuf, ret, starved>>

\* The turn that finds the ring full: the call is given up, and the bytes that
\* went before stay in the ring.
WriteRefused ==
  /\ op[cur] = "write"
  /\ rest[cur] # <<>>
  /\ QueueIsFull
  /\ ret' = [ret EXCEPT ![cur] = -1]
  /\ op' = [op EXCEPT ![cur] = "user"]
  /\ UNCHANGED <<ringVars, cur, rest, left, rbuf, starved, in, out>>

\* The end of the loop: the result is 0, not the number of bytes.
WriteReturn ==
  /\ op[cur] = "write"
  /\ rest[cur] = <<>>
  /\ ret' = [ret EXCEPT ![cur] = 0]
  /\ op' = [op EXCEPT ![cur] = "user"]
  /\ UNCHANGED <<ringVars, cur, rest, left, rbuf, starved, in, out>>

\* __read: the svc, up to the loop.
StartRead(n) ==
  /\ op[cur] = "user"
  /\ op' = [op EXCEPT ![cur] = "read"]
  /\ left' = [left EXCEPT ![cur] = n]
  /\ rbuf' = [rbuf EXCEPT ![cur] = <<>>]
  /\ starved' = [starved EXCEPT ![cur] = FALSE]
  /\ UNCHANGED <<ringVars, cur, rest, ret, in, out>>

\* One turn of the loop of ipc_read_func.
ReadByte ==
  /\ op[cur] = "read"
  /\ left[cur] # 0
  /\ ~QueueIsEmpty
  /\ Dequeue
  /\ rbuf' = [rbuf EXCEPT ![cur] = Append(@, data[head])]
  /\ left' = [left EXCEPT ![cur] = @ - 1]
  /\ UNCHANGED <<cur, op, rest, ret, starved>>

\* The same turn on an empty ring, which the loop does not notice.
ReadNothing ==
  /\ op[cur] = "read"
  /\ left[cur] # 0
  /\ QueueIsEmpty
  /\ rbuf' = [rbuf EXCEPT ![cur] = Append(@, EmptyByte)]
  /\ left' = [left EXCEPT ![cur] = @ - 1]
  /\ starved' = [starved EXCEPT ![cur] = TRUE]
  /\ UNCHANGED <<ringVars, cur, op, rest, ret, in, out>>

\* The end of the loop: the result is the number of bytes filled.
ReadReturn ==
  /\ op[cur] = "read"
  /\ left[cur] = 0
  /\ ret' = [ret EXCEPT ![cur] = Len(rbuf[cur])]
  /\ op' = [op EXCEPT ![cur] = "user"]
  /\ UNCHANGED <<ringVars, cur, rest, left, rbuf, starved, in, out>>

Next ==
  \/ Tick
  \/ \E m \in Messages : StartWrite(m)
  \/ WriteByte
  \/ WriteRefused
  \/ WriteReturn
  \/ \E n \in ReadSizes : StartRead(n)
  \/ ReadByte
  \/ ReadNothing
  \/ ReadReturn

Spec == Init /\ [][Next]_vars

-----------------------------------------------------------------------------
(* Properties.                                                             *)

\* The type invariant.
TypeOK ==
  /\ head \in Slots /\ end \in Slots
  /\ n_data \in 0 .. Size
  /\ data \in [Slots -> Byte \cup {0}]
  /\ cur \in Tasks
  /\ op \in [Tasks -> {"user", "write", "read"}]
  /\ rest \in [Tasks -> Seq(Byte)]
  /\ left \in [Tasks -> Nat]
  /\ rbuf \in [Tasks -> Seq(0 .. 255)]
  /\ ret \in [Tasks -> Nat \cup {-1}]
  /\ starved \in [Tasks -> BOOLEAN]
  /\ in \in Seq(Byte) /\ out \in Seq(Byte)

\* The bytes that wait in the ring, oldest first.
Contents == [i \in 1 .. n_data |-> data[(head + i - 1) % Size]]

\* The ring is a bounded FIFO, over any number of turns around it: the bytes
\* that tasks get are those that tasks put, in order (queue.c:58-86).
Queue == INSTANCE Fifo WITH Capacity <- Size, buf <- Contents
ImplementsFifo == Queue!Spec

\* What enters the ring is a sequence of beginnings of messages: the messages
\* of two writers are never mixed, though no lock guards the ring and a write
\* may be cut short by a full ring (ipc.c:36-50).
Starts(b) == \E m \in Messages : m # <<>> /\ b = m[1]
Follows(a, b) == \E m \in Messages : \E i \in 1 .. Len(m) - 1 : a = m[i] /\ b = m[i + 1]
MessagesUnbroken ==
  \A i \in DOMAIN in : Starts(in[i]) \/ (i > 1 /\ Follows(in[i - 1], in[i]))

\* A read that found a byte for each of its turns got neighbours of the stream:
\* no other reader took a byte from between them (ipc.c:20-32).
ReadsContiguous ==
  \A t \in Tasks : op[t] = "read" /\ ~starved[t] => IsSuffix(rbuf[t], out)
=============================================================================
