-------------------------------- MODULE Fifo --------------------------------
(***************************************************************************)
(* What the kernel queue promises to the tasks that share it: the bytes    *)
(* that were accepted come out once each, in the order of their arrival,   *)
(* and no more than Capacity of them wait.  Ipc is shown to implement it.  *)
(***************************************************************************)
EXTENDS Naturals, Sequences

CONSTANTS
  Capacity,   \* bytes that can wait
  Byte        \* what is queued

VARIABLES
  buf,        \* the bytes that wait, oldest first
  in,         \* history: every byte accepted
  out         \* history: every byte handed out

fifoVars == <<buf, in, out>>

Init == buf = <<>> /\ in = <<>> /\ out = <<>>

\* A byte is accepted while there is room.
Put(b) ==
  /\ Len(buf) < Capacity
  /\ buf' = Append(buf, b)
  /\ in' = Append(in, b)
  /\ UNCHANGED out

\* The oldest byte is handed out.
Get ==
  /\ buf # <<>>
  /\ buf' = Tail(buf)
  /\ out' = Append(out, Head(buf))
  /\ UNCHANGED in

Next == Get \/ \E b \in Byte : Put(b)

Spec == Init /\ [][Next]_fifoVars

\* Nothing is lost, duplicated or reordered between the writers and the readers,
\* and the bound is kept (klib/queue.c:58-86).
Conserved == in = out \o buf /\ Len(buf) <= Capacity
=============================================================================
