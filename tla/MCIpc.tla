-------------------------------- MODULE MCIpc --------------------------------
(* Model values for Ipc: two tasks, a ring of three, two messages that have   *)
(* no byte in common, one of them longer than the ring.                       *)
EXTENDS Ipc, TLC

CONSTANTS t1, t2

MCTasks == {t1, t2}
MCByte == 1 .. 6
MCMessages == {<<1, 2>>, <<3, 4, 5, 6>>}
MCReadSizes == {1, 3}
Symmetric == Permutations(MCTasks)
=============================================================================
