--------------------------------- MODULE MCLs ---------------------------------
(* Instance of Ls: names of one to three characters, directories of up to    *)
(* three entries, and buffers from the empty directory's to one that holds   *)
(* any of them with room to spare.                                           *)
EXTENDS Ls

MCNames == {<<1>>, <<2, 2>>, <<1, 2, 1>>}
MCSizes == 2 .. 18
===============================================================================
