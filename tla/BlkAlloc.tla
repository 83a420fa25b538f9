------------------------------- MODULE BlkAlloc -------------------------------
(***************************************************************************)
(* __malloc_blk and __mfree_blk: the 4K blocks of one page, over the life  *)
(* of the tasks that own the page one after another.                       *)
(*                                                                         *)
(* A block is the index of its BLK_INFO.  The list is kept at the level of *)
(* the pointers, because two of its operations leave pointers stale; prev  *)
(* is left out, no code reads it.  Tasks free what they hold, once.        *)
(***************************************************************************)
EXTENDS Integers

CONSTANTS
  NBlks,       \* BLK_NUM_PER_PAGE
  NullStore    \* what may become of the store through NULL when the last block
               \* is taken: the kernel's table maps address 0 (mmu.c:74), and
               \* no memory is there; "ignored", "aborts"

ASSUME BlkAssumption ==
  /\ NBlks \in Nat /\ NBlks > 3
  /\ NullStore \subseteq {"ignored", "aborts"} /\ NullStore # {}

Blks == 0 .. NBlks - 1
NULL == -1

\* The stack of the task and the two blocks the BLK_INFOs lie in.
Reserved == 0 .. 2

VARIABLES
  mode,            \* "ok", or "wild" after an abort in the kernel
  blk_list_head,
  next,            \* next in each BLK_INFO
  no_free_blks,
  blk_not_init,
  held             \* the blocks the task holds

vars == <<mode, blk_list_head, next, no_free_blks, blk_not_init, held>>

\* Mutant: the last block is chained to the entry behind the array.
ChainedPast == [b \in Blks |-> b + 1]

\* The list blks_init builds: every block in the order of its address.
Chained == [b \in Blks |-> IF b = NBlks - 1 THEN NULL ELSE b + 1]

\* page_list_init, and blks_init for the first task of the page.
Init ==
  /\ mode = "ok"
  /\ blk_list_head = 3 /\ next = Chained
  /\ no_free_blks = FALSE /\ blk_not_init = TRUE
  /\ held = {}

-----------------------------------------------------------------------------
\* The k-th node of the list; NULL from its end on.
Node(k) ==
  LET n[i \in 1 .. k] ==
        IF i = 1 THEN blk_list_head
        ELSE IF n[i - 1] = NULL THEN NULL ELSE next[n[i - 1]]
  IN  n[k]

\* The nodes on the list.
Listed == {Node(k) : k \in 1 .. NBlks} \ {NULL}

\* find_blk_list_end.
EndOfList == CHOOSE b \in Listed : next[b] = NULL

\* blk_alloc, when more than one block is left.  The block keeps its next.
Malloc ==
  /\ mode = "ok"
  /\ ~no_free_blks
  /\ blk_list_head # NULL
  /\ next[blk_list_head] # NULL
  /\ held' = held \cup {blk_list_head}
  /\ blk_list_head' = next[blk_list_head]
  /\ UNCHANGED <<mode, next, no_free_blks, blk_not_init>>

\* blk_alloc of the last block: the flag is set, then NULL->prev is written.
MallocLast ==
  /\ mode = "ok"
  /\ ~no_free_blks
  /\ blk_list_head # NULL
  /\ next[blk_list_head] = NULL
  /\ \/ /\ "ignored" \in NullStore
        /\ held' = held \cup {blk_list_head}
        /\ blk_list_head' = NULL
        /\ no_free_blks' = TRUE
        /\ UNCHANGED mode
     \/ /\ "aborts" \in NullStore
        /\ mode' = "wild"
        /\ UNCHANGED <<blk_list_head, no_free_blks, held>>
  /\ UNCHANGED <<next, blk_not_init>>

\* Mutant: the new end keeps its next.
EndKeepsNext(b) ==
  IF blk_list_head = NULL
  THEN blk_list_head' = b /\ UNCHANGED next
  ELSE /\ next' = [next EXCEPT ![EndOfList] = b]
       /\ UNCHANGED blk_list_head

\* put_to_blklist_end.  A block put on an empty list keeps its stale next.
PutToBlklistEnd(b) ==
  IF blk_list_head = NULL
  THEN blk_list_head' = b /\ UNCHANGED next
  ELSE /\ next' = [next EXCEPT ![EndOfList] = b, ![b] = NULL]
       /\ UNCHANGED blk_list_head

\* free_blk.  no_free_blks is not taken back.
Mfree(b) ==
  /\ mode = "ok"
  /\ b \in held
  /\ PutToBlklistEnd(b)
  /\ held' = held \ {b}
  /\ UNCHANGED <<mode, no_free_blks, blk_not_init>>

\* Mutant: the flag is assigned where the code compares it (memory.c:288).
FlagAssigned == FALSE

\* blk_not_init after blks_init, whose line 288 compares the flag.
FlagAfterInit == blk_not_init

\* The task exits and the page goes to another one: blks_init, which does
\* nothing once the flag says so, and never sets no_free_blks.
NextOwner ==
  /\ mode = "ok"
  /\ held' = {}
  /\ IF blk_not_init
     THEN blk_list_head' = 3 /\ next' = Chained
     ELSE UNCHANGED <<blk_list_head, next>>
  /\ blk_not_init' = FlagAfterInit
  /\ UNCHANGED <<mode, no_free_blks>>

\* data_abort_handler resets the board.
Boot ==
  /\ mode = "wild"
  /\ mode' = "ok"
  /\ blk_list_head' = 3 /\ next' = Chained
  /\ no_free_blks' = FALSE /\ blk_not_init' = TRUE
  /\ held' = {}

Next ==
  \/ Malloc
  \/ MallocLast
  \/ \E b \in Blks : Mfree(b)
  \/ NextOwner
  \/ Boot

Spec == Init /\ [][Next]_vars

-----------------------------------------------------------------------------
(* Properties.                                                             *)

\* The type invariant.
TypeOK ==
  /\ mode \in {"ok", "wild"}
  /\ blk_list_head \in Blks \cup {NULL}
  /\ next \in [Blks -> Blks \cup {NULL}]
  /\ no_free_blks \in BOOLEAN /\ blk_not_init \in BOOLEAN
  /\ held \subseteq Blks

\* The walk of find_blk_list_end ends: no order of allocations and frees ties
\* the list into a ring, although blocks go back with a stale next
\* (memory.c:318, 366-369).
WalkEnds == Node(NBlks + 1) = NULL

\* Until the last block was taken, every block that is not reserved is held or
\* on the list and none is both, whoever owned the page before
\* (memory.c:255-295): a task finds all of the page's blocks.
NoBlockLost ==
  ~no_free_blks => /\ Listed \cap held = {}
                   /\ Listed \cup held = Blks \ Reserved

\* A page with a free block serves __malloc_blk: freeing a block makes it
\* available again (README_en.md:32, __mfree_blk).
FreedBlockIsUsable == blk_list_head # NULL => mode = "ok" /\ ~no_free_blks
=============================================================================
