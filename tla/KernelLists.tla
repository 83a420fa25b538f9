----------------------------- MODULE KernelLists -----------------------------
(***************************************************************************)
(* The lists of Kernel as the code has them: heads and links.              *)
(*                                                                         *)
(* Kernel speaks of sequences.  Here every action also does what its       *)
(* handler does to next and prev, computed from the links alone, and       *)
(* LinksSpellLists says that following them meets Kernel's sequences.  The *)
(* links of a node lie in the node: a task on a ready list and its forked  *)
(* copy, a page on the free list and on the list in use, share nothing but *)
(* the rule that whoever leaves a list leaves no way back into it.         *)
(***************************************************************************)
EXTENDS Kernel, Integers

NULL == -1

VARIABLES
  tl,   \* task_ready_list[].head, and next_ptr, prev_ptr in each TASK_INFO
  pl,   \* free_page_head, inuse_page_head, next and prev in each PAGE_INFO
  kl    \* kpage.blk_list_head and next in each kernel BLK_INFO; prev is left
        \* out, no code reads it

listVars == <<tl, pl, kl>>

-----------------------------------------------------------------------------
\* ptr->field = v, where field is the function f of the nodes.  Through NULL
\* the store lands where the board has no memory; what else it may do is
\* SpawnGoesWild and ExitGoesWild.
Store(f, ptr, v) == IF ptr = NULL THEN f ELSE [f EXCEPT ![ptr] = v]

\* The node that head points to after k turns of the loop
\* while (head->next != NULL && head != node) head = head->next, from h.
Turn(next, h, node, k) ==
  LET at[i \in Nat] ==
        IF i = 0 THEN h
        ELSE LET m == at[i - 1]
             IN  IF m = node \/ next[m] = NULL THEN m ELSE next[m]
  IN  at[k]

\* Where the loop ends on a list without a ring.
Search(next, h, node) == Turn(next, h, node, Cardinality(DOMAIN next))

EndOf(next, h) == Search(next, h, NULL)

-----------------------------------------------------------------------------
(* The ready lists.                                                        *)

\* task_enqueue.
LinkTask(l, t, p) ==
  LET end == EndOf(l.next, l.head[p])
  IN  IF l.head[p] = NULL
      THEN [head |-> [l.head EXCEPT ![p] = t],
            next |-> Store(l.next, t, NULL),
            prev |-> Store(l.prev, t, NULL)]
      ELSE [head |-> l.head,
            next |-> Store(Store(l.next, end, t), t, NULL),
            prev |-> Store(l.prev, t, end)]

\* task_dequeue, from a list that has a head.
UnlinkHead(l, p) ==
  LET h == l.head[p]
      n == l.next[h]
  IN  [head |-> [l.head EXCEPT ![p] = n],
       next |-> Store(l.next, h, NULL),
       prev |-> Store(l.prev, n, NULL)]

\* Mutant: the predecessor keeps its link to the task that leaves.
UnlinkLastHalf(l, t, p) ==
  IF l.next[t] # NULL \/ l.head[p] = NULL THEN l
  ELSE IF l.next[l.head[p]] = NULL THEN [l EXCEPT !.head[p] = NULL]
  ELSE [l EXCEPT !.next[t] = NULL, !.prev[t] = NULL]

\* task_pop: a task with a successor stays; the only one empties the list.
UnlinkLast(l, t, p) ==
  IF l.next[t] # NULL \/ l.head[p] = NULL THEN l
  ELSE IF l.next[l.head[p]] = NULL THEN [l EXCEPT !.head[p] = NULL]
  ELSE [head |-> l.head,
        next |-> Store(Store(l.next, l.prev[t], NULL), t, NULL),
        prev |-> Store(l.prev, t, NULL)]

-----------------------------------------------------------------------------
(* The page lists and the list of kernel blocks.                           *)

\* insert_to_inuse_list.
InsertToInuseList(l, t) ==
  LET end == EndOf(l.next, l.inuse)
  IN  IF l.inuse = NULL
      THEN [l EXCEPT !.inuse = t,
                     !.next = Store(@, t, NULL), !.prev = Store(@, t, NULL)]
      ELSE [l EXCEPT !.next = Store(Store(@, end, t), t, NULL),
                     !.prev = Store(@, t, end)]

\* page_alloc.
PageAlloc(l) ==
  LET t == l.free
      n == l.next[t]
  IN  InsertToInuseList([free |-> n, inuse |-> l.inuse,
                         next |-> Store(l.next, t, NULL),
                         prev |-> Store(l.prev, n, NULL)], t)

\* delete_from_inuse_list.
DeleteFromInuseList(l, t) ==
  LET before == l.prev[t]
      after  == l.next[t]
  IN  IF before = NULL
      THEN [l EXCEPT !.inuse = after, !.prev = Store(@, after, NULL),
                     !.next = Store(@, t, NULL)]
      ELSE [l EXCEPT !.next = Store(Store(@, before, after), t, NULL),
                     !.prev = Store(Store(@, after, before), t, NULL)]

\* add_to_free_list_end.
AddToFreeListEnd(l, t) ==
  LET end == EndOf(l.next, l.free)
  IN  IF l.free = NULL
      THEN [l EXCEPT !.free = t, !.next = Store(@, t, NULL)]
      ELSE [l EXCEPT !.next = Store(Store(@, end, t), t, NULL),
                     !.prev = Store(@, t, end)]

\* which_page: a page that is not found is the last of the list.
WhichPage(l, t) == Search(l.next, l.inuse, t)

\* page_free(which_page(..)) of exit_handler.
PageFreeLinks(l, t) ==
  LET pg == WhichPage(l, t)
  IN  AddToFreeListEnd(DeleteFromInuseList(l, pg), pg)

\* kblk_alloc.
KBlkAllocLinks(l) ==
  [head |-> l.next[l.head], next |-> Store(l.next, l.head, NULL)]

\* kblk_free, when a block is left on the list.
KBlkFreeLinks(l, k) ==
  [l EXCEPT !.next = Store(Store(@, EndOf(@, l.head), k), k, NULL)]

-----------------------------------------------------------------------------
(* The links main() leaves behind.                                         *)

\* Nodes 0 .. n - 1 in the order of their addresses.
NextInOrder(n) == [i \in 0 .. n - 1 |-> IF i = n - 1 THEN NULL ELSE i + 1]
PrevInOrder(n) == [i \in 0 .. n - 1 |-> i - 1]

\* task_init.
NoTasks == [head |-> [p \in Prios |-> NULL],
            next |-> [t \in Pages |-> NULL], prev |-> [t \in Pages |-> NULL]]

\* page_list_init.
AllFree == [free |-> 0, inuse |-> NULL,
            next |-> NextInOrder(NPages), prev |-> PrevInOrder(NPages)]

\* kpage_blks_init.
AllKFree == [head |-> 0, next |-> NextInOrder(NKBlks)]

\* path_tree_init and do_task_create take a page each, ipc_buf_alloc and
\* task_pgt_setup a block each; the shell is enqueued, and run_first_sched
\* moves it from the head of its list to the end.
BootTl ==
  LET p == NPrio - 1
  IN  LinkTask(UnlinkHead(LinkTask(NoTasks, ShellPage, p), p), ShellPage, p)
BootPl == PageAlloc(PageAlloc(AllFree))
BootKl == KBlkAllocLinks(KBlkAllocLinks(AllKFree))

ListInit == Init /\ tl = BootTl /\ pl = BootPl /\ kl = BootKl

-----------------------------------------------------------------------------
(* The actions of Kernel with what they do to the links.                   *)

\* page_alloc, task_enqueue and kblk_alloc of a creation or a fork.
SpawnLinks(p) ==
  /\ tl' = LinkTask(tl, pl.free, p)
  /\ pl' = PageAlloc(pl)
  /\ kl' = KBlkAllocLinks(kl)

ListTaskCreate(p) == TaskCreate(p) /\ SpawnLinks(p)

ListFork == Fork /\ SpawnLinks(priority[curr])

ListExit ==
  /\ Exit
  /\ tl' = UnlinkLast(tl, curr, priority[curr])
  /\ pl' = PageFreeLinks(pl, curr)
  /\ kl' = KBlkFreeLinks(kl, pgt[curr])

\* The index at which choose_task stops, by the heads of the lists.
ChosenHead(l, s) ==
  {p \in Prios : /\ l.head[p] # NULL /\ s[l.head[p]] = "READY"
                 /\ \A q \in Prios :
                      q < p => ~(l.head[q] # NULL /\ s[l.head[q]] = "READY")}

ListTick ==
  /\ Tick
  /\ LET s == [status EXCEPT ![curr] = "READY"]
     IN  \/ \E p \in ChosenHead(tl, s) :
              LET t == tl.head[p]
              IN  tl' = LinkTask(UnlinkHead(tl, p), t, priority[t])
         \/ ChosenHead(tl, s) = {} /\ tl' = tl
  /\ UNCHANGED <<pl, kl>>

\* The actions that touch no list, and those after which only Boot is left.
ListsAlone ==
  /\ SpawnGoesWild \/ ExitGoesWild \/ Yield \/ ReadConsole \/ KeyPressed \/ Restart
  /\ UNCHANGED listVars

ListBoot == Boot /\ tl' = BootTl /\ pl' = BootPl /\ kl' = BootKl

ListNext ==
  \/ \E p \in Prios : ListTaskCreate(p)
  \/ ListFork
  \/ ListExit
  \/ ListTick
  \/ ListsAlone
  \/ ListBoot

ListSpec == ListInit /\ [][ListNext]_<<vars, listVars>>

\* The fairness of FairSpec; a Tick step of this module is a ListTick step.
FairListSpec == ListSpec /\ SF_vars(Tick)

-----------------------------------------------------------------------------
(* Properties.                                                             *)

\* Following next from h meets the nodes of s, in order, and ends behind them.
Spelled(h, next, s) ==
  /\ h = IF s = <<>> THEN NULL ELSE s[1]
  /\ \A i \in DOMAIN s : next[s[i]] = IF i = Len(s) THEN NULL ELSE s[i + 1]

\* prev leads from each node of s to the one before it.
BackLinked(prev, s) ==
  \A i \in DOMAIN s : prev[s[i]] = IF i = 1 THEN NULL ELSE s[i - 1]

\* After any order of creations, forks, exits and dispatches the links are
\* the lists: nothing is cut off, no list runs into another or into itself
\* over a stale link, and where prev is followed (task_pop,
\* delete_from_inuse_list) it leads to the node before.
LinksSpellLists ==
  /\ \A p \in Prios : /\ Spelled(tl.head[p], tl.next, ready[p])
                      /\ BackLinked(tl.prev, ready[p])
  /\ Spelled(pl.free, pl.next, free)
  /\ \E n \in 1 .. NPages :
       LET s == [i \in 1 .. n |-> Turn(pl.next, pl.inuse, NULL, i - 1)]
       IN  /\ Spelled(pl.inuse, pl.next, s) /\ BackLinked(pl.prev, s)
           /\ IsInjective(s) /\ Range(s) = inuse
  /\ Spelled(kl.head, kl.next, kfree)
=============================================================================
