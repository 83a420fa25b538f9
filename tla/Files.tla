--------------------------------- MODULE Files ---------------------------------
(***************************************************************************)
(* Open files and working directories of the tasks: the descriptor table   *)
(* openfiles and the field cwdn of TASK_INFO, and the system calls open,   *)
(* close, read, write, chdir and getfullpath, over creations, forks and    *)
(* exits.                                                                  *)
(*                                                                         *)
(* A task is named by the page it lives in, and a page keeps its contents  *)
(* when the task exits.  Any live task may be the running one when a call  *)
(* is made, and a call is one step: interrupts are masked in it.           *)
(*                                                                         *)
(* What a program can know is kept beside what the kernel has: what open   *)
(* told it of its descriptors and what chdir told it of its directory.     *)
(* Two histories record what a property must excuse, and guard nothing:    *)
(* who used a descriptor it was not given, and who has its directory from  *)
(* a task that closed the number behind the table.                         *)
(***************************************************************************)
EXTENDS DirTree

CONSTANTS
  Task,         \* the pages tasks live in
  Shell,        \* the page of the first task
  MAX_FD,
  OpenArgs,     \* bound of the checks: names a program passes to open
  ChdirArgs     \* bound of the checks: names a program passes to chdir

ASSUME FilesAssumption ==
  /\ Shell \in Task
  /\ MAX_FD \in Nat /\ MAX_FD >= 3
  /\ "none" \notin OpenArgs

NoFile == "none"
FileNames == OpenArgs \cup {"/console_in", "/console_out", NoFile}

\* What a program may do with a file of that name.
Allowed(name, op) ==
  name \in CASE op = "read" -> {"/console_in", "/tty0", "/ipc0"}
             [] op = "write" -> {"/console_out", "/tty0", "/ipc0"}

\* The driver that has to serve it.
DriverOf(name, op) ==
  CASE name = "/ipc0" /\ op = "read" -> "ipc_read_func"
    [] name = "/ipc0" /\ op = "write" -> "ipc_write_func"
    [] name # "/ipc0" /\ op = "read" -> "console_read_func"
    [] name # "/ipc0" /\ op = "write" -> "console_write_func"

Dirs == DOMAIN BootTree.dir
FileIds == DOMAIN BootTree.file
DirNames == {BootTree.dir[d].name : d \in Dirs} \cup ChdirArgs
Path(d) == FullPath(BootTree, d)

\* The function read_handler and write_handler call for a file of a tree.
FuncIn(tr, f, op) == IF op = "read" THEN tr.file[f].file_read ELSE tr.file[f].file_write

FD == 0 .. MAX_FD - 1
StdErr == 2      \* reserved, and never given out

VARIABLES
  booted,     \* calls of file_in_ram_init made so far
  tree,       \* the directory tree
  live,       \* the tasks; none before the shell is started
  wild,       \* the task in whose call the kernel used a NULL pointer, if any
  openfiles,  \* per page and descriptor: a file or NULL
  cwdn,       \* per page: a directory or NULL
  given,      \* program's knowledge: the file a descriptor stands for
  trail,      \* program's knowledge: the directories it went down into
  misuse,     \* history: tasks that misused a descriptor themselves
  nodir       \* history: tasks that closed the number behind the table, and their offspring

vars == <<booted, tree, live, wild, openfiles, cwdn, given, trail, misuse, nodir>>

NoDescriptors == [fd \in FD |-> NULL]
NothingGiven == [fd \in FD |-> NoFile]

Init ==
  /\ booted = 0 /\ tree = RootOnly
  /\ live = {} /\ wild = {}
  /\ openfiles = [t \in Task |-> NoDescriptors]
  /\ cwdn = [t \in Task |-> NULL]
  /\ given = [t \in Task |-> NothingGiven] /\ trail = [t \in Task |-> <<>>]
  /\ misuse = {} /\ nodir = {}

-----------------------------------------------------------------------------
(* Operations on the descriptor table.                                     *)

\* The descriptors file_open may give out.
FreeFds(table) == {fd \in FD : table[fd] = NULL /\ fd # StdErr}

\* Where its loop stops; empty if it runs to the end of the table.
FirstFree(table) == {fd \in FreeFds(table) : \A other \in FreeFds(table) : fd <= other}

\* The result of file_open.
FdOfOpen(table, name) ==
  IF FindFile(tree, name) = NULL \/ FirstFree(table) = {} THEN -1
  ELSE CHOOSE fd \in FirstFree(table) : TRUE

\* file_open.
WithOpened(table, name) ==
  IF FdOfOpen(table, name) = -1 THEN table
  ELSE [table EXCEPT ![FdOfOpen(table, name)] = FindFile(tree, name)]

\* open_console_in_out.
WithConsole(table) == WithOpened(WithOpened(table, "/console_in"), "/console_out")

\* Mutant: create_task leaves the table as it was, and the page is not wiped.
TableLeft(table) == WithConsole(table)

\* create_task empties the table, and the console is opened.
TableOfNewTask(table) == WithConsole(NoDescriptors)

\* Mutant: a fork clears the descriptors, as create_task does.
TableAnew(table) == WithConsole(NoDescriptors)

\* fork_handler copies TASK_INFO.
TableOfChild(table) == table

\* Mutant: every new task starts in the root.
DirFromRoot(t) == Root

\* task_create_handler: the directory of the creator.
DirOfNewTask(t) == cwdn[t]

\* What a new program may take for granted.
ConsoleGiven ==
  [fd \in FD |-> CASE fd = 0 -> "/console_in" [] fd = 1 -> "/console_out" [] OTHER -> NoFile]

\* The task makes a system call, in a system that is still sane.
Running(t) == wild = {} /\ t \in live

-----------------------------------------------------------------------------
\* One call of file_in_ram_init.
BuildTree ==
  /\ booted < Len(BootCalls)
  /\ booted' = booted + 1
  /\ tree' = BootCall(tree, BootCalls[booted'])
  /\ UNCHANGED <<live, wild, openfiles, cwdn, given, trail, misuse, nodir>>

\* do_task_create of the shell, with the root as its directory.
StartShell ==
  /\ booted = Len(BootCalls) /\ live = {}
  /\ live' = {Shell}
  /\ openfiles' = [openfiles EXCEPT ![Shell] = TableOfNewTask(@)]
  /\ cwdn' = [cwdn EXCEPT ![Shell] = Root]
  /\ given' = [given EXCEPT ![Shell] = ConsoleGiven]
  /\ trail' = [trail EXCEPT ![Shell] = <<>>]
  /\ UNCHANGED <<booted, tree, wild, misuse, nodir>>

\* A new task u gets the knowledge its program has from t.
Born(t, u) ==
  /\ live' = live \cup {u}
  /\ trail' = [trail EXCEPT ![u] = trail[t]]
  /\ misuse' = misuse \ {u}
  /\ nodir' = IF t \in nodir THEN nodir \cup {u} ELSE nodir \ {u}
  /\ UNCHANGED <<booted, tree, wild>>

\* task_create_handler.
TaskCreate(t, u) ==
  /\ Running(t) /\ u \notin live
  /\ openfiles' = [openfiles EXCEPT ![u] = TableOfNewTask(@)]
  /\ cwdn' = [cwdn EXCEPT ![u] = DirOfNewTask(t)]
  /\ given' = [given EXCEPT ![u] = ConsoleGiven]
  /\ Born(t, u)

\* fork_handler.
Fork(t, u) ==
  /\ Running(t) /\ u \notin live
  /\ openfiles' = [openfiles EXCEPT ![u] = TableOfChild(openfiles[t])]
  /\ cwdn' = [cwdn EXCEPT ![u] = cwdn[t]]
  /\ given' = [given EXCEPT ![u] = given[t]]
  /\ Born(t, u)

\* exit_handler: nothing is closed.
Exit(t) ==
  /\ Running(t) /\ t # Shell
  /\ live' = live \ {t}
  /\ UNCHANGED <<booted, tree, wild, openfiles, cwdn, given, trail, misuse, nodir>>

\* open_handler; the program keeps the descriptor if it is not negative.
Open(t, name) ==
  /\ Running(t)
  /\ LET fd == FdOfOpen(openfiles[t], name)
     IN  given' = IF fd = -1 THEN given ELSE [given EXCEPT ![t][fd] = name]
  /\ openfiles' = [openfiles EXCEPT ![t] = WithOpened(@, name)]
  /\ UNCHANGED <<booted, tree, live, wild, cwdn, trail, misuse, nodir>>

\* Mutant: a free entry is marked with the number open fails with.
CloseMinusOne(table, fd) == [table EXCEPT ![fd] = -1]

\* file_close.
CloseEntry(table, fd) == [table EXCEPT ![fd] = NULL]

\* close_handler, of a descriptor inside the table.  Numbers before the table
\* and far behind it, which hit other fields and the stack, are left out.
Close(t, fd) ==
  /\ Running(t) /\ fd \in FD
  /\ openfiles' = [openfiles EXCEPT ![t] = CloseEntry(@, fd)]
  /\ given' = [given EXCEPT ![t][fd] = NoFile]
  /\ UNCHANGED <<booted, tree, live, wild, cwdn, trail, misuse, nodir>>

\* close_handler, of the first number behind the table: the word there is the
\* working directory.
CloseBehindTable(t) ==
  /\ Running(t)
  /\ cwdn' = [cwdn EXCEPT ![t] = NULL]
  /\ misuse' = misuse \cup {t} /\ nodir' = nodir \cup {t}
  /\ UNCHANGED <<booted, tree, live, wild, openfiles, given, trail>>

\* close_handler, of the second number behind it: the page table's address,
\* which the end of the same call switches to.
ClosePageTable(t) ==
  /\ Running(t)
  /\ wild' = {t}
  /\ misuse' = misuse \cup {t}
  /\ UNCHANGED <<booted, tree, live, openfiles, cwdn, given, trail, nodir>>

\* Mutant: read and write are exchanged.
OtherFunc(f, op) == FuncIn(tree, f, IF op = "read" THEN "write" ELSE "read")

Func(f, op) == FuncIn(tree, f, op)

\* read_handler and write_handler: through two pointers, neither tested.
ReadWrite(t, fd, op) ==
  /\ Running(t) /\ fd \in FD
  /\ misuse' = IF Allowed(given[t][fd], op) THEN misuse ELSE misuse \cup {t}
  /\ wild' = IF openfiles[t][fd] = NULL \/ Func(openfiles[t][fd], op) = "NULL"
             THEN {t} ELSE wild
  /\ UNCHANGED <<booted, tree, live, openfiles, cwdn, given, trail, nodir>>

\* chdir_handler.  find_target_subdir reads through the working directory.
Chdir(t, name) ==
  /\ Running(t)
  /\ cwdn[t] # NULL
  /\ LET target == FindTargetSubdir(tree, cwdn[t], name)
     IN  IF target # NULL
         THEN /\ cwdn' = [cwdn EXCEPT ![t] = target]
              /\ trail' = [trail EXCEPT ![t] =
                   IF name = ".." THEN SubSeq(@, 1, Len(@) - 1) ELSE Append(@, name)]
         ELSE UNCHANGED <<cwdn, trail>>
  /\ UNCHANGED <<booted, tree, live, wild, openfiles, given, misuse, nodir>>

\* chdir_handler without a working directory; getcwd, getsubdir and getfdir,
\* which change nothing here, go through it the same way (syscall.c:275, 291, 320).
ChdirGoesWild(t) ==
  /\ Running(t)
  /\ cwdn[t] = NULL
  /\ wild' = {t}
  /\ UNCHANGED <<booted, tree, live, openfiles, cwdn, given, trail, misuse, nodir>>

Next ==
  \/ BuildTree
  \/ StartShell
  \/ \E t \in Task :
       \/ \E u \in Task : TaskCreate(t, u) \/ Fork(t, u)
       \/ Exit(t)
       \/ \E name \in OpenArgs : Open(t, name)
       \/ \E fd \in FD : Close(t, fd)
       \/ CloseBehindTable(t)
       \/ ClosePageTable(t)
       \/ \E fd \in FD, op \in {"read", "write"} : ReadWrite(t, fd, op)
       \/ \E name \in ChdirArgs : Chdir(t, name)
       \/ ChdirGoesWild(t)

Spec == Init /\ [][Next]_vars

-----------------------------------------------------------------------------
(* Properties.                                                             *)

\* The type invariant.
TypeOK ==
  /\ booted \in 0 .. Len(BootCalls)
  /\ tree = TreeAfter[booted]
  /\ live \in SUBSET Task
  /\ wild \in SUBSET Task
  /\ openfiles \in [Task -> [FD -> FileIds \cup {NULL}]]
  /\ cwdn \in [Task -> Dirs \cup {NULL}]
  /\ given \in [Task -> [FD -> FileNames]]
  /\ trail \in [Task -> Seq(ChdirArgs)]
  /\ misuse \in SUBSET Task /\ nodir \in SUBSET Task

\* The calls that made a directory, or a file, under directory d.
DirsMadeIn(n, d)  == {c \in 1 .. n : BootCalls[c].dir = d /\ BootCalls[c].type = "DIR"}
FilesMadeIn(n, d) == {c \in 1 .. n : BootCalls[c].dir = d /\ BootCalls[c].type # "DIR"}

\* A list is what the calls made, in their order.
Spells(arr, chain, calls) ==
  \E call \in [DOMAIN chain -> calls] :
    /\ \A i, j \in DOMAIN chain : i < j => call[i] < call[j]
    /\ \A c \in calls : \E i \in DOMAIN chain : call[i] = c
    /\ \A i \in DOMAIN chain : arr[chain[i]].name = BootCalls[call[i]].name

\* The pointers spell the tree that the calls of file_in_ram_init describe:
\* under each directory the directories and files made there, in that order,
\* and every file once in the list of all files, which is linked both ways
\* (file.c:74-108, 160-250).
IsSpelled(tr, n) ==
  /\ \A d \in DOMAIN tr.dir :
       /\ Spells(tr.dir, Children(tr, d), DirsMadeIn(n, d))
       /\ Spells(tr.file, FilesIn(tr, d), FilesMadeIn(n, d))
       /\ \A i \in DOMAIN Children(tr, d) : tr.dir[Children(tr, d)[i]].parent = d
  /\ FileList(tr) = [i \in DOMAIN tr.file |-> i]
  /\ \A f \in DOMAIN tr.file : tr.file[f].list_prev = IF f = 1 THEN NULL ELSE f - 1
TreeIsSpelled == IsSpelled(tree, booted)

\* The kernel follows a NULL pointer only in a call of a task that misused a
\* descriptor itself, or of one that has its NULL directory from an ancestor
\* that closed the number behind the table: fork and creation hand that on to
\* programs that misused nothing (syscall.c:122-124, 177).  Nothing else that
\* parents, children and previous owners of the page did with their
\* descriptors leads there (syscall.c:233, 248, file.c:336).
WildOnlyByMisuse ==
  \A t \in wild \ misuse : t \in nodir /\ cwdn[t] = NULL

\* What open and close told a program about its descriptors is what the kernel
\* has, in particular after a fork, after a creation (README_en.md:36: console
\* in and out are 0 and 1), and in a page that was another task's before.
GivenIsOpen ==
  \A t \in live, fd \in FD :
    IF given[t][fd] = NoFile THEN openfiles[t][fd] = NULL
    ELSE /\ openfiles[t][fd] # NULL
         /\ tree.file[openfiles[t][fd]].name = given[t][fd]

\* A read or write that the opened name allows reaches the driver behind that
\* name (file.c:184-209, syscall.c:233, 248).
ReachesDriver ==
  \A t \in live, fd \in FD, op \in {"read", "write"} :
    Allowed(given[t][fd], op) =>
      /\ openfiles[t][fd] # NULL
      /\ Func(openfiles[t][fd], op) = DriverOf(given[t][fd], op)

\* The path a program gets is the one it went, by the results of chdir: names
\* taken on 0, one given up on "..", nothing on -1 (usyscall.c:157-162); over
\* creations and forks too, and whatever other misuse there was, unless the
\* task or an ancestor of it closed the directory.
PathFollowsResults ==
  \A t \in live \ nodir : FullPath(tree, cwdn[t]) = <<"/root">> \o trail[t]

=============================================================================
