-------------------------------- MODULE DirTree --------------------------------
(***************************************************************************)
(* The directory tree of kernel/file.c: directories and files linked by    *)
(* pointers, made once at boot and only read afterwards.                   *)
(*                                                                         *)
(* A directory or file is named by its number in the order of allocation   *)
(* (path_tree.ma_aval_start only ever grows).  A tree is a value here:     *)
(* the two arrays of structures and file_list_head.  A name is a string as *)
(* a whole.                                                                *)
(***************************************************************************)
EXTENDS Integers, Sequences, FiniteSets

NULL == 0

\* The structures met from n on when the pointers of nxt are followed.
Chain(n, nxt) ==
  LET at[k \in 0 .. Len(nxt)] ==
        IF k = 0 THEN n ELSE IF at[k - 1] = NULL THEN NULL ELSE nxt[at[k - 1]]
  IN  [k \in 1 .. Cardinality({j \in 0 .. Len(nxt) : at[j] # NULL}) |-> at[k - 1]]

\* The pointers of one kind, as a function of the structure they are in.
NextDir(tree)  == [i \in DOMAIN tree.dir  |-> tree.dir[i].next_sibling]
ParentDir(tree) == [i \in DOMAIN tree.dir |-> tree.dir[i].parent]
NextFile(tree) == [i \in DOMAIN tree.file |-> tree.file[i].next_sibling]
NextInList(tree) == [i \in DOMAIN tree.file |-> tree.file[i].list_next]

Children(tree, d) == Chain(tree.dir[d].firstchild, NextDir(tree))
FilesIn(tree, d)  == Chain(tree.dir[d].firstfile, NextFile(tree))
FileList(tree)    == Chain(tree.head, NextInList(tree))

-----------------------------------------------------------------------------
(* Building the tree.                                                      *)

Directory(parent, name) ==
  [name |-> name, parent |-> parent,
   firstchild |-> NULL, next_sibling |-> NULL, firstfile |-> NULL]

\* path_tree_init and create_root_path.
Root == 1
RootOnly == [dir |-> <<Directory(NULL, "/root")>>, file |-> <<>>, head |-> NULL]

\* Mutant: the new directory is linked behind the first child.
CreatePathNodeSecond(tree, parent, name) ==
  LET node == Len(tree.dir) + 1
      more == Append(tree.dir, Directory(parent, name))
      kids == Children(tree, parent)
  IN  [tree EXCEPT !.dir =
         IF kids = <<>> THEN [more EXCEPT ![parent].firstchild = node]
         ELSE [more EXCEPT ![parent].next_sibling = node]]

\* create_path_node: a last child.
CreatePathNode(tree, parent, name) ==
  LET node == Len(tree.dir) + 1
      more == Append(tree.dir, Directory(parent, name))
      kids == Children(tree, parent)
  IN  [tree EXCEPT !.dir =
         IF kids = <<>> THEN [more EXCEPT ![parent].firstchild = node]
         ELSE [more EXCEPT ![kids[Len(kids)]].next_sibling = node]]

\* The functions behind read and write, by the type of the file; the type and
\* the name of a file determine each other in file_in_ram_init.
FileRead(type) ==
  CASE type \in {"CONSOLE_IN", "TTY0"} -> "console_read_func"
    [] type = "IPC" -> "ipc_read_func"
    [] OTHER -> "NULL"
FileWrite(type) ==
  CASE type \in {"CONSOLE_OUT", "TTY0"} -> "console_write_func"
    [] type = "IPC" -> "ipc_write_func"
    [] OTHER -> "NULL"

\* file_list_push: to the end of the list of all files.
FileListPush(tree, f) ==
  LET all == FileList(tree)
  IN  IF all = <<>> THEN [tree EXCEPT !.head = f]
      ELSE [tree EXCEPT !.file[all[Len(all)]].list_next = f,
                        !.file[f].list_prev = all[Len(all)]]

\* create_file_under_node: a last file of the directory, and of the list.
CreateFileUnderNode(tree, d, name, type) ==
  LET f == Len(tree.file) + 1
      new == [name |-> name, parent |-> d, type |-> type,
              next_sibling |-> NULL, list_next |-> NULL, list_prev |-> NULL,
              file_read |-> FileRead(type), file_write |-> FileWrite(type)]
      here == FilesIn(tree, d)
      more == [tree EXCEPT !.file = Append(@, new)]
  IN  FileListPush(
        IF here = <<>> THEN [more EXCEPT !.dir[d].firstfile = f]
        ELSE [more EXCEPT !.file[here[Len(here)]].next_sibling = f], f)

\* The calls of file_in_ram_init, in its order: directories under the root,
\* and files under the directory of the given number.
BootCalls ==
  <<[dir |-> Root, name |-> "/dev", type |-> "DIR"],
    [dir |-> Root, name |-> "/ipc", type |-> "DIR"],
    [dir |-> 2, name |-> "/console_in", type |-> "CONSOLE_IN"],
    [dir |-> 2, name |-> "/console_out", type |-> "CONSOLE_OUT"],
    [dir |-> 2, name |-> "/tty0", type |-> "TTY0"],
    [dir |-> 3, name |-> "/ipc0", type |-> "IPC"]>>

BootCall(tree, c) ==
  IF c.type = "DIR" THEN CreatePathNode(tree, c.dir, c.name)
  ELSE CreateFileUnderNode(tree, c.dir, c.name, c.type)

\* The tree after the first n calls.
TreeAfter ==
  LET after[n \in 0 .. Len(BootCalls)] ==
        IF n = 0 THEN RootOnly ELSE BootCall(after[n - 1], BootCalls[n])
  IN  after

BootTree == TreeAfter[Len(BootCalls)]

-----------------------------------------------------------------------------
(* Looking things up.                                                      *)

\* Of the structures of a chain, the first with the name; NULL if there is none.
FirstNamed(chain, names, name) ==
  LET hits == {i \in DOMAIN chain : names[chain[i]].name = name}
  IN  IF hits = {} THEN NULL
      ELSE chain[CHOOSE i \in hits : \A j \in hits : i <= j]

\* find_file: by name alone, in whatever directory the file is.
FindFile(tree, name) == FirstNamed(FileList(tree), tree.file, name)

\* find_target_subdir: one step down, or up.
FindTargetSubdir(tree, d, name) ==
  IF name = ".." THEN tree.dir[d].parent
  ELSE FirstNamed(Children(tree, d), tree.dir, name)

\* getfullpath_handler: the names from the root down to the directory; nothing
\* for NULL.
FullPath(tree, d) ==
  LET up == Chain(d, ParentDir(tree))
  IN  [i \in 1 .. Len(up) |-> tree.dir[up[Len(up) + 1 - i]].name]
=============================================================================
