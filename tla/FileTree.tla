------------------------------ MODULE FileTree ------------------------------
(***************************************************************************)
(* What the filesystem of fs.rs promises: a tree of directories and files, *)
(* given as a function from the paths that exist to what is there.  The    *)
(* root is the empty path, always a directory and not in the domain.       *)
(*                                                                         *)
(* An operation that answers an error changes nothing, so it is a step     *)
(* that stutters.  FileSystem has the code's nested maps and implements    *)
(* this module; Shell says which operations the commands call.             *)
(***************************************************************************)
EXTENDS FileNames, Naturals, Sequences, FiniteSets

VARIABLE tree

Paths == UNION {[1 .. n -> Names] : n \in 1 .. MaxDepth}

Parent(p) == SubSeq(p, 1, Len(p) - 1)

TypeOK ==
  /\ DOMAIN tree \subseteq Paths
  /\ tree \in [DOMAIN tree -> Contents \cup {Directory}]

IsDirectory(p) == p = <<>> \/ (p \in DOMAIN tree /\ tree[p] = Directory)
IsFile(p) == p \in DOMAIN tree /\ tree[p] # Directory

\* p is q, or q is somewhere below p.
Below(p, q) == Len(p) <= Len(q) /\ SubSeq(q, 1, Len(p)) = p

Put(p, v) ==
  tree' = [q \in DOMAIN tree \cup {p} |-> IF q = p THEN v ELSE tree[q]]

Room(p) == Len(p) <= MaxDepth /\ Cardinality(DOMAIN tree) < MaxNodes

-----------------------------------------------------------------------------
Init == tree = [p \in {} |-> Directory]

\* create_directory and create_file refuse a name that is taken.
MayCreate(p) == IsDirectory(Parent(p)) /\ p \notin DOMAIN tree

CreateDirectory(p) == MayCreate(p) /\ Room(p) /\ Put(p, Directory)
CreateFile(p) == MayCreate(p) /\ Room(p) /\ Put(p, Empty)

\* write_file makes the file if there is none, and refuses a directory.
MayWrite(p) == IsDirectory(Parent(p)) /\ ~IsDirectory(p)

WriteFile(p, c) ==
  MayWrite(p) /\ (p \in DOMAIN tree \/ Room(p)) /\ Put(p, c)

\* delete_node takes a directory away with all that is below it.
MayDelete(p) == IsDirectory(Parent(p)) /\ p \in DOMAIN tree

DeleteNode(p) ==
  /\ MayDelete(p)
  /\ tree' = [q \in {r \in DOMAIN tree : ~Below(p, r)} |-> tree[q]]

Next == \E p \in Paths :
          \/ CreateDirectory(p)
          \/ CreateFile(p)
          \/ \E c \in Contents : WriteFile(p, c)
          \/ DeleteNode(p)

Spec == Init /\ [][Next]_tree

-----------------------------------------------------------------------------
\* Whatever exists lies in directories that exist, all the way to the root:
\* no operation leaves a node that no listing leads to (fs.rs keeps the
\* children inside their directory and delete_node drops both), and none
\* puts a node below a file.
TreeClosed == \A p \in DOMAIN tree : IsDirectory(Parent(p))
=============================================================================
