----------------------------- MODULE FileSystem -----------------------------
(***************************************************************************)
(* The filesystem as fs.rs keeps it: a directory is a map from the names   *)
(* of its children to nodes, and every operation first walks down from the *)
(* root, one segment at a time.  The tree of FileTree is what this nest of *)
(* maps means; the operations are shown to do there what FileTree says.    *)
(*                                                                         *)
(* The caller holds the filesystem's lock, so an operation is one action.  *)
(* A path comes split into the segments of the parent and the name, as     *)
(* split_parent_and_name leaves it.                                        *)
(***************************************************************************)
EXTENDS FileNames, Naturals, Sequences, FiniteSets

VARIABLE root      \* the children of the root directory

File(c) == [kind |-> "file", content |-> c]
Folder(children) == [kind |-> "directory", children |-> children]

NoChildren == [name \in {} |-> Directory]

\* The answer of a lookup that finds nothing.
None == [kind |-> "none"]

\* One segment of a path: only a directory has anything below it.
Down(node, name) ==
  IF node.kind = "directory" /\ name \in DOMAIN node.children
  THEN node.children[name] ELSE None

\* find_node, segment by segment.  It is never asked for the empty path, which
\* find_directory answers by itself with the root: here the walk's beginning.
FindNode(children, path) ==
  LET walk[i \in 0 .. Len(path)] ==
        IF i = 0 THEN Folder(children) ELSE Down(walk[i - 1], path[i])
  IN walk[Len(path)]

FindDirectory(path) ==
  LET node == FindNode(root, path)
  IN IF node.kind = "directory" THEN node ELSE None

Found(path) == FindDirectory(path).kind = "directory"

\* Slip: the changed directory goes below the root, under the first segment.
Rebuild_Shallow(children, path, new) ==
  IF path = <<>> THEN new ELSE [children EXCEPT ![path[1]] = Folder(new)]

\* The children of the directory at path replaced, and on the way back up the
\* children of every directory above it: what a change through the reference
\* of find_directory_mut does to the whole.
Rebuild(children, path, new) ==
  LET above(i) == FindNode(children, SubSeq(path, 1, Len(path) - i)).children
      up[i \in 0 .. Len(path)] ==
        IF i = 0 THEN new
        ELSE [above(i) EXCEPT ![path[Len(path) + 1 - i]] = Folder(up[i - 1])]
  IN up[Len(path)]

Insert(children, name, node) ==
  [n \in DOMAIN children \cup {name} |-> IF n = name THEN node ELSE children[n]]

Without(children, name) == [n \in DOMAIN children \ {name} |-> children[n]]

-----------------------------------------------------------------------------
\* The paths of all that is in a nest of maps, and what is at each: its levels
\* one after the other, each a set of pairs of a path and the node there.
LevelBelow(level) ==
  UNION {{<<Append(e[1], name), e[2].children[name]>> : name \in DOMAIN e[2].children} :
         e \in {d \in level : d[2].kind = "directory"}}

Entries(children) ==
  LET level[n \in 0 .. MaxDepth] ==
        IF n = 0 THEN {<< <<>>, Folder(children) >>} ELSE LevelBelow(level[n - 1])
  IN UNION {level[n] : n \in 1 .. MaxDepth}

Value(node) == IF node.kind = "directory" THEN Directory ELSE node.content

Flatten(children) ==
  [p \in {e[1] : e \in Entries(children)} |->
     Value((CHOOSE e \in Entries(children) : e[1] = p)[2])]

\* The bound of FileTree, on the number of nodes.
Room == Cardinality(DOMAIN Flatten(root)) < MaxNodes

-----------------------------------------------------------------------------
FileSystemInit == root = NoChildren

CreateNode(parent, name, node) ==
  /\ Found(parent)
  /\ name \notin DOMAIN FindDirectory(parent).children
  /\ Room
  /\ root' = Rebuild(root, parent, Insert(FindDirectory(parent).children, name, node))

CreateDirectory(parent, name) == CreateNode(parent, name, Folder(NoChildren))
CreateFile(parent, name) == CreateNode(parent, name, File(Empty))

WriteFile(parent, name, content) ==
  /\ Found(parent)
  /\ LET children == FindDirectory(parent).children
     IN /\ name \in DOMAIN children => children[name].kind = "file"
        /\ name \in DOMAIN children \/ Room
        /\ root' = Rebuild(root, parent, Insert(children, name, File(content)))

DeleteNode(parent, name) ==
  /\ Found(parent)
  /\ name \in DOMAIN FindDirectory(parent).children
  /\ root' = Rebuild(root, parent, Without(FindDirectory(parent).children, name))

\* Slip: what is found is not asked whether it is a file.
ReadFile_OfAnything(parent, name) ==
  IF Found(parent) /\ name \in DOMAIN FindDirectory(parent).children
  THEN FindDirectory(parent).children[name] ELSE None

\* read_file and list_directory: what they answer, None for an error.
ReadFile(parent, name) ==
  IF Found(parent) /\ name \in DOMAIN FindDirectory(parent).children
  THEN LET node == FindDirectory(parent).children[name]
       IN IF node.kind = "file" THEN node ELSE None
  ELSE None

ListDirectory(path) ==
  IF Found(path)
  THEN LET children == FindDirectory(path).children
       IN {<<name, children[name].kind = "directory">> : name \in DOMAIN children}
  ELSE {None}

ParentPaths == UNION {[1 .. n -> Names] : n \in 0 .. MaxDepth - 1}

FileSystemNext == \E parent \in ParentPaths, name \in Names :
          \/ CreateDirectory(parent, name)
          \/ CreateFile(parent, name)
          \/ \E content \in Contents : WriteFile(parent, name, content)
          \/ DeleteNode(parent, name)

FileSystemSpec == FileSystemInit /\ [][FileSystemNext]_root

-----------------------------------------------------------------------------
Tree == INSTANCE FileTree WITH tree <- Flatten(root)

\* Each operation of fs.rs does to the whole tree what it promises for its
\* path alone: the walk down the nested maps ends in the right directory,
\* and rebuilding the way back up leaves every sibling as it was.
NestRefinement == Tree!Spec

\* Every lookup (find_directory, read_file, list_directory) answers what is
\* in the tree, for the paths that exist, those that do not, and those that
\* lead through a file.
LookupsAgree ==
  \A parent \in ParentPaths :
    /\ Found(parent) <=> Tree!IsDirectory(parent)
    /\ ListDirectory(parent) =
         IF Tree!IsDirectory(parent)
         THEN {<<q[Len(q)], Tree!IsDirectory(q)>> :
                 q \in {p \in DOMAIN Flatten(root) : Tree!Parent(p) = parent}}
         ELSE {None}
    /\ \A name \in Names :
         ReadFile(parent, name) =
           LET p == Append(parent, name)
           IN IF Tree!IsFile(p) THEN File(Flatten(root)[p]) ELSE None
=============================================================================
