----------------------------- MODULE FileNames -----------------------------
(***************************************************************************)
(* The names, contents and bounds that FileTree, FileSystem and Shell      *)
(* share.                                                                  *)
(*                                                                         *)
(* In these modules an operator marked "Slip" is not the code: it is a     *)
(* mistake one could make in the definition after it, and a property has   *)
(* to notice it.                                                           *)
(***************************************************************************)
EXTENDS Naturals

CONSTANTS Names,      \* names of files and directories
          Contents,   \* what a file can hold
          Empty,      \* the content of a new file
          Directory,  \* what the tree holds at a directory
          MaxDepth,   \* bound: segments of a path
          MaxNodes    \* bound: nodes of the tree

ASSUME ContentAssumption == Empty \in Contents /\ Directory \notin Contents

ASSUME BoundAssumption == MaxDepth \in Nat
=============================================================================
