---------------------------- MODULE MCFileSystem ----------------------------
(* FileSystem for TLC: two names, paths of up to three segments, and at    *)
(* most five nodes, so that every shape of tree that fits is reached.      *)
EXTENDS FileSystem
=============================================================================
