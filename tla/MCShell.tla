------------------------------ MODULE MCShell ------------------------------
(* Shell for TLC.  The names are "git", "git.txt", which create and edit   *)
(* make of it, "git.exe", which they refuse, and ".txt", which they make   *)
(* of a path without a name.                                               *)
EXTENDS Shell

Named(stem, ext) == [stem |-> stem, ext |-> ext]

MCGit == Named("git", "")
MCText == Named("git", "txt")
MCProgram == Named("git", "exe")
MCNames == {MCGit, MCText, MCProgram, Named("", "txt")}

Relative(items) == [absolute |-> FALSE, items |-> items]
Absolute(items) == [absolute |-> TRUE, items |-> items]

\* A name here, above, below and at the root; "..", "/", and the name that
\* normalisation changes next to the one it makes.
MCArgs == {Relative(<<MCGit>>), Relative(<<MCText>>), Relative(<<MCProgram>>),
           Relative(<<Up>>), Relative(<<Up, MCGit>>), Relative(<<MCGit, MCGit>>),
           Relative(<<MCGit, Up, MCText>>),
           Absolute(<<>>), Absolute(<<MCGit>>), Absolute(<<MCGit, MCText>>)}
=============================================================================
