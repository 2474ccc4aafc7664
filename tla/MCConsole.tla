----------------------------- MODULE MCConsole -----------------------------
(* Console for TLC, with every piece, or with those on the way to one.     *)
EXTENDS Console

MCPieces == DOMAIN Steps
MCBreakout == {"loop", "entering", "atari", "atariRound", "leaving", "prompt"}
=============================================================================
