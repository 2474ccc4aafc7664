------------------------------ MODULE MCTyping ------------------------------
(* Typing for TLC: a screen of six cells, one letter, and commands of one  *)
(* and of two letters.                                                     *)
EXTENDS Typing

MCWriteQuit == <<"q", "q">>
MCQuit == <<"q">>
=============================================================================
