------------------------------ MODULE Teletype ------------------------------
(***************************************************************************)
(* What the text screen promises to those who print on it: a roll of paper *)
(* of which the last Height rows are in view.  There are finished rows and *)
(* the line being written; a line that is full is finished only when the   *)
(* next character or a newline comes.  The caret counts the places before  *)
(* the one that is written next.                                           *)
(***************************************************************************)
EXTENDS Naturals, Sequences, SequencesExt

CONSTANTS Width, Height, Blank

VARIABLES rows, line, caret

vars == <<rows, line, caret>>

Full == Len(line) = Width

Padded == [c \in 1 .. Width |-> IF c <= Len(line) THEN line[c] ELSE Blank]

\* The line is finished; the oldest row leaves the view if there are too many.
Finished ==
  IF Len(rows) < Height - 1 THEN Append(rows, Padded) ELSE Tail(Append(rows, Padded))

CaretFollows == caret' = Width * Len(rows') + Len(line')

Init == rows = <<>> /\ line = <<>> /\ caret = 0

Put(c) ==
  /\ IF Full THEN rows' = Finished /\ line' = <<c>>
             ELSE rows' = rows /\ line' = Append(line, c)
  /\ CaretFollows

Newline ==
  /\ rows' = Finished
  /\ line' = <<>>
  /\ CaretFollows

\* Back over one place, into the row above if the line is empty.
Erase ==
  /\ \/ line # <<>> /\ line' = Front(line) /\ rows' = rows
     \/ line = <<>> /\ rows # <<>> /\ line' = Front(Last(rows)) /\ rows' = Front(rows)
     \/ line = <<>> /\ rows = <<>> /\ UNCHANGED <<rows, line>>
  /\ CaretFollows

Clear == rows' = <<>> /\ line' = <<>> /\ caret' = 0
=============================================================================
