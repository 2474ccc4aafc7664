----------------------------- MODULE MCSession -----------------------------
(* Session for TLC: a key of each kind that some step treats differently,  *)
(* and two Shift keys, which nothing tells apart.                          *)
EXTENDS Session, TLC

CONSTANTS Shift1, Shift2

MCKeys == {Shift1, Shift2, "Ctrl", "Caps", "A", "Enter", "Escape"}

MCKind == [key \in MCKeys |->
  CASE key \in {Shift1, Shift2} -> "shift" [] key = "Ctrl" -> "ctrl"
    [] key = "Caps" -> "caps" [] key = "A" -> "letter"
    [] key = "Enter" -> "enter" [] OTHER -> "escape"]

Symmetry == Permutations({Shift1, Shift2})
=============================================================================
