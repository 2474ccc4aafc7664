------------------------------- MODULE Visits -------------------------------
(***************************************************************************)
(* What a history of pages promises: the pages visited stand in a row, one *)
(* of them is shown, Back and Forward move along the row, and a new page   *)
(* takes the place of those after the one shown.  An empty address is no   *)
(* page to come back to.                                                   *)
(***************************************************************************)
EXTENDS Integers, Sequences

CONSTANTS Urls, NoUrl

VARIABLES visits, at

vars == <<visits, at>>

Init == visits = <<NoUrl>> /\ at = 1

Visit(url) ==
  \E kept \in {IF visits[at] = NoUrl THEN at - 1 ELSE at} :
    /\ visits' = Append(SubSeq(visits, 1, kept), url)
    /\ at' = kept + 1

Back == at > 1 /\ at' = at - 1 /\ UNCHANGED visits

Forward == at < Len(visits) /\ at' = at + 1 /\ UNCHANGED visits

Next == Back \/ Forward \/ \E url \in Urls : Visit(url)

Spec == Init /\ [][Next]_vars
=============================================================================
