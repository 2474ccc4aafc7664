--------------------------- MODULE MCApplications ---------------------------
(* Applications for TLC.  Chess has the keys e, 2, 7, 8, 9, x: moves on    *)
(* one column by both sides, moves to where the piece stands, lines that   *)
(* name no square, lines that are too long, and a key that is no character *)
(* of the game.  The drawing is three points wide and two high.  A page    *)
(* has every tag the parser knows, one with an address, and two numbers    *)
(* for its links.                                                          *)
EXTENDS Applications

MCKeys == {101, 50, 55, 56, 57, 120}
MCQueries == {<<>>, <<"c", " ", "c", "c">>}
MCWords == {"word", " ", "&", "amp", "lt"}
=============================================================================
