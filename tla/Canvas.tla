------------------------------- MODULE Canvas -------------------------------
(***************************************************************************)
(* The drawing program of game.rs: a cursor, and a grid in which the rows  *)
(* of the screen stand one after the other.  An operator marked "Slip" is  *)
(* not the code: it is a mistake in the definition after it.               *)
(***************************************************************************)
EXTENDS Integers

CONSTANTS Columns, Rows        \* 80 and 25 in the code

ASSUME CanvasAssumption == Columns \in Nat \ {0} /\ Rows \in Nat \ {0}

VARIABLES cursor_x, cursor_y, grid,
          started,             \* the greeting was dismissed
          dots                 \* history: the points where a dot was put last

canvas == <<cursor_x, cursor_y, grid, started, dots>>

Points == (0 .. Columns - 1) \X (0 .. Rows - 1)
Cells == 0 .. Columns * Rows - 1

CanvasTypeOK ==
  /\ <<cursor_x, cursor_y>> \in Points
  /\ grid \in [Cells -> {"*", " "}]
  /\ started \in BOOLEAN
  /\ dots \subseteq Points

CanvasInit ==
  /\ cursor_x = Columns \div 2 /\ cursor_y = Rows \div 2
  /\ grid = [cell \in Cells |-> " "]
  /\ started = FALSE
  /\ dots = {}

\* "Press any key to start": the first byte there is, of a press or a release.
AnyKey == ~started /\ started' = TRUE /\ UNCHANGED <<cursor_x, cursor_y, grid, dots>>

Up == cursor_y > 0 /\ cursor_y' = cursor_y - 1 /\ UNCHANGED <<cursor_x, grid, dots>>
Down == cursor_y < Rows - 1 /\ cursor_y' = cursor_y + 1 /\ UNCHANGED <<cursor_x, grid, dots>>
Left == cursor_x > 0 /\ cursor_x' = cursor_x - 1 /\ UNCHANGED <<cursor_y, grid, dots>>
Right == cursor_x < Columns - 1 /\ cursor_x' = cursor_x + 1 /\ UNCHANGED <<cursor_y, grid, dots>>

\* Slip: a row of the grid is as long as a column.
Cell_Transposed(x, y) == y * Rows + x

Cell(x, y) == y * Columns + x

Put(character) ==
  /\ grid' = [grid EXCEPT ![Cell(cursor_x, cursor_y)] = character]
  /\ dots' = IF character = "*" THEN dots \cup {<<cursor_x, cursor_y>>}
             ELSE dots \ {<<cursor_x, cursor_y>>}
  /\ UNCHANGED <<cursor_x, cursor_y>>

CanvasKey ==
  /\ started /\ UNCHANGED started
  /\ Up \/ Down \/ Left \/ Right \/ \E character \in {"*", " "} : Put(character)

CanvasNext == AnyKey \/ CanvasKey

-----------------------------------------------------------------------------
\* A dot stands where it was put, until it is erased there: no two points of
\* the screen share a cell, and no move of the cursor changes the drawing.
DotsStay == \A point \in Points : grid[Cell(point[1], point[2])] = "*" <=> point \in dots
=============================================================================
