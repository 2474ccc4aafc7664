------------------------------- MODULE Screen -------------------------------
(***************************************************************************)
(* The text screen of vga.rs: the cells at 0xB8000, the place of the next  *)
(* character, and the hardware cursor.  Colours are left out, and so are   *)
(* clear_line, set_cursor_position, show_cursor and hide_cursor, which no  *)
(* code calls; the cursor is always visible.                               *)
(*                                                                         *)
(* An operator marked "Slip" is not the code: it is a mistake one could    *)
(* make in the definition after it, and a property has to notice it.       *)
(***************************************************************************)
EXTENDS Naturals, Sequences

CONSTANTS Width, Height,  \* BUFFER_WIDTH and BUFFER_HEIGHT
          Blank           \* the character of an empty cell

ASSUME SizeAssumption == Width \in Nat \ {0} /\ Height \in Nat \ {0}

VARIABLES row, column, cells, cursor

screen == <<row, column, cells, cursor>>

Offset(r, c) == r * Width + c
Cells == 0 .. Width * Height - 1

ScreenTypeOK(Chars) ==
  /\ row \in 0 .. Height - 1
  /\ column \in 0 .. Width
  /\ cells \in [Cells -> Chars]
  /\ cursor \in 0 .. Width * Height

AllBlank == [i \in Cells |-> Blank]

ScreenInit == row = 0 /\ column = 0 /\ cells = AllBlank /\ cursor = 0

UpdateCursor == cursor' = Offset(row', column')

Clear ==
  /\ cells' = AllBlank
  /\ row' = 0
  /\ column' = 0
  /\ UpdateCursor

\* Every row moves up by one, and the last becomes empty.
Scrolled ==
  [i \in Cells |-> IF i + Width \in Cells THEN cells[i + Width] ELSE Blank]

\* The state newline leaves behind.
\* Slip: the last row is moved up and stays where it was.
NewlineCells_Kept ==
  IF row < Height - 1 THEN cells
  ELSE [i \in Cells |-> IF i + Width \in Cells THEN cells[i + Width] ELSE cells[i]]

NewlineCells == IF row < Height - 1 THEN cells ELSE Scrolled
NewlineRow == IF row < Height - 1 THEN row + 1 ELSE Height - 1

Newline ==
  /\ row' = NewlineRow
  /\ column' = 0
  /\ cells' = NewlineCells
  /\ UpdateCursor

\* Slip: a row is taken to be full one character too late.
PutChar_Late(c) ==
  /\ IF column > Width
     THEN row' = NewlineRow /\ cells' = NewlineCells /\ column' = 0
     ELSE row' = row /\ cells' = [cells EXCEPT ![Offset(row, column)] = c] /\ column' = column + 1
  /\ UpdateCursor

\* A full row is left only when the next character comes.
PutChar(c) ==
  /\ IF column >= Width
     THEN /\ row' = NewlineRow
          /\ cells' = [NewlineCells EXCEPT ![Offset(NewlineRow, 0)] = c]
          /\ column' = 1
     ELSE /\ row' = row
          /\ cells' = [cells EXCEPT ![Offset(row, column)] = c]
          /\ column' = column + 1
  /\ UpdateCursor

\* What full-screen applications draw with: neither place nor cursor moves.
PutCharAt(r, c, ch) ==
  /\ cells' = IF r < Height /\ c < Width THEN [cells EXCEPT ![Offset(r, c)] = ch] ELSE cells
  /\ UNCHANGED <<row, column, cursor>>

Backspace ==
  /\ \/ column > 0 /\ row' = row /\ column' = column - 1
     \/ column = 0 /\ row > 0 /\ row' = row - 1 /\ column' = Width - 1
     \/ column = 0 /\ row = 0 /\ UNCHANGED <<row, column>>
  /\ cells' = IF column = 0 /\ row = 0 THEN cells
              ELSE [cells EXCEPT ![Offset(row', column')] = Blank]
  /\ UpdateCursor

-----------------------------------------------------------------------------
\* What has been printed: the rows above the place of the next character, and
\* the row up to it.
Rows == [r \in 1 .. row |-> [c \in 1 .. Width |-> cells[Offset(r - 1, c - 1)]]]
Line == [c \in 1 .. column |-> cells[Offset(row, c - 1)]]

Paper == INSTANCE Teletype WITH rows <- Rows, line <- Line, caret <- cursor
=============================================================================
