------------------------------- MODULE Chess -------------------------------
(***************************************************************************)
(* The two-player chess of game.rs: the board, the turn, and the line of   *)
(* input that Enter turns into a move.  Characters are their codes, since  *)
(* the code computes with them.  There is no check that a piece can move   *)
(* the way it is moved.  An operator marked "Slip" is not the code: it is  *)
(* a mistake in the definition after it that a property has to notice.     *)
(***************************************************************************)
EXTENDS Integers, Sequences, SequencesExt

CONSTANTS Pressed,     \* the characters of the keys the players press
          Capacity,    \* characters the line of input takes (10 in the code)
          MaxMoves     \* bound: moves made

ASSUME ChessAssumption == Capacity \in Nat /\ MaxMoves \in Nat

VARIABLES board, turn, input_buffer,
          status,      \* "playing", "left" or "panicked"
          checked,     \* whether arithmetic is checked for overflow: it is in the
                       \* debug build the README describes, not in a release
          moves        \* history: the moves made

chess == <<board, turn, input_buffer, status, checked, moves>>

Files == 97 .. 104               \* 'a' to 'h'
Digits == 48 .. 57               \* '0' to '9'
Characters == Files \cup Digits
Exit == <<101, 120, 105, 116>>   \* "exit", which cannot be typed: see Known

Squares == (0 .. 7) \X (0 .. 7)  \* row and column
Empty == [piece |-> "Empty", color |-> "White"]
Pieces == {"Pawn", "Knight", "Bishop", "Rook", "Queen", "King", "Empty"}

ChessTypeOK ==
  /\ board \in [Squares -> [piece : Pieces, color : {"White", "Black"}]]
  /\ turn \in {"White", "Black"}
  /\ input_buffer \in Seq(Characters) /\ Len(input_buffer) <= Capacity
  /\ status \in {"playing", "left", "panicked"}
  /\ checked \in BOOLEAN
  /\ moves \in 0 .. MaxMoves

BackRow == <<"Rook", "Knight", "Bishop", "Queen", "King", "Bishop", "Knight", "Rook">>

StartOf(square) ==
  LET color == IF square[1] <= 1 THEN "Black" ELSE "White"
  IN IF square[1] \in {0, 7} THEN [piece |-> BackRow[square[2] + 1], color |-> color]
     ELSE IF square[1] \in {1, 6} THEN [piece |-> "Pawn", color |-> color]
     ELSE Empty

ChessInit ==
  /\ board = [square \in Squares |-> StartOf(square)]
  /\ turn = "White"
  /\ input_buffer = <<>>
  /\ status = "playing"
  /\ checked \in BOOLEAN
  /\ moves = 0

\* scancode_to_char: the characters there are.
Known(c) == c \in Characters

ChessType(c) ==
  /\ input_buffer' = IF Known(c) /\ Len(input_buffer) < Capacity
                     THEN Append(input_buffer, c) ELSE input_buffer
  /\ UNCHANGED <<board, turn, status, checked, moves>>

ChessBackspace ==
  /\ input_buffer' = IF input_buffer = <<>> THEN <<>> ELSE Front(input_buffer)
  /\ UNCHANGED <<board, turn, status, checked, moves>>

ChessEscape ==
  /\ status' = "left"
  /\ UNCHANGED <<board, turn, input_buffer, checked, moves>>

-----------------------------------------------------------------------------
\* Slip: the result wraps at the size of the board.
Minus_OnBoard(x, y) == (x - y) % 8

\* Subtraction of bytes: it wraps, or it panics where that is checked.
Minus(x, y) == (x - y) % 256
Underflows(x, y) == x < y

From(text) == <<Minus(56, text[2]), Minus(text[1], 97)>>
To(text) == <<Minus(56, text[4]), Minus(text[3], 97)>>

\* Slip: rows are counted from zero, so that row 8 is below zero.
Panics_AtTheEdge(text) == checked /\ \E i \in {2, 4} : Underflows(55, text[i])

Panics(text) ==
  checked /\ (\/ Underflows(text[1], 97) \/ Underflows(56, text[2])
              \/ Underflows(text[3], 97) \/ Underflows(56, text[4]))

Moves(text) ==
  /\ From(text) \in Squares /\ To(text) \in Squares
  /\ board[From(text)].piece # "Empty" /\ board[From(text)].color = turn

Move(text) ==
  /\ moves < MaxMoves /\ moves' = moves + 1
  /\ board' = [[board EXCEPT ![To(text)] = board[From(text)]] EXCEPT ![From(text)] = Empty]
  /\ turn' = IF turn = "White" THEN "Black" ELSE "White"

NoMove == UNCHANGED <<board, turn, moves>>

Stops(text) == text = Exit \/ (Len(text) = 4 /\ Panics(text))

ChessEnter ==
  /\ \/ /\ Stops(input_buffer)
        /\ status' = IF input_buffer = Exit THEN "left" ELSE "panicked"
        /\ NoMove /\ UNCHANGED input_buffer
     \/ /\ ~Stops(input_buffer)
        /\ \/ Len(input_buffer) = 4 /\ Moves(input_buffer) /\ Move(input_buffer)
           \/ ~(Len(input_buffer) = 4 /\ Moves(input_buffer)) /\ NoMove
        /\ input_buffer' = <<>>
        /\ UNCHANGED status
  /\ UNCHANGED checked

ChessNext ==
  /\ status = "playing"
  /\ ChessEnter \/ ChessEscape \/ ChessBackspace \/ \E c \in Pressed : ChessType(c)

ChessSpec == ChessInit /\ [][ChessNext]_chess

-----------------------------------------------------------------------------
\* The text is a letter of a column, a digit of a row, and again.
NamesSquares(text) ==
  text[1] \in 97 .. 104 /\ text[2] \in 49 .. 56 /\ text[3] \in 97 .. 104 /\ text[4] \in 49 .. 56

Own(position, square) == position[square].piece # "Empty" /\ position[square].color = turn

\* Only a line that names two squares moves a piece: where the arithmetic on
\* bytes wraps around, the result is never the row or column of a square.  A move
\* is one of the player whose turn it is, who lifts a piece and may put it where
\* another stands, and it passes the turn; without a move the turn stays.
OnlySquaresMove ==
  [][board' # board \/ turn' # turn =>
       /\ NamesSquares(input_buffer)
       /\ board' # board /\ turn' # turn
       /\ \A square \in Squares : board'[square] # board[square] =>
            Own(board', square) \/ (Own(board, square) /\ board'[square] = Empty)]_chess

\* A line that names two squares never stops the kernel, even where overflow
\* does.
SquaresNeverPanic == status = "panicked" => ~NamesSquares(input_buffer)

\* The players take turns, and a refused line costs nobody a turn: who is to
\* move tells how many moves were made.
TurnsAlternate == turn = IF moves % 2 = 0 THEN "White" ELSE "Black"
=============================================================================
