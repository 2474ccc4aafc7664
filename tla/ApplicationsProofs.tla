------------------------- MODULE ApplicationsProofs -------------------------
(***************************************************************************)
(* The programs of Applications: chess for every length of the line, every *)
(* set of keys and any number of moves; drawing for every size of the      *)
(* screen; the history of the browser for any number of pages; searching,  *)
(* scrolling and parse_html for every query and every page; and that       *)
(* parse_html finds the text and the links of every page.                  *)
(***************************************************************************)
EXTENDS Applications, SequenceLemmas, FiniteSetTheorems

-----------------------------------------------------------------------------
(* Chess *)

LEMMA CharactersAreBytes == Characters \subseteq 48 .. 104
BY DEF Characters, Files, Digits

\* Only '1' to '8' lead to a row of the board, only 'a' to 'h' to a column.
LEMMA RowIsRank ==
  ASSUME NEW c \in Characters, Minus(56, c) \in 0 .. 7
  PROVE  c \in 49 .. 56
BY DEF Characters, Files, Digits, Minus

LEMMA ColumnIsFile ==
  ASSUME NEW c \in Characters, Minus(c, 97) \in 0 .. 7
  PROVE  c \in 97 .. 104
BY DEF Characters, Files, Digits, Minus

-----------------------------------------------------------------------------
LEMMA ChessTypeInit == ChessInit => ChessTypeOK
<1>. SUFFICES ASSUME ChessInit PROVE ChessTypeOK
  OBVIOUS
<1>. USE ChessAssumption
<1>1. board \in [Squares -> [piece : Pieces, color : {"White", "Black"}]]
  <2>1. ASSUME NEW square \in Squares
        PROVE  StartOf(square) \in [piece : Pieces, color : {"White", "Black"}]
    <3>1. square[1] \in 0 .. 7 /\ square[2] \in 0 .. 7
      BY DEF Squares
    <3>2. BackRow[square[2] + 1] \in Pieces
      <4>1. square[2] + 1 \in 1 .. 8
        BY <3>1
      <4>. QED  BY <4>1 DEF BackRow, Pieces
    <3>. QED  BY <3>1, <3>2 DEF StartOf, Empty, Pieces
  <2>. QED  BY <2>1 DEF ChessInit
<1>2. input_buffer \in Seq(Characters) /\ Len(input_buffer) <= Capacity
  BY DEF ChessInit
<1>. QED  BY <1>1, <1>2 DEF ChessInit, ChessTypeOK

LEMMA EmptyLine == <<>> \in Seq(Characters) /\ Len(<<>>) <= Capacity
BY ChessAssumption

LEMMA FrontOfLine ==
  ASSUME NEW S, NEW s \in Seq(S), s # <<>>
  PROVE  Front(s) \in Seq(S) /\ Len(Front(s)) < Len(s)
BY DEF Front

-----------------------------------------------------------------------------
\* What Enter makes of a line that is neither "exit" nor stops the kernel.
LEMMA EnterStep ==
  ASSUME ChessTypeOK, ChessEnter
  PROVE  /\ board' # board => Len(input_buffer) = 4 /\ Moves(input_buffer)
         /\ \/ UNCHANGED <<board, turn, moves>>
            \/ Len(input_buffer) = 4 /\ Moves(input_buffer) /\ Move(input_buffer)
BY DEF ChessEnter, NoMove

LEMMA MoveTypes ==
  ASSUME ChessTypeOK, Moves(input_buffer), Move(input_buffer)
  PROVE  /\ board' \in [Squares -> [piece : Pieces, color : {"White", "Black"}]]
         /\ turn' \in {"White", "Black"}
         /\ moves' \in 0 .. MaxMoves
<1>. USE ChessAssumption
<1>1. moves' \in 0 .. MaxMoves /\ turn' \in {"White", "Black"}
  BY DEF Move, ChessTypeOK
<1>2. Empty \in [piece : Pieces, color : {"White", "Black"}]
  BY DEF Empty, Pieces
<1>3. board[From(input_buffer)] \in [piece : Pieces, color : {"White", "Black"}]
  BY DEF Moves, ChessTypeOK
<1>. HIDE DEF Squares
<1>. QED  BY <1>1, <1>2, <1>3 DEF Move, ChessTypeOK

LEMMA ChessTypeStep == ChessTypeOK /\ [ChessNext]_chess => ChessTypeOK'
<1>. SUFFICES ASSUME ChessTypeOK, [ChessNext]_chess PROVE ChessTypeOK'
  OBVIOUS
<1>. USE ChessAssumption
<1>1. ASSUME NEW c \in Pressed, ChessType(c)
      PROVE  ChessTypeOK'
  <2>1. input_buffer' \in Seq(Characters) /\ Len(input_buffer') <= Capacity
    <3>1. input_buffer \in Seq(Characters) /\ Len(input_buffer) <= Capacity
      BY DEF ChessTypeOK
    <3>2. \/ input_buffer' = input_buffer
          \/ /\ c \in Characters /\ Len(input_buffer) < Capacity
             /\ input_buffer' = Append(input_buffer, c)
      BY <1>1 DEF ChessType, Known
    <3>. QED  BY <3>1, <3>2
  <2>. QED  BY <1>1, <2>1 DEF ChessType, ChessTypeOK
<1>2. CASE ChessBackspace
  <2>1. input_buffer' \in Seq(Characters) /\ Len(input_buffer') <= Capacity
    <3>1. \/ input_buffer' = <<>>
          \/ input_buffer # <<>> /\ input_buffer' = Front(input_buffer)
      BY <1>2 DEF ChessBackspace
    <3>2. input_buffer \in Seq(Characters) /\ Len(input_buffer) <= Capacity
      BY DEF ChessTypeOK
    <3>3. CASE input_buffer # <<>> /\ input_buffer' = Front(input_buffer)
      <4>1. Front(input_buffer) \in Seq(Characters) /\ Len(Front(input_buffer)) < Len(input_buffer)
        BY <3>2, <3>3, FrontOfLine
      <4>. QED  BY <3>2, <3>3, <4>1
    <3>. QED  BY <3>1, <3>3, EmptyLine
  <2>. QED  BY <1>2, <2>1 DEF ChessBackspace, ChessTypeOK
<1>3. CASE ChessEscape
  BY <1>3 DEF ChessEscape, ChessTypeOK
<1>4. CASE ChessEnter
  <2>1. /\ board' \in [Squares -> [piece : Pieces, color : {"White", "Black"}]]
        /\ turn' \in {"White", "Black"}
        /\ moves' \in 0 .. MaxMoves
    BY <1>4, EnterStep, MoveTypes DEF ChessTypeOK
  <2>2. input_buffer' = input_buffer \/ input_buffer' = <<>>
    BY <1>4 DEF ChessEnter
  <2>3. status' \in {"playing", "left", "panicked"} /\ checked' \in BOOLEAN
    BY <1>4 DEF ChessEnter, ChessTypeOK
  <2>4. input_buffer' \in Seq(Characters) /\ Len(input_buffer') <= Capacity
    BY <2>2, EmptyLine DEF ChessTypeOK
  <2>. QED  BY <2>1, <2>3, <2>4 DEF ChessTypeOK
<1>5. CASE UNCHANGED chess
  BY <1>5 DEF chess, ChessTypeOK
<1>. QED  BY <1>1, <1>2, <1>3, <1>4, <1>5 DEF ChessNext

\* Type correctness of the game.
THEOREM ChessTypeCorrect == ChessSpec => []ChessTypeOK
BY ChessTypeInit, ChessTypeStep, PTL DEF ChessSpec

-----------------------------------------------------------------------------
LEMMA ElementOfLine ==
  ASSUME NEW S, NEW s \in Seq(S), NEW i \in 1 .. Len(s)
  PROVE  s[i] \in S
OBVIOUS

LEMMA LineOfFour ==
  ASSUME ChessTypeOK, Len(input_buffer) = 4
  PROVE  \A i \in 1 .. 4 : input_buffer[i] \in Characters
<1>1. input_buffer \in Seq(Characters)
  BY DEF ChessTypeOK
<1>. QED  BY <1>1, ElementOfLine

\* A move lifts a piece of the player and puts it where it goes.
LEMMA MoveIsOwn ==
  ASSUME ChessTypeOK, Moves(input_buffer), Move(input_buffer)
  PROVE  /\ board' # board /\ turn' # turn
         /\ \A square \in Squares : board'[square] # board[square] =>
              Own(board', square) \/ (Own(board, square) /\ board'[square] = Empty)
<1> DEFINE f == From(input_buffer)
           t == To(input_buffer)
<1>1. f \in Squares /\ t \in Squares /\ Own(board, f)
  BY DEF Moves, Own
<1>2. /\ board' = [[board EXCEPT ![t] = board[f]] EXCEPT ![f] = Empty]
      /\ turn' = IF turn = "White" THEN "Black" ELSE "White"
  BY DEF Move
<1>3. DOMAIN board = Squares
  BY DEF ChessTypeOK
<1>. HIDE DEF f, t, Squares
<1>4. board'[f] = Empty
  BY <1>1, <1>2, <1>3
<1>5. t # f => board'[t] = board[f]
  BY <1>1, <1>2, <1>3
<1>6. \A square \in Squares : square # f /\ square # t => board'[square] = board[square]
  BY <1>1, <1>2, <1>3
<1>7. board[f] # Empty
  BY <1>1 DEF Own, Empty
<1>8. t # f => Own(board', t)
  BY <1>1, <1>5 DEF Own
<1>9. board' # board
  BY <1>4, <1>7
<1>10. turn' # turn
  BY <1>2
<1>. QED  BY <1>1, <1>4, <1>6, <1>8, <1>9, <1>10

\* For lines of every length over all keys: only a line that names two squares
\* moves a piece, whether the arithmetic is checked or wraps; the piece belongs
\* to the player whose turn it is, and the move passes the turn.
THEOREM OnlySquaresEverMove == ChessSpec => OnlySquaresMove
<1>1. ASSUME ChessTypeOK, ChessNext, board' # board \/ turn' # turn
      PROVE  /\ NamesSquares(input_buffer)
             /\ board' # board /\ turn' # turn
             /\ \A square \in Squares : board'[square] # board[square] =>
                  Own(board', square) \/ (Own(board, square) /\ board'[square] = Empty)
  <2>1. ChessEnter
    BY <1>1 DEF ChessNext, ChessType, ChessBackspace, ChessEscape
  <2>2. Len(input_buffer) = 4 /\ Moves(input_buffer) /\ Move(input_buffer)
    BY <1>1, <2>1, EnterStep
  <2>3. \A i \in 1 .. 4 : input_buffer[i] \in Characters
    BY <1>1, <2>2, LineOfFour
  <2>4. /\ Minus(56, input_buffer[2]) \in 0 .. 7 /\ Minus(input_buffer[1], 97) \in 0 .. 7
        /\ Minus(56, input_buffer[4]) \in 0 .. 7 /\ Minus(input_buffer[3], 97) \in 0 .. 7
    BY <2>2 DEF Moves, From, To, Squares
  <2>5. NamesSquares(input_buffer)
    BY <2>3, <2>4, RowIsRank, ColumnIsFile DEF NamesSquares
  <2>. QED  BY <1>1, <2>2, <2>5, MoveIsOwn
<1>. QED  BY <1>1, ChessTypeCorrect, PTL DEF ChessSpec, OnlySquaresMove

\* Also where overflow panics, a line that names two squares never does.
THEOREM SquaresNeverEverPanic == ChessSpec => []SquaresNeverPanic
<1>1. ChessInit => SquaresNeverPanic
  BY DEF ChessInit, SquaresNeverPanic
<1>2. ChessTypeOK /\ SquaresNeverPanic /\ [ChessNext]_chess => SquaresNeverPanic'
  <2>. SUFFICES ASSUME SquaresNeverPanic, ChessNext PROVE SquaresNeverPanic'
    BY DEF SquaresNeverPanic, NamesSquares, chess
  <2>1. CASE ChessEnter
    <3>1. CASE status' = "panicked"
      <4>1. Panics(input_buffer) /\ input_buffer' = input_buffer
        BY <2>1, <3>1 DEF ChessEnter, Stops, ChessNext
      <4>. QED  BY <4>1 DEF Panics, Underflows, SquaresNeverPanic, NamesSquares
    <3>. QED  BY <3>1 DEF SquaresNeverPanic
  <2>2. CASE ~ChessEnter
    BY <2>2 DEF ChessNext, ChessType, ChessBackspace, ChessEscape, SquaresNeverPanic
  <2>. QED  BY <2>1, <2>2
<1>. QED  BY <1>1, <1>2, ChessTypeCorrect, PTL DEF ChessSpec

\* A refused line costs nobody a turn: who is to move tells how many moves were
\* made, over games of any length.
THEOREM TurnsAlwaysAlternate == ChessSpec => []TurnsAlternate
<1>1. ChessInit => TurnsAlternate
  BY DEF ChessInit, TurnsAlternate
<1>2. ChessTypeOK /\ TurnsAlternate /\ [ChessNext]_chess => TurnsAlternate'
  <2>. SUFFICES ASSUME ChessTypeOK, TurnsAlternate, [ChessNext]_chess PROVE TurnsAlternate'
    OBVIOUS
  <2>1. \/ UNCHANGED <<turn, moves>>
        \/ moves' = moves + 1 /\ turn' = IF turn = "White" THEN "Black" ELSE "White"
    BY EnterStep DEF ChessNext, ChessType, ChessBackspace, ChessEscape, Move, chess
  <2>. QED  BY <2>1, ChessAssumption DEF ChessTypeOK, TurnsAlternate
<1>. QED  BY <1>1, <1>2, ChessTypeCorrect, PTL DEF ChessSpec

-----------------------------------------------------------------------------
CanvasSpec == CanvasInit /\ [][CanvasNext]_canvas

\* A row ends before the next one begins.
LEMMA RowsApart ==
  ASSUME NEW w \in Nat \ {0}, NEW y \in Nat, NEW z \in Nat, y < z
  PROVE  y * w + w <= z * w
<1>1. y + 1 <= z
  OBVIOUS
<1>2. PICK n \in Nat : z = y + 1 + n
  <2>1. z - (y + 1) \in Nat /\ z = y + 1 + (z - (y + 1))
    BY <1>1
  <2>. QED  BY <2>1
<1>3. z * w = y * w + w + n * w
  BY <1>2
<1>4. n * w \in Nat /\ y * w \in Nat
  OBVIOUS
<1>. QED  BY <1>3, <1>4

LEMMA CellInGrid ==
  ASSUME NEW point \in Points
  PROVE  Cell(point[1], point[2]) \in Cells
<1>. USE CanvasAssumption
<1>. DEFINE x == point[1]
            y == point[2]
<1>1. x \in 0 .. Columns - 1 /\ y \in 0 .. Rows - 1
  BY DEF Points
<1>2. x \in Nat /\ y \in Nat /\ x < Columns /\ y < Rows
  BY <1>1
<1>3. y * Columns + Columns <= Rows * Columns
  BY <1>2, RowsApart
<1>4. y * Columns \in Nat /\ Rows * Columns \in Nat /\ Columns * Rows = Rows * Columns
  BY <1>2
<1>. HIDE DEF x, y
<1>5. y * Columns + x \in 0 .. Columns * Rows - 1
  BY <1>2, <1>3, <1>4
<1>. QED  BY <1>5 DEF Cell, Cells, x, y

\* No two points of the screen share a cell of the grid.
LEMMA CellsApart ==
  ASSUME NEW p \in Points, NEW q \in Points,
         Cell(p[1], p[2]) = Cell(q[1], q[2])
  PROVE  p = q
<1>. USE CanvasAssumption
<1>1. /\ p[1] \in Nat /\ p[1] < Columns /\ p[2] \in Nat
      /\ q[1] \in Nat /\ q[1] < Columns /\ q[2] \in Nat
      /\ p = <<p[1], p[2]>> /\ q = <<q[1], q[2]>>
  BY DEF Points
<1>2. p[2] * Columns + p[1] = q[2] * Columns + q[1]
  BY DEF Cell
<1>3. p[2] * Columns \in Nat /\ q[2] * Columns \in Nat
  BY <1>1
<1>4. ~(p[2] < q[2])
  <2>1. p[2] < q[2] => p[2] * Columns + Columns <= q[2] * Columns
    BY <1>1, RowsApart
  <2>. QED  BY <1>1, <1>2, <1>3, <2>1
<1>5. ~(q[2] < p[2])
  <2>1. q[2] < p[2] => q[2] * Columns + Columns <= p[2] * Columns
    BY <1>1, RowsApart
  <2>. QED  BY <1>1, <1>2, <1>3, <2>1
<1>6. p[2] = q[2]
  BY <1>1, <1>4, <1>5
<1>7. p[1] = q[1]
  BY <1>1, <1>2, <1>3, <1>6
<1>. QED  BY <1>1, <1>6, <1>7

LEMMA CanvasTypeStep == CanvasTypeOK /\ [CanvasNext]_canvas => CanvasTypeOK'
<1>. SUFFICES ASSUME CanvasTypeOK, [CanvasNext]_canvas PROVE CanvasTypeOK'
  OBVIOUS
<1>. USE CanvasAssumption DEF CanvasTypeOK, Points
<1>1. CASE AnyKey
  BY <1>1 DEF AnyKey
<1>2. CASE CanvasKey
  <2>1. CASE Up \/ Down \/ Left \/ Right
    <3>1. /\ cursor_x \in 0 .. Columns - 1 /\ cursor_y \in 0 .. Rows - 1
          /\ Columns \in Nat /\ Rows \in Nat
      OBVIOUS
    <3>2. cursor_x' \in 0 .. Columns - 1 /\ cursor_y' \in 0 .. Rows - 1
      <4>. HIDE DEF CanvasTypeOK
      <4>1. CASE Up     BY <3>1, <4>1 DEF Up
      <4>2. CASE Down   BY <3>1, <4>2 DEF Down
      <4>3. CASE Left   BY <3>1, <4>3 DEF Left
      <4>4. CASE Right  BY <3>1, <4>4 DEF Right
      <4>. QED  BY <2>1, <4>1, <4>2, <4>3, <4>4
    <3>3. grid' = grid /\ dots' = dots /\ started' = started
      BY <1>2, <2>1 DEF CanvasKey, Up, Down, Left, Right
    <3>. QED  BY <3>2, <3>3
  <2>2. ASSUME NEW character \in {"*", " "}, Put(character) PROVE CanvasTypeOK'
    BY <1>2, <2>2 DEF CanvasKey, Put
  <2>. QED  BY <1>2, <2>1, <2>2 DEF CanvasKey
<1>3. CASE UNCHANGED canvas
  BY <1>3 DEF canvas
<1>. QED  BY <1>1, <1>2, <1>3 DEF CanvasNext

\* Only the dot under the cursor changes, because its cell is no other's.
LEMMA DotsStep ==
  CanvasTypeOK /\ DotsStay /\ [CanvasNext]_canvas => DotsStay'
<1>. SUFFICES ASSUME CanvasTypeOK, DotsStay, [CanvasNext]_canvas PROVE DotsStay'
  OBVIOUS
<1>1. CASE UNCHANGED <<grid, dots>>
  BY <1>1 DEF DotsStay
<1>2. ASSUME NEW character \in {"*", " "}, Put(character) PROVE DotsStay'
  <2>. DEFINE here == <<cursor_x, cursor_y>>
  <2>1. here \in Points /\ grid \in [Cells -> {"*", " "}]
    BY DEF CanvasTypeOK
  <2>2. Cell(cursor_x, cursor_y) = Cell(here[1], here[2])
    OBVIOUS
  <2>3. ASSUME NEW point \in Points
        PROVE  grid'[Cell(point[1], point[2])] = "*" <=> point \in dots'
    <3>1. Cell(point[1], point[2]) \in Cells
      BY CellInGrid
    <3>2. CASE point = here
      <4>1. grid'[Cell(point[1], point[2])] = character
        BY <1>2, <2>1, <2>2, <3>1, <3>2 DEF Put
      <4>2. point \in dots' <=> character = "*"
        BY <1>2, <3>2 DEF Put
      <4>. QED  BY <4>1, <4>2
    <3>3. CASE point # here
      <4>1. Cell(point[1], point[2]) # Cell(here[1], here[2])
        BY <2>1, <3>3, CellsApart
      <4>2. grid'[Cell(point[1], point[2])] = grid[Cell(point[1], point[2])]
        BY <1>2, <2>1, <2>2, <3>1, <4>1 DEF Put
      <4>3. point \in dots' <=> point \in dots
        BY <1>2, <3>3 DEF Put
      <4>. QED  BY <4>2, <4>3 DEF DotsStay
    <3>. QED  BY <3>2, <3>3
  <2>. QED  BY <2>3 DEF DotsStay
<1>. QED
  BY <1>1, <1>2 DEF CanvasNext, AnyKey, CanvasKey, Up, Down, Left, Right, canvas

\* On a screen of any size a dot of the drawing stands where it was put, until it
\* is erased there (the grid of start_canvas).
THEOREM DotsAlwaysStay == CanvasSpec => []DotsStay
<1>. USE CanvasAssumption
<1>1. CanvasInit => CanvasTypeOK /\ DotsStay
  <2>. SUFFICES ASSUME CanvasInit PROVE CanvasTypeOK /\ DotsStay
    OBVIOUS
  <2>1. Columns \div 2 \in 0 .. Columns - 1 /\ Rows \div 2 \in 0 .. Rows - 1
    OBVIOUS
  <2>2. CanvasTypeOK
    BY <2>1 DEF CanvasInit, CanvasTypeOK, Points
  <2>3. DotsStay
    BY CellInGrid DEF CanvasInit, DotsStay
  <2>. QED  BY <2>2, <2>3
<1>2. CanvasTypeOK /\ DotsStay /\ [CanvasNext]_canvas => (CanvasTypeOK /\ DotsStay)'
  BY CanvasTypeStep, DotsStep
<1>. QED  BY <1>1, <1>2, PTL DEF CanvasSpec

-----------------------------------------------------------------------------
(* WebBrowser *)

\* The row that two stacks with a page between them stand for.
Row(back, url, forward) == (back \o <<url>>) \o Reverse(forward)

StacksTyped ==
  current_url \in Urls /\ history_back \in Seq(Urls) /\ history_forward \in Seq(Urls)

LEMMA StacksStep == StacksTyped /\ [WebBrowserNext]_browser => StacksTyped'
<1>. SUFFICES ASSUME StacksTyped, [WebBrowserNext]_browser PROVE StacksTyped'
  OBVIOUS
<1>. USE DEF StacksTyped
<1>1. ASSUME NEW s \in Seq(Urls), s # <<>>
      PROVE  Front(s) \in Seq(Urls) /\ Last(s) \in Urls
  BY <1>1 DEF Front, Last
<1>2. CASE HistoryBackPage
  BY <1>1, <1>2 DEF HistoryBackPage
<1>3. CASE HistoryForwardPage
  BY <1>1, <1>3 DEF HistoryForwardPage
<1>4. ASSUME NEW url \in Urls, Navigate(url)
      PROVE  StacksTyped'
  BY <1>4 DEF Navigate
<1>5. CASE UNCHANGED browser
  BY <1>5 DEF browser
<1>. QED  BY <1>2, <1>3, <1>4, <1>5 DEF WebBrowserNext

\* The pages of a row, one by one.
IsRow(row, back, url, forward) ==
  /\ row \in Seq(Urls)
  /\ Len(row) = Len(back) + 1 + Len(forward)
  /\ \A i \in 1 .. Len(back) : row[i] = back[i]
  /\ row[Len(back) + 1] = url
  /\ \A i \in 1 .. Len(forward) : row[Len(back) + 1 + i] = forward[Len(forward) - i + 1]

LEMMA RowPages ==
  ASSUME NEW back \in Seq(Urls), NEW url \in Urls, NEW forward \in Seq(Urls)
  PROVE  IsRow(Row(back, url, forward), back, url, forward)
<1>1. /\ back \o <<url>> \in Seq(Urls) /\ Len(back \o <<url>>) = Len(back) + 1
      /\ \A i \in 1 .. Len(back) : (back \o <<url>>)[i] = back[i]
      /\ (back \o <<url>>)[Len(back) + 1] = url
  OBVIOUS
<1>2. /\ Reverse(forward) \in Seq(Urls) /\ Len(Reverse(forward)) = Len(forward)
      /\ \A i \in 1 .. Len(forward) : Reverse(forward)[i] = forward[Len(forward) - i + 1]
  BY DEF Reverse
<1>. DEFINE left == back \o <<url>>
            right == Reverse(forward)
<1>. HIDE DEF left, right
<1>3. /\ left \in Seq(Urls) /\ right \in Seq(Urls)
      => /\ left \o right \in Seq(Urls) /\ Len(left \o right) = Len(left) + Len(right)
         /\ \A i \in 1 .. Len(left) : (left \o right)[i] = left[i]
         /\ \A i \in 1 .. Len(right) : (left \o right)[Len(left) + i] = right[i]
  OBVIOUS
<1>4. /\ left \in Seq(Urls) /\ Len(left) = Len(back) + 1
      /\ \A i \in 1 .. Len(back) : left[i] = back[i]
      /\ left[Len(back) + 1] = url
  BY <1>1 DEF left
<1>5. /\ right \in Seq(Urls) /\ Len(right) = Len(forward)
      /\ \A i \in 1 .. Len(forward) : right[i] = forward[Len(forward) - i + 1]
  BY <1>2 DEF right
<1>6. Row(back, url, forward) = left \o right
  BY DEF Row, left, right
<1>7. Len(back) \in Nat /\ Len(forward) \in Nat
  OBVIOUS
<1>8. /\ left \o right \in Seq(Urls)
      /\ Len(left \o right) = Len(back) + 1 + Len(forward)
      /\ \A i \in 1 .. Len(left) : (left \o right)[i] = left[i]
      /\ \A i \in 1 .. Len(right) : (left \o right)[Len(left) + i] = right[i]
  BY <1>3, <1>4, <1>5, <1>7
<1>. DEFINE row == left \o right
<1>. HIDE DEF row
<1>9. /\ row \in Seq(Urls)
      /\ Len(row) = Len(back) + 1 + Len(forward)
      /\ \A i \in 1 .. Len(left) : row[i] = left[i]
      /\ \A i \in 1 .. Len(right) : row[Len(left) + i] = right[i]
  BY <1>8 DEF row
<1>10. /\ \A i \in 1 .. Len(back) : row[i] = back[i]
       /\ row[Len(back) + 1] = url
  BY <1>4, <1>7, <1>9
<1>11. \A i \in 1 .. Len(forward) : row[Len(back) + 1 + i] = forward[Len(forward) - i + 1]
  BY <1>4, <1>5, <1>7, <1>9
<1>. QED  BY <1>6, <1>9, <1>10, <1>11 DEF row, IsRow

LEMMA SamePages ==
  ASSUME NEW s \in Seq(Urls), NEW t \in Seq(Urls),
         Len(s) = Len(t), \A i \in 1 .. Len(s) : s[i] = t[i]
  PROVE  s = t
OBVIOUS

LEMMA FrontPages ==
  ASSUME NEW S, NEW s \in Seq(S), s # <<>>
  PROVE  /\ Front(s) \in Seq(S) /\ Len(Front(s)) = Len(s) - 1
         /\ \A i \in 1 .. Len(s) - 1 : Front(s)[i] = s[i]
         /\ Len(s) \in Nat \ {0} /\ s[Len(s)] \in S
<1>1. Len(s) \in Nat \ {0}
  OBVIOUS
<1>2. \A i \in 1 .. Len(s) : s[i] \in S
  OBVIOUS
<1>3. Front(s) \in Seq(S)
  BY DEF Front
<1>4. Len(Front(s)) = Len(s) - 1
  <2>1. PICK n \in Nat : Len(s) = n + 1
    BY <1>1
  <2>2. Len(SubSeq(s, 1, n)) = n
    BY <2>1
  <2>. QED  BY <2>1, <2>2 DEF Front
<1>5. \A i \in 1 .. Len(s) - 1 : Front(s)[i] = s[i]
  BY <1>1 DEF Front
<1>. QED  BY <1>1, <1>2, <1>3, <1>4, <1>5

LEMMA PrefixPages ==
  ASSUME NEW S, NEW s \in Seq(S), NEW n \in Nat, n <= Len(s)
  PROVE  /\ SubSeq(s, 1, n) \in Seq(S) /\ Len(SubSeq(s, 1, n)) = n
         /\ \A i \in 1 .. n : SubSeq(s, 1, n)[i] = s[i]
<1>1. SubSeq(s, 1, n) \in Seq(S)
  OBVIOUS
<1>2. Len(SubSeq(s, 1, n)) = n
  OBVIOUS
<1>3. \A i \in 1 .. n : SubSeq(s, 1, n)[i] = s[i]
  OBVIOUS
<1>. QED  BY <1>1, <1>2, <1>3

\* A page put on top of a stack is taken off again.
LEMMA StackTop ==
  ASSUME NEW s \in Seq(Urls), NEW url \in Urls
  PROVE  /\ Front(Append(s, url)) = s /\ Last(Append(s, url)) = url
         /\ s # <<>> => Append(Front(s), Last(s)) = s
<1>1. /\ Append(s, url) \in Seq(Urls) /\ Append(s, url) # <<>>
      /\ Len(Append(s, url)) = Len(s) + 1 /\ Len(s) \in Nat
      /\ \A i \in 1 .. Len(s) : Append(s, url)[i] = s[i]
      /\ Append(s, url)[Len(s) + 1] = url
  OBVIOUS
<1>2. Front(Append(s, url)) = s
  <2>. DEFINE t == Append(s, url)
  <2>. HIDE DEF t
  <2>1. t \in Seq(Urls) /\ t # <<>> /\ Len(t) = Len(s) + 1 /\ \A i \in 1 .. Len(s) : t[i] = s[i]
    BY <1>1 DEF t
  <2>2. /\ Front(t) \in Seq(Urls) /\ Len(Front(t)) = Len(t) - 1
        /\ \A i \in 1 .. Len(t) - 1 : Front(t)[i] = t[i]
    BY <2>1, FrontPages
  <2>3. Front(t) = s
    BY <1>1, <2>1, <2>2, SamePages
  <2>. QED  BY <2>3 DEF t
<1>3. Last(Append(s, url)) = url
  BY <1>1 DEF Last
<1>4. ASSUME s # <<>>
      PROVE  Append(Front(s), Last(s)) = s
  <2>. DEFINE f == Front(s)
              l == Last(s)
  <2>1. /\ f \in Seq(Urls) /\ Len(f) = Len(s) - 1 /\ \A i \in 1 .. Len(s) - 1 : f[i] = s[i]
        /\ l \in Urls /\ l = s[Len(s)] /\ Len(s) \in Nat \ {0}
    BY <1>4, FrontPages DEF Last
  <2>. HIDE DEF f, l
  <2>2. /\ Append(f, l) \in Seq(Urls) /\ Len(Append(f, l)) = Len(s)
        /\ \A i \in 1 .. Len(s) - 1 : Append(f, l)[i] = s[i]
        /\ Append(f, l)[Len(s)] = s[Len(s)]
    BY <2>1
  <2>3. Append(f, l) = s
    BY <2>1, <2>2, SamePages
  <2>. QED  BY <2>3 DEF f, l
<1>. QED  BY <1>2, <1>3, <1>4

\* A page that moves from one stack to the other leaves the row as it is.
LEMMA MoveKeepsRow ==
  ASSUME NEW back \in Seq(Urls), NEW url \in Urls, NEW forward \in Seq(Urls), back # <<>>
  PROVE  Row(Front(back), Last(back), Append(forward, url)) = Row(back, url, forward)
<1>. DEFINE ahead == Append(forward, url)
            before == Front(back)
            last == Last(back)
            old == Row(back, url, forward)
            new == Row(before, last, ahead)
<1>1. /\ before \in Seq(Urls) /\ Len(before) = Len(back) - 1
      /\ \A i \in 1 .. Len(back) - 1 : before[i] = back[i]
      /\ last \in Urls /\ last = back[Len(back)]
  BY FrontPages DEF Last
<1>2. /\ ahead \in Seq(Urls) /\ Len(ahead) = Len(forward) + 1
      /\ \A i \in 1 .. Len(forward) : ahead[i] = forward[i]
      /\ ahead[Len(forward) + 1] = url
  OBVIOUS
<1>3. Len(back) \in Nat \ {0} /\ Len(forward) \in Nat
  OBVIOUS
<1>. HIDE DEF ahead, before, last
<1>4. /\ new \in Seq(Urls) /\ Len(new) = Len(back) + 1 + Len(forward)
      /\ \A i \in 1 .. Len(back) - 1 : new[i] = back[i]
      /\ new[Len(back)] = back[Len(back)]
      /\ \A i \in 1 .. Len(forward) + 1 : new[Len(back) + i] = ahead[Len(forward) + 1 - i + 1]
  <2>1. IsRow(new, before, last, ahead)
    BY <1>1, <1>2, RowPages
  <2>. HIDE DEF new
  <2>. QED  BY <2>1, <1>1, <1>2, <1>3 DEF IsRow
<1>5. /\ old \in Seq(Urls) /\ Len(old) = Len(back) + 1 + Len(forward)
      /\ \A i \in 1 .. Len(back) : old[i] = back[i]
      /\ old[Len(back) + 1] = url
      /\ \A i \in 1 .. Len(forward) : old[Len(back) + 1 + i] = forward[Len(forward) - i + 1]
  <2>1. IsRow(old, back, url, forward)
    BY RowPages
  <2>. HIDE DEF old
  <2>. QED  BY <2>1 DEF IsRow
<1>. HIDE DEF new, old
<1>6. ASSUME NEW i \in 1 .. Len(old)
      PROVE  new[i] = old[i]
  <2>1. CASE i <= Len(back)
    <3>1. i \in 1 .. Len(back)
      BY <2>1, <1>3, <1>5
    <3>2. i \in 1 .. Len(back) - 1 \/ i = Len(back)
      BY <3>1, <1>3
    <3>3. new[i] = back[i]
      BY <3>2, <1>4
    <3>. QED  BY <3>1, <3>3, <1>5
  <2>2. CASE i = Len(back) + 1
    <3>1. new[Len(back) + 1] = ahead[Len(forward) + 1]
      BY <1>3, <1>4
    <3>. QED  BY <2>2, <3>1, <1>2, <1>5
  <2>3. CASE i > Len(back) + 1
    <3>1. PICK k \in 1 .. Len(forward) : i = Len(back) + 1 + k
      <4>1. i - Len(back) - 1 \in 1 .. Len(forward) /\ i = Len(back) + 1 + (i - Len(back) - 1)
        BY <2>3, <1>3, <1>5
      <4>. QED  BY <4>1
    <3>2. old[i] = forward[Len(forward) - k + 1]
      BY <3>1, <1>5
    <3>3. k + 1 \in 1 .. Len(forward) + 1 /\ i = Len(back) + (k + 1)
      BY <3>1, <1>3
    <3>4. new[i] = ahead[Len(forward) + 1 - (k + 1) + 1]
      BY <3>3, <1>4
    <3>5. /\ Len(forward) + 1 - (k + 1) + 1 = Len(forward) - k + 1
          /\ Len(forward) - k + 1 \in 1 .. Len(forward)
      BY <3>1, <1>3
    <3>6. ahead[Len(forward) - k + 1] = forward[Len(forward) - k + 1]
      BY <3>5, <1>2
    <3>. QED  BY <3>2, <3>4, <3>5, <3>6
  <2>. QED  BY <2>1, <2>2, <2>3, <1>3, <1>5
<1>7. new = old
  BY <1>4, <1>5, <1>6, SamePages
<1>. QED  BY <1>7 DEF new, old, ahead, before, last

\* What is up to the page that is shown is the stack behind it, and the page.
LEMMA RowPrefix ==
  ASSUME NEW back \in Seq(Urls), NEW url \in Urls, NEW forward \in Seq(Urls)
  PROVE  /\ SubSeq(Row(back, url, forward), 1, Len(back)) = back
         /\ SubSeq(Row(back, url, forward), 1, Len(back) + 1) = Append(back, url)
         /\ Row(back, url, <<>>) = Append(back, url)
<1>. DEFINE row == Row(back, url, forward)
            bare == Row(back, url, <<>>)
<1>0. <<>> \in Seq(Urls)
  OBVIOUS
<1>1. IsRow(row, back, url, forward)
  BY RowPages
<1>2. IsRow(bare, back, url, <<>>)
  BY <1>0, RowPages
<1>3. Len(back) \in Nat /\ Len(forward) \in Nat /\ Len(<<>>) = 0
  OBVIOUS
<1>. HIDE DEF row, bare
<1>4. /\ row \in Seq(Urls) /\ Len(row) = Len(back) + 1 + Len(forward)
      /\ \A i \in 1 .. Len(back) : row[i] = back[i]
      /\ row[Len(back) + 1] = url
  BY <1>1 DEF IsRow
<1>5. ASSUME NEW n \in {Len(back), Len(back) + 1}
      PROVE  /\ SubSeq(row, 1, n) \in Seq(Urls) /\ Len(SubSeq(row, 1, n)) = n
             /\ \A i \in 1 .. n : SubSeq(row, 1, n)[i] = row[i]
  <2>1. n \in Nat /\ n <= Len(row)
    BY <1>3, <1>4
  <2>. HIDE DEF IsRow
  <2>. QED  BY <2>1, <1>4, PrefixPages
<1>6. SubSeq(row, 1, Len(back)) = back
  BY <1>3, <1>4, <1>5, SamePages
<1>7. /\ Append(back, url) \in Seq(Urls) /\ Len(Append(back, url)) = Len(back) + 1
      /\ \A i \in 1 .. Len(back) : Append(back, url)[i] = back[i]
      /\ Append(back, url)[Len(back) + 1] = url
  OBVIOUS
<1>8. SubSeq(row, 1, Len(back) + 1) = Append(back, url)
  <2>1. \A i \in 1 .. Len(back) + 1 : SubSeq(row, 1, Len(back) + 1)[i] = Append(back, url)[i]
    BY <1>3, <1>4, <1>5, <1>7
  <2>. QED  BY <2>1, <1>5, <1>7, SamePages
<1>9. bare = Append(back, url)
  <2>1. /\ bare \in Seq(Urls) /\ Len(bare) = Len(back) + 1
        /\ \A i \in 1 .. Len(back) + 1 : bare[i] = Append(back, url)[i]
    BY <1>2, <1>3, <1>7 DEF IsRow
  <2>. QED  BY <2>1, <1>7, SamePages
<1>. QED  BY <1>6, <1>8, <1>9 DEF row, bare

-----------------------------------------------------------------------------
visits == Row(history_back, current_url, history_forward)
at == Len(history_back) + 1

LEMMA BackIsBack == StacksTyped /\ HistoryBackPage => AsVisits!Back
<1>. SUFFICES ASSUME StacksTyped, HistoryBackPage PROVE AsVisits!Back
  OBVIOUS
<1>1. visits' = visits
  BY MoveKeepsRow DEF HistoryBackPage, StacksTyped, visits
<1>2. at > 1 /\ at' = at - 1
  BY FrontPages DEF HistoryBackPage, StacksTyped, at
<1>. QED  BY <1>1, <1>2 DEF AsVisits!Back, visits, at, Row

LEMMA ForwardIsForward == StacksTyped /\ HistoryForwardPage => AsVisits!Forward
<1>. SUFFICES ASSUME StacksTyped, HistoryForwardPage PROVE AsVisits!Forward
  OBVIOUS
<1>1. /\ history_back' \in Seq(Urls) /\ current_url' \in Urls /\ history_forward' \in Seq(Urls)
      /\ history_back' # <<>> /\ Len(history_back') = Len(history_back) + 1
  BY FrontPages DEF HistoryForwardPage, StacksTyped, Last
<1>2. /\ Front(history_back') = history_back
      /\ Last(history_back') = current_url
      /\ Append(history_forward', current_url') = history_forward
  BY StackTop DEF HistoryForwardPage, StacksTyped
<1>3. visits' = visits
  BY <1>1, <1>2, MoveKeepsRow DEF visits
<1>4. at' = at + 1
  BY <1>1 DEF StacksTyped, at
<1>5. at < Len(visits)
  <2>1. Len(visits) = Len(history_back) + 1 + Len(history_forward)
    BY RowPages DEF StacksTyped, visits, IsRow
  <2>2. Len(history_forward) > 0 /\ Len(history_forward) \in Nat /\ Len(history_back) \in Nat
    BY FrontPages DEF HistoryForwardPage, StacksTyped
  <2>. QED  BY <2>1, <2>2 DEF at
<1>. QED  BY <1>3, <1>4, <1>5 DEF AsVisits!Forward, visits, at, Row

LEMMA NavigateIsVisit ==
  ASSUME StacksTyped, NEW url \in Urls, Navigate(url)
  PROVE  AsVisits!Visit(url)
<1>. DEFINE kept == IF visits[at] = NoUrl THEN at - 1 ELSE at
<1>1. visits[at] = current_url
  BY RowPages DEF StacksTyped, visits, at, IsRow
<1>2. SubSeq(visits, 1, kept) = history_back' /\ at' = kept + 1
  <2>1. CASE current_url = NoUrl
    BY <2>1, <1>1, RowPrefix DEF Navigate, StacksTyped, visits, at
  <2>2. CASE current_url # NoUrl
    BY <2>2, <1>1, RowPrefix DEF Navigate, StacksTyped, visits, at
  <2>. QED  BY <2>1, <2>2
<1>3. visits' = Append(history_back', url)
  <2>1. history_back' \in Seq(Urls) /\ <<>> \in Seq(Urls)
    BY DEF Navigate, StacksTyped
  <2>2. visits' = Row(history_back', url, <<>>)
    BY DEF Navigate, visits, Row
  <2>. QED  BY <2>1, <2>2, RowPrefix
<1>. QED  BY <1>2, <1>3 DEF AsVisits!Visit, visits, at, Row

\* Going back and forward loses no page and changes no order, however long the
\* history is, and a new page cuts off only what was ahead.
THEOREM HistoryImplementsVisits == WebBrowserSpec => HistoryRefinement
<1>1. WebBrowserInit => StacksTyped /\ AsVisits!Init
  <2>. SUFFICES ASSUME WebBrowserInit PROVE StacksTyped /\ AsVisits!Init
    OBVIOUS
  <2>1. StacksTyped
    BY UrlAssumption DEF WebBrowserInit, StacksTyped
  <2>2. visits = Append(<<>>, NoUrl) /\ at = 1
    <3>1. <<>> \in Seq(Urls) /\ Len(<<>>) = 0
      OBVIOUS
    <3>2. Row(<<>>, NoUrl, <<>>) = Append(<<>>, NoUrl)
      BY <3>1, RowPrefix, UrlAssumption
    <3>. QED  BY <3>1, <3>2 DEF WebBrowserInit, visits, at
  <2>. QED  BY <2>1, <2>2 DEF AsVisits!Init, visits, at, Row
<1>2. StacksTyped /\ [WebBrowserNext]_browser => [AsVisits!Next]_AsVisits!vars
  <2>. SUFFICES ASSUME StacksTyped, [WebBrowserNext]_browser
                PROVE  [AsVisits!Next]_AsVisits!vars
    OBVIOUS
  <2>1. CASE WebBrowserNext
    BY <2>1, BackIsBack, ForwardIsForward, NavigateIsVisit DEF WebBrowserNext, AsVisits!Next
  <2>2. CASE UNCHANGED browser
    BY <2>2 DEF browser, AsVisits!vars
  <2>. QED  BY <2>1, <2>2
<1>. QED
  BY <1>1, <1>2, StacksStep, PTL DEF WebBrowserSpec, HistoryRefinement, AsVisits!Spec

-----------------------------------------------------------------------------
(* The browser and the parser *)

\* Lists of whatever they are lists of.
IsList(s) == \E S : s \in Seq(S)

LEMMA Longer ==
  ASSUME NEW s, IsList(s), NEW e
  PROVE  IsList(Append(s, e)) /\ Len(Append(s, e)) = Len(s) + 1 /\ Len(s) \in Nat
<1>1. PICK S : s \in Seq(S)
  BY DEF IsList
<1>2. s \in Seq(S \cup {e}) /\ e \in S \cup {e}
  BY <1>1
<1>3. Append(s, e) \in Seq(S \cup {e}) /\ Len(Append(s, e)) = Len(s) + 1 /\ Len(s) \in Nat
  BY <1>2
<1> QED BY <1>3 DEF IsList

LEMMA Joined ==
  ASSUME NEW s, IsList(s), NEW t, IsList(t)
  PROVE  IsList(s \o t) /\ Len(s \o t) = Len(s) + Len(t) /\ Len(s) \in Nat /\ Len(t) \in Nat
<1>1. PICK S : s \in Seq(S)
  BY DEF IsList
<1>2. PICK T : t \in Seq(T)
  BY DEF IsList
<1>3. s \in Seq(S \cup T) /\ t \in Seq(S \cup T)
  BY <1>1, <1>2
<1>4. /\ s \o t \in Seq(S \cup T) /\ Len(s \o t) = Len(s) + Len(t)
      /\ Len(s) \in Nat /\ Len(t) \in Nat
  BY <1>3
<1> QED BY <1>4 DEF IsList

\* The variables of parse_html, between one token and the next: the number of
\* the next link is one more than there are links.
IsParser(p) ==
  /\ DOMAIN p = {"lines", "links", "link_counter", "in_tag", "text_buffer",
                 "skip_content", "current_link_url", "in_anchor"}
  /\ IsList(p.lines) /\ IsList(p.links)
  /\ p.link_counter = Len(p.links) + 1

LEMMA EmptyList == IsList(<<>>)
<1>1. <<>> \in Seq({})
  OBVIOUS
<1> QED BY <1>1 DEF IsList

LEMMA NewParserIs == IsParser(NewParser)
BY EmptyList DEF IsParser, NewParser

LEMMA ShowParser ==
  ASSUME NEW p, IsParser(p)
  PROVE  IsParser(Show(p))
<1>1. IsList(p.lines) /\ IsList(p.links) /\ p.link_counter = Len(p.links) + 1
  BY DEF IsParser
<1>2. CASE ~p.in_anchor
  <2> DEFINE line == Line(DecodeEntities(Trim(p.text_buffer)))
  <2>1. IsList(Append(p.lines, line))
    BY <1>1, Longer
  <2>2. Show(p) = [p EXCEPT !.lines = Append(p.lines, line)]
    BY <1>2 DEF Show
  <2> HIDE DEF line
  <2> QED BY <1>1, <2>1, <2>2 DEF IsParser
<1>3. CASE p.in_anchor
  <2> DEFINE text == DecodeEntities(Trim(p.text_buffer))
             n == p.link_counter
             line == LinkLine(n, text)
             link == [index |-> n, text |-> text, target_url |-> p.current_link_url]
  <2>1. /\ IsList(Append(p.lines, line)) /\ IsList(Append(p.links, link))
        /\ Len(Append(p.links, link)) = Len(p.links) + 1
    BY <1>1, Longer
  <2>2. Show(p) = [p EXCEPT !.lines = Append(p.lines, line), !.links = Append(p.links, link),
                            !.link_counter = n + 1]
    BY <1>3 DEF Show
  <2> HIDE DEF line, link
  <2> QED BY <1>1, <2>1, <2>2 DEF IsParser
<1> QED BY <1>2, <1>3

LEMMA FlushParser ==
  ASSUME NEW p, IsParser(p)
  PROVE  IsParser(Flush(p))
<1>1. \A q : IsParser(q) => IsParser([q EXCEPT !.text_buffer = <<>>])
  BY DEF IsParser
<1> QED BY <1>1, ShowParser DEF Flush

LEMMA CloseParser ==
  ASSUME NEW p, IsParser(p), NEW tag
  PROVE  IsParser(Close(p, tag))
<1>1. \A b : IsParser([p EXCEPT !.skip_content = b])
  BY DEF IsParser
<1>2. IsParser([p EXCEPT !.lines = Append(p.lines, Heading)])
  <2>1. IsList(Append(p.lines, Heading))
    BY Longer DEF IsParser
  <2> QED BY <2>1 DEF IsParser
<1>3. \A b : IsParser([p EXCEPT !.in_anchor = b])
  BY DEF IsParser
<1>4. \A b, target : IsParser([p EXCEPT !.in_anchor = b, !.current_link_url = target])
  BY DEF IsParser
<1> QED BY <1>1, <1>2, <1>3, <1>4 DEF Close

LEMMA ReadParser ==
  ASSUME NEW p, IsParser(p), NEW token
  PROVE  IsParser(Read(p, token))
<1>1. \A q, b : IsParser(q) => IsParser([q EXCEPT !.in_tag = b])
  BY DEF IsParser
<1>2. IsParser([p EXCEPT !.text_buffer = Append(p.text_buffer, token)])
  BY DEF IsParser
<1>3. IsParser(Flush(p)) /\ IsParser(Close(Flush(p), token))
  BY FlushParser, CloseParser
<1> QED BY <1>1, <1>2, <1>3 DEF Read

LEMMA FinishParser ==
  ASSUME NEW p, IsParser(p)
  PROVE  IsList(Finish(p).lines)
<1>1. \A line : IsList(Append(p.lines, line))
  BY Longer DEF IsParser
<1>2. \A lines : [p EXCEPT !.lines = lines].lines = lines
  BY DEF IsParser
<1> QED BY <1>1, <1>2 DEF Finish, IsParser

\* The pass over a page of n tokens, seen as the function FoldLeft makes: for a
\* set of places, what is left after reading the tokens there.
ReadAt(it, n, page_read) ==
  it = [s \in SUBSET (1 .. n) |->
          IF s = {} THEN NewParser ELSE Read(it[s \ {Max(s)}], page_read[Max(s)])]

LEMMA PassExists ==
  ASSUME NEW n \in Nat, NEW page_read
  PROVE  \E it : ReadAt(it, n, page_read)
<1> DEFINE Good == {k \in 0 .. n : \E it : ReadAt(it, k, page_read)}
<1>1. 0 \in Good
  <2> DEFINE it == [s \in SUBSET (1 .. 0) |-> NewParser]
  <2>1. \A s \in SUBSET (1 .. 0) : s = {}
    OBVIOUS
  <2>2. ReadAt(it, 0, page_read)
    BY <2>1 DEF ReadAt
  <2> QED BY <2>2
<1>2. ASSUME NEW k \in 0 .. n - 1, k \in Good
      PROVE  k + 1 \in Good
  <2>1. PICK f : ReadAt(f, k, page_read)
    BY <1>2
  <2> DEFINE top == k + 1
             it == [s \in SUBSET (1 .. top) |->
                      IF top \in s THEN Read(f[s \ {top}], page_read[top]) ELSE f[s]]
  <2>2. \A s \in SUBSET (1 .. top) : s \ {top} \in SUBSET (1 .. k)
    OBVIOUS
  <2>3. \A s \in SUBSET (1 .. top) : top \notin s => s \in SUBSET (1 .. k)
    OBVIOUS
  <2>6. ASSUME NEW s \in SUBSET (1 .. top)
        PROVE  it[s] = IF s = {} THEN NewParser ELSE Read(it[s \ {Max(s)}], page_read[Max(s)])
    <3>1. CASE top \in s
      <4>1. Max(s) = top
        <5>1. s \subseteq Int /\ \A t \in s : t <= top
          OBVIOUS
        <5> QED BY <3>1, <5>1, MaxIs
      <4>2. it[s \ {top}] = f[s \ {top}]
        BY <2>2
      <4> QED BY <3>1, <4>1, <4>2
    <3>2. CASE top \notin s
      <4>1. s \in SUBSET (1 .. k) /\ it[s] = f[s]
        BY <2>3, <3>2
      <4>2. f[s] = IF s = {} THEN NewParser ELSE Read(f[s \ {Max(s)}], page_read[Max(s)])
        BY <2>1, <4>1 DEF ReadAt
      <4>3. ASSUME s # {} PROVE it[s \ {Max(s)}] = f[s \ {Max(s)}]
        BY <3>2, <4>1
      <4> QED BY <4>1, <4>2, <4>3
    <3> QED BY <3>1, <3>2
  <2>7. ReadAt(it, top, page_read)
    <3>1. it = [s \in SUBSET (1 .. top) |-> it[s]]
      OBVIOUS
    <3> HIDE DEF top, it
    <3> QED BY <2>6, <3>1 DEF ReadAt
  <2>8. top \in 0 .. n
    OBVIOUS
  <2> HIDE DEF top, it
  <2>9. top \in Good
    BY <2>7, <2>8
  <2> QED BY <2>9 DEF top
<1>3. n \in Good
  <2> HIDE DEF Good
  <2>1. 0 .. n \subseteq Good
    BY <1>1, <1>2, UpTo
  <2> QED BY <2>1
<1> QED BY <1>3

LEMMA ParsedPage ==
  ASSUME NEW T, NEW body \in Seq(T)
  PROVE  IsList(ParseHtml(body).lines)
<1> DEFINE n == Len(body)
           f == CHOOSE it : ReadAt(it, n, body)
<1>n. n \in Nat /\ DOMAIN body = 1 .. n
  OBVIOUS
<1>1. FoldLeft(Read, NewParser, body) = f[1 .. n]
  <2> DEFINE It(it) == it = [s \in SUBSET DOMAIN body |->
                               IF s = {} THEN NewParser
                               ELSE Read(it[s \ {Max(s)}], body[Max(s)])]
             g == CHOOSE it : It(it)
  <2>1. FoldLeft(Read, NewParser, body) = g[DOMAIN body]
    BY Zenon DEF FoldLeft, MapThenFoldSet
  <2>2. \A it : It(it) <=> ReadAt(it, n, body)
    BY <1>n DEF ReadAt
  <2>3. g = f
    <3> HIDE DEF It, n
    <3> QED BY <2>2
  <2> QED BY <1>n, <2>1, <2>3
<1>2. ReadAt(f, n, body)
  <2> HIDE DEF n
  <2> QED BY <1>n, PassExists
<1> HIDE DEF f, n
<1> DEFINE S == {k \in 0 .. n : IsParser(f[1 .. k])}
<1>3. 0 \in S
  <2>1. 1 .. 0 = {} /\ {} \in SUBSET (1 .. n)
    OBVIOUS
  <2> QED BY <1>2, <1>n, <2>1, NewParserIs DEF ReadAt
<1>4. ASSUME NEW k \in 0 .. n - 1, k \in S
      PROVE  k + 1 \in S
  <2>1. k + 1 \in 1 .. n /\ (k + 1) - 1 = k /\ k + 1 \in Nat \ {0} /\ k + 1 \in 0 .. n
    BY <1>n
  <2>2. Max(1 .. k + 1) = k + 1 /\ (1 .. k + 1) \ {k + 1} = 1 .. k /\ 1 .. k + 1 # {}
    BY <2>1, MaxOfInterval
  <2>3. 1 .. k + 1 \in SUBSET (1 .. n)
    BY <2>1, <1>n
  <2>4. f[1 .. k + 1] = Read(f[1 .. k], body[k + 1])
    BY <1>2, <2>2, <2>3 DEF ReadAt
  <2> QED BY <1>4, <2>1, <2>4, ReadParser
<1>5. n \in S
  <2> HIDE DEF S
  <2>1. 0 .. n \subseteq S
    BY <1>3, <1>4, <1>n, UpTo
  <2> QED BY <1>n, <2>1
<1> QED BY <1>1, <1>5, FinishParser DEF ParseHtml

-----------------------------------------------------------------------------
(* The programs together *)

LEMMA ResultsIs == IsList(Results) /\ Len(Results) >= 2
<1>1. IsList(Title) /\ Len(Title) = 2
  <2>1. Title \in Seq({Heading, Line(<<>>)}) /\ Len(Title) = 2
    BY DEF Title
  <2> QED BY <2>1 DEF IsList
<1>2. IsList(Offline)
  <2>1. Offline \in Seq({Line(<<>>)})
    BY DEF Offline
  <2> QED BY <2>1 DEF IsList
<1>3. IsList(ParseHtml(HttpGet.body).lines) \/ ~HttpGet.ok
  <2> DEFINE target == CHOOSE target \in Targets : TRUE
             T == {"<", ">", "<script>", "word", "</script>", "<h1>", "</a>", target}
  <2>1. Simulated \in Seq(T)
    <3>1. Simulated = <<"<", ">", "<script>", "<", ">", "word", "<", ">", "</script>", "<", ">",
                        "<h1>", "word", "<", ">", "<", ">", "word", "<", ">">>
                      \o <<target, "word", "</a>", "<", ">", "<", ">">>
      BY DEF Simulated
    <3> HIDE DEF target
    <3>2. <<"<", ">", "<script>", "<", ">", "word", "<", ">", "</script>", "<", ">",
            "<h1>", "word", "<", ">", "<", ">", "word", "<", ">">> \in Seq(T)
      OBVIOUS
    <3>3. <<target, "word", "</a>", "<", ">", "<", ">">> \in Seq(T)
      OBVIOUS
    <3> HIDE DEF T
    <3> QED BY <3>1, <3>2, <3>3
  <2>2. IsList(ParseHtml(Simulated).lines)
    <3> HIDE DEF T
    <3> QED BY <2>1, ParsedPage
  <2>3. HttpGet.ok => HttpGet.body = Simulated
    BY DEF HttpGet
  <2> QED BY <2>2, <2>3
<1>4. \/ Results = Title \o Offline
      \/ HttpGet.ok /\ Results = Title \o ParseHtml(HttpGet.body).lines
  BY DEF Results
<1>5. ASSUME NEW t, IsList(t)
      PROVE  IsList(Title \o t) /\ Len(Title \o t) >= 2
  <2>1. IsList(Title \o t) /\ Len(Title \o t) = Len(Title) + Len(t) /\ Len(t) \in Nat
    BY <1>1, <1>5, Joined
  <2> QED BY <1>1, <2>1
<1> QED BY <1>2, <1>3, <1>4, <1>5

\* The lines shown are always a list, so that the offset stays within it.
Listed == BrowserTypeOK /\ IsList(results)

LEMMA ResultsShown == Results # <<>> /\ IsList(Results) /\ Len(Results) \in Nat /\ 0 < Len(Results)
<1>1. PICK S : Results \in Seq(S)
  BY ResultsIs DEF IsList
<1>2. Len(Results) >= 2 /\ Len(Results) \in Nat
  BY <1>1, ResultsIs
<1> QED BY <1>2, ResultsIs

LEMMA SearchInit == BrowserInit => Listed
<1> SUFFICES ASSUME BrowserInit PROVE Listed
  OBVIOUS
<1>1. query \in Seq({"c", " "}) /\ scroll_offset = 0
  BY QueryAssumption DEF BrowserInit
<1>2. results = Results \/ results = <<>>
  BY DEF BrowserInit
<1> QED BY <1>1, <1>2, ResultsShown, EmptyList DEF Listed, BrowserTypeOK

LEMMA QueryStep ==
  ASSUME NEW S, query \in Seq(S),
         query' = query \/ BrowserBackspace \/ \E c \in S : BrowserType(c)
  PROVE  query' \in Seq(S)
<1>1. CASE BrowserBackspace
  <2>1. <<>> \in Seq(S) /\ (query # <<>> => Front(query) \in Seq(S))
    BY FrontOfLine
  <2> QED BY <1>1, <2>1 DEF BrowserBackspace
<1>2. ASSUME NEW c \in S, BrowserType(c) PROVE query' \in Seq(S)
  BY <1>2 DEF BrowserType
<1> QED BY <1>1, <1>2

LEMMA ScrollStep ==
  ASSUME scroll_offset \in Nat, IsList(results), [BrowserNext]_search,
         results # <<>> => scroll_offset < Len(results),
         results = <<>> => scroll_offset = 0
  PROVE  /\ scroll_offset' \in Nat /\ IsList(results')
         /\ results' # <<>> => scroll_offset' < Len(results')
         /\ results' = <<>> => scroll_offset' = 0
<1>1. Len(results) \in Nat
  BY Longer
<1>2. CASE BrowserEnter
  BY <1>2, ResultsShown DEF BrowserEnter
<1>3. CASE ScrollUp
  BY <1>1, <1>3 DEF ScrollUp
<1>4. CASE ScrollDown
  BY <1>1, <1>4 DEF ScrollDown
<1>5. CASE UNCHANGED <<scroll_offset, results>>
  BY <1>5
<1>6. BrowserEnter \/ ScrollUp \/ ScrollDown \/ UNCHANGED <<scroll_offset, results>>
  BY Zenon DEF BrowserNext, BrowserBackspace, BrowserType, search
<1> QED BY <1>2, <1>3, <1>4, <1>5, <1>6

LEMMA SearchStep == Listed /\ [BrowserNext]_search => Listed'
<1> SUFFICES ASSUME Listed, [BrowserNext]_search PROVE Listed'
  OBVIOUS
<1>1. query' \in Seq({"c", " "})
  <2>1. query' = query \/ BrowserBackspace \/ \E c \in {"c", " "} : BrowserType(c)
    BY Zenon DEF BrowserNext, BrowserEnter, ScrollUp, ScrollDown, search
  <2> QED BY <2>1, QueryStep, Zenon DEF Listed, BrowserTypeOK
<1> QED BY <1>1, ScrollStep, Zenon DEF Listed, BrowserTypeOK

LEMMA HistoryStep == WebBrowserTypeOK /\ [WebBrowserNext]_browser => WebBrowserTypeOK'
<1> SUFFICES ASSUME WebBrowserTypeOK, [WebBrowserNext]_browser PROVE WebBrowserTypeOK'
  OBVIOUS
<1>1. StacksTyped'
  BY StacksStep DEF WebBrowserTypeOK, StacksTyped
<1>2. /\ history_back \in Seq(Urls) /\ history_forward \in Seq(Urls)
      /\ Len(history_back) \in Nat /\ Len(history_forward) \in Nat /\ MaxHistory \in Nat
      /\ Len(history_back) + Len(history_forward) <= MaxHistory
      /\ current_url \in Urls
  BY HistoryAssumption DEF WebBrowserTypeOK
<1>3. \A s \in Seq(Urls) : s # <<>> => Len(Front(s)) = Len(s) - 1
  BY FrontPages
<1>4. \A s \in Seq(Urls), url \in Urls : Len(Append(s, url)) = Len(s) + 1
  OBVIOUS
<1>5. Len(history_back') + Len(history_forward') <= MaxHistory
  <2>1. CASE HistoryBackPage
    BY <1>2, <1>3, <1>4, <2>1 DEF HistoryBackPage
  <2>2. CASE HistoryForwardPage
    BY <1>2, <1>3, <1>4, <2>2 DEF HistoryForwardPage
  <2>3. ASSUME NEW url \in Urls, Navigate(url)
        PROVE  Len(history_back') + Len(history_forward') <= MaxHistory
    BY <1>2, <1>4, <2>3 DEF Navigate
  <2>4. CASE UNCHANGED browser
    BY <1>2, <2>4 DEF browser
  <2> QED BY <2>1, <2>2, <2>3, <2>4 DEF WebBrowserNext
<1> QED BY <1>1, <1>5 DEF WebBrowserTypeOK, StacksTyped

PageOK == html \in Seq(Tokens) /\ IsParser(parser)

LEMMA PageStep == PageOK /\ [PageNext]_page => PageOK'
<1> SUFFICES ASSUME PageOK, [PageNext]_page PROVE PageOK'
  OBVIOUS
<1>1. ASSUME NEW token \in Tokens, html' = Append(html, token), parser' = Read(parser, token)
      PROVE  PageOK'
  BY <1>1, ReadParser DEF PageOK
<1>2. CASE UNCHANGED page
  BY <1>2 DEF page, PageOK
<1> QED BY <1>1, <1>2 DEF PageNext

ProgramsOK ==
  program \in Programs \cup {"left"} /\ ChessTypeOK /\ CanvasTypeOK /\ Listed /\ WebBrowserTypeOK /\ PageOK

\* A step of one program is no step of the others.
LEMMA OneAtATime ==
  [Next]_vars =>
    /\ program \in Programs \cup {"left"} => program' \in Programs \cup {"left"}
    /\ [ChessNext]_chess /\ [CanvasNext]_canvas /\ [BrowserNext]_search
    /\ [WebBrowserNext]_browser /\ [PageNext]_page
BY DEF Next, Run, CanvasEscape, BrowserEscape, vars

LEMMA CanvasTypeInit == CanvasInit => CanvasTypeOK
<1> SUFFICES ASSUME CanvasInit PROVE CanvasTypeOK
  OBVIOUS
<1>1. Columns \div 2 \in 0 .. Columns - 1 /\ Rows \div 2 \in 0 .. Rows - 1
  BY CanvasAssumption
<1> QED BY <1>1, CanvasAssumption DEF CanvasInit, CanvasTypeOK, Points

LEMMA ProgramsInit == Init => ProgramsOK
<1> SUFFICES ASSUME Init PROVE ProgramsOK
  OBVIOUS
<1>1. ChessTypeOK /\ CanvasTypeOK /\ Listed
  BY ChessTypeInit, CanvasTypeInit, SearchInit DEF Init
<1>2. WebBrowserTypeOK
  BY UrlAssumption, HistoryAssumption DEF Init, WebBrowserInit, WebBrowserTypeOK
<1>3. PageOK
  BY NewParserIs DEF Init, PageOK
<1> QED BY <1>1, <1>2, <1>3 DEF Init, ProgramsOK, Programs

LEMMA ProgramsStep == ProgramsOK /\ [Next]_vars => ProgramsOK'
BY OneAtATime, ChessTypeStep, CanvasTypeStep, SearchStep, HistoryStep, PageStep
DEF ProgramsOK

\* Type correctness of the programs, for all constants: no page is scrolled past
\* its last line, whatever was searched for, and the number that parse_html gives
\* to the next link is always one more than it has found, for every page.
THEOREM TypeCorrect == Spec => []TypeOK
<1>1. ProgramsOK => TypeOK
  BY DEF ProgramsOK, Programs, Listed, PageOK, IsParser, TypeOK
<1> QED BY <1>1, ProgramsInit, ProgramsStep, PTL DEF Spec

\* What is proved above of each program by itself holds of the program that
\* has the machine, and of those that do not run.
THEOREM WhicheverProgramRuns ==
  Spec => OnlySquaresMove /\ []SquaresNeverPanic /\ []DotsStay /\ HistoryRefinement
<1>1. Init => ChessInit /\ CanvasInit /\ WebBrowserInit
  BY DEF Init
<1>2. [Next]_vars => [ChessNext]_chess /\ [CanvasNext]_canvas /\ [WebBrowserNext]_browser
  BY OneAtATime
<1>3. Spec => ChessSpec /\ CanvasSpec /\ WebBrowserSpec
  BY <1>1, <1>2, PTL DEF Spec, ChessSpec, CanvasSpec, WebBrowserSpec
<1> QED BY <1>3, OnlySquaresEverMove, SquaresNeverEverPanic, DotsAlwaysStay, HistoryImplementsVisits

-----------------------------------------------------------------------------
(* The text of a page: parse_html finds what Found tells of the whole page *)

\* The places of an entity that `chars` knows, and what stands there afterwards.
EntityAt(text, chars, i) ==
  i \in 1 .. Len(text) - 1 /\ text[i] = "&" /\ text[i + 1] \in DOMAIN chars
Replaced(text, chars) ==
  [i \in 1 .. Len(text) |->
    IF EntityAt(text, chars, i) THEN <<chars[text[i + 1]]>>
    ELSE IF EntityAt(text, chars, i - 1) THEN <<>> ELSE <<text[i]>>]

\* Replace is the row of what stands at each place.
LEMMA ReplaceIs ==
  ASSUME NEW text, NEW chars
  PROVE  Replace(text, chars) = FlattenSeq(Replaced(text, chars))
BY Zenon DEF Replace, Replaced, EntityAt

LEMMA ReplacedType ==
  ASSUME NEW T, NEW text \in Seq(T), NEW D, NEW chars \in [D -> T]
  PROVE  /\ Replaced(text, chars) \in [1 .. Len(text) -> Seq(T)]
         /\ Replace(text, chars) \in Seq(T)
<1> DEFINE s == Replaced(text, chars)
           n == Len(text)
<1>1. n \in Nat /\ \A i \in 1 .. n : text[i] \in T
  OBVIOUS
<1>2. ASSUME NEW i \in 1 .. n
      PROVE  s[i] \in Seq(T)
  <2>1. s[i] = IF EntityAt(text, chars, i) THEN <<chars[text[i + 1]]>>
               ELSE IF EntityAt(text, chars, i - 1) THEN <<>> ELSE <<text[i]>>
    BY DEF Replaced
  <2>2. EntityAt(text, chars, i) => chars[text[i + 1]] \in T
    BY DEF EntityAt
  <2>3. \A e \in T : <<e>> \in Seq(T)
    OBVIOUS
  <2>4. <<>> \in Seq(T)
    OBVIOUS
  <2> QED BY <1>1, <2>1, <2>2, <2>3, <2>4
<1>3. s = [i \in 1 .. n |-> s[i]]
  BY DEF Replaced
<1> HIDE DEF s, n
<1>4. s \in [1 .. n -> Seq(T)]
  BY <1>2, <1>3
<1>5. \E g : RowsUpTo(g, T, s, n) /\ FlattenSeq(s) = g[n]
  BY <1>1, <1>4, FlattenSteps
<1>6. PICK g : RowsUpTo(g, T, s, n) /\ FlattenSeq(s) = g[n]
  BY <1>5
<1>7. FlattenSeq(s) \in Seq(T)
  BY <1>1, <1>6 DEF RowsUpTo
<1> QED BY <1>4, <1>7, ReplaceIs DEF s, n

\* A text that grows: a piece that completes no entity is added, one that does
\* takes the place of its ampersand.
LEMMA ReplaceOther ==
  ASSUME NEW T, NEW text \in Seq(T), NEW D, NEW chars \in [D -> T], "&" \notin D, NEW c \in T,
         ~ (text # <<>> /\ text[Len(text)] = "&" /\ c \in D)
  PROVE  Replace(Append(text, c), chars) = Append(Replace(text, chars), c)
<1> DEFINE n == Len(text)
           more == Append(text, c)
           s == Replaced(text, chars)
           r == Replaced(more, chars)
<1>1. n \in Nat /\ more \in Seq(T) /\ Len(more) = n + 1 /\ more[n + 1] = c
  OBVIOUS
<1>2. \A i \in 1 .. n : more[i] = text[i]
  OBVIOUS
<1>3. text # <<>> <=> n > 0
  OBVIOUS
<1>4. s \in [1 .. n -> Seq(T)] /\ r \in [1 .. n + 1 -> Seq(T)] /\ Replace(text, chars) \in Seq(T)
  BY <1>1, ReplacedType
<1>5. \A i \in 0 .. n : EntityAt(more, chars, i) <=> EntityAt(text, chars, i)
  <2> TAKE i \in 0 .. n
  <2>1. CASE i = n
    BY <1>1, <1>2, <1>3, <2>1 DEF EntityAt
  <2>2. CASE i # n
    <3>1. i + 1 \in 1 .. n /\ (i > 0 => i \in 1 .. n)
      BY <1>1, <2>2
    <3> HIDE DEF more
    <3> QED BY <1>1, <1>2, <2>2, <3>1 DEF EntityAt
  <2> QED BY <2>1, <2>2
<1>6. ASSUME NEW i \in 1 .. n
      PROVE  r[i] = s[i]
  <2>1. i \in 0 .. n /\ i - 1 \in 0 .. n /\ i \in 1 .. n + 1
    BY <1>1
  <2>2. EntityAt(text, chars, i) => i + 1 \in 1 .. n
    BY DEF EntityAt
  <2>3. s[i] = IF EntityAt(text, chars, i) THEN <<chars[text[i + 1]]>>
               ELSE IF EntityAt(text, chars, i - 1) THEN <<>> ELSE <<text[i]>>
    BY DEF Replaced
  <2>4. r[i] = IF EntityAt(more, chars, i) THEN <<chars[more[i + 1]]>>
               ELSE IF EntityAt(more, chars, i - 1) THEN <<>> ELSE <<more[i]>>
    <3> HIDE DEF more, n
    <3> QED BY <1>1, <2>1 DEF Replaced
  <2> HIDE DEF more, n, r, s
  <2> QED BY <1>2, <1>5, <2>1, <2>2, <2>3, <2>4
<1>7. r[n + 1] = <<c>>
  <2>1. n + 1 \in 1 .. n + 1 /\ n + 1 - 1 = n /\ n \in 0 .. n
    BY <1>1
  <2>2. ~ EntityAt(text, chars, n)
    BY DEF EntityAt
  <2>3. ~ EntityAt(more, chars, n + 1)
    BY <1>1 DEF EntityAt
  <2>4. ~ EntityAt(more, chars, n + 1 - 1)
    <3> HIDE DEF more, n
    <3> QED BY <1>5, <2>1, <2>2 DEF n
  <2> HIDE DEF more, n
  <2> QED BY <1>1, <2>1, <2>3, <2>4 DEF Replaced
<1> HIDE DEF n, more, s, r
<1>8. FlattenSeq(r) = FlattenSeq(s) \o r[n + 1]
  BY <1>1, <1>4, <1>6, FlattenNext
<1>9. Replace(more, chars) = Replace(text, chars) \o <<c>>
  BY <1>7, <1>8, ReplaceIs DEF r, s
<1>10. \A t \in Seq(T) : t \o <<c>> = Append(t, c)
  OBVIOUS
<1> QED BY <1>4, <1>9, <1>10 DEF more

LEMMA ReplaceEntity ==
  ASSUME NEW T, NEW text \in Seq(T), NEW D, NEW chars \in [D -> T], "&" \notin D, "&" \in T,
         NEW c \in D, c \in T
  PROVE  Replace(Append(Append(text, "&"), c), chars) = Append(Replace(text, chars), chars[c])
<1> DEFINE n == Len(text)
           more == Append(Append(text, "&"), c)
           s == Replaced(text, chars)
           r == Replaced(more, chars)
<1>1. /\ n \in Nat /\ more \in Seq(T) /\ Len(more) = n + 2
      /\ more[n + 1] = "&" /\ more[n + 2] = c
  OBVIOUS
<1>2. \A i \in 1 .. n : more[i] = text[i]
  OBVIOUS
<1>3. DOMAIN chars = D
  OBVIOUS
<1>4. s \in [1 .. n -> Seq(T)] /\ Replace(text, chars) \in Seq(T)
  BY ReplacedType
<1>a. r \in [1 .. n + 2 -> Seq(T)]
  <2> HIDE DEF more
  <2> QED BY <1>1, ReplacedType
<1> HIDE DEF more, n
<1>5. \A i \in 0 .. n : EntityAt(more, chars, i) <=> EntityAt(text, chars, i)
  <2> TAKE i \in 0 .. n
  <2>1. CASE i = n
    BY <1>1, <1>3, <2>1 DEF EntityAt, n
  <2>2. CASE i # n
    <3>1. i + 1 \in 1 .. n /\ (i > 0 => i \in 1 .. n)
      BY <1>1, <2>2
    <3> QED BY <1>1, <1>2, <2>2, <3>1 DEF EntityAt, n
  <2> QED BY <2>1, <2>2
<1>6. ASSUME NEW i \in 1 .. n
      PROVE  r[i] = s[i]
  <2>1. i \in 0 .. n /\ i - 1 \in 0 .. n /\ i \in 1 .. n + 2
    BY <1>1
  <2>2. EntityAt(text, chars, i) => i + 1 \in 1 .. n
    BY DEF EntityAt, n
  <2>3. s[i] = IF EntityAt(text, chars, i) THEN <<chars[text[i + 1]]>>
               ELSE IF EntityAt(text, chars, i - 1) THEN <<>> ELSE <<text[i]>>
    BY DEF Replaced, n
  <2>4. r[i] = IF EntityAt(more, chars, i) THEN <<chars[more[i + 1]]>>
               ELSE IF EntityAt(more, chars, i - 1) THEN <<>> ELSE <<more[i]>>
    BY <1>1, <2>1 DEF Replaced
  <2> HIDE DEF r, s
  <2> QED BY <1>2, <1>5, <2>1, <2>2, <2>3, <2>4
<1>b. EntityAt(more, chars, n + 1) /\ ~ EntityAt(more, chars, n + 2)
  <2>1. n + 1 + 1 = n + 2 /\ n + 1 \in 1 .. n + 2 - 1 /\ ~ (n + 2 \in 1 .. n + 2 - 1)
    BY <1>1
  <2> QED BY <1>1, <1>3, <2>1 DEF EntityAt
<1>7. r[n + 1] = <<chars[c]>>
  <2>1. n + 1 \in 1 .. n + 2 /\ n + 1 + 1 = n + 2
    BY <1>1
  <2>2. r[n + 1] = <<chars[more[n + 1 + 1]]>>
    BY <1>1, <1>b, <2>1, Zenon DEF Replaced
  <2> QED BY <1>1, <2>1, <2>2
<1>8. r[n + 2] = <<>>
  <2>1. n + 2 \in 1 .. n + 2 /\ n + 2 - 1 = n + 1
    BY <1>1
  <2> QED BY <1>1, <1>b, <2>1 DEF Replaced
<1> DEFINE m == [i \in 1 .. n + 1 |-> r[i]]
<1>9. m \in [1 .. n + 1 -> Seq(T)] /\ \A i \in 1 .. n + 1 : m[i] = r[i]
  <2>1. \A i \in 1 .. n + 1 : i \in 1 .. n + 2
    BY <1>1
  <2> HIDE DEF r
  <2> QED BY <1>a, <2>1
<1>10. \A i \in 1 .. n : i \in 1 .. n + 1
  BY <1>1
<1> HIDE DEF s, r, m
<1>11. FlattenSeq(m) = FlattenSeq(s) \o m[n + 1]
  <2>1. \A i \in 1 .. n : m[i] = s[i]
    BY <1>6, <1>9, <1>10
  <2>2. n \in Nat /\ s \in [1 .. n -> Seq(T)] /\ m \in [1 .. n + 1 -> Seq(T)]
    BY <1>1, <1>4, <1>9
  <2> QED BY <2>1, <2>2, FlattenNext, Zenon
<1>12. FlattenSeq(m) \in Seq(T) /\ FlattenSeq(r) = FlattenSeq(m) \o r[n + 2]
  <2> DEFINE k == n + 1
  <2>1. k \in Nat /\ k + 1 = n + 2
    BY <1>1
  <2>2. m \in [1 .. k -> Seq(T)] /\ r \in [1 .. k + 1 -> Seq(T)] /\ \A i \in 1 .. k : r[i] = m[i]
    BY <1>a, <1>9, <2>1
  <2> HIDE DEF k
  <2>3. k \in Nat
    BY <2>1
  <2>4. FlattenSeq(m) \in Seq(T)
    BY <2>2, <2>3, FlattenNext, Zenon
  <2>5. FlattenSeq(r) = FlattenSeq(m) \o r[k + 1]
    BY <2>2, <2>3, FlattenNext, Zenon
  <2> QED BY <2>1, <2>4, <2>5
<1>13. n + 1 \in 1 .. n + 1
  BY <1>1
<1>14. \A t \in Seq(T) : t \o <<>> = t
  OBVIOUS
<1>15. FlattenSeq(r) = FlattenSeq(s) \o <<chars[c]>>
  BY <1>7, <1>8, <1>9, <1>11, <1>12, <1>13, <1>14
<1>16. \A t \in Seq(T), e \in T : t \o <<e>> = Append(t, e)
  OBVIOUS
<1>17. chars[c] \in T
  OBVIOUS
<1> QED BY <1>4, <1>15, <1>16, <1>17, ReplaceIs DEF r, s, more

Both == [name \in {"amp", "lt"} |-> IF name = "amp" THEN "&" ELSE "<"]

\* The two tables of characters, and both in one.
LEMMA EntitiesAre ==
  ASSUME NEW T, {"&", "<"} \subseteq T
  PROVE  /\ Ampersand \in [{"amp"} -> T] /\ "&" \notin {"amp"} /\ Ampersand["amp"] = "&"
         /\ Others \in [{"lt"} -> T] /\ "&" \notin {"lt"} /\ Others["lt"] = "<"
         /\ Both \in [{"amp", "lt"} -> T] /\ "&" \notin {"amp", "lt"}
         /\ Both["amp"] = "&" /\ Both["lt"] = "<"
BY DEF Ampersand, Others, Both

EndsWith(text, c) == text # <<>> /\ text[Len(text)] = c

\* One round over a text that grows.
LEMMA Grows ==
  ASSUME NEW T, {"&", "<"} \subseteq T, NEW text \in Seq(T), NEW c \in T,
         NEW D, "&" \notin D, NEW chars \in [D -> T]
  PROVE  /\ Replace(text, chars) \in Seq(T)
         /\ ~ (EndsWith(text, "&") /\ c \in D) =>
              Replace(Append(text, c), chars) = Append(Replace(text, chars), c)
         /\ c \in D =>
              Replace(Append(Append(text, "&"), c), chars) = Append(Replace(text, chars), chars[c])
<1>1. "&" \notin D /\ "&" \in T
  OBVIOUS
<1>2. Replace(text, chars) \in Seq(T)
  BY ReplacedType
<1>3. ASSUME ~ (EndsWith(text, "&") /\ c \in D)
      PROVE  Replace(Append(text, c), chars) = Append(Replace(text, chars), c)
  <2>1. ~ (text # <<>> /\ text[Len(text)] = "&" /\ c \in D)
    BY <1>3 DEF EndsWith
  <2> QED BY <1>1, <2>1, ReplaceOther
<1>4. ASSUME c \in D
      PROVE  Replace(Append(Append(text, "&"), c), chars) = Append(Replace(text, chars), chars[c])
  BY <1>1, <1>4, ReplaceEntity
<1> QED BY <1>2, <1>3, <1>4

LEMMA AmpersandGrows ==
  ASSUME NEW T, {"&", "<", "amp"} \subseteq T, NEW text \in Seq(T), NEW c \in T
  PROVE  /\ Replace(text, Ampersand) \in Seq(T)
         /\ ~ (EndsWith(text, "&") /\ c = "amp") =>
              Replace(Append(text, c), Ampersand) = Append(Replace(text, Ampersand), c)
         /\ Replace(Append(Append(text, "&"), "amp"), Ampersand) = Append(Replace(text, Ampersand), "&")
<1> DEFINE D == {"amp"}
           name == "amp"
<1>1. {"&", "<"} \subseteq T /\ name \in T /\ name \in D /\ "&" \notin D /\ (c \in D <=> c = "amp")
  OBVIOUS
<1>2. Ampersand \in [D -> T] /\ Ampersand[name] = "&"
  BY <1>1, EntitiesAre
<1> HIDE DEF D, name
<1>3. /\ Replace(text, Ampersand) \in Seq(T)
      /\ ~ (EndsWith(text, "&") /\ c \in D) =>
           Replace(Append(text, c), Ampersand) = Append(Replace(text, Ampersand), c)
  BY <1>1, <1>2, Grows
<1>4. Replace(Append(Append(text, "&"), name), Ampersand) = Append(Replace(text, Ampersand), Ampersand[name])
  BY <1>1, <1>2, Grows
<1> QED BY <1>1, <1>2, <1>3, <1>4 DEF name

LEMMA OthersGrow ==
  ASSUME NEW T, {"&", "<", "lt"} \subseteq T, NEW text \in Seq(T), NEW c \in T
  PROVE  /\ Replace(text, Others) \in Seq(T)
         /\ ~ (EndsWith(text, "&") /\ c = "lt") =>
              Replace(Append(text, c), Others) = Append(Replace(text, Others), c)
         /\ Replace(Append(Append(text, "&"), "lt"), Others) = Append(Replace(text, Others), "<")
<1> DEFINE D == {"lt"}
           name == "lt"
<1>1. {"&", "<"} \subseteq T /\ name \in T /\ name \in D /\ "&" \notin D /\ (c \in D <=> c = "lt")
  OBVIOUS
<1>2. Others \in [D -> T] /\ Others[name] = "<"
  BY <1>1, EntitiesAre
<1> HIDE DEF D, name
<1>3. /\ Replace(text, Others) \in Seq(T)
      /\ ~ (EndsWith(text, "&") /\ c \in D) =>
           Replace(Append(text, c), Others) = Append(Replace(text, Others), c)
  BY <1>1, <1>2, Grows
<1>4. Replace(Append(Append(text, "&"), name), Others) = Append(Replace(text, Others), Others[name])
  BY <1>1, <1>2, Grows
<1> QED BY <1>1, <1>2, <1>3, <1>4 DEF name

LEMMA BothGrow ==
  ASSUME NEW T, {"&", "<", "amp", "lt"} \subseteq T, NEW text \in Seq(T), NEW c \in T
  PROVE  /\ ~ (EndsWith(text, "&") /\ c \in {"amp", "lt"}) =>
              Replace(Append(text, c), Both) = Append(Replace(text, Both), c)
         /\ c \in {"amp", "lt"} =>
              Replace(Append(Append(text, "&"), c), Both) = Append(Replace(text, Both), Both[c])
<1>1. PICK D : D = {"amp", "lt"}
  OBVIOUS
<1>2. {"&", "<"} \subseteq T
  OBVIOUS
<1>3. Both \in [D -> T] /\ "&" \notin D
  BY <1>1, <1>2, EntitiesAre
<1>4. /\ ~ (EndsWith(text, "&") /\ c \in D) =>
           Replace(Append(text, c), Both) = Append(Replace(text, Both), c)
      /\ c \in D => Replace(Append(Append(text, "&"), c), Both) = Append(Replace(text, Both), Both[c])
  BY <1>2, <1>3, Grows
<1> QED BY <1>1, <1>4

LEMMA Ending ==
  ASSUME NEW T, NEW text \in Seq(T), NEW c, EndsWith(text, c)
  PROVE  \E u \in Seq(T) : text = Append(u, c) /\ Len(u) = Len(text) - 1
<1> DEFINE n == Len(text)
           u == SubSeq(text, 1, n - 1)
<1>1. n \in Nat /\ n > 0 /\ text[n] = c
  BY DEF EndsWith
<1>a. n - 1 \in 0 .. n
  BY <1>1
<1>b. \A m \in 0 .. n : /\ SubSeq(text, 1, m) \in Seq(T) /\ Len(SubSeq(text, 1, m)) = m
                       /\ \A i \in 1 .. m : SubSeq(text, 1, m)[i] = text[i]
  OBVIOUS
<1>2. u \in Seq(T) /\ Len(u) = n - 1 /\ \A i \in 1 .. n - 1 : u[i] = text[i]
  BY <1>a, <1>b
<1>3. text = Append(u, c)
  BY <1>1, <1>2
<1> QED BY <1>2, <1>3

LEMMA AppendEnds ==
  ASSUME NEW T, NEW u \in Seq(T), NEW c \in T, NEW d
  PROVE  EndsWith(Append(u, c), d) <=> c = d
<1>1. Append(u, c) # <<>> /\ Append(u, c)[Len(Append(u, c))] = c
  OBVIOUS
<1> QED BY <1>1 DEF EndsWith

\* An ampersand at the end of the text after the first round was there, or is
\* one of the entities.
LEMMA AmpersandFrom ==
  ASSUME NEW T, {"&", "<", "amp", "lt"} \subseteq T, NEW text \in Seq(T),
         EndsWith(Replace(text, Ampersand), "&")
  PROVE  \/ EndsWith(text, "&")
         \/ \E u \in Seq(T) : text = Append(Append(u, "&"), "amp")
<1>0. {"&", "<"} \subseteq T /\ "&" \in T /\ "amp" \in T
  OBVIOUS
<1>1. text # <<>>
  <2> SUFFICES ASSUME text = <<>> PROVE FALSE
    OBVIOUS
  <2>1. Replaced(text, Ampersand) = <<>>
    BY DEF Replaced
  <2>2. Replace(text, Ampersand) = <<>>
    BY <2>1, ReplaceIs DEF FlattenSeq
  <2> QED BY <2>2 DEF EndsWith
<1> DEFINE c == text[Len(text)]
<1>2. c \in T /\ EndsWith(text, c)
  BY <1>1 DEF EndsWith
<1>3. PICK u \in Seq(T) : text = Append(u, c)
  <2> HIDE DEF c
  <2> QED BY <1>2, Ending
<1> HIDE DEF c
<1>4. CASE EndsWith(u, "&") /\ c = "amp"
  <2>1. PICK v \in Seq(T) : u = Append(v, "&")
    BY <1>4, Ending
  <2> QED BY <1>3, <1>4, <2>1
<1>5. CASE ~ (EndsWith(u, "&") /\ c = "amp")
  <2>1. Replace(u, Ampersand) \in Seq(T) /\
        Replace(Append(u, c), Ampersand) = Append(Replace(u, Ampersand), c)
    <3>1. {"&", "<", "amp"} \subseteq T
      OBVIOUS
    <3> QED BY <1>2, <1>5, <3>1, AmpersandGrows
  <2>2. EndsWith(Append(Replace(u, Ampersand), c), "&")
    BY <1>3, <2>1
  <2>3. c = "&"
    BY <1>2, <2>1, <2>2, AppendEnds
  <2> QED BY <1>2, <2>3
<1> QED BY <1>4, <1>5

Agrees(text) == DecodeEntities(text) = Replace(text, Both)

\* Two rounds are one, as long as the first makes no new entity.
LEMMA AgreesLonger ==
  ASSUME NEW T, {"&", "<", "amp", "lt"} \subseteq T, NEW text \in Seq(T), NEW c \in T,
         Agrees(text), \A u \in Seq(T) : text = Append(u, "&") => Agrees(u),
         ~ (c = "lt" /\ \E u \in Seq(T) : text = Append(Append(u, "&"), "amp"))
  PROVE  Agrees(Append(text, c))
<1>0. {"&", "<"} \subseteq T /\ "&" \in T /\ "<" \in T /\ "amp" \in T /\ "lt" \in T
  OBVIOUS
<1>1. {"&", "<", "amp"} \subseteq T /\ {"&", "<", "lt"} \subseteq T /\ {"&", "<", "amp", "lt"} \subseteq T
  OBVIOUS
<1> DEFINE A(t) == Replace(t, Ampersand)
           O(t) == Replace(t, Others)
           B(t) == Replace(t, Both)
<1>b. ASSUME NEW t \in Seq(T), NEW d \in T
      PROVE  /\ A(t) \in Seq(T) /\ O(t) \in Seq(T)
             /\ ~ (EndsWith(t, "&") /\ d = "amp") => A(Append(t, d)) = Append(A(t), d)
             /\ ~ (EndsWith(t, "&") /\ d = "lt") => O(Append(t, d)) = Append(O(t), d)
             /\ ~ (EndsWith(t, "&") /\ d \in {"amp", "lt"}) => B(Append(t, d)) = Append(B(t), d)
  <2>1. A(t) \in Seq(T) /\ (~ (EndsWith(t, "&") /\ d = "amp") => A(Append(t, d)) = Append(A(t), d))
    BY <1>1, AmpersandGrows
  <2>2. O(t) \in Seq(T) /\ (~ (EndsWith(t, "&") /\ d = "lt") => O(Append(t, d)) = Append(O(t), d))
    BY <1>1, OthersGrow
  <2>3. ~ (EndsWith(t, "&") /\ d \in {"amp", "lt"}) => B(Append(t, d)) = Append(B(t), d)
    BY <1>1, BothGrow
  <2> HIDE DEF A, O, B
  <2> QED BY <2>1, <2>2, <2>3
<1>c. ASSUME NEW t \in Seq(T)
      PROVE  /\ A(Append(Append(t, "&"), "amp")) = Append(A(t), "&")
             /\ O(Append(Append(t, "&"), "lt")) = Append(O(t), "<")
             /\ B(Append(Append(t, "&"), "amp")) = Append(B(t), "&")
             /\ B(Append(Append(t, "&"), "lt")) = Append(B(t), "<")
  <2>1. A(Append(Append(t, "&"), "amp")) = Append(A(t), "&")
    BY <1>0, <1>1, AmpersandGrows
  <2>2. O(Append(Append(t, "&"), "lt")) = Append(O(t), "<")
    BY <1>0, <1>1, OthersGrow
  <2>3. \A name \in {"amp", "lt"} : B(Append(Append(t, "&"), name)) = Append(B(t), Both[name])
    BY <1>0, <1>1, BothGrow
  <2>4. Both["amp"] = "&" /\ Both["lt"] = "<"
    BY DEF Both
  <2> HIDE DEF A, O, B
  <2> QED BY <2>1, <2>2, <2>3, <2>4
<1>d. \A t : Agrees(t) <=> O(A(t)) = B(t)
  BY DEF Agrees, DecodeEntities
<1>e. \A t \in Seq(T) : EndsWith(A(t), "&") =>
         EndsWith(t, "&") \/ \E u \in Seq(T) : t = Append(Append(u, "&"), "amp")
  BY AmpersandFrom
<1> HIDE DEF A, O, B
<1>2. CASE EndsWith(text, "&") /\ c \in {"amp", "lt"}
  <2>1. PICK u \in Seq(T) : text = Append(u, "&")
    BY <1>2, Ending
  <2>2. O(A(u)) = B(u) /\ A(u) \in Seq(T)
    BY <1>0, <1>b, <1>d, <2>1
  <2>3. CASE c = "amp"
    <3>1. A(Append(text, c)) = Append(A(u), "&")
      BY <1>c, <2>1, <2>3
    <3>2. O(Append(A(u), "&")) = Append(O(A(u)), "&")
      BY <1>0, <1>b, <2>2
    <3>3. B(Append(text, c)) = Append(B(u), "&")
      BY <1>c, <2>1, <2>3
    <3> QED BY <1>d, <2>2, <3>1, <3>2, <3>3
  <2>4. CASE c = "lt"
    <3>1. A(text) = Append(A(u), "&")
      BY <1>0, <1>b, <2>1
    <3>2. A(Append(text, c)) = Append(A(text), "lt")
      BY <1>0, <1>b, <2>4
    <3>3. O(Append(Append(A(u), "&"), "lt")) = Append(O(A(u)), "<")
      BY <1>c, <2>2
    <3>4. B(Append(text, c)) = Append(B(u), "<")
      BY <1>c, <2>1, <2>4
    <3> QED BY <1>d, <2>2, <3>1, <3>2, <3>3, <3>4
  <2> QED BY <1>2, <2>3, <2>4
<1>3. CASE ~ (EndsWith(text, "&") /\ c \in {"amp", "lt"})
  <2>1. A(Append(text, c)) = Append(A(text), c) /\ B(Append(text, c)) = Append(B(text), c)
    BY <1>3, <1>b
  <2>2. ~ (EndsWith(A(text), "&") /\ c = "lt")
    BY <1>3, <1>e
  <2>3. A(text) \in Seq(T)
    BY <1>b
  <2>4. O(Append(A(text), c)) = Append(O(A(text)), c)
    BY <1>b, <2>2, <2>3
  <2> QED BY <1>d, <2>1, <2>4
<1> QED BY <1>2, <1>3

LEMMA DecodedIs ==
  ASSUME NEW S, NEW text \in Seq(S)
  PROVE  Decoded(text) = DecodeEntities(text)
<1> SUFFICES ASSUME ~ Twice(text) PROVE Agrees(text)
  BY DEF Decoded, Agrees, Both
<1> DEFINE T == S \cup {"&", "<", "amp", "lt"}
           n == Len(text)
           Upto(k) == SubSeq(text, 1, k)
           Good == {k \in 0 .. n : \A j \in 0 .. k : Agrees(Upto(j))}
<1>0. n \in Nat /\ text \in Seq(T) /\ {"&", "<", "amp", "lt"} \subseteq T
  OBVIOUS
<1>1. /\ Upto(0) = <<>> /\ Upto(n) = text
      /\ \A k \in 0 .. n : Upto(k) \in Seq(T) /\ Len(Upto(k)) = k
      /\ \A k \in 0 .. n - 1 : Upto(k + 1) = Append(Upto(k), text[k + 1])
  <2> HIDE DEF T
  <2>1. Upto(0) = <<>> /\ Upto(n) = text
    BY <1>0
  <2>2. \A k \in 0 .. n : Upto(k) \in Seq(T) /\ Len(Upto(k)) = k
    BY <1>0
  <2>3. \A k \in 0 .. n - 1 : Upto(k + 1) = Append(Upto(k), text[k + 1])
    BY <1>0
  <2> QED BY <2>1, <2>2, <2>3
<1>a. \A k \in 0 .. n - 1 : text[k + 1] \in T
  OBVIOUS
<1>b. \A k \in 0 .. n - 2 : ~ (text[k + 1] = "&" /\ text[k + 2] = "amp" /\ k + 3 <= n /\ text[k + 3] = "lt")
  <2> TAKE k \in 0 .. n - 2
  <2> DEFINE i == k + 1
  <2>1. i + 1 = k + 2 /\ i + 2 = k + 3 /\ (k + 3 <= n => i \in 1 .. n - 2)
    OBVIOUS
  <2> HIDE DEF i, n
  <2> QED BY <2>1 DEF Twice, n, i
<1>c. \A t \in Seq(T), u \in Seq(T), d \in T, e \in T : Append(t, d) = Append(u, e) => t = u /\ d = e
  <2> HIDE DEF T
  <2> TAKE t \in Seq(T), u \in Seq(T), d \in T, e \in T
  <2> HAVE Append(t, d) = Append(u, e)
  <2>1. Len(t) = Len(u) /\ d = e
    <3>1. Len(Append(t, d)) = Len(t) + 1 /\ Len(Append(u, e)) = Len(u) + 1
      OBVIOUS
    <3>2. Append(t, d)[Len(t) + 1] = d /\ Append(u, e)[Len(u) + 1] = e
      OBVIOUS
    <3> QED BY <3>1, <3>2
  <2>2. ASSUME NEW i \in 1 .. Len(t) PROVE t[i] = u[i]
    <3>1. Append(t, d)[i] = t[i] /\ Append(u, e)[i] = u[i]
      BY <2>1
    <3> QED BY <3>1
  <2> QED BY <2>1, <2>2
<1> HIDE DEF T, n, Upto
<1>2. 0 \in Good
  <2>1. \A j \in 0 .. 0 : j = 0
    OBVIOUS
  <2>2. Agrees(<<>>)
    <3>1. \A chars : Replace(<<>>, chars) = <<>>
      <4> TAKE chars
      <4>1. Replaced(<<>>, chars) = <<>>
        BY DEF Replaced
      <4> QED BY <4>1, ReplaceIs DEF FlattenSeq
    <3> QED BY <3>1 DEF Agrees, DecodeEntities
  <2> QED BY <1>0, <1>1, <2>1, <2>2
<1>3. ASSUME NEW k \in 0 .. n - 1, k \in Good
      PROVE  k + 1 \in Good
  <2> DEFINE c == text[k + 1]
  <2>0. k \in 0 .. n /\ k + 1 \in 0 .. n /\ k \in 0 .. k
    BY <1>0
  <2>1. Upto(k) \in Seq(T) /\ c \in T /\ Upto(k + 1) = Append(Upto(k), c) /\ Agrees(Upto(k)) /\ Len(Upto(k)) = k
    BY <1>1, <1>3, <1>a, <2>0
  <2>2. k > 0 => Upto(k) = Append(Upto(k - 1), text[k]) /\ Upto(k - 1) \in Seq(T) /\ text[k] \in T
                 /\ Agrees(Upto(k - 1))
    <3> SUFFICES ASSUME k > 0 PROVE Upto(k) = Append(Upto(k - 1), text[k]) /\ Upto(k - 1) \in Seq(T)
                                    /\ text[k] \in T /\ Agrees(Upto(k - 1))
      OBVIOUS
    <3> DEFINE m == k - 1
    <3>1. m + 1 = k /\ m \in 0 .. n - 1 /\ m \in 0 .. n /\ m \in 0 .. k
      BY <1>0
    <3> HIDE DEF m
    <3>2. Upto(m + 1) = Append(Upto(m), text[m + 1]) /\ Upto(m) \in Seq(T) /\ text[m + 1] \in T /\ Agrees(Upto(m))
      BY <1>1, <1>3, <1>a, <3>1
    <3> QED BY <3>1, <3>2 DEF m
  <2>3. \A u \in Seq(T), d \in T : Upto(k) = Append(u, d) => k > 0 /\ u = Upto(k - 1) /\ d = text[k]
    <3> TAKE u \in Seq(T), d \in T
    <3> HAVE Upto(k) = Append(u, d)
    <3>1. Len(Append(u, d)) = Len(u) + 1 /\ Len(u) \in Nat
      OBVIOUS
    <3>2. k > 0
      BY <2>1, <3>1
    <3>3. /\ Upto(k - 1) \in Seq(T) /\ text[k] \in T
          /\ Append(Upto(k - 1), text[k]) = Append(u, d)
      BY <2>2, <3>2
    <3>4. Upto(k - 1) = u /\ text[k] = d
      BY <1>c, <3>3
    <3> QED BY <3>2, <3>4
  <2>4. \A u \in Seq(T) : Upto(k) = Append(u, "&") => Agrees(u)
    BY <1>0, <2>2, <2>3
  <2>5. ~ (c = "lt" /\ \E u \in Seq(T) : Upto(k) = Append(Append(u, "&"), "amp"))
    <3> SUFFICES ASSUME c = "lt", NEW u \in Seq(T), Upto(k) = Append(Append(u, "&"), "amp")
                 PROVE  FALSE
      OBVIOUS
    <3>1. Append(u, "&") \in Seq(T) /\ "amp" \in T /\ "&" \in T
      BY <1>0
    <3>2. k > 0 /\ Upto(k - 1) = Append(u, "&") /\ text[k] = "amp"
      BY <2>3, <3>1
    <3>3. Len(Upto(k - 1)) = k - 1
      <4>1. k - 1 \in 0 .. n
        BY <1>0, <3>2
      <4> QED BY <1>1, <4>1
    <3>4. Len(Append(u, "&")) = Len(u) + 1 /\ Len(u) \in Nat
      BY <3>1
    <3>5. k >= 2 /\ k - 1 >= 1
      BY <3>2, <3>3, <3>4
    <3> DEFINE m == k - 2
    <3>6. m \in 0 .. n - 1 /\ m \in 0 .. n - 2 /\ m \in 0 .. n /\ m + 1 = k - 1 /\ m + 2 = k /\ m + 3 = k + 1
          /\ k + 1 <= n
      BY <1>0, <3>5
    <3> HIDE DEF m
    <3>7. Upto(m + 1) = Append(Upto(m), text[m + 1]) /\ Upto(m) \in Seq(T) /\ text[m + 1] \in T
      BY <1>1, <1>a, <3>6
    <3>8. text[m + 1] = "&"
      BY <1>c, <3>1, <3>2, <3>6, <3>7
    <3> QED BY <1>b, <3>2, <3>6, <3>8
  <2>6. Agrees(Upto(k + 1))
    <3> HIDE DEF c
    <3> QED BY <1>0, <2>1, <2>4, <2>5, AgreesLonger
  <2>7. \A j \in 0 .. k + 1 : j \in 0 .. k \/ j = k + 1
    BY <1>0
  <2> QED BY <1>3, <2>0, <2>6, <2>7
<1>4. n \in Good
  <2> HIDE DEF Good
  <2>1. 0 .. n \subseteq Good
    BY <1>0, <1>2, <1>3, UpTo
  <2> QED BY <1>0, <2>1
<1> QED BY <1>0, <1>1, <1>4

OpensAnchor == Targets \cup {"<a>", "</a>"}
Latest(h, i, tokens) == LastOf(h, Before(h, i, tokens))
OpenAt(h, i) == Latest(h, i, OpensAnchor) \notin {"none", "</a>"}
PiecesAt(h, i) == FlattenSeq([k \in 1 .. i - 1 - Start(h, i) |-> Piece(h, Start(h, i) + k)])
ShownAt(h, i) == TextAt(h, i) # <<>> /\ ~ Skipped(h, i)

\* What stands before a place is not changed by what comes after the page.
LEMMA BeforeSame ==
  ASSUME NEW h \in Seq(Tokens), NEW t \in Tokens, NEW i \in 1 .. Len(h) + 1, NEW T
  PROVE  /\ Before(Append(h, t), i, T) = Before(h, i, T)
         /\ Before(h, i, T) \in SUBSET (1 .. Len(h))
         /\ Latest(Append(h, t), i, T) = Latest(h, i, T)
<1> DEFINE g == Append(h, t)
           n == Len(h)
           B == Before(h, i, T)
<1>1. n \in Nat /\ \A j \in 1 .. n : g[j] = h[j]
  OBVIOUS
<1> HIDE DEF g
<1>2. \A j \in 1 .. i - 1 : j \in 1 .. n
  BY <1>1
<1>3. Before(g, i, T) = B /\ B \in SUBSET (1 .. n)
  BY <1>1, <1>2 DEF Before
<1>4. Latest(g, i, T) = Latest(h, i, T)
  <2> HIDE DEF n, B
  <2>1. CASE B = {}
    BY <1>3, <2>1 DEF Latest, LastOf, B
  <2>2. CASE B # {}
    <3>1. Max(B) \in B
      BY <1>1, <1>3, <2>2, MaxOfSome
    <3>2. g[Max(B)] = h[Max(B)]
      BY <1>1, <1>3, <3>1
    <3> QED BY <1>3, <2>2, <3>2 DEF Latest, LastOf, B
  <2> QED BY <2>1, <2>2
<1> QED BY <1>3, <1>4 DEF g

\* The places before the end, when a token has come.
LEMMA BeforeNext ==
  ASSUME NEW h \in Seq(Tokens), NEW t \in Tokens, NEW T
  PROVE  /\ Before(Append(h, t), Len(h) + 2, T) = {} <=> t \notin T /\ Before(h, Len(h) + 1, T) = {}
         /\ Latest(Append(h, t), Len(h) + 2, T) = IF t \in T THEN t ELSE Latest(h, Len(h) + 1, T)
<1> DEFINE g == Append(h, t)
           n == Len(h)
           B == Before(h, n + 1, T)
           C == Before(g, n + 2, T)
<1>1. n \in Nat /\ g[n + 1] = t /\ \A j \in 1 .. n : g[j] = h[j]
  OBVIOUS
<1> HIDE DEF g, n
<1>2. 1 .. (n + 2) - 1 = 1 .. n + 1 /\ 1 .. (n + 1) - 1 = 1 .. n
  BY <1>1
<1>3. C = {j \in 1 .. n + 1 : g[j] \in T} /\ B = {j \in 1 .. n : h[j] \in T}
  <2>2. C = {j \in 1 .. (n + 2) - 1 : g[j] \in T} /\ B = {j \in 1 .. (n + 1) - 1 : h[j] \in T}
    BY Zenon DEF Before
  <2> QED BY <1>2, <2>2, Zenon
<1>4. C = IF t \in T THEN B \cup {n + 1} ELSE B
  <2>1. \A j : j \in 1 .. n + 1 <=> j \in 1 .. n \/ j = n + 1
    BY <1>1
  <2> HIDE DEF B, C
  <2> QED BY <1>1, <1>3, <2>1
<1>5. B \in SUBSET (1 .. n)
  BY <1>3
<1> HIDE DEF B, C
<1>6. C = {} <=> t \notin T /\ B = {}
  BY <1>4
<1>7. Latest(g, n + 2, T) = IF t \in T THEN t ELSE Latest(h, n + 1, T)
  <2>1. CASE t \in T
    <3>1. n + 1 \in C /\ C # {} /\ C \subseteq Int /\ \A j \in C : j <= n + 1
      BY <1>1, <1>4, <1>5, <2>1
    <3>2. Max(C) = n + 1
      BY <3>1, MaxIs
    <3> QED BY <1>1, <2>1, <3>1, <3>2 DEF Latest, LastOf, C
  <2>2. CASE t \notin T /\ B = {}
    BY <1>4, <2>2 DEF Latest, LastOf, B, C
  <2>3. CASE t \notin T /\ B # {}
    <3>1. Max(B) \in B
      BY <1>1, <1>5, <2>3, MaxOfSome
    <3>2. g[Max(B)] = h[Max(B)] /\ C = B
      BY <1>1, <1>4, <1>5, <2>3, <3>1
    <3> QED BY <2>3, <3>2 DEF Latest, LastOf, B, C
  <2> QED BY <2>1, <2>2, <2>3
<1> QED BY <1>6, <1>7 DEF B, C, g, n

LEMMA LastIs ==
  ASSUME NEW h, NEW i
  PROVE  /\ InTag(h, i) <=> Latest(h, i, Tags \cup {"<", ">"}) = "<"
         /\ Skipped(h, i) <=> Latest(h, i, {"<script>", "</script>"}) = "<script>"
         /\ Target(h, i) = IF Before(h, i, Targets) = {} THEN NoTarget ELSE Latest(h, i, Targets)
BY DEF InTag, Skipped, Target, Latest

\* What stands before a place does not depend on what comes after it.
LEMMA MarksSame ==
  ASSUME NEW h \in Seq(Tokens), NEW t \in Tokens, NEW i \in 1 .. Len(h) + 1
  PROVE  /\ InTag(Append(h, t), i) <=> InTag(h, i)
         /\ Skipped(Append(h, t), i) <=> Skipped(h, i)
         /\ OpenAt(Append(h, t), i) <=> OpenAt(h, i)
         /\ Target(Append(h, t), i) = Target(h, i)
<1>1. \A T : /\ Before(Append(h, t), i, T) = Before(h, i, T)
             /\ Latest(Append(h, t), i, T) = Latest(h, i, T)
  BY BeforeSame
<1> QED BY <1>1, LastIs DEF OpenAt

\* The tags, the brackets and the words are apart from one another.
LEMMA TagsApart ==
  /\ "<" \notin Tags /\ ">" \notin Tags /\ "none" \notin Tags
  /\ \A w \in Words : w \notin Tags /\ w # "<" /\ w # ">"
  /\ \A a \in Targets : a \notin {"<script>", "</script>", "<h1>", "<a>", "</a>", "<", ">", "none"}
BY TokenAssumption DEF Tags

\* What a token does to the marks.
LEMMA MarksNext ==
  ASSUME NEW h \in Seq(Tokens), NEW t \in Tokens, NEW n, n = Len(h)
  PROVE  /\ InTag(Append(h, t), n + 2) <=>
              IF t \in Tags \cup {"<", ">"} THEN t = "<" ELSE InTag(h, n + 1)
         /\ Skipped(Append(h, t), n + 2) <=>
              IF t \in {"<script>", "</script>"} THEN t = "<script>" ELSE Skipped(h, n + 1)
         /\ OpenAt(Append(h, t), n + 2) <=>
              IF t \in OpensAnchor THEN t # "</a>" ELSE OpenAt(h, n + 1)
         /\ Target(Append(h, t), n + 2) = IF t \in Targets THEN t ELSE Target(h, n + 1)
<1>1. \A T : /\ Before(Append(h, t), n + 2, T) = {} <=> t \notin T /\ Before(h, n + 1, T) = {}
             /\ Latest(Append(h, t), n + 2, T) = IF t \in T THEN t ELSE Latest(h, n + 1, T)
  BY BeforeNext
<1>2. OpensAnchor \subseteq Tags
  BY DEF OpensAnchor, Tags
<1>3. t \in OpensAnchor => t # "none"
  BY <1>2, TagsApart
<1>4. InTag(Append(h, t), n + 2) <=>
        IF t \in Tags \cup {"<", ">"} THEN t = "<" ELSE InTag(h, n + 1)
  BY <1>1, LastIs
<1>5. Skipped(Append(h, t), n + 2) <=>
        IF t \in {"<script>", "</script>"} THEN t = "<script>" ELSE Skipped(h, n + 1)
  BY <1>1, LastIs
<1>6. Target(Append(h, t), n + 2) = IF t \in Targets THEN t ELSE Target(h, n + 1)
  BY <1>1, LastIs
<1>7. OpenAt(Append(h, t), n + 2) <=> IF t \in OpensAnchor THEN t # "</a>" ELSE OpenAt(h, n + 1)
  BY <1>1, <1>3 DEF OpenAt
<1> QED BY <1>4, <1>5, <1>6, <1>7

\* Where the text before a place starts.
LEMMA StartIs ==
  ASSUME NEW h \in Seq(Tokens), NEW t \in Tokens, NEW i \in 1 .. Len(h) + 1
  PROVE  /\ Start(h, i) \in 0 .. i - 1
         /\ Start(Append(h, t), i) = Start(h, i)
<1> DEFINE g == Append(h, t)
           n == Len(h)
           B == {j \in 1 .. i - 1 : h[j] \in Tags \cup {"<"}}
<1>1. n \in Nat /\ Len(g) = n + 1 /\ \A j \in 1 .. n : g[j] = h[j]
  OBVIOUS
<1> HIDE DEF g, n
<1>2. \A j \in 1 .. i - 1 : j \in 1 .. n /\ j \in 1 .. n + 1 /\ j # n + 1 /\ j # n + 1 + 1
  BY <1>1 DEF n
<1>3. Breaks(h) \cap 1 .. i - 1 = B
  BY <1>1, <1>2 DEF Breaks, n
<1>4. Breaks(g) \cap 1 .. i - 1 = B
  BY <1>1, <1>2 DEF Breaks
<1>5. Start(h, i) = Max({0} \cup B) /\ Start(g, i) = Max({0} \cup B)
  BY <1>3, <1>4 DEF Start
<1>6. Max({0} \cup B) \in 0 .. i - 1
  <2>0. i - 1 \in Nat /\ B \in SUBSET (1 .. i - 1)
    BY <1>1 DEF n
  <2> HIDE DEF B
  <2>1. CASE B = {}
    <3>1. 0 \in {0} \cup B /\ {0} \cup B \subseteq Int /\ \A j \in {0} \cup B : j <= 0
      BY <2>1
    <3>2. Max({0} \cup B) = 0
      BY <3>1, MaxIs
    <3> QED BY <2>0, <3>2
  <2>2. CASE B # {}
    <3> DEFINE m == Max(B)
    <3>1. m \in B /\ \A j \in B : j <= m
      BY <2>0, <2>2, MaxOfSome
    <3> HIDE DEF m
    <3>2. m \in {0} \cup B /\ {0} \cup B \subseteq Int /\ \A j \in {0} \cup B : j <= m
      BY <2>0, <3>1
    <3>3. Max({0} \cup B) = m
      BY <3>2, MaxIs
    <3> QED BY <2>0, <3>1, <3>3
  <2> QED BY <2>1, <2>2
<1> QED BY <1>5, <1>6 DEF g

LEMMA StartNext ==
  ASSUME NEW h \in Seq(Tokens), NEW t \in Tokens, NEW n, n = Len(h)
  PROVE  Start(Append(h, t), n + 2) =
           IF t \in Tags \cup {"<"} THEN n + 1 ELSE Start(h, n + 1)
<1> DEFINE g == Append(h, t)
           B == {j \in 1 .. n : h[j] \in Tags \cup {"<"}}
           K == Tags \cup {"<"}
<1>1. n \in Nat /\ Len(g) = n + 1 /\ g[n + 1] = t /\ \A j \in 1 .. n : g[j] = h[j]
  OBVIOUS
<1> HIDE DEF g
<1>2. 1 .. (n + 2) - 1 = 1 .. n + 1 /\ 1 .. (n + 1) - 1 = 1 .. n /\ n + 1 \notin 1 .. n
      /\ n + 2 \notin 1 .. n + 1 /\ n + 1 + 1 = n + 2
  BY <1>1
<1>3. Breaks(h) \cap 1 .. (n + 1) - 1 = B
  BY <1>1, <1>2 DEF Breaks
<1>4. \A j : j \in 1 .. n + 1 <=> j \in 1 .. n \/ j = n + 1
  BY <1>1
<1>5. Breaks(g) \cap 1 .. (n + 2) - 1 = IF t \in K THEN B \cup {n + 1} ELSE B
  <2>1. Breaks(g) \cap 1 .. (n + 2) - 1 = {j \in 1 .. n + 1 : g[j] \in K}
    BY <1>1, <1>2 DEF Breaks
  <2> HIDE DEF K
  <2>2. {j \in 1 .. n + 1 : g[j] \in K} = IF t \in K THEN B \cup {n + 1} ELSE B
    BY <1>1, <1>4 DEF K
  <2> QED BY <2>1, <2>2
<1>6. CASE t \in K
  <2> DEFINE C == {0} \cup (B \cup {n + 1})
  <2>1. n + 1 \in C /\ C \subseteq Int /\ \A j \in C : j <= n + 1
    BY <1>1
  <2> HIDE DEF C
  <2>2. Max(C) = n + 1
    BY <2>1, MaxIs
  <2>3. {0} \cup (Breaks(g) \cap 1 .. (n + 2) - 1) = C
    <3> HIDE DEF B, K
    <3> QED BY <1>5, <1>6 DEF C
  <2>4. Start(g, n + 2) = Max({0} \cup (Breaks(g) \cap 1 .. (n + 2) - 1))
    BY Zenon DEF Start
  <2>5. Start(g, n + 2) = n + 1
    BY <2>2, <2>3, <2>4, Zenon
  <2> QED BY <1>6, <2>5 DEF g
<1>7. CASE t \notin K
  <2>1. Breaks(g) \cap 1 .. (n + 2) - 1 = Breaks(h) \cap 1 .. (n + 1) - 1
    <3> HIDE DEF B, K
    <3> QED BY <1>3, <1>5, <1>7
  <2>2. /\ Start(g, n + 2) = Max({0} \cup (Breaks(g) \cap 1 .. (n + 2) - 1))
        /\ Start(h, n + 1) = Max({0} \cup (Breaks(h) \cap 1 .. (n + 1) - 1))
    BY Zenon DEF Start
  <2>3. Start(g, n + 2) = Start(h, n + 1)
    BY <2>1, <2>2, Zenon
  <2> QED BY <1>7, <2>3 DEF g
<1> QED BY <1>6, <1>7

\* The pieces before a place, one after the other.
PieceRow(h, i) == [k \in 1 .. i - 1 - Start(h, i) |-> Piece(h, Start(h, i) + k)]

LEMMA TextIs ==
  ASSUME NEW h, NEW i
  PROVE  TextAt(h, i) = Trim(PiecesAt(h, i)) /\ PiecesAt(h, i) = FlattenSeq(PieceRow(h, i))
BY Zenon DEF TextAt, PiecesAt, PieceRow

LEMMA PieceType ==
  ASSUME NEW h, NEW j
  PROVE  Piece(h, j) \in Seq(Words)
<1>1. \A w \in Words : <<w>> \in Seq(Words)
  OBVIOUS
<1>2. <<>> \in Seq(Words)
  OBVIOUS
<1> QED BY <1>1, <1>2 DEF Piece

LEMMA RowType ==
  ASSUME NEW h, NEW i, NEW s \in Nat, NEW m \in Nat, s = Start(h, i), i - 1 - s = m
  PROVE  /\ PieceRow(h, i) \in [1 .. m -> Seq(Words)]
         /\ \A k \in 1 .. m : PieceRow(h, i)[k] = Piece(h, s + k)
<1>1. PieceRow(h, i) = [k \in 1 .. m |-> Piece(h, s + k)]
  BY DEF PieceRow
<1> QED BY <1>1, PieceType

\* A piece, and the text before a place, stay as they are when the page goes on.
LEMMA PieceSame ==
  ASSUME NEW h \in Seq(Tokens), NEW t \in Tokens, NEW j \in 1 .. Len(h)
  PROVE  Piece(Append(h, t), j) = Piece(h, j)
<1>1. j \in 1 .. Len(h) + 1 /\ Append(h, t)[j] = h[j]
  OBVIOUS
<1> QED BY <1>1, MarksSame DEF Piece

LEMMA TextSame ==
  ASSUME NEW h \in Seq(Tokens), NEW t \in Tokens, NEW i \in 1 .. Len(h) + 1
  PROVE  /\ PiecesAt(h, i) \in Seq(Words)
         /\ PiecesAt(Append(h, t), i) = PiecesAt(h, i)
         /\ TextAt(Append(h, t), i) = TextAt(h, i)
         /\ ShownAt(Append(h, t), i) <=> ShownAt(h, i)
<1> DEFINE g == Append(h, t)
           n == Len(h)
           s == Start(h, i)
           m == i - 1 - s
<1>0. n \in Nat /\ i \in 1 .. n + 1
  OBVIOUS
<1>1. s \in 0 .. i - 1 /\ Start(g, i) = s
  BY StartIs
<1> HIDE DEF s, n, g
<1>2. m \in Nat /\ s \in Nat /\ \A k \in 1 .. m : s + k \in 1 .. n
  BY <1>0, <1>1
<1>3. \A k \in 1 .. m : Piece(g, s + k) = Piece(h, s + k)
  BY <1>2, PieceSame DEF g, n
<1>4. PieceRow(g, i) = PieceRow(h, i)
  <2>1. PieceRow(g, i) = [k \in 1 .. m |-> Piece(g, s + k)]
    BY <1>1, Zenon DEF PieceRow
  <2>2. PieceRow(h, i) = [k \in 1 .. m |-> Piece(h, s + k)]
    BY Zenon DEF PieceRow, s
  <2> HIDE DEF m
  <2> QED BY <1>3, <2>1, <2>2
<1>5. PieceRow(h, i) \in [1 .. m -> Seq(Words)]
  BY <1>2, RowType DEF s
<1> HIDE DEF m
<1>6. PICK f : RowsUpTo(f, Words, PieceRow(h, i), m) /\ FlattenSeq(PieceRow(h, i)) = f[m]
  BY <1>2, <1>5, FlattenSteps
<1>7. PiecesAt(h, i) \in Seq(Words)
  BY <1>2, <1>6, TextIs DEF RowsUpTo
<1>8. PiecesAt(g, i) = PiecesAt(h, i) /\ TextAt(g, i) = TextAt(h, i)
  BY <1>4, TextIs
<1>9. ShownAt(g, i) <=> ShownAt(h, i)
  BY <1>8, MarksSame DEF ShownAt, g
<1> QED BY <1>7, <1>8, <1>9 DEF g

LEMMA NoPieces == FlattenSeq(<<>>) = <<>>
BY DEF FlattenSeq

LEMMA TextNext ==
  ASSUME NEW h \in Seq(Tokens), NEW t \in Tokens, NEW n, n = Len(h)
  PROVE  PiecesAt(Append(h, t), n + 2) =
           IF t \in Tags \cup {"<"} THEN <<>>
           ELSE IF t \in Words /\ ~ InTag(h, n + 1) THEN Append(PiecesAt(h, n + 1), t)
           ELSE PiecesAt(h, n + 1)
<1> DEFINE g == Append(h, t)
           K == Tags \cup {"<"}
           s == Start(h, n + 1)
           m == n - s
           more == PieceRow(g, n + 2)
           row == PieceRow(h, n + 1)
<1>0. n \in Nat /\ n + 1 \in 1 .. n + 1 /\ (n + 1) - 1 = n /\ (n + 2) - 1 = n + 1
  OBVIOUS
<1>1. /\ s \in 0 .. (n + 1) - 1
      /\ Start(g, n + 2) = IF t \in K THEN n + 1 ELSE s
  BY <1>0, StartIs, StartNext
<1>2. InTag(g, n + 1) <=> InTag(h, n + 1)
  BY <1>0, MarksSame
<1>3. g[n + 1] = t
  OBVIOUS
<1>p. \A j \in 1 .. n : Piece(g, j) = Piece(h, j)
  BY PieceSame
<1>q. PiecesAt(h, n + 1) \in Seq(Words)
  BY <1>0, TextSame
<1> HIDE DEF g, K, s, more, row
<1>4. CASE t \in K
  <2>1. (n + 2) - 1 - (n + 1) = 0 /\ 0 \in Nat /\ n + 1 \in Nat
    BY <1>0
  <2>2. more \in [1 .. 0 -> Seq(Words)]
    <3> DEFINE i == n + 2
               a == n + 1
    <3>1. a = Start(g, i) /\ i - 1 - a = 0 /\ a \in Nat /\ 0 \in Nat
      BY <1>0, <1>1, <1>4, <2>1
    <3> HIDE DEF i, a
    <3>2. PieceRow(g, i) \in [1 .. 0 -> Seq(Words)]
      BY <3>1, RowType
    <3> QED BY <3>2 DEF i, more
  <2>3. more = <<>>
    BY <2>2
  <2> QED BY <1>4, <2>3, TextIs, NoPieces DEF K, g, more
<1>5. CASE t \notin K
  <2>1. m \in Nat /\ s \in Nat /\ m + 1 \in Nat
    BY <1>0, <1>1
  <2>2. more \in [1 .. m + 1 -> Seq(Words)] /\ \A k \in 1 .. m + 1 : more[k] = Piece(g, s + k)
    <3> DEFINE i == n + 2
               a == m + 1
    <3>1. s = Start(g, i) /\ i - 1 - s = a /\ a \in Nat
      BY <1>0, <1>1, <1>5, <2>1
    <3> HIDE DEF i, a, m
    <3>2. PieceRow(g, i) \in [1 .. a -> Seq(Words)] /\ \A k \in 1 .. a : PieceRow(g, i)[k] = Piece(g, s + k)
      BY <2>1, <3>1, RowType
    <3> QED BY <3>2 DEF i, a, more
  <2>3. row \in [1 .. m -> Seq(Words)] /\ \A k \in 1 .. m : row[k] = Piece(h, s + k)
    <3> DEFINE i == n + 1
               a == m
    <3>1. s = Start(h, i) /\ i - 1 - s = a /\ a \in Nat
      <4>1. i - 1 - s = a /\ a \in Nat
        BY <1>0, <2>1
      <4> QED BY <4>1 DEF s
    <3> HIDE DEF i, a
    <3>2. PieceRow(h, i) \in [1 .. a -> Seq(Words)] /\ \A k \in 1 .. a : PieceRow(h, i)[k] = Piece(h, s + k)
      BY <2>1, <3>1, RowType
    <3> QED BY <3>2 DEF i, a, row
  <2>4. \A k \in 1 .. m : s + k \in 1 .. n /\ k \in 1 .. m + 1
    BY <1>0, <1>1, <2>1
  <2>5. s + (m + 1) = n + 1 /\ m + 1 \in 1 .. m + 1
    BY <1>0, <1>1, <2>1
  <2> HIDE DEF m
  <2>6. \A k \in 1 .. m : more[k] = row[k]
    BY <1>p, <2>2, <2>3, <2>4
  <2>7. more[m + 1] = Piece(g, n + 1)
    BY <2>2, <2>5
  <2>8. FlattenSeq(more) = FlattenSeq(row) \o more[m + 1]
    BY <2>1, <2>2, <2>3, <2>6, FlattenNext
  <2>9. PiecesAt(g, n + 2) = PiecesAt(h, n + 1) \o Piece(g, n + 1)
    BY <2>7, <2>8, TextIs DEF more, row
  <2>10. Piece(g, n + 1) = IF t \in Words /\ ~ InTag(h, n + 1) THEN <<t>> ELSE <<>>
    BY <1>2, <1>3 DEF Piece
  <2>11. /\ \A u \in Seq(Words) : u \o <<>> = u
         /\ \A u \in Seq(Words), w \in Words : u \o <<w>> = Append(u, w)
    OBVIOUS
  <2> QED BY <1>5, <1>q, <2>9, <2>10, <2>11 DEF K, g
<1> QED BY <1>4, <1>5

LEMMA TrimType ==
  ASSUME NEW T, NEW text \in Seq(T)
  PROVE  Trim(text) \in Seq(T)
<1> DEFINE ink == {i \in 1 .. Len(text) : text[i] # " "}
           n == Len(text)
<1>0. n \in Nat
  OBVIOUS
<1>1. Trim(text) = IF ink = {} THEN <<>> ELSE SubSeq(text, Min(ink), Max(ink))
  BY Zenon DEF Trim
<1>2. ink \in SUBSET (1 .. n)
  BY Zenon
<1> HIDE DEF ink
<1>3. CASE ink = {}
  BY <1>1, <1>3
<1>4. CASE ink # {}
  <2>1. ink \in SUBSET Nat
    BY <1>2
  <2>2. Min(ink) \in ink /\ Max(ink) \in ink
    BY <1>0, <1>2, <1>4, <2>1, MinOfSome, MaxOfSome
  <2>3. Min(ink) \in 1 .. n /\ Max(ink) \in 1 .. n
    BY <1>2, <2>2
  <2>4. \A a \in 1 .. n, b \in 1 .. n : SubSeq(text, a, b) \in Seq(T)
    OBVIOUS
  <2> QED BY <1>1, <1>4, <2>3, <2>4
<1> QED BY <1>3, <1>4

\* The lines and links of a page, place by place.
IsBreak(h, i) == i \in 1 .. Len(h) /\ h[i] \in Tags \cup {"<"}
LinkPlaces(h) == {i \in 1 .. Len(h) : IsBreak(h, i) /\ ShownAt(h, i) /\ OpenAt(h, i)}
NumberOf(h, i) == Cardinality({j \in LinkPlaces(h) : j <= i})
TextLine(h, i) ==
  IF ~ ShownAt(h, i) \/ ~ (IsBreak(h, i) \/ i = Len(h) + 1) THEN <<>>
  ELSE IF i \in LinkPlaces(h) THEN <<LinkLine(NumberOf(h, i), Decoded(TextAt(h, i)))>>
  ELSE <<Line(Decoded(TextAt(h, i)))>>
HeadingOf(h, i) == IF i <= Len(h) /\ h[i] = "<h1>" THEN <<Heading>> ELSE <<>>
LinesAt(h, i) == TextLine(h, i) \o HeadingOf(h, i)
LinkRecord(h, i) ==
  [index |-> NumberOf(h, i), text |-> Decoded(TextAt(h, i)), target_url |-> Target(h, i)]
LinksAt(h, i) == IF i \notin LinkPlaces(h) THEN <<>> ELSE <<LinkRecord(h, i)>>

\* The lines and the links found in a page, place by place.
LEMMA FoundIs ==
  ASSUME NEW h, NEW n \in Nat, n = Len(h)
  PROVE  Found(h) = [lines |-> FlattenSeq([i \in 1 .. n + 1 |-> LinesAt(h, i)]),
                     links |-> FlattenSeq([i \in 1 .. n + 1 |-> LinksAt(h, i)])]
<1> DEFINE text == [i \in Breaks(h) |-> TextAt(h, i)]
           shown == {i \in Breaks(h) : text[i] # <<>> /\ ~Skipped(h, i)}
           links == {i \in shown : Anchored(h, i)}
           Number(i) == Cardinality({j \in links : j <= i})
           LineAt(i) ==
             IF i \notin shown THEN <<>>
             ELSE IF i \in links THEN <<LinkLine(Number(i), Decoded(text[i]))>>
             ELSE <<Line(Decoded(text[i]))>>
           HeadingAt(i) == IF i <= Len(h) /\ h[i] = "<h1>" THEN <<Heading>> ELSE <<>>
           LinkAt(i) ==
             IF i \notin links THEN <<>>
             ELSE <<[index |-> Number(i), text |-> Decoded(text[i]), target_url |-> Target(h, i)]>>
<1>1. Found(h) = [lines |-> FlattenSeq([i \in 1 .. Len(h) + 1 |-> LineAt(i) \o HeadingAt(i)]),
                  links |-> FlattenSeq([i \in 1 .. Len(h) + 1 |-> LinkAt(i)])]
  BY Zenon DEF Found
<1>2. \A i : i \in Breaks(h) <=> IsBreak(h, i) \/ i = n + 1
  BY DEF Breaks, IsBreak
<1>3. \A i \in Breaks(h) : text[i] = TextAt(h, i)
  OBVIOUS
<1>4. \A i : i \in shown <=> i \in Breaks(h) /\ ShownAt(h, i)
  <2> HIDE DEF text
  <2> QED BY <1>3 DEF ShownAt
<1>5. \A i : i \in links <=> i \in shown /\ i <= n /\ OpenAt(h, i)
  <2>1. \A i : Anchored(h, i) <=> i <= n /\ OpenAt(h, i)
    BY DEF Anchored, OpenAt, Latest, OpensAnchor
  <2> HIDE DEF shown
  <2> QED BY <2>1
<1> HIDE DEF text, shown, links
<1>6. links = LinkPlaces(h)
  <2>1. \A i : i \in links <=> i \in LinkPlaces(h)
    <3> TAKE i
    <3>1. IsBreak(h, i) => i \in 1 .. n /\ i <= n
      BY DEF IsBreak
    <3>2. ~ (n + 1 <= n)
      OBVIOUS
    <3>3. i \in links => IsBreak(h, i)
      BY <1>2, <1>4, <1>5, <3>2
    <3>4. i \in LinkPlaces(h) <=> IsBreak(h, i) /\ ShownAt(h, i) /\ OpenAt(h, i)
      BY <3>1 DEF LinkPlaces
    <3> QED BY <1>2, <1>4, <1>5, <3>1, <3>3, <3>4
  <2> QED BY <2>1
<1>7. \A i : Number(i) = NumberOf(h, i)
  BY <1>6 DEF NumberOf
<1> HIDE DEF Number
<1>8. ASSUME NEW i \in 1 .. n + 1
      PROVE  LineAt(i) = TextLine(h, i)
  <2>1. i \in shown <=> ~ (~ ShownAt(h, i) \/ ~ (IsBreak(h, i) \/ i = Len(h) + 1))
    BY <1>2, <1>4
  <2>2. i \in shown => text[i] = TextAt(h, i)
    BY <1>3, <1>4
  <2> QED BY <1>6, <1>7, <2>1, <2>2, Zenon DEF TextLine
<1>9. ASSUME NEW i \in 1 .. n + 1
      PROVE  LinkAt(i) = LinksAt(h, i)
  <2>1. i \in links => text[i] = TextAt(h, i)
    BY <1>3, <1>4, <1>5
  <2> QED BY <1>6, <1>7, <2>1, Zenon DEF LinksAt, LinkRecord
<1>10. \A i : HeadingAt(i) = HeadingOf(h, i)
  BY DEF HeadingOf
<1> HIDE DEF LineAt, HeadingAt, LinkAt
<1>11. \A i \in 1 .. n + 1 : LineAt(i) \o HeadingAt(i) = LinesAt(h, i)
  BY <1>8, <1>10 DEF LinesAt
<1>12. [i \in 1 .. Len(h) + 1 |-> LineAt(i) \o HeadingAt(i)] = [i \in 1 .. n + 1 |-> LinesAt(h, i)]
  BY <1>11
<1>13. [i \in 1 .. Len(h) + 1 |-> LinkAt(i)] = [i \in 1 .. n + 1 |-> LinksAt(h, i)]
  BY <1>9
<1> QED BY <1>1, <1>12, <1>13

\* What is found at a place and before it does not depend on what comes after.
LEMMA PlacesSame ==
  ASSUME NEW h \in Seq(Tokens), NEW t \in Tokens, NEW n, n = Len(h)
  PROVE  /\ LinkPlaces(h) \in SUBSET (1 .. n)
         /\ n + 1 \in LinkPlaces(Append(h, t)) <=>
              t \in Tags \cup {"<"} /\ ShownAt(h, n + 1) /\ OpenAt(h, n + 1)
         /\ LinkPlaces(Append(h, t)) =
              IF n + 1 \in LinkPlaces(Append(h, t)) THEN LinkPlaces(h) \cup {n + 1} ELSE LinkPlaces(h)
         /\ \A i \in 1 .. n : IsBreak(Append(h, t), i) <=> IsBreak(h, i)
<1> DEFINE g == Append(h, t)
<1>1. /\ n \in Nat /\ Len(g) = n + 1 /\ g[n + 1] = t
      /\ (\A j \in 1 .. n : g[j] = h[j])
  OBVIOUS
<1>2. \A i \in 1 .. n + 1 : (ShownAt(g, i) <=> ShownAt(h, i)) /\ (OpenAt(g, i) <=> OpenAt(h, i))
  BY TextSame, MarksSame
<1> HIDE DEF g
<1>3. \A j : j \in 1 .. n + 1 <=> j \in 1 .. n \/ j = n + 1
  BY <1>1
<1>4. \A i \in 1 .. n : IsBreak(g, i) <=> IsBreak(h, i)
  BY <1>1, <1>3 DEF IsBreak
<1>5. IsBreak(g, n + 1) <=> t \in Tags \cup {"<"}
  <2>1. n + 1 \in 1 .. n + 1
    BY <1>1
  <2> QED BY <1>1, <2>1 DEF IsBreak
<1>6. n + 1 \in LinkPlaces(g) <=> t \in Tags \cup {"<"} /\ ShownAt(h, n + 1) /\ OpenAt(h, n + 1)
  <2>1. n + 1 \in 1 .. n + 1
    BY <1>1
  <2> QED BY <1>1, <1>2, <1>5, <2>1 DEF LinkPlaces
<1>7. \A i \in 1 .. n : i \in LinkPlaces(g) <=> i \in LinkPlaces(h)
  BY <1>1, <1>2, <1>3, <1>4 DEF LinkPlaces
<1>8. LinkPlaces(h) \in SUBSET (1 .. n) /\ LinkPlaces(g) \in SUBSET (1 .. n + 1)
  BY <1>1 DEF LinkPlaces
<1>9. LinkPlaces(g) = IF n + 1 \in LinkPlaces(g) THEN LinkPlaces(h) \cup {n + 1} ELSE LinkPlaces(h)
  <2>1. \A i \in LinkPlaces(h) : i \in 1 .. n
    BY <1>8
  <2>2. \A i \in LinkPlaces(g) : i \in 1 .. n \/ i = n + 1
    BY <1>3, <1>8
  <2>3. \A i : i \in LinkPlaces(g) <=> i \in LinkPlaces(h) \/ (i = n + 1 /\ n + 1 \in LinkPlaces(g))
    BY <1>7, <2>1, <2>2
  <2> QED BY <2>3
<1> QED BY <1>4, <1>6, <1>8, <1>9 DEF g

LEMMA NumbersSame ==
  ASSUME NEW h \in Seq(Tokens), NEW t \in Tokens, NEW n, n = Len(h)
  PROVE  /\ \A i \in 1 .. n : NumberOf(Append(h, t), i) = NumberOf(h, i)
         /\ Cardinality(LinkPlaces(h)) \in Nat
         /\ Cardinality(LinkPlaces(Append(h, t))) =
              IF n + 1 \in LinkPlaces(Append(h, t)) THEN Cardinality(LinkPlaces(h)) + 1
              ELSE Cardinality(LinkPlaces(h))
         /\ NumberOf(Append(h, t), n + 1) = Cardinality(LinkPlaces(Append(h, t)))
<1> DEFINE P == LinkPlaces(h)
           Q == LinkPlaces(Append(h, t))
<1>1. n \in Nat
  OBVIOUS
<1>2. P \in SUBSET (1 .. n) /\ Q = IF n + 1 \in Q THEN P \cup {n + 1} ELSE P
  BY PlacesSame
<1> HIDE DEF P, Q
<1>3. IsFiniteSet(P) /\ n + 1 \notin P
  <2>1. IsFiniteSet(1 .. n)
    BY <1>1, FS_Interval
  <2>2. P \subseteq 1 .. n /\ n + 1 \notin 1 .. n
    BY <1>1, <1>2
  <2>3. IsFiniteSet(P)
    BY <2>1, <2>2, FS_Subset
  <2> QED BY <2>2, <2>3
<1>4. Cardinality(P) \in Nat /\ Cardinality(P \cup {n + 1}) = Cardinality(P) + 1
  BY <1>3, FS_CardinalityType, FS_AddElement
<1>5. ASSUME NEW i \in 1 .. n
      PROVE  NumberOf(Append(h, t), i) = NumberOf(h, i)
  <2>1. {j \in Q : j <= i} = {j \in P : j <= i}
    BY <1>1, <1>2
  <2> QED BY <2>1 DEF NumberOf, P, Q
<1>6. {j \in Q : j <= n + 1} = Q
  <2>1. \A j \in P : j <= n + 1
    BY <1>1, <1>2
  <2>2. \A j \in Q : j \in P \/ j = n + 1
    BY <1>2
  <2>3. \A j \in Q : j <= n + 1
    BY <1>1, <2>1, <2>2
  <2> QED BY <2>3
<1> QED BY <1>2, <1>4, <1>5, <1>6 DEF NumberOf, P, Q

LEMMA ItemsSame ==
  ASSUME NEW h \in Seq(Tokens), NEW t \in Tokens, NEW i \in 1 .. Len(h)
  PROVE  LinesAt(Append(h, t), i) = LinesAt(h, i) /\ LinksAt(Append(h, t), i) = LinksAt(h, i)
<1> DEFINE g == Append(h, t)
           n == Len(h)
<1>1. n \in Nat /\ Len(g) = n + 1 /\ g[i] = h[i] /\ i \in 1 .. n + 1
  OBVIOUS
<1>2. NumberOf(g, i) = NumberOf(h, i)
  BY NumbersSame
<1>3. TextAt(g, i) = TextAt(h, i) /\ (ShownAt(g, i) <=> ShownAt(h, i)) /\ Target(g, i) = Target(h, i)
  BY <1>1, TextSame, MarksSame
<1>4. (IsBreak(g, i) <=> IsBreak(h, i)) /\ (i \in LinkPlaces(g) <=> i \in LinkPlaces(h))
  <2>1. IsBreak(g, i) <=> IsBreak(h, i)
    BY PlacesSame
  <2>2. LinkPlaces(g) = IF n + 1 \in LinkPlaces(g) THEN LinkPlaces(h) \cup {n + 1} ELSE LinkPlaces(h)
    BY PlacesSame
  <2> HIDE DEF g
  <2> QED BY <1>1, <2>1, <2>2
<1> HIDE DEF g
<1>5. i # n + 1 /\ i # (n + 1) + 1 /\ i <= n /\ i <= n + 1
  BY <1>1
<1>6. TextLine(g, i) = TextLine(h, i)
  BY <1>1, <1>2, <1>3, <1>4, <1>5 DEF TextLine
<1>7. HeadingOf(g, i) = HeadingOf(h, i)
  BY <1>1, <1>5 DEF HeadingOf
<1>8. LinksAt(g, i) = LinksAt(h, i)
  BY <1>2, <1>3, <1>4 DEF LinksAt, LinkRecord
<1> QED BY <1>6, <1>7, <1>8 DEF LinesAt, g

LinesRow(h, m) == [i \in 1 .. m |-> LinesAt(h, i)]
LinksRow(h, m) == [i \in 1 .. m |-> LinksAt(h, i)]
LinesTo(h) == FlattenSeq(LinesRow(h, Len(h)))
LinksTo(h) == FlattenSeq(LinksRow(h, Len(h)))

LEMMA RowsGrow ==
  ASSUME NEW x, NEW h, NEW n \in Nat, n = Len(h),
         \A i \in 1 .. n : LinesAt(x, i) = LinesAt(h, i) /\ LinksAt(x, i) = LinksAt(h, i)
  PROVE  /\ FlattenSeq(LinesRow(x, n + 1)) = LinesTo(h) \o LinesAt(x, n + 1)
         /\ FlattenSeq(LinksRow(x, n + 1)) = LinksTo(h) \o LinksAt(x, n + 1)
         /\ IsList(LinesTo(h)) /\ IsList(LinksTo(h))
<1>0. /\ \A k \in 1 .. n : k \in 1 .. n + 1
      /\ n + 1 \in 1 .. n + 1
  OBVIOUS
<1>a. /\ \A T : \A a \in T : <<a>> \in Seq(T)
      /\ \A T : <<>> \in Seq(T)
      /\ \A T : \A u \in Seq(T), v \in Seq(T) : u \o v \in Seq(T)
  OBVIOUS
<1>1. /\ FlattenSeq(LinesRow(x, n + 1)) = LinesTo(h) \o LinesAt(x, n + 1)
      /\ IsList(LinesTo(h))
  <2> DEFINE W(i) == Line(Decoded(TextAt(x, i)))
             V(i) == LinkLine(NumberOf(x, i), Decoded(TextAt(x, i)))
             T == {Heading} \cup {W(i) : i \in 1 .. n + 1} \cup {V(i) : i \in 1 .. n + 1}
             r == LinesRow(x, n + 1)
             s == LinesRow(h, n)
  <2>1. ASSUME NEW i \in 1 .. n + 1
        PROVE  LinesAt(x, i) \in Seq(T)
    <3>1. TextLine(x, i) \in {<<>>, <<W(i)>>, <<V(i)>>}
      BY Zenon DEF TextLine
    <3>2. HeadingOf(x, i) \in {<<>>, <<Heading>>}
      BY DEF HeadingOf
    <3> HIDE DEF W, V
    <3>3. W(i) \in T /\ V(i) \in T /\ Heading \in T
      OBVIOUS
    <3> HIDE DEF T
    <3>4. TextLine(x, i) \in Seq(T) /\ HeadingOf(x, i) \in Seq(T)
      BY <1>a, <3>1, <3>2, <3>3
    <3> QED BY <1>a, <3>4 DEF LinesAt
  <2> HIDE DEF T
  <2>2. r \in [1 .. n + 1 -> Seq(T)] /\ \A i \in 1 .. n + 1 : r[i] = LinesAt(x, i)
    BY <2>1 DEF LinesRow
  <2>3. \A i \in 1 .. n : s[i] = LinesAt(h, i) /\ LinesAt(h, i) \in Seq(T)
    BY <1>0, <2>1 DEF LinesRow
  <2>4. s \in [1 .. n -> Seq(T)]
    BY <2>3 DEF LinesRow
  <2>5. \A i \in 1 .. n : r[i] = s[i]
    BY <1>0, <2>2, <2>3
  <2> HIDE DEF r, s
  <2>6. FlattenSeq(s) \in Seq(T) /\ FlattenSeq(r) = FlattenSeq(s) \o r[n + 1]
    BY <2>2, <2>4, <2>5, FlattenNext
  <2>7. LinesTo(h) = FlattenSeq(s)
    BY DEF LinesTo, s
  <2> QED BY <1>0, <2>2, <2>6, <2>7 DEF r, IsList
<1>2. /\ FlattenSeq(LinksRow(x, n + 1)) = LinksTo(h) \o LinksAt(x, n + 1)
      /\ IsList(LinksTo(h))
  <2> DEFINE T == {LinkRecord(x, i) : i \in 1 .. n + 1}
             r == LinksRow(x, n + 1)
             s == LinksRow(h, n)
  <2>1. ASSUME NEW i \in 1 .. n + 1
        PROVE  LinksAt(x, i) \in Seq(T)
    <3>1. LinkRecord(x, i) \in T
      OBVIOUS
    <3> HIDE DEF T
    <3> QED BY <1>a, <3>1 DEF LinksAt
  <2> HIDE DEF T
  <2>2. r \in [1 .. n + 1 -> Seq(T)] /\ \A i \in 1 .. n + 1 : r[i] = LinksAt(x, i)
    BY <2>1 DEF LinksRow
  <2>3. \A i \in 1 .. n : s[i] = LinksAt(h, i) /\ LinksAt(h, i) \in Seq(T)
    BY <1>0, <2>1 DEF LinksRow
  <2>4. s \in [1 .. n -> Seq(T)]
    BY <2>3 DEF LinksRow
  <2>5. \A i \in 1 .. n : r[i] = s[i]
    BY <1>0, <2>2, <2>3
  <2> HIDE DEF r, s
  <2>6. FlattenSeq(s) \in Seq(T) /\ FlattenSeq(r) = FlattenSeq(s) \o r[n + 1]
    BY <2>2, <2>4, <2>5, FlattenNext
  <2>7. LinksTo(h) = FlattenSeq(s)
    BY DEF LinksTo, s
  <2> QED BY <1>0, <2>2, <2>6, <2>7 DEF r, IsList
<1> QED BY <1>1, <1>2

LEMMA FoundAtEnd ==
  ASSUME NEW h \in Seq(Tokens), NEW n, n = Len(h)
  PROVE  /\ Found(h) = [lines |-> LinesTo(h) \o LinesAt(h, n + 1), links |-> LinksTo(h)]
         /\ LinesAt(h, n + 1) =
              IF ShownAt(h, n + 1) THEN <<Line(Decoded(TextAt(h, n + 1)))>> ELSE <<>>
<1>0. n \in Nat /\ n + 1 \notin 1 .. n /\ ~ (n + 1 <= n)
  OBVIOUS
<1>1. /\ FlattenSeq(LinesRow(h, n + 1)) = LinesTo(h) \o LinesAt(h, n + 1)
      /\ FlattenSeq(LinksRow(h, n + 1)) = LinksTo(h) \o LinksAt(h, n + 1)
      /\ IsList(LinksTo(h))
  BY <1>0, RowsGrow
<1>2. n + 1 \notin LinkPlaces(h)
  BY <1>0 DEF LinkPlaces
<1>3. LinksAt(h, n + 1) = <<>>
  BY <1>2 DEF LinksAt
<1>4. LinksTo(h) \o <<>> = LinksTo(h)
  <2>1. PICK S : LinksTo(h) \in Seq(S)
    BY <1>1 DEF IsList
  <2> QED BY <2>1
<1>5. Found(h) = [lines |-> FlattenSeq(LinesRow(h, n + 1)), links |-> FlattenSeq(LinksRow(h, n + 1))]
  BY <1>0, FoundIs DEF LinesRow, LinksRow
<1>6. LinesAt(h, n + 1) = IF ShownAt(h, n + 1) THEN <<Line(Decoded(TextAt(h, n + 1)))>> ELSE <<>>
  <2>1. HeadingOf(h, n + 1) = <<>>
    BY <1>0 DEF HeadingOf
  <2>2. TextLine(h, n + 1) = IF ShownAt(h, n + 1) THEN <<Line(Decoded(TextAt(h, n + 1)))>> ELSE <<>>
    BY <1>2, Zenon DEF TextLine
  <2>3. \A a : <<a>> \o <<>> = <<a>>
    OBVIOUS
  <2>4. <<>> \o <<>> = <<>>
    OBVIOUS
  <2> QED BY <2>1, <2>2, <2>3, <2>4 DEF LinesAt
<1> QED BY <1>1, <1>3, <1>4, <1>5, <1>6

\* What is found up to the next token is what was found and what the token adds.
LEMMA FoundNext ==
  ASSUME NEW h \in Seq(Tokens), NEW t \in Tokens, NEW n, n = Len(h)
  PROVE  /\ LinesTo(Append(h, t)) = LinesTo(h) \o LinesAt(Append(h, t), n + 1)
         /\ LinksTo(Append(h, t)) = LinksTo(h) \o LinksAt(Append(h, t), n + 1)
         /\ IsList(LinesTo(h)) /\ IsList(LinksTo(h))
<1>1. n \in Nat /\ Len(Append(h, t)) = n + 1
  OBVIOUS
<1>2. \A i \in 1 .. n : /\ LinesAt(Append(h, t), i) = LinesAt(h, i)
                        /\ LinksAt(Append(h, t), i) = LinksAt(h, i)
  BY ItemsSame
<1>3. /\ FlattenSeq(LinesRow(Append(h, t), n + 1)) = LinesTo(h) \o LinesAt(Append(h, t), n + 1)
      /\ FlattenSeq(LinksRow(Append(h, t), n + 1)) = LinksTo(h) \o LinksAt(Append(h, t), n + 1)
      /\ IsList(LinesTo(h)) /\ IsList(LinksTo(h))
  BY <1>1, <1>2, RowsGrow
<1> QED BY <1>1, <1>3 DEF LinesTo, LinksTo

\* What the token t adds to what is found in h, n tokens long: the text before it,
\* if it ends one, as a line or as link `number`, and the heading of <h1>.
Added(h, t, n, text, number) ==
  /\ LinesAt(Append(h, t), n + 1) =
       (IF t \notin Tags \cup {"<"} \/ ~ ShownAt(h, n + 1) THEN <<>>
        ELSE IF OpenAt(h, n + 1) THEN <<LinkLine(number, text)>> ELSE <<Line(text)>>)
       \o (IF t = "<h1>" THEN <<Heading>> ELSE <<>>)
  /\ LinksAt(Append(h, t), n + 1) =
       IF t \in Tags \cup {"<"} /\ ShownAt(h, n + 1) /\ OpenAt(h, n + 1)
       THEN <<[index |-> number, text |-> text, target_url |-> Target(h, n + 1)]>> ELSE <<>>
  /\ Cardinality(LinkPlaces(Append(h, t))) =
       IF t \in Tags \cup {"<"} /\ ShownAt(h, n + 1) /\ OpenAt(h, n + 1)
       THEN number ELSE number - 1

LEMMA ItemsNext ==
  ASSUME NEW h \in Seq(Tokens), NEW t \in Tokens, NEW n, n = Len(h),
         NEW text, text = Decoded(TextAt(h, n + 1)),
         NEW number, number = Cardinality(LinkPlaces(h)) + 1
  PROVE  Added(h, t, n, text, number)
<1> DEFINE g == Append(h, t)
           K == Tags \cup {"<"}
<1>1. n \in Nat /\ Len(g) = n + 1 /\ g[n + 1] = t /\ n + 1 \in 1 .. n + 1
  OBVIOUS
<1>2. TextAt(g, n + 1) = TextAt(h, n + 1) /\ (ShownAt(g, n + 1) <=> ShownAt(h, n + 1))
      /\ Target(g, n + 1) = Target(h, n + 1)
  BY <1>1, TextSame, MarksSame
<1>3. n + 1 \in LinkPlaces(g) <=> t \in K /\ ShownAt(h, n + 1) /\ OpenAt(h, n + 1)
  BY PlacesSame
<1>4. /\ Cardinality(LinkPlaces(h)) \in Nat
      /\ Cardinality(LinkPlaces(g)) =
           IF n + 1 \in LinkPlaces(g) THEN Cardinality(LinkPlaces(h)) + 1 ELSE Cardinality(LinkPlaces(h))
      /\ NumberOf(g, n + 1) = Cardinality(LinkPlaces(g))
  BY NumbersSame
<1> HIDE DEF g
<1>5. IsBreak(g, n + 1) <=> t \in K
  BY <1>1 DEF IsBreak
<1> HIDE DEF K
<1>6. ~ (n + 1 = Len(g) + 1) /\ n + 1 <= Len(g)
  BY <1>1
<1>7. n + 1 \in LinkPlaces(g) => NumberOf(g, n + 1) = number
  BY <1>4
<1>8. TextLine(g, n + 1) = IF t \notin K \/ ~ ShownAt(h, n + 1) THEN <<>>
                           ELSE IF OpenAt(h, n + 1) THEN <<LinkLine(number, text)>> ELSE <<Line(text)>>
  BY <1>2, <1>3, <1>5, <1>6, <1>7, Zenon DEF TextLine
<1>9. HeadingOf(g, n + 1) = IF t = "<h1>" THEN <<Heading>> ELSE <<>>
  BY <1>1, <1>6 DEF HeadingOf
<1>10. LinksAt(g, n + 1) = IF t \in K /\ ShownAt(h, n + 1) /\ OpenAt(h, n + 1)
         THEN <<[index |-> number, text |-> text, target_url |-> Target(h, n + 1)]>> ELSE <<>>
  BY <1>2, <1>3, <1>7, Zenon DEF LinksAt, LinkRecord
<1>11. Cardinality(LinkPlaces(g)) =
         IF t \in K /\ ShownAt(h, n + 1) /\ OpenAt(h, n + 1) THEN number ELSE number - 1
  BY <1>3, <1>4
<1> QED BY <1>8, <1>9, <1>10, <1>11 DEF Added, LinesAt, g, K

\* Lists of anything.
LEMMA ListJoin ==
  ASSUME NEW s, IsList(s)
  PROVE  s \o <<>> = s /\ \A e : Append(s, e) = s \o <<e>>
<1>1. PICK S : s \in Seq(S)
  BY DEF IsList
<1>2. s \o <<>> = s
  BY <1>1
<1>3. ASSUME NEW e PROVE Append(s, e) = s \o <<e>>
  <2>1. s \in Seq(S \cup {e}) /\ e \in S \cup {e}
    BY <1>1
  <2> QED BY <2>1
<1> QED BY <1>2, <1>3

LEMMA ListJoinTwice ==
  ASSUME NEW s, IsList(s), NEW t, IsList(t), NEW u, IsList(u)
  PROVE  (s \o t) \o u = s \o (t \o u)
<1>1. PICK S : s \in Seq(S)
  BY DEF IsList
<1>2. PICK T : t \in Seq(T)
  BY DEF IsList
<1>3. PICK U : u \in Seq(U)
  BY DEF IsList
<1>4. \A V : \A a \in Seq(V), b \in Seq(V), c \in Seq(V) : (a \o b) \o c = a \o (b \o c)
  OBVIOUS
<1>5. s \in Seq(S \cup T \cup U) /\ t \in Seq(S \cup T \cup U) /\ u \in Seq(S \cup T \cup U)
  BY <1>1, <1>2, <1>3
<1> QED BY <1>4, <1>5

LEMMA ShortLists == IsList(<<>>) /\ \A e : IsList(<<e>>)
<1>1. \A e : <<e>> \in Seq({e})
  OBVIOUS
<1> QED BY <1>1, EmptyList DEF IsList

\* What '<' does to the variables, one by one.
Flushed(p, q, text) ==
  /\ q.in_tag = p.in_tag /\ q.skip_content = p.skip_content
  /\ q.in_anchor = p.in_anchor /\ q.current_link_url = p.current_link_url
  /\ q.text_buffer = <<>>
  /\ q.link_counter = IF Shows(p) /\ p.in_anchor THEN p.link_counter + 1 ELSE p.link_counter
  /\ q.lines = p.lines \o
       (IF ~ Shows(p) THEN <<>>
        ELSE IF p.in_anchor THEN <<LinkLine(p.link_counter, text)>> ELSE <<Line(text)>>)
  /\ q.links = p.links \o
       (IF Shows(p) /\ p.in_anchor
        THEN <<[index |-> p.link_counter, text |-> text, target_url |-> p.current_link_url]>>
        ELSE <<>>)

LEMMA FlushIs ==
  ASSUME NEW p, IsParser(p)
  PROVE  Flushed(p, Flush(p), DecodeEntities(Trim(p.text_buffer)))
<1> DEFINE q == Flush(p)
           text == DecodeEntities(Trim(p.text_buffer))
<1> DEFINE line == Line(text)
           linked == LinkLine(p.link_counter, text)
           link == [index |-> p.link_counter, text |-> text, target_url |-> p.current_link_url]
<1> SUFFICES Flushed(p, q, text)
  OBVIOUS
<1>1. DOMAIN p = {"lines", "links", "link_counter", "in_tag", "text_buffer",
                  "skip_content", "current_link_url", "in_anchor"}
  BY DEF IsParser
<1>2. /\ p.lines \o <<>> = p.lines /\ (\A e : Append(p.lines, e) = p.lines \o <<e>>)
      /\ p.links \o <<>> = p.links /\ (\A e : Append(p.links, e) = p.links \o <<e>>)
  BY ListJoin DEF IsParser
<1>3. CASE ~ Shows(p)
  <2>1. q = [p EXCEPT !.text_buffer = <<>>]
    BY <1>3 DEF Flush
  <2> HIDE DEF q, text
  <2> QED BY <1>1, <1>2, <1>3, <2>1 DEF Flushed
<1>4. CASE Shows(p) /\ ~ p.in_anchor
  <2>1. Show(p) = [p EXCEPT !.lines = Append(p.lines, line)]
    BY <1>4 DEF Show
  <2>2. q = [Show(p) EXCEPT !.text_buffer = <<>>]
    BY <1>4 DEF Flush
  <2> HIDE DEF line, q, text
  <2>3. q = [p EXCEPT !.lines = Append(p.lines, line), !.text_buffer = <<>>]
    BY <2>1, <2>2, <1>1
  <2>4. /\ q.in_tag = p.in_tag /\ q.skip_content = p.skip_content
        /\ q.in_anchor = p.in_anchor /\ q.current_link_url = p.current_link_url
        /\ q.text_buffer = <<>> /\ q.link_counter = p.link_counter
        /\ q.lines = Append(p.lines, line) /\ q.links = p.links
    BY <1>1, <2>3
  <2> QED BY <1>2, <1>4, <2>4 DEF line, Flushed
<1>5. CASE Shows(p) /\ p.in_anchor
  <2>1. Show(p) = [p EXCEPT !.lines = Append(p.lines, linked), !.links = Append(p.links, link),
                            !.link_counter = p.link_counter + 1]
    BY <1>5 DEF Show
  <2>2. q = [Show(p) EXCEPT !.text_buffer = <<>>]
    BY <1>5 DEF Flush
  <2> HIDE DEF linked, link, q, text
  <2>3. q = [p EXCEPT !.lines = Append(p.lines, linked), !.links = Append(p.links, link),
                      !.link_counter = p.link_counter + 1, !.text_buffer = <<>>]
    BY <2>1, <2>2, <1>1
  <2>4. /\ q.in_tag = p.in_tag /\ q.skip_content = p.skip_content
        /\ q.in_anchor = p.in_anchor /\ q.current_link_url = p.current_link_url
        /\ q.text_buffer = <<>> /\ q.link_counter = p.link_counter + 1
        /\ q.lines = Append(p.lines, linked) /\ q.links = Append(p.links, link)
    BY <1>1, <2>3
  <2> QED BY <1>2, <1>5, <2>4 DEF linked, link, Flushed
<1> QED BY <1>3, <1>4, <1>5

\* What '>' does to them.
Closed(p, tag, q) ==
  /\ q.in_tag = p.in_tag /\ q.text_buffer = p.text_buffer
  /\ q.link_counter = p.link_counter /\ q.links = p.links
  /\ q.skip_content <=>
       IF tag \in {"<script>", "</script>"} THEN tag = "<script>" ELSE p.skip_content
  /\ q.in_anchor <=> IF tag \in OpensAnchor THEN tag # "</a>" ELSE p.in_anchor
  /\ q.current_link_url = IF tag \in Targets THEN tag ELSE p.current_link_url
  /\ q.lines = p.lines \o (IF tag = "<h1>" THEN <<Heading>> ELSE <<>>)

LEMMA CloseIs ==
  ASSUME NEW p, IsParser(p), NEW tag \in Tags, NEW q, q = Close(p, tag)
  PROVE  Closed(p, tag, q)
<1>1. DOMAIN p = {"lines", "links", "link_counter", "in_tag", "text_buffer",
                  "skip_content", "current_link_url", "in_anchor"}
  BY DEF IsParser
<1>2. p.lines \o <<>> = p.lines /\ Append(p.lines, Heading) = p.lines \o <<Heading>>
  BY ListJoin DEF IsParser
<1>t. \A a \in Targets : a \notin {"<script>", "</script>", "<h1>", "<a>", "</a>"}
  BY TagsApart
<1>3. CASE tag \in {"<script>", "</script>"}
  <2>1. q = [p EXCEPT !.skip_content = (tag = "<script>")]
    BY <1>3, <1>t DEF Close
  <2>2. tag \notin OpensAnchor /\ tag \notin Targets /\ tag # "<h1>"
    BY <1>3, <1>t DEF OpensAnchor
  <2> QED BY <1>1, <1>2, <1>3, <2>1, <2>2 DEF Closed
<1>4. CASE tag = "<h1>"
  <2>1. q = [p EXCEPT !.lines = Append(p.lines, Heading)]
    BY <1>4, <1>t DEF Close
  <2>2. tag \notin OpensAnchor /\ tag \notin Targets /\ tag \notin {"<script>", "</script>"}
    BY <1>4, <1>t DEF OpensAnchor
  <2> HIDE DEF Heading
  <2> QED BY <1>1, <1>2, <1>4, <2>1, <2>2 DEF Closed
<1>5. CASE tag = "<a>"
  <2>1. q = [p EXCEPT !.in_anchor = TRUE]
    BY <1>5, <1>t DEF Close
  <2>2. tag \in OpensAnchor /\ tag \notin Targets /\ tag \notin {"<script>", "</script>", "<h1>", "</a>"}
    BY <1>5, <1>t DEF OpensAnchor
  <2> QED BY <1>1, <1>2, <2>1, <2>2 DEF Closed
<1>6. CASE tag \in Targets
  <2>1. q = [p EXCEPT !.in_anchor = TRUE, !.current_link_url = tag]
    BY <1>6, <1>t DEF Close
  <2>2. tag \in OpensAnchor /\ tag \notin {"<script>", "</script>", "<h1>", "</a>"}
    BY <1>6, <1>t DEF OpensAnchor
  <2> QED BY <1>1, <1>2, <1>6, <2>1, <2>2 DEF Closed
<1>7. CASE tag = "</a>"
  <2>1. q = [p EXCEPT !.in_anchor = FALSE]
    BY <1>7, <1>t DEF Close
  <2>2. tag \in OpensAnchor /\ tag \notin Targets /\ tag \notin {"<script>", "</script>", "<h1>"}
    BY <1>7, <1>t DEF OpensAnchor
  <2> QED BY <1>1, <1>2, <1>7, <2>1, <2>2 DEF Closed
<1> QED BY <1>3, <1>4, <1>5, <1>6, <1>7 DEF Tags

\* Between two tokens the parser has what stands before: its marks, its text, and
\* the lines and the links of the breaks it has passed.
Abreast(h, p) ==
  LET i == Len(h) + 1 IN
  /\ p.in_tag <=> InTag(h, i)
  /\ p.skip_content <=> Skipped(h, i)
  /\ p.in_anchor <=> OpenAt(h, i)
  /\ p.current_link_url = Target(h, i)
  /\ p.text_buffer = PiecesAt(h, i)
  /\ p.link_counter = Cardinality(LinkPlaces(h)) + 1
  /\ p.lines = LinesTo(h)
  /\ p.links = LinksTo(h)

LEMMA AbreastFirst == Abreast(<<>>, NewParser)
<1>0. <<>> \in Seq(Tokens) /\ Len(<<>>) = 0
  OBVIOUS
<1>1. \A T : Before(<<>>, 1, T) = {}
  BY DEF Before
<1>2. \A T : Latest(<<>>, 1, T) = "none"
  BY <1>1 DEF Latest, LastOf
<1>3. ~ InTag(<<>>, 1) /\ ~ Skipped(<<>>, 1) /\ ~ OpenAt(<<>>, 1) /\ Target(<<>>, 1) = NoTarget
  BY <1>1, <1>2, LastIs DEF OpenAt
<1>4. PiecesAt(<<>>, 1) = <<>>
  <2>1. Start(<<>>, 1) \in 0 .. 1 - 1
    <3>1. 1 \in 1 .. Len(<<>>) + 1
      BY <1>0
    <3>2. ">" \in Tokens
      BY DEF Tokens
    <3> QED BY <1>0, <3>1, <3>2, StartIs
  <2>2. Start(<<>>, 1) = 0
    BY <2>1
  <2>3. PieceRow(<<>>, 1) = <<>>
    BY <2>2 DEF PieceRow
  <2> QED BY <2>3, TextIs, NoPieces
<1>5. LinkPlaces(<<>>) = {}
  BY <1>0 DEF LinkPlaces
<1>6. Cardinality(LinkPlaces(<<>>)) + 1 = 1
  BY <1>5, FS_EmptySet
<1>7. LinesTo(<<>>) = <<>> /\ LinksTo(<<>>) = <<>>
  <2>1. LinesRow(<<>>, 0) = <<>> /\ LinksRow(<<>>, 0) = <<>>
    BY DEF LinesRow, LinksRow
  <2> QED BY <1>0, <2>1, NoPieces DEF LinesTo, LinksTo
<1> QED BY <1>0, <1>3, <1>4, <1>6, <1>7 DEF Abreast, NewParser

\* The text that the buffer holds is the text that is found.
LEMMA SameText ==
  ASSUME NEW h \in Seq(Tokens), NEW p, Abreast(h, p), NEW n, n = Len(h)
  PROVE  /\ Trim(p.text_buffer) = TextAt(h, n + 1)
         /\ DecodeEntities(Trim(p.text_buffer)) = Decoded(TextAt(h, n + 1))
         /\ Shows(p) <=> ShownAt(h, n + 1)
<1>1. p.text_buffer = PiecesAt(h, n + 1) /\ (p.skip_content <=> Skipped(h, n + 1))
  BY DEF Abreast
<1>2. Trim(p.text_buffer) = TextAt(h, n + 1)
  BY <1>1, TextIs
<1>3. PiecesAt(h, n + 1) \in Seq(Words)
  <2>1. n + 1 \in 1 .. Len(h) + 1 /\ ">" \in Tokens
    BY DEF Tokens
  <2> QED BY <2>1, TextSame
<1>4. TextAt(h, n + 1) \in Seq(Words)
  BY <1>1, <1>2, <1>3, TrimType
<1>5. Decoded(TextAt(h, n + 1)) = DecodeEntities(TextAt(h, n + 1))
  BY <1>4, DecodedIs
<1> QED BY <1>1, <1>2, <1>5 DEF Shows, ShownAt

\* A token that ends a text: "<", or a whole tag, which is also closed.
Ended(h, t, n, q) ==
  /\ q.skip_content <=> Skipped(h, n + 1)
  /\ q.in_anchor <=> OpenAt(h, n + 1)
  /\ q.current_link_url = Target(h, n + 1)
  /\ q.text_buffer = PiecesAt(Append(h, t), n + 2)
  /\ q.link_counter = Cardinality(LinkPlaces(Append(h, t))) + 1
  /\ LinesTo(Append(h, t)) = q.lines \o (IF t = "<h1>" THEN <<Heading>> ELSE <<>>)
  /\ q.links = LinksTo(Append(h, t))

LEMMA EndsText ==
  ASSUME NEW h \in Seq(Tokens), NEW p, IsParser(p), Abreast(h, p),
         NEW t \in Tokens, t \in Tags \cup {"<"}, NEW n, n = Len(h),
         NEW q, q = Flush(p)
  PROVE  Ended(h, t, n, q)
<1> DEFINE text == Decoded(TextAt(h, n + 1))
           number == Cardinality(LinkPlaces(h)) + 1
           shown == ShownAt(h, n + 1)
           open == OpenAt(h, n + 1)
           new == IF ~ shown THEN <<>> ELSE IF open THEN <<LinkLine(number, text)>> ELSE <<Line(text)>>
           heading == IF t = "<h1>" THEN <<Heading>> ELSE <<>>
           link == IF shown /\ open
                   THEN <<[index |-> number, text |-> text, target_url |-> Target(h, n + 1)]>> ELSE <<>>
<1>0. Cardinality(LinkPlaces(h)) \in Nat
  BY NumbersSame
<1>1. /\ p.skip_content <=> Skipped(h, n + 1)
      /\ p.in_anchor <=> open
      /\ p.current_link_url = Target(h, n + 1)
      /\ p.link_counter = number
      /\ p.lines = LinesTo(h) /\ p.links = LinksTo(h)
  BY DEF Abreast
<1>2. DecodeEntities(Trim(p.text_buffer)) = text /\ (Shows(p) <=> shown)
  BY SameText
<1>3. /\ q.skip_content = p.skip_content
      /\ q.in_anchor = p.in_anchor /\ q.current_link_url = p.current_link_url
      /\ q.text_buffer = <<>>
      /\ q.link_counter = IF Shows(p) /\ p.in_anchor THEN p.link_counter + 1 ELSE p.link_counter
      /\ q.lines = p.lines \o
           (IF ~ Shows(p) THEN <<>>
            ELSE IF p.in_anchor THEN <<LinkLine(p.link_counter, text)>> ELSE <<Line(text)>>)
      /\ q.links = p.links \o
           (IF Shows(p) /\ p.in_anchor
            THEN <<[index |-> p.link_counter, text |-> text, target_url |-> p.current_link_url]>>
            ELSE <<>>)
  <2> HIDE DEF text
  <2>1. Flushed(p, q, text)
    BY <1>2, FlushIs
  <2> QED BY <2>1 DEF Flushed
<1>4. /\ LinesAt(Append(h, t), n + 1) = new \o heading
      /\ LinksAt(Append(h, t), n + 1) = link
      /\ Cardinality(LinkPlaces(Append(h, t))) = IF shown /\ open THEN number ELSE number - 1
  <2>1. Added(h, t, n, text, number)
    <3>1. text = Decoded(TextAt(h, n + 1)) /\ number = Cardinality(LinkPlaces(h)) + 1
      OBVIOUS
    <3> HIDE DEF text, number
    <3> QED BY <3>1, ItemsNext
  <2> HIDE DEF text, number
  <2> QED BY <2>1 DEF Added
<1>5. /\ LinesTo(Append(h, t)) = LinesTo(h) \o LinesAt(Append(h, t), n + 1)
      /\ LinksTo(Append(h, t)) = LinksTo(h) \o LinksAt(Append(h, t), n + 1)
      /\ IsList(LinesTo(h))
  BY FoundNext
<1>6. PiecesAt(Append(h, t), n + 2) = <<>>
  BY TextNext
<1> HIDE DEF text, number, shown, open
<1>7. q.lines = LinesTo(h) \o new /\ q.links = LinksTo(h) \o link
  BY <1>1, <1>2, <1>3
<1>8. IsList(new) /\ IsList(heading) /\ IsList(LinesTo(h))
  BY <1>5, ShortLists
<1>9. q.link_counter = Cardinality(LinkPlaces(Append(h, t))) + 1
  BY <1>0, <1>1, <1>2, <1>3, <1>4 DEF number
<1> HIDE DEF new, heading, link
<1>10. LinesTo(Append(h, t)) = q.lines \o heading
  <2>1. (LinesTo(h) \o new) \o heading = LinesTo(h) \o (new \o heading)
    BY <1>8, ListJoinTwice
  <2> QED BY <1>4, <1>5, <1>7, <2>1
<1>11. (q.skip_content <=> Skipped(h, n + 1)) /\ (q.in_anchor <=> open)
  BY <1>1, <1>3
<1> QED BY <1>1, <1>3, <1>4, <1>5, <1>6, <1>7, <1>9, <1>10, <1>11 DEF heading, open, Ended

\* A token that ends no text: ">", or a piece of one.
LEMMA GoesOn ==
  ASSUME NEW h \in Seq(Tokens), NEW t \in Tokens, t \notin Tags \cup {"<"}, NEW n, n = Len(h)
  PROVE  /\ Cardinality(LinkPlaces(Append(h, t))) = Cardinality(LinkPlaces(h))
         /\ LinesTo(Append(h, t)) = LinesTo(h) /\ LinksTo(Append(h, t)) = LinksTo(h)
<1>1. t # "<h1>"
  BY DEF Tags
<1> DEFINE text == Decoded(TextAt(h, n + 1))
           number == Cardinality(LinkPlaces(h)) + 1
<1>a. text = Decoded(TextAt(h, n + 1)) /\ number = Cardinality(LinkPlaces(h)) + 1
  OBVIOUS
<1> HIDE DEF text, number
<1>2. /\ LinesAt(Append(h, t), n + 1) = <<>> \o <<>>
      /\ LinksAt(Append(h, t), n + 1) = <<>>
      /\ Cardinality(LinkPlaces(Append(h, t))) = number - 1
  <2>1. Added(h, t, n, text, number)
    BY <1>a, ItemsNext
  <2> QED BY <1>1, <2>1 DEF Added
<1>3. <<>> \o <<>> = <<>> /\ Cardinality(LinkPlaces(h)) \in Nat
  BY NumbersSame
<1>4. /\ LinesTo(Append(h, t)) = LinesTo(h) \o LinesAt(Append(h, t), n + 1)
      /\ LinksTo(Append(h, t)) = LinksTo(h) \o LinksAt(Append(h, t), n + 1)
      /\ IsList(LinesTo(h)) /\ IsList(LinksTo(h))
  BY FoundNext
<1>5. LinesTo(h) \o <<>> = LinesTo(h) /\ LinksTo(h) \o <<>> = LinksTo(h)
  BY <1>4, ListJoin
<1>6. LinesAt(Append(h, t), n + 1) = <<>>
  BY <1>2, <1>3
<1>7. LinesTo(Append(h, t)) = LinesTo(h) /\ LinksTo(Append(h, t)) = LinksTo(h)
  BY <1>2, <1>4, <1>5, <1>6
<1>8. Cardinality(LinkPlaces(Append(h, t))) = Cardinality(LinkPlaces(h))
  BY <1>2, <1>3, <1>a
<1> QED BY <1>7, <1>8

LEMMA AbreastStep ==
  ASSUME NEW h \in Seq(Tokens), NEW p, IsParser(p), Abreast(h, p), NEW t \in Tokens
  PROVE  Abreast(Append(h, t), Read(p, t))
<1> DEFINE n == Len(h)
           g == Append(h, t)
           r == Read(p, t)
<1>0. n \in Nat /\ Len(g) + 1 = n + 2
  OBVIOUS
<1>1. DOMAIN p = {"lines", "links", "link_counter", "in_tag", "text_buffer",
                  "skip_content", "current_link_url", "in_anchor"}
  BY DEF IsParser
<1>2. /\ InTag(g, n + 2) <=> IF t \in Tags \cup {"<", ">"} THEN t = "<" ELSE InTag(h, n + 1)
      /\ Skipped(g, n + 2) <=> IF t \in {"<script>", "</script>"} THEN t = "<script>" ELSE Skipped(h, n + 1)
      /\ OpenAt(g, n + 2) <=> IF t \in OpensAnchor THEN t # "</a>" ELSE OpenAt(h, n + 1)
      /\ Target(g, n + 2) = IF t \in Targets THEN t ELSE Target(h, n + 1)
  BY MarksNext
<1>3. /\ "<" \notin Tags /\ ">" \notin Tags
      /\ \A w \in Words : w \notin Tags /\ w # "<" /\ w # ">"
  BY TagsApart
<1>4. OpensAnchor \subseteq Tags /\ Targets \subseteq Tags /\ {"<script>", "</script>"} \subseteq Tags
  BY DEF OpensAnchor, Tags
<1>5. /\ p.in_tag <=> InTag(h, n + 1)
      /\ p.skip_content <=> Skipped(h, n + 1)
      /\ p.in_anchor <=> OpenAt(h, n + 1)
      /\ p.current_link_url = Target(h, n + 1)
      /\ p.text_buffer = PiecesAt(h, n + 1)
      /\ p.link_counter = Cardinality(LinkPlaces(h)) + 1
      /\ p.lines = LinesTo(h) /\ p.links = LinksTo(h)
  BY DEF Abreast
<1>6. PiecesAt(g, n + 2) = IF t \in Tags \cup {"<"} THEN <<>>
                           ELSE IF t \in Words /\ ~ InTag(h, n + 1) THEN Append(PiecesAt(h, n + 1), t)
                           ELSE PiecesAt(h, n + 1)
  BY TextNext
<1>7. t \notin Tags \cup {"<"} =>
        /\ Cardinality(LinkPlaces(g)) = Cardinality(LinkPlaces(h))
        /\ LinesTo(g) = LinesTo(h) /\ LinksTo(g) = LinksTo(h)
  BY GoesOn
<1>8. t \in Tags \/ t \in {"<", ">"} \/ t \in Words
  BY DEF Tokens
<1> HIDE DEF n, g, r
<1> SUFFICES /\ r.in_tag <=> InTag(g, n + 2)
             /\ r.skip_content <=> Skipped(g, n + 2)
             /\ r.in_anchor <=> OpenAt(g, n + 2)
             /\ r.current_link_url = Target(g, n + 2)
             /\ r.text_buffer = PiecesAt(g, n + 2)
             /\ r.link_counter = Cardinality(LinkPlaces(g)) + 1
             /\ r.lines = LinesTo(g) /\ r.links = LinksTo(g)
  BY <1>0 DEF Abreast, g, r
<1>9. CASE t \in Tags
  <2> DEFINE f == Flush(p)
             c == Close(f, t)
  <2>1. IsParser(f) /\ IsParser(c)
    BY FlushParser, CloseParser
  <2>2. /\ f.skip_content <=> Skipped(h, n + 1)
        /\ f.in_anchor <=> OpenAt(h, n + 1)
        /\ f.current_link_url = Target(h, n + 1)
        /\ f.text_buffer = PiecesAt(g, n + 2)
        /\ f.link_counter = Cardinality(LinkPlaces(g)) + 1
        /\ LinesTo(g) = f.lines \o (IF t = "<h1>" THEN <<Heading>> ELSE <<>>)
        /\ f.links = LinksTo(g)
    <3>1. Ended(h, t, n, f)
      <4> HIDE DEF f
      <4> QED BY <1>9, EndsText DEF n, f
    <3> QED BY <3>1 DEF Ended, g
  <2>3. r = [c EXCEPT !.in_tag = FALSE]
    BY <1>9 DEF Read, r
  <2> HIDE DEF f
  <2>4. /\ c.text_buffer = f.text_buffer
        /\ c.link_counter = f.link_counter /\ c.links = f.links
        /\ c.skip_content <=> IF t \in {"<script>", "</script>"} THEN t = "<script>" ELSE f.skip_content
        /\ c.in_anchor <=> IF t \in OpensAnchor THEN t # "</a>" ELSE f.in_anchor
        /\ c.current_link_url = IF t \in Targets THEN t ELSE f.current_link_url
        /\ c.lines = f.lines \o (IF t = "<h1>" THEN <<Heading>> ELSE <<>>)
    <3>1. Closed(f, t, c)
      BY <1>9, <2>1, CloseIs
    <3> HIDE DEF c
    <3> QED BY <3>1 DEF Closed
  <2>5. DOMAIN c = {"lines", "links", "link_counter", "in_tag", "text_buffer",
                    "skip_content", "current_link_url", "in_anchor"}
    BY <2>1 DEF IsParser
  <2> HIDE DEF c
  <2>6. /\ r.in_tag = FALSE /\ r.text_buffer = c.text_buffer /\ r.link_counter = c.link_counter
        /\ r.links = c.links /\ r.skip_content = c.skip_content /\ r.in_anchor = c.in_anchor
        /\ r.current_link_url = c.current_link_url /\ r.lines = c.lines
    BY <2>3, <2>5
  <2>7. t \in Tags \cup {"<", ">"} /\ t # "<"
    BY <1>3, <1>9
  <2>8. r.in_tag <=> InTag(g, n + 2)
    BY <1>2, <2>6, <2>7
  <2>9. (r.skip_content <=> Skipped(g, n + 2)) /\ (r.in_anchor <=> OpenAt(g, n + 2))
    BY <1>2, <2>2, <2>4, <2>6
  <2>10. r.current_link_url = Target(g, n + 2)
    BY <1>2, <2>2, <2>4, <2>6
  <2> QED BY <2>2, <2>4, <2>6, <2>8, <2>9, <2>10
<1>10. CASE t = "<"
  <2> DEFINE f == Flush(p)
  <2>1. IsParser(f)
    BY FlushParser
  <2>2. /\ f.skip_content <=> Skipped(h, n + 1)
        /\ f.in_anchor <=> OpenAt(h, n + 1)
        /\ f.current_link_url = Target(h, n + 1)
        /\ f.text_buffer = PiecesAt(g, n + 2)
        /\ f.link_counter = Cardinality(LinkPlaces(g)) + 1
        /\ LinesTo(g) = f.lines \o (IF t = "<h1>" THEN <<Heading>> ELSE <<>>)
        /\ f.links = LinksTo(g)
    <3>1. Ended(h, t, n, f)
      <4> HIDE DEF f
      <4> QED BY <1>10, EndsText DEF n, f
    <3> QED BY <3>1 DEF Ended, g
  <2>3. r = [f EXCEPT !.in_tag = TRUE]
    BY <1>3, <1>10 DEF Read, r
  <2> HIDE DEF f
  <2>4. DOMAIN f = {"lines", "links", "link_counter", "in_tag", "text_buffer",
                    "skip_content", "current_link_url", "in_anchor"} /\ IsList(f.lines)
    BY <2>1 DEF IsParser
  <2>5. LinesTo(g) = f.lines
    BY <1>10, <2>2, <2>4, ListJoin
  <2>6. /\ r.in_tag = TRUE /\ r.text_buffer = f.text_buffer /\ r.link_counter = f.link_counter
        /\ r.links = f.links /\ r.skip_content = f.skip_content /\ r.in_anchor = f.in_anchor
        /\ r.current_link_url = f.current_link_url /\ r.lines = f.lines
    BY <2>3, <2>4
  <2>7. t \notin Tags /\ t \notin {"<script>", "</script>"} /\ t \notin OpensAnchor /\ t \notin Targets
    BY <1>3, <1>4, <1>10
  <2>8. r.in_tag <=> InTag(g, n + 2)
    BY <1>2, <1>10, <2>6
  <2>9. (r.skip_content <=> Skipped(g, n + 2)) /\ (r.in_anchor <=> OpenAt(g, n + 2))
        /\ r.current_link_url = Target(g, n + 2)
    BY <1>2, <2>2, <2>6, <2>7
  <2> QED BY <2>2, <2>5, <2>6, <2>8, <2>9
<1>11. CASE t \notin Tags /\ t # "<"
  <2>1. t \notin {"<script>", "</script>"} /\ t \notin OpensAnchor /\ t \notin Targets
    BY <1>4, <1>11
  <2>2. /\ Cardinality(LinkPlaces(g)) = Cardinality(LinkPlaces(h))
        /\ LinesTo(g) = LinesTo(h) /\ LinksTo(g) = LinksTo(h)
    BY <1>7, <1>11
  <2>3. /\ Skipped(g, n + 2) <=> Skipped(h, n + 1)
        /\ OpenAt(g, n + 2) <=> OpenAt(h, n + 1)
        /\ Target(g, n + 2) = Target(h, n + 1)
    BY <1>2, <2>1
  <2>4. CASE t = ">"
    <3>1. r = [p EXCEPT !.in_tag = FALSE]
      BY <1>11, <2>4 DEF Read, r
    <3>2. t \notin Words
      BY <1>3, <2>4
    <3>3. PiecesAt(g, n + 2) = PiecesAt(h, n + 1) /\ ~ InTag(g, n + 2)
      BY <1>2, <1>6, <1>11, <2>4, <3>2
    <3>4. /\ r.in_tag = FALSE /\ r.text_buffer = p.text_buffer /\ r.link_counter = p.link_counter
          /\ r.links = p.links /\ r.skip_content = p.skip_content /\ r.in_anchor = p.in_anchor
          /\ r.current_link_url = p.current_link_url /\ r.lines = p.lines
      BY <1>1, <3>1
    <3> QED BY <1>5, <2>2, <2>3, <3>3, <3>4
  <2>5. CASE t # ">"
    <3>1. t \in Words /\ t \notin Tags \cup {"<", ">"}
      BY <1>8, <1>11, <2>5
    <3>2. InTag(g, n + 2) <=> InTag(h, n + 1)
      BY <1>2, <3>1
    <3>3. CASE p.in_tag
      <4>1. r = p
        BY <1>11, <2>5, <3>3 DEF Read, r
      <4>2. PiecesAt(g, n + 2) = PiecesAt(h, n + 1)
        BY <1>5, <1>6, <3>1, <3>3
      <4> QED BY <1>5, <2>2, <2>3, <3>2, <4>1, <4>2
    <3>4. CASE ~ p.in_tag
      <4>1. r = [p EXCEPT !.text_buffer = Append(p.text_buffer, t)]
        BY <1>11, <2>5, <3>4 DEF Read, r
      <4>2. PiecesAt(g, n + 2) = Append(PiecesAt(h, n + 1), t)
        BY <1>5, <1>6, <3>1, <3>4
      <4>3. /\ r.in_tag = p.in_tag /\ r.text_buffer = Append(p.text_buffer, t)
            /\ r.link_counter = p.link_counter
            /\ r.links = p.links /\ r.skip_content = p.skip_content /\ r.in_anchor = p.in_anchor
            /\ r.current_link_url = p.current_link_url /\ r.lines = p.lines
        BY <1>1, <4>1
      <4> QED BY <1>5, <2>2, <2>3, <3>2, <4>2, <4>3
    <3> QED BY <3>3, <3>4
  <2> QED BY <2>4, <2>5
<1> QED BY <1>9, <1>10, <1>11

\* Where the page ends, the last text is shown too.
LEMMA AbreastFinds ==
  ASSUME NEW h \in Seq(Tokens), NEW p, IsParser(p), Abreast(h, p)
  PROVE  [lines |-> Finish(p).lines, links |-> p.links] = Found(h)
<1> DEFINE n == Len(h)
           text == Decoded(TextAt(h, n + 1))
<1>1. DecodeEntities(Trim(p.text_buffer)) = text /\ (Shows(p) <=> ShownAt(h, n + 1))
  BY SameText
<1>2. p.lines = LinesTo(h) /\ p.links = LinksTo(h)
  BY DEF Abreast
<1>3. /\ Found(h) = [lines |-> LinesTo(h) \o LinesAt(h, n + 1), links |-> LinksTo(h)]
      /\ LinesAt(h, n + 1) = IF ShownAt(h, n + 1) THEN <<Line(text)>> ELSE <<>>
  BY FoundAtEnd
<1> HIDE DEF n, text
<1>4. p.lines \o <<>> = p.lines /\ Append(p.lines, Line(text)) = p.lines \o <<Line(text)>>
  BY ListJoin DEF IsParser
<1>5. Finish(p).lines = IF Shows(p) THEN Append(p.lines, Line(text)) ELSE p.lines
  <2> DEFINE line == Line(text)
  <2>1. Finish(p) = IF Shows(p) THEN [p EXCEPT !.lines = Append(p.lines, line)] ELSE p
    BY <1>1 DEF Finish
  <2> HIDE DEF line
  <2>2. "lines" \in DOMAIN p
    BY DEF IsParser
  <2>3. [p EXCEPT !.lines = Append(p.lines, line)].lines = Append(p.lines, line)
    BY <2>2
  <2> QED BY <2>1, <2>3 DEF line
<1>6. Finish(p).lines = LinesTo(h) \o LinesAt(h, n + 1)
  <2> DEFINE line == Line(text)
  <2> HIDE DEF line
  <2> QED BY <1>1, <1>2, <1>3, <1>4, <1>5 DEF line
<1> QED BY <1>2, <1>3, <1>6

-----------------------------------------------------------------------------
PageAbreast == PageOK /\ Abreast(html, parser)

LEMMA PageAbreastStep == PageAbreast /\ [PageNext]_page => PageAbreast'
<1> SUFFICES ASSUME PageAbreast, [PageNext]_page PROVE PageAbreast'
  OBVIOUS
<1>1. PageOK'
  BY PageStep DEF PageAbreast
<1>2. CASE PageNext
  <2>1. PICK token \in Tokens : html' = Append(html, token) /\ parser' = Read(parser, token)
    BY <1>2 DEF PageNext
  <2>2. Abreast(Append(html, token), Read(parser, token))
    BY AbreastStep DEF PageAbreast, PageOK
  <2>3. Abreast(html, parser)'
    BY <2>1, <2>2 DEF Abreast
  <2> QED BY <1>1, <2>3 DEF PageAbreast
<1>3. CASE UNCHANGED page
  BY <1>1, <1>3 DEF page, PageAbreast, Abreast
<1> QED BY <1>2, <1>3

\* For every page, however long: what parse_html has shown when the page ends is
\* the text and the links that stand in it.
THEOREM AlwaysFindsTheText == Spec => []FindsTheText
<1>1. Init => PageAbreast
  BY NewParserIs, AbreastFirst DEF Init, PageAbreast, PageOK
<1>2. PageAbreast /\ [Next]_vars => PageAbreast'
  BY OneAtATime, PageAbreastStep
<1>3. PageAbreast => FindsTheText
  BY AbreastFinds DEF PageAbreast, PageOK, FindsTheText
<1> QED BY <1>1, <1>2, <1>3, PTL DEF Spec
=============================================================================
