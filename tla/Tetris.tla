--------------------------------- MODULE Tetris ---------------------------------
(***************************************************************************)
(* The game of the boot menu, TetrisApp: the loop that reads a key and draws, *)
(* the timer event that counts down beside it, and the board.  The code      *)
(* keeps one array for the pile and the falling piece together: the pile is  *)
(* kept here as well, the way the rules of the game tell.                   *)
(***************************************************************************)
EXTENDS Integers, FiniteSets

CONSTANTS
  BOARD_WIDTH, BOARD_HEIGHT, \* 10 and 22 in the code
  StartX,              \* PIECE_STARTING_POS: 4 in the code, and row 0
  Kinds,               \* bound: the pieces that the random numbers choose
  GAME_REFRESH_PERIOD  \* 35 in the code

VARIABLES
  gameState, tickCounter,
  pc,       \* what the loop of UefiMain does next
  fields,   \* the colour of each field, by row and column
  piece,    \* activePiece: its kind, its rotation, its place
  nextPiece,
  blocked,
  pile,     \* the fields <<x, y>> of the pieces that lie
  inPause   \* how often the piece has gone down in this pause, 2 for more

tetrisVars == <<gameState, tickCounter, pc, fields, piece, nextPiece, blocked, pile, inPause>>
board == <<fields, piece, nextPiece, blocked, pile>>

INVISIBLE_ROWS_COUNT == 2
BoardColumns == 0..BOARD_WIDTH - 1
BoardRows == 0..BOARD_HEIGHT - 1
Visible == INVISIBLE_ROWS_COUNT..BOARD_HEIGHT - 1

\* The bodies of Piece.h, one for each rotation.
Bodies == [
  I |-> << {<<0,1>>, <<1,1>>, <<2,1>>, <<3,1>>}, {<<2,0>>, <<2,1>>, <<2,2>>, <<2,3>>},
           {<<0,2>>, <<1,2>>, <<2,2>>, <<3,2>>}, {<<1,0>>, <<1,1>>, <<1,2>>, <<1,3>>} >>,
  J |-> << {<<0,0>>, <<0,1>>, <<1,1>>, <<2,1>>}, {<<1,2>>, <<1,1>>, <<1,0>>, <<2,0>>},
           {<<0,1>>, <<1,1>>, <<2,1>>, <<2,2>>}, {<<0,2>>, <<1,2>>, <<1,1>>, <<1,0>>} >>,
  L |-> << {<<0,1>>, <<1,1>>, <<2,1>>, <<2,0>>}, {<<1,2>>, <<1,1>>, <<1,0>>, <<2,2>>},
           {<<0,1>>, <<1,1>>, <<2,1>>, <<0,2>>}, {<<0,0>>, <<1,2>>, <<1,1>>, <<1,0>>} >>,
  O |-> << {<<1,0>>, <<1,1>>, <<2,0>>, <<2,1>>}, {<<1,0>>, <<1,1>>, <<2,0>>, <<2,1>>},
           {<<1,0>>, <<1,1>>, <<2,0>>, <<2,1>>}, {<<1,0>>, <<1,1>>, <<2,0>>, <<2,1>>} >>,
  S |-> << {<<0,1>>, <<1,1>>, <<1,0>>, <<2,0>>}, {<<1,0>>, <<1,1>>, <<2,1>>, <<2,2>>},
           {<<0,2>>, <<1,2>>, <<1,1>>, <<2,1>>}, {<<0,0>>, <<0,1>>, <<1,1>>, <<1,2>>} >>,
  T |-> << {<<0,1>>, <<1,1>>, <<2,1>>, <<1,0>>}, {<<1,0>>, <<1,1>>, <<1,2>>, <<2,1>>},
           {<<0,1>>, <<1,1>>, <<2,1>>, <<1,2>>}, {<<1,0>>, <<1,1>>, <<1,2>>, <<0,1>>} >>,
  Z |-> << {<<2,1>>, <<1,1>>, <<1,0>>, <<0,0>>}, {<<1,2>>, <<1,1>>, <<2,1>>, <<2,0>>},
           {<<2,2>>, <<1,2>>, <<1,1>>, <<0,1>>}, {<<0,2>>, <<0,1>>, <<1,1>>, <<1,0>>} >>]

Cells(p) == {<<c[1] + p.x, c[2] + p.y>> : c \in Bodies[p.kind][p.rotation + 1]}

\* A piece at its starting place, and the two turns; rotation is 0 from randomize.
Loaded(kind) == [kind |-> kind, rotation |-> 0, x |-> StartX, y |-> 0]
RotateCW(p) == [p EXCEPT !.rotation = (@ + 1) % 4]
RotateCCW(p) == [p EXCEPT !.rotation = IF @ = 0 THEN 3 ELSE @ - 1]

\* The random numbers may choose any of the kinds.
Randomize == nextPiece' \in Kinds
LoadNextPiece == piece' = Loaded(nextPiece) /\ Randomize

ConstructPiece == nextPiece \in Kinds
ConstructBoard ==
  /\ fields = [y \in BoardRows |-> [x \in BoardColumns |-> "empty"]]
  /\ (\E kind \in Kinds : piece = Loaded(kind)) /\ ConstructPiece
  /\ blocked = FALSE /\ pile = {}

TetrisInit ==
  /\ gameState = "waiting" /\ tickCounter = GAME_REFRESH_PERIOD /\ pc = "input"
  /\ ConstructBoard /\ inPause = 0

-----------------------------------------------------------------------------
(* Board.c.                                                                *)

Coloured(f, cells, colour) ==
  [y \in BoardRows |-> [x \in BoardColumns |-> IF <<x, y>> \in cells THEN colour ELSE f[y][x]]]

\* markFieldsOccupiedByPiece; drawFieldsOccupiedByPiece sets the rows it shows.
Mark(f, p, colour) == Coloured(f, Cells(p), colour)
Draw(f, p, colour) == Coloured(f, {c \in Cells(p) : c[2] \in Visible}, colour)

IsMovePossible(f, p) ==
  \A c \in Cells(p) : c[1] \in BoardColumns /\ c[2] \in BoardRows /\ f[c[2]][c[1]] = "empty"

Lifted == Mark(fields, piece, "empty")
Redrawn(moved) == Draw(Draw(Lifted, piece, "empty"), moved, moved.kind)
Moved(dx, dy) == [piece EXCEPT !.x = @ + dx, !.y = @ + dy]

RotatePiece ==
  LET turned == RotateCW(piece) IN
  /\ IF IsMovePossible(Lifted, turned)
     THEN piece' = turned /\ fields' = Redrawn(turned)
     ELSE piece' = RotateCCW(turned) /\ fields' = Mark(Lifted, piece', piece.kind)
  /\ UNCHANGED <<nextPiece, blocked, pile>>

\* movePieceLeft, movePieceRight.
MoveAside(dx) ==
  /\ IF IsMovePossible(Lifted, Moved(dx, 0))
     THEN /\ piece' = Moved(dx, 0)
          /\ fields' = Mark(Redrawn(piece'), piece', piece.kind)
     ELSE fields' = Mark(Lifted, piece, piece.kind) /\ UNCHANGED piece
  /\ UNCHANGED <<nextPiece, blocked, pile>>

IsGameOver(p) == \E c \in Cells(p) : c[2] < INVISIBLE_ROWS_COUNT

Full(f, i) == \A x \in BoardColumns : f[i][x] # "empty"

\* The rows above a full one come down; redrawField leaves invisible rows alone.
Remove(f, i) == [y \in BoardRows |-> IF y \in INVISIBLE_ROWS_COUNT..i THEN f[y - 1] ELSE f[y]]

\* The row to look at after row i was removed: i++ makes up for the loop's --i.
After(i) == i

RECURSIVE CheckFrom(_, _)
CheckFrom(f, i) ==
  IF i < INVISIBLE_ROWS_COUNT THEN f
  ELSE IF Full(f, i) THEN CheckFrom(Remove(f, i), After(i)) ELSE CheckFrom(f, i - 1)
CheckAndRemoveLines(f) == CheckFrom(f, BOARD_HEIGHT - 1)

\* What the rules say of the pile: full rows go, and what lies above sinks by
\* as many rows.
Sunk(cells) ==
  LET full == {y \in BoardRows : \A x \in BoardColumns : <<x, y>> \in cells}
  IN {<<c[1], c[2] + Cardinality({y \in full : y > c[2]})>> : c \in {d \in cells : d[2] \notin full}}

\* placePiece, loadNextPiece.
PlacePiece(f, p) ==
  IF IsGameOver(p)
  THEN blocked' = TRUE /\ fields' = f /\ piece' = p /\ UNCHANGED <<nextPiece, pile>>
  ELSE /\ fields' = CheckAndRemoveLines(f)
       /\ pile' = Sunk(pile \cup Cells(p))
       /\ LoadNextPiece /\ UNCHANGED blocked

CanFall == IsMovePossible(Lifted, Moved(0, 1))

MovePieceDown ==
  IF CanFall THEN piece' = Moved(0, 1) /\ fields' = Redrawn(piece') /\ UNCHANGED <<nextPiece, blocked, pile>>
  ELSE PlacePiece(Mark(Lifted, piece, piece.kind), piece)

DropPiece ==
  LET heights == {h \in BoardRows : \A d \in 1..h : IsMovePossible(Lifted, Moved(0, d))}
      height == CHOOSE h \in heights : \A g \in heights : g <= h
  IN PlacePiece(Mark(Lifted, Moved(0, height), piece.kind), Moved(0, height))

-----------------------------------------------------------------------------
(* Core.c.                                                                 *)

Counts == gameState = "running" /\ tickCounter # 0

\* Any time between the loop's steps; inside of them it makes no difference.
TimerCallback ==
  /\ Counts /\ gameState # "exit" /\ tickCounter' = tickCounter - 1
  /\ UNCHANGED <<gameState, pc, board, inPause>>

\* The level stays 1.
ResetTickCounter == tickCounter' = GAME_REFRESH_PERIOD

\* Mutant: to turn the piece starts the period again.
Turn_Resets == RotatePiece /\ ResetTickCounter

Turn == RotatePiece /\ UNCHANGED tickCounter

\* What a key does while the game runs.
Play(key) ==
  \/ key = "home" /\ DropPiece /\ ResetTickCounter
  \/ key = "up" /\ MoveAside(-1) /\ UNCHANGED tickCounter
  \/ key = "down" /\ MoveAside(1) /\ UNCHANGED tickCounter
  \/ key = "return" /\ MovePieceDown /\ (IF CanFall THEN UNCHANGED tickCounter ELSE ResetTickCounter)
  \/ key = "tab" /\ Turn

Toggled == CASE gameState = "running" -> "paused" [] gameState = "paused" -> "running" [] OTHER -> gameState

HandleInput(key) ==
  /\ pc = "input" /\ gameState # "exit" /\ pc' = "draw"
  /\ IF key = "none" THEN UNCHANGED <<gameState, tickCounter, board, inPause>>
     ELSE IF gameState = "waiting" THEN gameState' = "running" /\ UNCHANGED <<tickCounter, board, inPause>>
     ELSE IF key = "escape" THEN gameState' = "exit" /\ UNCHANGED <<tickCounter, board, inPause>>
     ELSE IF key = "backspace"
     THEN gameState' = Toggled /\ inPause' = 0 /\ UNCHANGED <<tickCounter, board>>
     ELSE /\ IF gameState = "running" THEN Play(key) ELSE UNCHANGED <<tickCounter, board>>
          /\ UNCHANGED <<gameState, inPause>>

\* The state is not asked for when the counter is: a counter that has come to
\* zero before the pause still moves the piece.
DrawWindow ==
  /\ pc = "draw" /\ pc' = "input"
  /\ gameState' = IF gameState = "running" /\ blocked THEN "over" ELSE gameState
  /\ IF tickCounter = 0
     THEN /\ MovePieceDown /\ ResetTickCounter
          /\ inPause' = IF gameState = "paused" /\ inPause < 2 THEN inPause + 1 ELSE inPause
     ELSE UNCHANGED <<tickCounter, board, inPause>>

Keys == {"none", "home", "up", "down", "escape", "return", "tab", "backspace"}
Loop == (\E key \in Keys : HandleInput(key)) \/ DrawWindow
TetrisNext == Loop \/ TimerCallback
\* The loop goes on and the timer ticks.  A step of the loop is one that changes
\* pc, and it is possible until the game is left.
Turns == gameState # "exit" /\ pc' = IF pc = "input" THEN "draw" ELSE "input"
TetrisFairness == WF_pc(Turns) /\ WF_tetrisVars(TimerCallback)
TetrisSpec == TetrisInit /\ [][TetrisNext]_tetrisVars /\ TetrisFairness

-----------------------------------------------------------------------------
(* Properties.                                                             *)

\* The array holds the pile as the rules of the game make it, and the piece,
\* in the rows that are shown, and nothing else of the others
\* (checkAndRemoveLines, lines 253-290, and all that marks and draws).
FieldsAreRight ==
  /\ \A x \in BoardColumns, y \in Visible : fields[y][x] # "empty" <=> <<x, y>> \in pile \cup Cells(piece)
  /\ \A x \in BoardColumns, y \in BoardRows \ Visible : fields[y][x] # "empty" => <<x, y>> \in Cells(piece)

\* The piece is inside of the board and not in the pile, also the one that
\* comes in without having been asked for (isMovePossible, lines 140-155).
PieceFits == Cells(piece) \subseteq (BoardColumns \X BoardRows) \ pile

\* In a pause the piece goes down once at most (drawWindow, lines 86-99).
PauseHolds == inPause <= 1

\* A game that is not paused or over goes on, whatever the player does: a
\* piece comes down or is placed again and again (lines 86-99, 138-144).
Falls == piece'.y > piece.y \/ pile' # pile \/ nextPiece' # nextPiece
GameGoesOn == []<>(gameState # "running" \/ blocked) \/ []<><<Falls>>_tetrisVars

\* The rules of the game hold, whatever the player does, and the game goes on.
RulesHold == [](FieldsAreRight /\ PieceFits /\ PauseHolds)
=============================================================================
