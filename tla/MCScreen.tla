------------------------------- MODULE MCScreen -------------------------------
(***************************************************************************)
(* What the phone shows, each part on its own: the graphics console and its *)
(* driver binding, the console on the frame buffer, and the applications:  *)
(* the boot menu, the memory dump and Tetris.                              *)
(***************************************************************************)
EXTENDS GraphicsConsole, GraphicsBinding, FbCon, MemoryDump

VARIABLES
  focus,  \* the part a behaviour is about
  pc, back, pressed, Timeout, MenuOptions, MenuOptionCount, SelectedIndex, rows, lit,
  textMode, InitialMode, before, files, watchdog, feed, due,
  gameState, tickCounter, gamePc, fields, piece, nextPiece, blocked, pile, inPause

MCColumns == <<3, 2>>
MCRows == <<2, 2>>
\* Each control character alone and between others; runs that wrap once and
\* twice, and wide ones that an odd column stops.
MCStrings ==
  {<<"x">>, <<"backspace">>, <<"line feed">>, <<"carriage return">>,
   <<"wide", "x">>, <<"x", "x", "x", "x">>, <<"x", "wide", "x", "x", "narrow", "x">>,
   <<"x", "x", "backspace", "backspace">>, <<"wide", "backspace", "x", "line feed", "x">>}

\* The smallest screen that shows mode 0, the phone's, and three others.
MCResolution == {<<320, 228>>, <<480, 800>>, <<800, 600>>, <<1281, 1023>>}
MCPcdVideo == {<<0, 0>>, <<480, 800>>}

Boot == INSTANCE Menu WITH Countdown <- 2, Volumes <- 2, mode <- textMode

\* Three rows to see, and two pieces: one that turns and one that does not.
Game == INSTANCE Tetris WITH
  BOARD_WIDTH <- 3, BOARD_HEIGHT <- 5, StartX <- 0, Kinds <- {"O", "J"}, GAME_REFRESH_PERIOD <- 1,
  pc <- gamePc

menuVars == <<pc, back, pressed, Timeout, MenuOptions, MenuOptionCount, SelectedIndex, rows, lit,
              textMode, InitialMode, before, files, watchdog, feed, due>>
tetrisVars == <<gameState, tickCounter, gamePc, fields, piece, nextPiece, blocked, pile, inPause>>
consolesVars == <<consoleVars, bindingVars, fbVars>>
appVars == <<menuVars, dumpVars, tetrisVars>>

MCInit ==
  /\ focus \in {"console", "binding", "frame buffer", "menu", "dump", "tetris"}
  /\ ConsoleInit /\ BindingInit /\ FbInit
  /\ Boot!MenuInit /\ DumpInit /\ Game!TetrisInit
  /\ focus # "menu" => files = [v \in 1..2 |-> "none"]
  /\ focus # "tetris" => piece.kind = "O" /\ nextPiece = "O"
  /\ focus # "binding" => display = SimpleFb /\ pcd = <<480, 800>>
  /\ on \* a first write with interrupts off is left to the theorem

\* Bound: a writer that comes in while another one writes has one character.
ShortInside == \A i \in 2..Len(writers) : writers[i].left <= 1

ConsoleStep ==
  \/ focus = "console" /\ ConsoleNext /\ UNCHANGED <<bindingVars, fbVars>>
  \/ focus = "binding" /\ BindingNext /\ UNCHANGED <<consoleVars, fbVars>>
  \/ focus = "frame buffer" /\ FbNext /\ ShortInside' /\ UNCHANGED <<consoleVars, bindingVars>>

AppStep ==
  \/ focus = "menu" /\ Boot!MenuNext /\ UNCHANGED <<dumpVars, tetrisVars>>
  \/ focus = "dump" /\ DumpNext /\ UNCHANGED <<menuVars, tetrisVars>>
  \/ focus = "tetris" /\ Game!TetrisNext /\ UNCHANGED <<menuVars, dumpVars>>

MCNext ==
  /\ UNCHANGED focus
  /\ \/ ConsoleStep /\ UNCHANGED appVars
     \/ AppStep /\ UNCHANGED consolesVars

\* The fairness of the menu and of Tetris.
MCSpec ==
  /\ MCInit /\ [][MCNext]_<<focus, consolesVars, appVars>>
  /\ WF_menuVars(focus = "menu" /\ Boot!MenuStep)
  /\ WF_gamePc(focus = "tetris" /\ Game!Turns)
  /\ WF_tetrisVars(focus = "tetris" /\ Game!TimerCallback)

\* The properties of the parts, each stated in its module; what has to happen
\* is about the behaviours of its part.
MenuGoesOn == Boot!MenuRuns /\ (focus = "menu" => Boot!CountdownEnds)
GameIsRight == Game!RulesHold /\ (focus = "tetris" => Game!GameGoesOn)
=============================================================================
