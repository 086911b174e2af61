----------------------------- MODULE GraphicsConsole -----------------------------
(***************************************************************************)
(* The text console that GraphicsConsole.c draws on a Graphics Output       *)
(* protocol; the one of SimpleFbDxe has a single mode, so that only the     *)
(* size of the text changes.  The cursor is drawn over a cell by exclusive  *)
(* or with the colour of the text, and erased by the same call.  A string is *)
(* written in steps, one for each turn of the loop in OutputString; beside  *)
(* it a terminal takes the same characters, one after the other.            *)
(*                                                                         *)
(* A cell holds a character, a half of a wide one or a blank; ink is the    *)
(* set of colours the cursor has left there.  The column behind the last    *)
(* one is part of the screen, though not of the text.                       *)
(***************************************************************************)
EXTENDS Integers, SequencesExt, FiniteSetsExt

CONSTANTS
  Columns, Rows,   \* of each text mode, as sequences: mode n is their item n + 1
  Color,           \* of the text
  Strings          \* bound: what is written

Control == {"backspace", "line feed", "carriage return", "wide", "narrow"}

\* A wide character has room in each line.  Mode 1 without a size is not set.
ASSUME ConsoleAssumption ==
  /\ Columns \in Seq(Nat \ {0, 1}) /\ Rows \in Seq(Nat \ {0})
  /\ Len(Columns) = Len(Rows) /\ Columns # <<>>
  /\ Color # {} /\ Strings \subseteq Seq(Control \cup {" ", "x"})

VARIABLES
  started,     \* the protocol is installed
  mode,        \* -1 before the first SetMode
  at,          \* the cursor, a column and a row
  visible,
  color,
  text,        \* what is in each cell
  ink,         \* what the cursor has left there
  line,        \* the line buffer
  writing,     \* OutputString is under way
  WString,     \* what it has yet to write
  wide,        \* EFI_WIDE_ATTRIBUTE
  upset,       \* history: a SetMode has failed since the screen was last cleared
  term,        \* history: the terminal this console should be
  behind       \* history: the characters it has yet to take

record == <<started, mode, visible, color, line>>
loop == <<writing, WString, wide>>
terminal == <<term, behind>>
consoleVars == <<record, at, text, ink, loop, upset, terminal>>

Mode == 0..Len(Columns) - 1
Cell == (0..Max(ToSet(Columns))) \X (0..Max(ToSet(Rows)) - 1)
Blank == [c \in Cell |-> " "]
Clean == [c \in Cell |-> {}]
DefaultColor == CHOOSE c \in Color : TRUE

-----------------------------------------------------------------------------
(* Drawing.  A pen is what a call to OutputString changes, with the size of *)
(* the text, whether the cursor is visible and the colour.                  *)

Here ==
  [columns |-> Columns[mode + 1], rows |-> Rows[mode + 1], at |-> at, visible |-> visible, color |-> color,
   wide |-> wide, text |-> text, ink |-> ink]

Appears(p) == at' = p.at /\ text' = p.text /\ ink' = p.ink

\* The pen for a screen that has just been filled.
Page(n) ==
  [columns |-> Columns[n + 1], rows |-> Rows[n + 1], at |-> <<0, 0>>, visible |-> FALSE, color |-> DefaultColor,
   wide |-> FALSE, text |-> Blank, ink |-> Clean]

FlushCursor(p) ==
  IF p.visible THEN [p EXCEPT !.ink[p.at] = SymDiff(@, {p.color})] ELSE p

MoveTo(p, column, row) == [p EXCEPT !.at = <<column, row>>]

\* The lines move up, with all there is on them; the last one is filled.
Scroll(p) ==
  LET below(c) == <<c[1], c[2] + 1>>
      inText(c) == c[1] < p.columns /\ c[2] < p.rows
      last(c) == c[2] = p.rows - 1 IN
  [p EXCEPT !.text = [c \in Cell |-> IF ~inText(c) THEN @[c] ELSE IF last(c) THEN " " ELSE @[below(c)]],
            !.ink = [c \in Cell |-> IF ~inText(c) THEN @[c] ELSE IF last(c) THEN {} ELSE @[below(c)]]]

LineFeed(p) ==
  IF p.at[2] = p.rows - 1 THEN Scroll(p) ELSE MoveTo(p, p.at[1], p.at[2] + 1)

\* CR and LF.
NewLine(p) == LineFeed(MoveTo(p, 0, p.at[2]))

Width(p) == IF p.wide THEN 2 ELSE 1

\* DrawUnicodeWeightAtCursorN, for characters of the same width.
Draw(p, chars) ==
  LET covered == {<<c, p.at[2]>> : c \in p.at[1]..p.at[1] + Width(p) * Len(chars) - 1}
      of(c) == chars[(c[1] - p.at[1]) \div Width(p) + 1] IN
  [p EXCEPT !.text = [c \in Cell |-> IF c \in covered THEN of(c) ELSE @[c]],
            !.ink = [c \in Cell |-> IF c \in covered THEN {} ELSE @[c]]]

\* How many characters fit on the line, and how many columns the cursor goes
\* on: two too many if a wide one does not fit in the column that is left.
Printable(str, i) == i <= Len(str) /\ str[i] \notin Control
Count(p, str) ==
  Max({n \in 0..Len(str) : (\A i \in 1..n : Printable(str, i)) /\ p.at[1] + Width(p) * n <= p.columns})

Odd(p, str) ==
  p.wide /\ Printable(str, Count(p, str) + 1) /\ p.at[1] + 2 * Count(p, str) = p.columns - 1
IndexAfter(p, str) == Width(p) * Count(p, str) + IF Odd(p, str) THEN 2 ELSE 0

DrawRun(p, str) ==
  MoveTo(Draw(p, SubSeq(str, 1, Count(p, str))), p.at[1] + IndexAfter(p, str), p.at[2])

\* At the end of a line; CrLfString is written with the cursor erased, which
\* the nested call draws first.
Wrapped(p) ==
  IF p.at[1] >= p.columns
  THEN LET nested == FlushCursor(NewLine(FlushCursor(FlushCursor(p)))) IN FlushCursor(nested)
  ELSE p

\* The nested call that writes SpaceStr, a narrow space, and restores the width.
\* It starts with the cursor erased and leaves it drawn.
WriteSpace(p) ==
  LET narrow == [FlushCursor(p) EXCEPT !.wide = FALSE] IN
  FlushCursor([Wrapped(DrawRun(narrow, <<" ">>)) EXCEPT !.wide = p.wide])

\* A blank in the last column, where a wide character has no room.
Padded(p) ==
  IF p.at[1] > p.columns THEN WriteSpace(MoveTo(p, p.at[1] - 2, p.at[2])) ELSE p

\* A space is written over the character before the cursor, which from the
\* start of a line is at the end of the line above; the space takes the cursor
\* on, and it is put back.
Backspace(p) ==
  LET blanked(column, row) == FlushCursor(WriteSpace(MoveTo(p, column, row)))
      up == blanked(p.columns - 1, p.at[2] - 1)
      left == blanked(p.at[1] - 1, p.at[2]) IN
  CASE p.at[1] = 0 /\ p.at[2] > 0 -> MoveTo(up, p.columns - 1, up.at[2] - 1)
    [] p.at[1] > 0 -> MoveTo(left, left.at[1] - 1, left.at[2])
    [] OTHER -> p

\* One turn of the loop: a control character, or as much text as fits.
Turn(p, str) ==
  CASE Head(str) = "backspace" -> Backspace(p)
    [] Head(str) = "line feed" -> LineFeed(p)
    [] Head(str) = "carriage return" -> MoveTo(p, 0, p.at[2])
    [] Head(str) = "wide" -> [p EXCEPT !.wide = TRUE]
    [] Head(str) = "narrow" -> [p EXCEPT !.wide = FALSE]
    [] OTHER -> Wrapped(Padded(DrawRun(p, str)))

\* The characters that a turn is done with.
Taken(p, str) == IF Head(str) \in Control THEN 1 ELSE Count(p, str)

-----------------------------------------------------------------------------
(* What the console should be: a terminal, a pen without a cursor that       *)
(* takes one character after the other.                                    *)

\* The place for the next character, and the end of a line.
Fitted(t) ==
  IF t.at[1] + Width(t) > t.columns
  THEN NewLine([t EXCEPT !.text[<<t.columns - 1, t.at[2]>>] = " "]) ELSE t
AtEnd(t) == IF t.at[1] = t.columns THEN NewLine(t) ELSE t

Put(t, ch) ==
  LET u == Fitted(t) IN AtEnd(MoveTo(Draw(u, <<ch>>), u.at[1] + Width(u), u.at[2]))

Erase(t) ==
  LET before == IF t.at[1] > 0 THEN <<t.at[1] - 1, t.at[2]>> ELSE <<t.columns - 1, t.at[2] - 1>> IN
  IF t.at = <<0, 0>> THEN t ELSE [t EXCEPT !.at = before, !.text[before] = " "]

TermStep(t, ch) ==
  CASE ch = "backspace" -> Erase(t)
    [] ch = "line feed" -> LineFeed(t)
    [] ch = "carriage return" -> MoveTo(t, 0, t.at[2])
    [] ch \in {"wide", "narrow"} -> [t EXCEPT !.wide = (ch = "wide")]
    [] OTHER -> Put(t, ch)

-----------------------------------------------------------------------------
(* The driver binding.                                                     *)

ConsoleInit ==
  /\ started = FALSE
  /\ mode = -1 /\ at = <<0, 0>> /\ visible = TRUE /\ color = DefaultColor
  /\ text = Blank /\ ink = Clean /\ line = "none" /\ upset = FALSE
  /\ writing = FALSE /\ WString = <<>> /\ wide = FALSE
  /\ term = Page(0) /\ behind = <<>>

\* The screen is filled, the cursor drawn in its corner.
Blanked(n) ==
  /\ Appears(FlushCursor([Page(n) EXCEPT !.visible = visible', !.color = color']))
  /\ upset' = FALSE /\ term' = Page(n)
  /\ UNCHANGED <<loop, behind>>

\* The device's record comes from the template.
Template == mode' = -1 /\ at' = <<0, 0>> /\ visible' = TRUE /\ color' = DefaultColor /\ line' = "none"

\* The protocol is installed; a debug build sets mode 0 first.  GraphicsBinding
\* has what comes before, and how it fails.
Start ==
  /\ ~started
  /\ \/ Template /\ started' = TRUE /\ UNCHANGED <<text, ink, loop, upset, terminal>>
     \/ /\ started' = TRUE
        /\ mode' = 0 /\ visible' = TRUE /\ color' = DefaultColor /\ line' = "live"
        /\ Blanked(0)

\* The record is freed; nobody asks any more what is on the screen.
Stop ==
  /\ started /\ ~writing
  /\ \/ UNCHANGED consoleVars
     \/ /\ started' = FALSE /\ Template
        /\ text' = Blank /\ ink' = Clean /\ upset' = FALSE /\ term' = Page(0)
        /\ UNCHANGED <<loop, behind>>

-----------------------------------------------------------------------------
(* The calls.  The console splitter sets a mode before anything else.       *)
(* OutputString runs at TPL_NOTIFY, so that no other call comes between.     *)

Ready == started /\ mode >= 0 /\ ~writing

ClearScreen ==
  /\ Ready
  /\ UNCHANGED record
  /\ Blanked(mode)

\* The current mode is only cleared; for another one the cursor is erased and
\* the line buffer freed before there is a new one.
SetMode(n) ==
  /\ started /\ ~writing
  /\ UNCHANGED <<started, visible, color>>
  /\ \/ /\ line # "none" /\ n = mode
        /\ UNCHANGED <<mode, line>>
        /\ Blanked(mode)
     \/ /\ line = "none" \/ n # mode
        /\ line' = "live" /\ mode' = n
        /\ Blanked(n)

\* Bound: one failure until the screen is cleared.
SetModeFails(n) ==
  /\ started /\ ~writing /\ ~upset /\ (line = "none" \/ n # mode)
  /\ IF line = "none" THEN UNCHANGED <<line, ink, upset>>
     ELSE line' = "freed" /\ ink' = FlushCursor(Here).ink /\ upset' = TRUE
  /\ UNCHANGED <<started, mode, at, visible, color, text, loop, terminal>>

\* What a call draws when the cursor is erased, the change made, the cursor drawn.
Redrawn(change(_)) == Appears(FlushCursor(change(FlushCursor(Here))))

SetAttribute(c) ==
  /\ Ready /\ c # color
  /\ color' = c
  /\ Redrawn(LAMBDA p : [p EXCEPT !.color = c])
  /\ UNCHANGED <<started, mode, visible, line, loop, upset, terminal>>

\* Mutant: the cursor is drawn at its new place, but not erased before.
SetCursorPosition_NoErase(where) ==
  /\ Ready /\ where # at
  /\ where[1] < Columns[mode + 1] /\ where[2] < Rows[mode + 1]
  /\ at' = where /\ ink' = FlushCursor([Here EXCEPT !.at = where]).ink
  /\ term' = [term EXCEPT !.at = where]
  /\ UNCHANGED <<record, text, loop, upset, behind>>

SetCursorPosition(where) ==
  /\ Ready /\ where # at
  /\ where[1] < Columns[mode + 1] /\ where[2] < Rows[mode + 1]
  /\ Redrawn(LAMBDA p : [p EXCEPT !.at = where])
  /\ term' = [term EXCEPT !.at = where]
  /\ UNCHANGED <<record, loop, upset, behind>>

EnableCursor(v) ==
  /\ Ready
  /\ visible' = v
  /\ Redrawn(LAMBDA p : [p EXCEPT !.visible = v])
  /\ UNCHANGED <<started, mode, color, line, loop, upset, terminal>>

\* The cursor is erased, the string written, the width restored.
OutputString(str) ==
  /\ Ready
  /\ writing' = TRUE /\ WString' = str
  /\ Appears(FlushCursor(Here))
  /\ UNCHANGED <<record, wide, upset, terminal>>

Loop ==
  /\ writing /\ WString # <<>> /\ behind = <<>>
  /\ LET p == Turn(Here, WString)
         n == Taken(Here, WString) IN
     /\ Appears(p) /\ wide' = p.wide
     /\ WString' = SubSeq(WString, n + 1, Len(WString))
     /\ behind' = SubSeq(WString, 1, n)
  /\ UNCHANGED <<record, writing, upset, term>>

OutputReturns ==
  /\ writing /\ WString = <<>> /\ behind = <<>>
  /\ writing' = FALSE /\ wide' = FALSE
  /\ Appears(FlushCursor(Here))
  /\ term' = [term EXCEPT !.wide = FALSE]
  /\ UNCHANGED <<record, WString, upset, behind>>

\* The terminal takes what the loop has written before the loop goes on.
TermTakes ==
  /\ behind # <<>>
  /\ term' = TermStep(term, Head(behind)) /\ behind' = Tail(behind)
  /\ UNCHANGED <<record, at, text, ink, loop, upset>>

\* GraphicsConsoleConOutReset: mode 0, and the colour as it is on black.
Reset == SetMode(0)

ConsoleNext ==
  \/ Start \/ Stop \/ ClearScreen \/ Reset
  \/ \E n \in Mode : SetMode(n) \/ SetModeFails(n)
  \/ \E c \in Color : SetAttribute(c)
  \/ \E where \in Cell : SetCursorPosition(where)
  \/ \E v \in BOOLEAN : EnableCursor(v)
  \/ \E str \in Strings : OutputString(str)
  \/ Loop \/ OutputReturns \/ TermTakes

ConsoleSpec == ConsoleInit /\ [][ConsoleNext]_consoleVars

-----------------------------------------------------------------------------
(* Properties.                                                             *)

\* Every variable has its type; the cursor is in the text.
ConsoleTypeOK ==
  /\ {started, visible, writing, wide, upset} \subseteq BOOLEAN
  /\ mode \in {-1} \cup Mode /\ color \in Color /\ line \in {"none", "live", "freed"}
  /\ text \in [Cell -> {" ", "x"}] /\ ink \in [Cell -> SUBSET Color]
  /\ WString \in Seq(Control \cup {" ", "x"})
  /\ mode >= 0 => at[1] \in 0..Columns[mode + 1] - 1 /\ at[2] \in 0..Rows[mode + 1] - 1

\* Between two calls the cursor is on the screen where it is, if it is visible,
\* and nowhere else: each exclusive or has been undone by another (lines 950,
\* 966-982, 1133-1142, 1148, 1455, 1500-1504, 1652-1657, 1698-1702, 1899-2004).
CursorShown ==
  Ready /\ ~upset =>
    ink = [c \in Cell |-> IF visible /\ c = at THEN {color} ELSE {}]

\* The text, and the cursor, are those of a terminal that takes one character
\* after the other, wraps, scrolls and pads (lines 959-1144).
TextIsTerminals ==
  Ready => text = term.text /\ at = term.at

\* What is seen after every call is what the abstract terminal shows, the cursor
\* included, whatever was called before.
ScreenIsTerminal == ConsoleTypeOK /\ CursorShown /\ TextIsTerminals
=============================================================================
