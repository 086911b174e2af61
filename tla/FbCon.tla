--------------------------------- MODULE FbCon ---------------------------------
(***************************************************************************)
(* The text console on the frame buffer, FrameBufferSerialPortLib.c: writers *)
(* disable interrupts, but the one line that a new line jumps over leaves it *)
(* to the stack whether they come on again in the middle of a write.  From  *)
(* then on the writer of an interrupt handler may come in, between two       *)
(* characters and between any two steps of a new line.                     *)
(***************************************************************************)
EXTENDS Naturals, Sequences

CONSTANTS
  gWidth, gHeight, \* of the frame buffer, in pixels
  Depth,  \* bound: writers inside of each other
  Length  \* bound: characters of a write

VARIABLES
  m_Position,   \* x and y
  Foreground,   \* m_Color.Foreground
  on,           \* interrupts are enabled
  writers,      \* the writes that are going on, the innermost last
  pixels,       \* the glyphs that the frame buffer has, in the cache,
  memory,       \* and in the memory, which the screen shows
  returned,     \* CR moved the position back in this row
  torn          \* a writer came in while another was between two rows

fbVars == <<m_Position, Foreground, on, writers, pixels, memory, returned, torn>>

FONT_WIDTH == 5
FONT_HEIGHT == 12
MaxX == gWidth \div (FONT_WIDTH + 1)
MaxY == (gHeight - 1) \div FONT_HEIGHT
Cells == (0..MaxX - 1) \X (0..MaxY - 1)

\* A row has room for two characters, and there are three rows: with two, a new
\* line would clear the screen forever.  The phone's has 480 times 800 pixels.
ASSUME FbAssumption ==
  /\ {gWidth, gHeight, Depth, Length} \subseteq Nat
  /\ MaxX > 1 /\ MaxY > 2

ResetFb == [cell \in Cells |-> "black"]

\* Printable characters other than the space differ in nothing.
Chars == {"letter", "space", "newline", "return", "other"}

FbInit ==
  /\ m_Position = [x |-> 0, y |-> 0] /\ Foreground = "white"
  /\ on \in BOOLEAN /\ writers = <<>>
  /\ pixels = ResetFb /\ memory = ResetFb /\ returned = FALSE
  /\ torn = FALSE

Writer == writers[Len(writers)]
Above(writer) == [writers EXCEPT ![Len(writers)] = writer]

\* The innermost writer is the one that runs.
At(pc) == writers # <<>> /\ Writer.pc = pc
GoesTo(pc) == writers' = Above([Writer EXCEPT !.pc = pc])
Done(writer) == [writer EXCEPT !.pc = "next", !.char = "none"]

-----------------------------------------------------------------------------
(* FbConDrawglyph: the pixels that a glyph touches.  Two walks of two halves, *)
(* one for the background and one for the foreground, of six rows each; a    *)
(* pointer goes on from row to row by the stride.                          *)

Stride == gWidth - FONT_WIDTH

Corner(cell) == cell[2] * FONT_HEIGHT * gWidth + cell[1] * (FONT_WIDTH + 1)

\* Where the pointer is at column x of row y of a half that starts there.
Pixel(start, x, y) == start + y * (FONT_WIDTH + Stride) + x
Half(start) == {Pixel(start, x, y) : x \in 0..FONT_WIDTH - 1, y \in 0..(FONT_HEIGHT \div 2) - 1}
Background(start) == Half(start) \cup Half(Pixel(start, 0, FONT_HEIGHT \div 2))
Glyph(start) == Half(start) \cup Half(Pixel(start, 0, FONT_HEIGHT \div 2))
Drawn(cell) == Background(Corner(cell)) \cup Glyph(Corner(cell))

-----------------------------------------------------------------------------
(* FbConPutCharWithFactor, with a scale factor of 1.                        *)

\* The steps of a new line between which y, x and the screen do not fit: another
\* writer that comes in there writes where the first one will write again.
BetweenRows == {"store", "column", "clear", "home"}
OuterBetweenRows == \E i \in 1..Len(writers) - 1 : writers[i].pc \in BetweenRows

\* Characters without a glyph, and the space at the beginning of a row.
Dropped(char) == char = "other" \/ (char = "space" /\ m_Position.x = 0)

\* The next character of the buffer, or after a clear the same again (goto paint),
\* and where it leads to; y += 1 reads y first.
PutChar(char) ==
  /\ (At("next") /\ Writer.left > 0) \/ (At("paint") /\ Writer.char = char)
  /\ LET taken == [Writer EXCEPT !.char = char, !.left = IF Writer.pc = "next" THEN @ - 1 ELSE @] IN
     \/ /\ char = "newline" /\ writers' = Above([taken EXCEPT !.pc = "store", !.row = m_Position.y])
        /\ UNCHANGED <<m_Position, returned>>
     \/ /\ char = "return" /\ writers' = Above(Done(taken))
        /\ m_Position' = [m_Position EXCEPT !.x = 0] /\ returned' = TRUE
     \/ Dropped(char) /\ writers' = Above(Done(taken)) /\ UNCHANGED <<m_Position, returned>>
     \/ /\ char = "letter" \/ (char = "space" /\ m_Position.x > 0)
        /\ writers' = Above([taken EXCEPT !.pc = "glyph"]) /\ UNCHANGED <<m_Position, returned>>
  /\ UNCHANGED <<Foreground, on, pixels, memory, torn>>

\* A new screen, which the flush after it shows.
Cleared ==
  /\ pixels' = ResetFb /\ returned' = FALSE /\ torn' = OuterBetweenRows

\* Interrupts are off from before the glyph is drawn until the character is done,
\* and then what they were before, so that the row's end is part of the step.
PutGlyph ==
  /\ At("glyph")
  /\ LET drawn == IF Writer.char = "letter" THEN Foreground ELSE "black"
         screen == [pixels EXCEPT ![<<m_Position.x, m_Position.y>>] = drawn] IN
     \/ /\ m_Position.x + 1 < MaxX
        /\ m_Position' = [m_Position EXCEPT !.x = @ + 1]
        /\ pixels' = screen /\ writers' = Above(Done(Writer))
        /\ UNCHANGED <<memory, returned, torn>>
     \/ /\ m_Position.x + 1 >= MaxX /\ m_Position.y + 1 < MaxY - 1
        /\ m_Position' = [x |-> 0, y |-> m_Position.y + 1]
        /\ pixels' = screen /\ memory' = screen /\ returned' = FALSE
        /\ writers' = Above(Done(Writer)) /\ UNCHANGED torn
     \/ /\ m_Position.x + 1 >= MaxX /\ m_Position.y + 1 >= MaxY - 1
        /\ m_Position' = [x |-> 0, y |-> 0]
        /\ Cleared /\ memory' = ResetFb /\ GoesTo("paint")
  /\ UNCHANGED <<Foreground, on>>

\* newline, for the character of that name: the jump over line 147 leaves
\* interrupts as they are, on if this write has had a new line before.

StoreRow ==
  /\ At("store") /\ m_Position' = [m_Position EXCEPT !.y = Writer.row + 1] /\ returned' = FALSE
  /\ writers' = Above([Writer EXCEPT !.pc = "column", !.row = 0])
  /\ UNCHANGED <<Foreground, on, pixels, memory, torn>>

FirstColumn ==
  /\ At("column") /\ m_Position' = [m_Position EXCEPT !.x = 0]
  /\ GoesTo("test") /\ UNCHANGED <<Foreground, on, pixels, memory, returned, torn>>

TestRow ==
  /\ At("test") /\ GoesTo(IF m_Position.y >= MaxY - 1 THEN "reset" ELSE "flush")
  /\ UNCHANGED <<m_Position, Foreground, on, pixels, memory, returned, torn>>

NewScreen ==
  /\ At("reset") /\ Cleared
  /\ GoesTo("clear") /\ UNCHANGED <<m_Position, Foreground, on, memory>>

FlushClear ==
  /\ At("clear") /\ memory' = pixels
  /\ GoesTo("home") /\ UNCHANGED <<m_Position, Foreground, on, pixels, returned, torn>>

\* The jump over line 146 leaves intstate to what the stack has.
Enabled(intstate) == on' = (on \/ intstate)

FirstRow(intstate) ==
  /\ At("home") /\ m_Position' = [m_Position EXCEPT !.y = 0]
  /\ Enabled(intstate) /\ writers' = Above([Writer EXCEPT !.pc = "paint", !.lines = TRUE])
  /\ UNCHANGED <<Foreground, pixels, memory, returned, torn>>

FlushRow(intstate) ==
  /\ At("flush") /\ memory' = pixels
  /\ Enabled(intstate) /\ writers' = Above(Done([Writer EXCEPT !.lines = TRUE]))
  /\ UNCHANGED <<m_Position, Foreground, pixels, returned, torn>>

PutNewLine ==
  \/ StoreRow \/ FirstColumn \/ TestRow \/ NewScreen \/ FlushClear
  \/ \E intstate \in BOOLEAN : FirstRow(intstate) \/ FlushRow(intstate)

-----------------------------------------------------------------------------
(* SerialPortWrite and SerialPortWriteCritical, by the module or by one of    *)
(* its notification functions, which an interrupt leads to.                *)

\* The handler of an interrupt starts with interrupts off, and its end brings
\* back what was before it: the same as if it had found them on.

\* Mutant: the colour is saved when it is the critical one.
Saved_Late(kind) == IF kind = "critical" THEN "yellow" ELSE Foreground

Saved(kind) == Foreground

SerialPortWrite(kind, length) ==
  /\ Len(writers) < Depth /\ (writers # <<>> => on)
  /\ writers' = Append(writers, [kind |-> kind, left |-> length, InterruptState |-> on,
                                 CurrentForeground |-> Saved(kind), lines |-> FALSE,
                                 char |-> "none", row |-> 0, pc |-> "next"])
  /\ Foreground' = IF kind = "critical" THEN "yellow" ELSE Foreground
  /\ on' = FALSE
  /\ torn' = (torn \/ (writers # <<>> /\ Writer.pc \in BetweenRows))
  /\ UNCHANGED <<m_Position, pixels, memory, returned>>

WriteReturns ==
  /\ At("next") /\ Writer.left = 0
  /\ writers' = SubSeq(writers, 1, Len(writers) - 1)
  /\ Foreground' = IF Writer.kind = "critical" THEN Writer.CurrentForeground ELSE Foreground
  /\ on' = (on \/ Writer.InterruptState)
  /\ UNCHANGED <<m_Position, pixels, memory, returned, torn>>

FbNext ==
  \/ \E kind \in {"plain", "critical"}, length \in 0..Length : SerialPortWrite(kind, length)
  \/ \E char \in Chars : PutChar(char)
  \/ PutGlyph \/ PutNewLine
  \/ WriteReturns
FbSpec == FbInit /\ [][FbNext]_fbVars

-----------------------------------------------------------------------------
(* Properties.                                                             *)

\* Every glyph is drawn inside of the frame buffer, in a box of its own, also by
\* a writer that came in between two rows, where y goes past the last but one:
\* the pointer's walk ends where the next row of text begins (FbConDrawglyph,
\* lines 187-314, and the position it gets, lines 149-151).
InsideScreen ==
  At("glyph") =>
    LET cell == <<m_Position.x, m_Position.y>> IN
    /\ cell \in Cells
    /\ \A p \in Drawn(cell) :
         /\ p < gWidth * gHeight
         /\ (p \div gWidth) \div FONT_HEIGHT = cell[2]
         /\ (p % gWidth) \div (FONT_WIDTH + 1) = cell[1]

\* Nothing is written over unless the row was returned to: what lies ahead of
\* the position is empty (lines 160-183).  Not so, until the screen is next
\* cleared, when a writer came in while another one was between two rows: the
\* first one then takes the position back to where the second one has written.
FreeAhead ==
  ~torn => \A cell \in Cells :
    cell[2] > m_Position.y \/ (cell[2] = m_Position.y /\ cell[1] >= m_Position.x /\ ~returned)
      => pixels[cell] = "black"

\* A character that was written is to be seen, although the screen may have been
\* cleared for it and another writer may have come in before it was drawn again
\* (lines 121-177).
NewestShown ==
  writers # <<>> /\ Len(writers') = Len(writers) /\ Writer.char = "letter" /\ Writer'.char = "none" =>
     LET at == IF m_Position'.x > 0 THEN <<m_Position'.x - 1, m_Position'.y>>
               ELSE <<MaxX - 1, m_Position'.y - 1>>
     IN at \in Cells /\ pixels'[at] = Foreground

\* Unless a writer is at a new line, the screen shows all rows but that of the
\* position as they are (FbConFlush, lines 171-181).
RowsShown ==
  (\A i \in 1..Len(writers) : writers[i].char # "newline") =>
     \A cell \in Cells : cell[2] # m_Position.y => memory[cell] = pixels[cell]

\* A write is not interrupted before its first new line is done, nor are
\* interrupts on in it, also where it goes from row to row (lines 146-183,
\* 352-397); what the stack then does to them lasts to the end of the write.
InterruptsKept ==
  \A i \in 1..Len(writers) : ~writers[i].lines => i = Len(writers) /\ ~on

\* The colour of critical messages does not stay, whoever has interrupted whom
\* (SerialPortWriteCritical, lines 373-397).
ColourRestored == writers = <<>> => Foreground = "white"

\* The console draws what is written, where it is to be seen, and leaves the
\* colour as it was, whoever interrupts whom.
LogIsSeen ==
  [][NewestShown /\ InsideScreen' /\ FreeAhead' /\ RowsShown' /\ InterruptsKept' /\ ColourRestored']_fbVars
=============================================================================
