------------------------------ MODULE ScreenProofs ------------------------------
(***************************************************************************)
(* Theorems about what is on the screen and what is entered there: the      *)
(* console on the frame buffer, for every size of the screen and writers    *)
(* inside of each other to any depth, the memory dump, for numbers of any  *)
(* length, the binding of the graphics console, for every display, and the *)
(* text it shows, for any text modes and any strings.                      *)
(***************************************************************************)
EXTENDS FbCon, MemoryDump, GraphicsBinding, GraphicsConsole, SequenceTheorems, WellFoundedInduction, TLAPS

-----------------------------------------------------------------------------
(* The pixels of a glyph.                                                  *)

LEMMA QuotientIs ==
  ASSUME NEW q \in Nat, NEW w \in Nat, NEW r \in 0..w - 1
  PROVE  (q * w + r) \div w = q /\ (q * w + r) % w = r
<1>1. w > 0
  OBVIOUS
<1>2. q * w \in Nat /\ q * w + r \in Nat
  OBVIOUS
<1> QED
  BY <1>1, <1>2, SMTT(30)

LEMMA ProductGrows ==
  ASSUME NEW a \in Nat, NEW b \in Nat, NEW w \in Nat, a <= b
  PROVE  a * w <= b * w
  OBVIOUS

LEMMA ScreenIs ==
  ASSUME FbAssumption
  PROVE  /\ gWidth \in Nat /\ gHeight \in Nat /\ MaxX \in Nat /\ MaxY \in Nat
         /\ gWidth > 11 /\ 6 * MaxX <= gWidth /\ 12 * MaxY < gHeight /\ MaxX > 1 /\ MaxY > 2
  BY DEF FbAssumption, MaxX, MaxY, FONT_WIDTH, FONT_HEIGHT

\* A glyph is twelve rows of five pixels.
LEMMA DrawnIs ==
  ASSUME FbAssumption, NEW cell \in Cells, NEW p \in Drawn(cell)
  PROVE  \E y \in 0..11, x \in 0..4 : p = (12 * cell[2] + y) * gWidth + (6 * cell[1] + x)
<1> DEFINE start == Corner(cell)
<1>1. /\ cell[1] \in Nat /\ cell[2] \in Nat /\ gWidth \in Nat /\ gWidth > 11
  BY ScreenIs DEF Cells
<1>2. start = 12 * cell[2] * gWidth + 6 * cell[1] /\ start \in Nat
  <2>1. cell[2] * 12 = 12 * cell[2] /\ cell[1] * (5 + 1) = 6 * cell[1]
    BY <1>1
  <2> QED
    BY <1>1, <2>1 DEF Corner, FONT_WIDTH, FONT_HEIGHT
<1> HIDE DEF start
<1>3. ASSUME NEW s \in Nat, NEW x \in Nat, NEW y \in Nat
      PROVE  Pixel(s, x, y) = s + y * gWidth + x
  <2>1. FONT_WIDTH + Stride = gWidth
    BY <1>1 DEF FONT_WIDTH, Stride
  <2> QED
    BY <2>1 DEF Pixel
<1>4. ASSUME NEW s \in Nat, NEW q \in Half(s)
      PROVE  \E y \in 0..5, x \in 0..4 : q = s + y * gWidth + x
  <2>1. PICK y \in 0..5, x \in 0..4 : q = Pixel(s, x, y)
    BY <1>4 DEF Half, FONT_WIDTH, FONT_HEIGHT
  <2>2. Pixel(s, x, y) = s + y * gWidth + x
    <3>1. x \in Nat /\ y \in Nat
      OBVIOUS
    <3> QED
      BY <1>3, <3>1
  <2> QED
    BY <2>1, <2>2
<1>5. Pixel(start, 0, 6) = start + 6 * gWidth /\ Pixel(start, 0, 6) \in Nat
  <2>1. Pixel(start, 0, 6) = start + 6 * gWidth + 0
    BY <1>2, <1>3
  <2> QED
    BY <1>1, <1>2, <2>1
<1>6. p \in Half(start) \/ p \in Half(Pixel(start, 0, 6))
  BY DEF Drawn, Background, Glyph, start, FONT_HEIGHT
<1>7. ASSUME NEW y \in Nat, NEW x \in Nat
      PROVE  start + y * gWidth + x = (12 * cell[2] + y) * gWidth + (6 * cell[1] + x)
  <2>1. (12 * cell[2] + y) * gWidth = 12 * cell[2] * gWidth + y * gWidth
    BY <1>1
  <2> QED
    BY <1>1, <1>2, <2>1
<1>8. CASE p \in Half(start)
  <2>1. PICK y \in 0..5, x \in 0..4 : p = start + y * gWidth + x
    BY <1>2, <1>4, <1>8
  <2> QED
    BY <1>7, <2>1
<1>9. CASE p \in Half(Pixel(start, 0, 6))
  <2>1. PICK y \in 0..5, x \in 0..4 : p = start + 6 * gWidth + y * gWidth + x
    BY <1>4, <1>5, <1>9
  <2>2. 6 * gWidth + y * gWidth = (y + 6) * gWidth
    BY <1>1
  <2>3. p = start + (y + 6) * gWidth + x
    BY <1>1, <1>2, <2>1, <2>2
  <2> QED
    BY <1>7, <2>3
<1> QED
  BY <1>6, <1>8, <1>9

\* Each glyph has a box of its own, and all boxes are on the screen.
LEMMA GlyphInBox ==
  ASSUME FbAssumption, NEW cell \in Cells, NEW p \in Drawn(cell)
  PROVE  /\ p < gWidth * gHeight
         /\ (p \div gWidth) \div FONT_HEIGHT = cell[2]
         /\ (p % gWidth) \div (FONT_WIDTH + 1) = cell[1]
<1>1. PICK y \in 0..11, x \in 0..4 : p = (12 * cell[2] + y) * gWidth + (6 * cell[1] + x)
  BY DrawnIs
<1> DEFINE q == 12 * cell[2] + y
           r == 6 * cell[1] + x
<1>2. /\ cell[1] \in Nat /\ cell[1] + 1 <= MaxX /\ cell[2] \in Nat /\ cell[2] + 1 <= MaxY
      /\ MaxX \in Nat /\ MaxY \in Nat
  BY ScreenIs DEF Cells
<1>3. q \in Nat /\ q + 1 \in Nat /\ q + 1 <= gHeight /\ r \in 0..gWidth - 1 /\ gWidth \in Nat /\ gHeight \in Nat
  BY <1>2, ScreenIs
<1>4. q \div 12 = cell[2] /\ r \div 6 = cell[1]
  <2>1. /\ cell[1] \in Nat /\ cell[2] \in Nat /\ 12 \in Nat /\ 6 \in Nat
        /\ y \in 0..12 - 1 /\ x \in 0..6 - 1
    BY <1>2
  <2>2. (cell[2] * 12 + y) \div 12 = cell[2]
    BY <2>1, QuotientIs
  <2>3. (cell[1] * 6 + x) \div 6 = cell[1]
    BY <2>1, QuotientIs
  <2> QED
    BY <2>1, <2>2, <2>3
<1> HIDE DEF q, r
<1>5. p = q * gWidth + r
  BY <1>1 DEF q, r
<1>6. p \div gWidth = q /\ p % gWidth = r
  BY <1>3, <1>5, QuotientIs
<1>7. p < gWidth * gHeight
  <2>1. (q + 1) * gWidth <= gHeight * gWidth
    BY <1>3, ProductGrows
  <2>2. (q + 1) * gWidth = q * gWidth + gWidth /\ gHeight * gWidth = gWidth * gHeight
    BY <1>3
  <2>3. q * gWidth \in Nat /\ gWidth * gHeight \in Nat
    BY <1>3
  <2> QED
    BY <1>3, <1>5, <2>1, <2>2, <2>3
<1> QED
  BY <1>4, <1>6, <1>7 DEF FONT_WIDTH, FONT_HEIGHT

-----------------------------------------------------------------------------
(* The console on the frame buffer.                                        *)

Colours == {"black", "white", "yellow"}

\* Where the position may be past the rows that are written to.
Window == {"column", "test", "reset", "clear", "home"}
LineSteps == Window \cup {"store", "flush"}

WriterType ==
  [kind : {"plain", "critical"}, left : Nat, InterruptState : BOOLEAN,
   CurrentForeground : {"white", "yellow"}, lines : BOOLEAN,
   char : Chars \cup {"none"}, row : 0..MaxY - 1, pc : LineSteps \cup {"next", "paint", "glyph"}]

\* What a writer is at and the character that it writes.
InStep(writer) ==
  /\ writer.pc \in LineSteps => writer.char = "newline"
  /\ writer.pc = "next" <=> writer.char = "none"
  /\ writer.pc = "glyph" => writer.char \in {"letter", "space"}

FbTypes ==
  /\ m_Position \in [x : 0..MaxX - 1, y : 0..MaxY]
  /\ Foreground \in {"white", "yellow"} /\ on \in BOOLEAN
  /\ returned \in BOOLEAN /\ torn \in BOOLEAN
  /\ writers \in Seq(WriterType)
  /\ pixels \in [Cells -> Colours] /\ memory \in [Cells -> Colours]

\* The colour in a writer, and where it goes on behind one that interrupts it.
Within(writer) == IF writer.kind = "critical" THEN "yellow" ELSE writer.CurrentForeground

\* Each writer has found the colour of the one that it has interrupted.
ColoursNest ==
  /\ writers = <<>> => Foreground = "white"
  /\ writers # <<>> => writers[1].CurrentForeground = "white" /\ Foreground = Within(Writer)
  /\ \A i \in 2..Len(writers) : writers[i].CurrentForeground = Within(writers[i - 1])

\* The row to be stored can be stepped to, by a writer that may be interrupted to
\* one that others can write in.
RowsLeft ==
  \A i \in 1..Len(writers) :
    writers[i].pc = "store" /\ (i < Len(writers) \/ on) => writers[i].row <= MaxY - 2

\* In the last row is only a writer that came in between two rows, and that is not
\* interrupted there in its turn.
InWindow == writers # <<>> /\ Writer.pc \in Window
RowBound ==
  /\ writers = <<>> => m_Position.y <= MaxY - 2
  /\ InWindow /\ on => m_Position.y <= MaxY - 1
  /\ ~InWindow => m_Position.y <= MaxY - 1
  /\ ~InWindow /\ m_Position.y = MaxY - 1 =>
       ~on /\ Len(writers) > 1 /\ writers[Len(writers) - 1].pc \in Window
  /\ At("flush") => m_Position.y <= MaxY - 2

TornKnown == ~torn => ~OuterBetweenRows

\* What a writer that nobody came in on between two rows finds there.
Fresh ==
  ~torn =>
    /\ At("store") => Writer.row = m_Position.y
    /\ At("column") => \A cell \in Cells : cell[2] = m_Position.y => pixels[cell] = "black"
    /\ At("clear") \/ At("home") => pixels = ResetFb

WritersInv ==
  /\ \A i \in 1..Len(writers) : InStep(writers[i])
  /\ InterruptsKept /\ ColoursNest /\ RowsLeft
ScreenInv == RowBound /\ TornKnown /\ Fresh /\ FreeAhead /\ RowsShown
FbInv == FbTypes /\ WritersInv /\ ScreenInv

LEMMA PlaceIs ==
  ASSUME FbAssumption, FbTypes
  PROVE  /\ m_Position.x \in 0..MaxX - 1 /\ m_Position.y \in 0..MaxY
         /\ MaxX \in Nat /\ MaxY \in Nat /\ MaxX > 1 /\ MaxY > 2
         /\ \A cell \in Cells : cell[1] \in 0..MaxX - 1 /\ cell[2] \in 0..MaxY - 1
         /\ ResetFb \in [Cells -> Colours] /\ \A cell \in Cells : ResetFb[cell] = "black"
  BY ScreenIs DEF Cells, FbTypes, ResetFb, Colours

\* The innermost writer.
LEMMA WriterIs ==
  ASSUME FbTypes, writers # <<>>
  PROVE  /\ Len(writers) \in Nat /\ Len(writers) > 0 /\ Writer = writers[Len(writers)]
         /\ Writer \in WriterType
  BY DEF FbTypes, Writer

\* What the innermost writer does to itself.
LEMMA AboveIs ==
  ASSUME FbInv, writers # <<>>, NEW writer \in WriterType, writers' = Above(writer)
  PROVE  /\ writers' \in Seq(WriterType) /\ Len(writers') = Len(writers)
         /\ writers'[Len(writers)] = writer /\ writers' # <<>> /\ Writer' = writer
         /\ \A i \in 1..Len(writers) : i # Len(writers) => writers'[i] = writers[i]
         /\ OuterBetweenRows' <=> OuterBetweenRows
<1>1. /\ Len(writers) \in Nat /\ Len(writers) > 0
      /\ writers' = [writers EXCEPT ![Len(writers)] = writer]
  BY WriterIs DEF FbInv, Above
<1>2. /\ writers' \in Seq(WriterType) /\ Len(writers') = Len(writers)
      /\ writers'[Len(writers)] = writer /\ writers' # <<>>
      /\ \A i \in 1..Len(writers) : i # Len(writers) => writers'[i] = writers[i]
  BY <1>1 DEF FbInv, FbTypes
<1>3. \A i \in 1..Len(writers) - 1 : i \in 1..Len(writers) /\ i # Len(writers)
  BY <1>1
<1> QED
  BY <1>1, <1>2, <1>3 DEF Writer, OuterBetweenRows

LEMMA StepKeepsWriters ==
  ASSUME FbInv, writers # <<>>, NEW writer \in WriterType, writers' = Above(writer),
         InStep(writer), writer.kind = Writer.kind, writer.CurrentForeground = Writer.CurrentForeground,
         writer.lines \/ (~Writer.lines /\ on' = on),
         writer.pc = "store" /\ on' => writer.row <= MaxY - 2, UNCHANGED Foreground
  PROVE  WritersInv'
<1> DEFINE n == Len(writers)
<1>1. /\ n \in Nat /\ n > 0 /\ Writer = writers[n] /\ Writer \in WriterType
      /\ 1 \in 1..n /\ n \in 1..n /\ \A i \in 2..n : i \in 1..n /\ i - 1 \in 1..n
  BY WriterIs DEF FbInv
<1>2. /\ Len(writers') = n /\ writers'[n] = writer /\ writers' # <<>> /\ Writer' = writer
      /\ \A i \in 1..n : i # n => writers'[i] = writers[i]
  BY AboveIs
<1> HIDE DEF n
<1>3. \A i \in 1..Len(writers') : InStep(writers'[i])
  BY <1>2 DEF FbInv, WritersInv, n
<1>4. InterruptsKept'
  <2>1. ASSUME NEW i \in 1..n, ~writers'[i].lines PROVE i = n /\ ~on'
    <3>1. CASE i # n
      BY <1>2, <2>1, <3>1 DEF FbInv, WritersInv, InterruptsKept, n
    <3>2. CASE i = n
      BY <1>1, <1>2, <2>1, <3>2 DEF FbInv, WritersInv, InterruptsKept, n
    <3> QED
      BY <3>1, <3>2
  <2> QED
    BY <1>2, <2>1 DEF InterruptsKept
<1>5. ColoursNest'
  <2>1. \A i \in 1..n : /\ writers'[i].CurrentForeground = writers[i].CurrentForeground
                        /\ Within(writers'[i]) = Within(writers[i])
    BY <1>1, <1>2 DEF Within
  <2> QED
    BY <1>1, <1>2, <2>1 DEF FbInv, WritersInv, ColoursNest, n
<1>6. RowsLeft'
  <2>1. ASSUME NEW i \in 1..n, writers'[i].pc = "store", i < n \/ on'
        PROVE  writers'[i].row <= MaxY - 2
    <3>1. CASE i # n
      <4>1. i < n
        BY <1>1, <3>1
      <4> QED
        BY <1>2, <2>1, <3>1, <4>1 DEF FbInv, WritersInv, RowsLeft, n
    <3>2. CASE i = n
      BY <1>1, <1>2, <2>1, <3>2
    <3> QED
      BY <3>1, <3>2
  <2> QED
    BY <1>2, <2>1 DEF RowsLeft
<1> QED
  BY <1>3, <1>4, <1>5, <1>6 DEF WritersInv

\* The next character, up to where it is drawn or a new line begins.
LEMMA PutCharKeeps ==
  ASSUME FbAssumption, FbInv, NEW char \in Chars, PutChar(char)
  PROVE  FbInv' /\ ~(Writer.char = "letter" /\ Writer'.char = "none")
<1> DEFINE n == Len(writers)
           taken == [Writer EXCEPT !.char = char, !.left = IF Writer.pc = "next" THEN @ - 1 ELSE @]
<1>1. /\ writers # <<>> /\ n \in Nat /\ n > 0 /\ Writer = writers[n] /\ Writer \in WriterType
      /\ \/ Writer.pc = "next" /\ Writer.left > 0
         \/ Writer.pc = "paint" /\ Writer.char = char
      /\ InStep(Writer) /\ UNCHANGED <<Foreground, on, pixels, memory, torn>>
  <2>1. n \in 1..n
    BY WriterIs DEF PutChar, At, FbInv
  <2> QED
    BY <2>1, WriterIs DEF PutChar, At, FbInv, WritersInv
<1>2. /\ taken \in WriterType /\ taken.kind = Writer.kind /\ taken.lines = Writer.lines
      /\ taken.CurrentForeground = Writer.CurrentForeground /\ taken.char = char
      /\ taken.row = Writer.row /\ char # "none"
  <2>1. CASE Writer.pc = "next"
    <3>1. taken = [Writer EXCEPT !.char = char, !.left = Writer.left - 1]
      BY <2>1
    <3>2. Writer.left - 1 \in Nat
      BY <1>1, <2>1 DEF WriterType
    <3> HIDE DEF taken
    <3> QED
      BY <1>1, <3>1, <3>2 DEF WriterType, Chars
  <2>2. CASE Writer.pc # "next"
    <3>1. taken = [Writer EXCEPT !.char = char, !.left = Writer.left]
      BY <2>2
    <3> HIDE DEF taken
    <3> QED
      BY <1>1, <3>1 DEF WriterType, Chars
  <2> QED
    BY <2>1, <2>2
<1>3. /\ m_Position.x \in 0..MaxX - 1 /\ m_Position.y \in 0..MaxY - 1
      /\ on => m_Position.y <= MaxY - 2
      /\ MaxX \in Nat /\ MaxY \in Nat /\ MaxX > 1 /\ MaxY > 2
  <2>1. ~InWindow
    BY <1>1 DEF InWindow, Window
  <2> QED
    BY <2>1, PlaceIs DEF FbInv, ScreenInv, RowBound, FbTypes
<1>4. \/ /\ char = "newline" /\ writers' = Above([taken EXCEPT !.pc = "store", !.row = m_Position.y])
         /\ UNCHANGED <<m_Position, returned>>
      \/ /\ char = "return" /\ writers' = Above(Done(taken))
         /\ m_Position' = [m_Position EXCEPT !.x = 0] /\ returned' = TRUE
      \/ Dropped(char) /\ writers' = Above(Done(taken)) /\ UNCHANGED <<m_Position, returned>>
      \/ /\ char = "letter" \/ (char = "space" /\ m_Position.x > 0)
         /\ writers' = Above([taken EXCEPT !.pc = "glyph"]) /\ UNCHANGED <<m_Position, returned>>
  BY DEF PutChar
<1> HIDE DEF taken
<1>5. PICK writer \in WriterType :
        /\ writers' = Above(writer) /\ InStep(writer)
        /\ writer.kind = Writer.kind /\ writer.lines = Writer.lines
        /\ writer.CurrentForeground = Writer.CurrentForeground
        /\ \/ /\ char = "newline" /\ writer.char = "newline" /\ writer.pc = "store"
              /\ writer.row = m_Position.y
              /\ UNCHANGED <<m_Position, returned>>
           \/ /\ char \notin {"newline", "letter"} /\ writer.char = "none" /\ writer.pc = "next"
              /\ m_Position'.y = m_Position.y /\ m_Position' \in [x : 0..MaxX - 1, y : 0..MaxY]
              /\ UNCHANGED <<m_Position, returned>> \/ returned' = TRUE
           \/ /\ char \in {"letter", "space"} /\ writer.char = char /\ writer.pc = "glyph"
              /\ UNCHANGED <<m_Position, returned>>
  <2>1. CASE char = "newline" /\ writers' = Above([taken EXCEPT !.pc = "store", !.row = m_Position.y])
             /\ UNCHANGED <<m_Position, returned>>
    <3> DEFINE w == [taken EXCEPT !.pc = "store", !.row = m_Position.y]
    <3>1. /\ w \in WriterType /\ w.kind = Writer.kind /\ w.lines = Writer.lines
          /\ w.CurrentForeground = Writer.CurrentForeground /\ w.char = char
          /\ w.pc = "store" /\ w.row = m_Position.y
      BY <1>2, <1>3 DEF WriterType, LineSteps, Window
    <3> HIDE DEF w
    <3>2. InStep(w)
      BY <2>1, <3>1 DEF InStep
    <3> QED
      BY <2>1, <3>1, <3>2 DEF w
  <2>2. CASE char = "return" /\ writers' = Above(Done(taken))
             /\ m_Position' = [m_Position EXCEPT !.x = 0] /\ returned' = TRUE
    <3>1. /\ Done(taken) \in WriterType /\ Done(taken).kind = Writer.kind
          /\ Done(taken).lines = Writer.lines /\ Done(taken).char = "none" /\ Done(taken).pc = "next"
          /\ Done(taken).CurrentForeground = Writer.CurrentForeground
      BY <1>2 DEF WriterType, Done
    <3>2. InStep(Done(taken))
      BY <3>1 DEF InStep, LineSteps, Window
    <3>3. m_Position'.y = m_Position.y /\ m_Position' \in [x : 0..MaxX - 1, y : 0..MaxY]
      BY <1>3, <2>2 DEF FbInv, FbTypes
    <3> QED
      BY <2>2, <3>1, <3>2, <3>3
  <2>3. CASE Dropped(char) /\ writers' = Above(Done(taken)) /\ UNCHANGED <<m_Position, returned>>
    <3>1. /\ Done(taken) \in WriterType /\ Done(taken).kind = Writer.kind
          /\ Done(taken).lines = Writer.lines /\ Done(taken).char = "none" /\ Done(taken).pc = "next"
          /\ Done(taken).CurrentForeground = Writer.CurrentForeground
      BY <1>2 DEF WriterType, Done
    <3>2. InStep(Done(taken))
      BY <3>1 DEF InStep, LineSteps, Window
    <3>3. char \notin {"newline", "letter"}
      BY <2>3 DEF Dropped
    <3> QED
      BY <2>3, <3>1, <3>2, <3>3 DEF FbInv, FbTypes
  <2>4. CASE /\ char = "letter" \/ (char = "space" /\ m_Position.x > 0)
             /\ writers' = Above([taken EXCEPT !.pc = "glyph"]) /\ UNCHANGED <<m_Position, returned>>
    <3> DEFINE w == [taken EXCEPT !.pc = "glyph"]
    <3>1. /\ w \in WriterType /\ w.kind = Writer.kind /\ w.lines = Writer.lines
          /\ w.CurrentForeground = Writer.CurrentForeground /\ w.char = char /\ w.pc = "glyph"
      BY <1>2 DEF WriterType
    <3> HIDE DEF w
    <3>2. InStep(w)
      BY <2>4, <3>1 DEF InStep, LineSteps, Window
    <3> QED
      BY <2>4, <3>1, <3>2 DEF w
  <2> QED
    BY <1>4, <2>1, <2>2, <2>3, <2>4
<1>6. /\ writers' \in Seq(WriterType) /\ Len(writers') = n /\ writers'[n] = writer
      /\ writers' # <<>> /\ Writer' = writer
      /\ \A i \in 1..n : i # n => writers'[i] = writers[i]
      /\ OuterBetweenRows' <=> OuterBetweenRows
  BY <1>1, <1>5, AboveIs
<1>7. WritersInv'
  <2>1. writer.lines \/ (~Writer.lines /\ on' = on)
    BY <1>1, <1>5 DEF WriterType
  <2>2. writer.pc = "store" /\ on' => writer.row <= MaxY - 2
    BY <1>1, <1>3, <1>5
  <2> QED
    BY <1>1, <1>5, <2>1, <2>2, StepKeepsWriters
<1>8. FbTypes'
  BY <1>1, <1>5, <1>6 DEF FbInv, FbTypes
<1>9. m_Position'.y = m_Position.y /\ writer.pc \in {"next", "store", "glyph"}
  BY <1>5
<1>10. RowBound'
  <2>1. ~InWindow /\ ~InWindow' /\ ~At("flush")'
    BY <1>1, <1>6, <1>9 DEF InWindow, Window, At
  <2>2. n > 1 => writers'[n - 1] = writers[n - 1]
    BY <1>1, <1>6
  <2> QED
    BY <1>1, <1>6, <1>9, <2>1, <2>2 DEF FbInv, ScreenInv, RowBound
<1>11. TornKnown' /\ Fresh'
  BY <1>1, <1>5, <1>6 DEF FbInv, ScreenInv, TornKnown, Fresh, At
<1>12. FreeAhead'
  <2>1. CASE UNCHANGED <<m_Position, returned>>
    BY <1>1, <2>1 DEF FbInv, ScreenInv, FreeAhead
  <2>2. CASE returned' = TRUE
    BY <1>1, <1>9, <2>2 DEF FbInv, ScreenInv, FreeAhead
  <2> QED
    BY <1>5, <2>1, <2>2
<1>13. RowsShown'
  <2>1. CASE writer.char = "newline"
    <3>1. n \in 1..n
      BY <1>1
    <3> QED
      BY <1>6, <2>1, <3>1 DEF RowsShown
  <2>2. CASE writer.char # "newline"
    <3>1. Writer.char # "newline"
      BY <1>1, <1>5, <2>2 DEF InStep
    <3>2. (\A i \in 1..n : writers'[i].char # "newline") => \A i \in 1..n : writers[i].char # "newline"
      BY <1>1, <1>6, <3>1
    <3> QED
      BY <1>1, <1>6, <1>9, <3>2 DEF FbInv, ScreenInv, RowsShown
  <2> QED
    BY <2>1, <2>2
<1>14. ~(Writer.char = "letter" /\ Writer'.char = "none")
  BY <1>1, <1>5, <1>6 DEF InStep
<1> QED
  BY <1>7, <1>8, <1>10, <1>11, <1>12, <1>13, <1>14 DEF FbInv, ScreenInv

\* A step of a new line that is not its last.
LEMMA LineStepIs ==
  ASSUME FbAssumption, FbInv, writers # <<>>, Writer.char = "newline",
         NEW writer, NEW pc \in (LineSteps \ {"store"}) \cup {"paint"}, NEW row \in 0..MaxY - 1, NEW lines \in BOOLEAN,
         writer = [Writer EXCEPT !.pc = pc, !.row = row, !.lines = lines], writers' = Above(writer),
         lines \/ (~Writer.lines /\ on' = on), UNCHANGED Foreground
  PROVE  /\ WritersInv' /\ RowsShown' /\ writers' \in Seq(WriterType) /\ writers' # <<>>
         /\ Len(writers') = Len(writers) /\ Writer'.pc = pc
         /\ Len(writers) > 1 => writers'[Len(writers) - 1] = writers[Len(writers) - 1]
         /\ OuterBetweenRows' <=> OuterBetweenRows
<1> DEFINE n == Len(writers)
<1>1. n \in Nat /\ n > 0 /\ Writer \in WriterType
  BY WriterIs DEF FbInv
<1>2. /\ writer \in WriterType /\ writer.kind = Writer.kind /\ writer.lines = lines
      /\ writer.CurrentForeground = Writer.CurrentForeground /\ writer.char = "newline" /\ writer.pc = pc
  BY <1>1 DEF WriterType, LineSteps, Window
<1>3. InStep(writer)
  BY <1>2 DEF InStep, LineSteps, Window
<1>4. /\ writers' \in Seq(WriterType) /\ Len(writers') = n /\ writers'[n] = writer
      /\ writers' # <<>> /\ Writer' = writer
      /\ \A i \in 1..n : i # n => writers'[i] = writers[i]
      /\ OuterBetweenRows' <=> OuterBetweenRows
  BY <1>2, AboveIs
<1>5. WritersInv'
  <2>1. writer.lines \/ (~Writer.lines /\ on' = on)
    BY <1>2
  <2>2. writer.pc # "store"
    BY <1>2
  <2> QED
    BY <1>2, <1>3, <2>1, <2>2, StepKeepsWriters
<1>6. RowsShown'
  <2>1. n \in 1..n
    BY <1>1
  <2>2. writers'[n].char = "newline" /\ n \in 1..Len(writers')
    BY <1>2, <1>4, <2>1
  <2>3. ~(\A i \in 1..Len(writers') : writers'[i].char # "newline")
    BY <2>2
  <2> QED
    BY <2>3 DEF RowsShown
<1>7. n > 1 => n - 1 \in 1..n /\ n - 1 # n
  BY <1>1
<1> QED
  BY <1>2, <1>4, <1>5, <1>6, <1>7

\* Where a new line is.
LEMMA LineIs ==
  ASSUME FbInv, NEW pc \in LineSteps, At(pc)
  PROVE  /\ writers # <<>> /\ Len(writers) \in Nat /\ Len(writers) > 0 /\ Writer = writers[Len(writers)]
         /\ Writer \in WriterType /\ Writer.pc = pc /\ Writer.char = "newline"
         /\ \A to : [Writer EXCEPT !.pc = to] =
                    [Writer EXCEPT !.pc = to, !.row = Writer.row, !.lines = Writer.lines]
         /\ Writer.row \in 0..MaxY - 1 /\ Writer.lines \in BOOLEAN
<1>1. /\ writers # <<>> /\ Len(writers) \in Nat /\ Len(writers) > 0 /\ Writer = writers[Len(writers)]
      /\ Writer \in WriterType /\ Writer.pc = pc
  BY WriterIs DEF FbInv, At
<1>2. Len(writers) \in 1..Len(writers)
  BY <1>1
<1>3. Writer.char = "newline"
  BY <1>1, <1>2 DEF FbInv, WritersInv, InStep
<1> QED
  BY <1>1, <1>3 DEF WriterType

LEMMA StoreRowKeeps ==
  ASSUME FbAssumption, FbInv, StoreRow
  PROVE  FbInv'
<1> DEFINE y == m_Position.y
           w == [Writer EXCEPT !.pc = "column", !.row = 0]
<1>1. /\ writers # <<>> /\ Len(writers) \in Nat /\ Len(writers) > 0 /\ Writer = writers[Len(writers)]
      /\ Writer \in WriterType /\ Writer.pc = "store" /\ Writer.char = "newline"
      /\ Writer.row \in 0..MaxY - 1 /\ Writer.lines \in BOOLEAN
  BY LineIs DEF StoreRow, LineSteps
<1>2. /\ writers' = Above(w) /\ m_Position' = [m_Position EXCEPT !.y = Writer.row + 1]
      /\ returned' = FALSE /\ UNCHANGED <<Foreground, on, pixels, memory, torn>>
  BY DEF StoreRow
<1>3. /\ m_Position.x \in 0..MaxX - 1 /\ y \in 0..MaxY
      /\ MaxX \in Nat /\ MaxY \in Nat /\ MaxX > 1 /\ MaxY > 2
      /\ \A cell \in Cells : cell[1] \in 0..MaxX - 1 /\ cell[2] \in 0..MaxY - 1
  BY PlaceIs DEF FbInv
<1>4. w = [Writer EXCEPT !.pc = "column", !.row = 0, !.lines = Writer.lines] /\ 0 \in 0..MaxY - 1
  <2>1. w = [Writer EXCEPT !.pc = "column", !.row = 0, !.lines = Writer.lines]
    BY <1>1 DEF WriterType
  <2>2. 0 \in 0..MaxY - 1
    BY <1>3
  <2> QED
    BY <2>1, <2>2
<1> HIDE DEF w
<1>5. /\ WritersInv' /\ RowsShown' /\ writers' \in Seq(WriterType) /\ writers' # <<>>
      /\ Len(writers') = Len(writers) /\ Writer'.pc = "column"
      /\ OuterBetweenRows' <=> OuterBetweenRows
  <2>1. Writer.lines \/ (~Writer.lines /\ on' = on)
    BY <1>1, <1>2
  <2>2. "column" \in (LineSteps \ {"store"}) \cup {"paint"}
    BY DEF LineSteps, Window
  <2> QED
    BY <1>1, <1>2, <1>4, <2>1, <2>2, LineStepIs
<1>6. /\ m_Position' \in [x : 0..MaxX - 1, y : 0..MaxY]
      /\ m_Position'.x = m_Position.x /\ m_Position'.y = Writer.row + 1
  BY <1>1, <1>2, <1>3 DEF FbInv, FbTypes
<1>7. FbTypes'
  BY <1>2, <1>5, <1>6 DEF FbInv, FbTypes
<1>8. RowBound'
  <2>1. on => Writer.row <= MaxY - 2
    <3>1. Len(writers) \in 1..Len(writers)
      BY <1>1
    <3> QED
      BY <1>1, <3>1 DEF FbInv, WritersInv, RowsLeft
  <2> QED
    BY <1>1, <1>2, <1>3, <1>5, <1>6, <2>1 DEF RowBound, InWindow, Window, At
<1>9. ~torn => Writer.row = y /\ \A cell \in Cells : cell[2] > y => pixels[cell] = "black"
  BY <1>1 DEF FbInv, ScreenInv, Fresh, FreeAhead, At
<1>10. TornKnown' /\ Fresh' /\ FreeAhead'
  <2>1. ~torn => \A cell \in Cells : cell[2] >= m_Position'.y => pixels'[cell] = "black"
    BY <1>2, <1>3, <1>6, <1>9
  <2>2. TornKnown'
    BY <1>2, <1>5 DEF FbInv, ScreenInv, TornKnown
  <2>3. Fresh'
    BY <1>2, <1>3, <1>5, <1>6, <2>1 DEF Fresh, At
  <2>4. FreeAhead'
    <3>1. m_Position'.y \in Int
      BY <1>1, <1>3, <1>6
    <3> QED
      BY <1>2, <1>3, <2>1, <3>1 DEF FreeAhead
  <2> QED
    BY <2>2, <2>3, <2>4
<1> QED
  BY <1>5, <1>7, <1>8, <1>10 DEF FbInv, ScreenInv

LEMMA FirstColumnKeeps ==
  ASSUME FbAssumption, FbInv, FirstColumn
  PROVE  FbInv'
<1> DEFINE w == [Writer EXCEPT !.pc = "test"]
<1>1. /\ writers # <<>> /\ Len(writers) \in Nat /\ Len(writers) > 0 /\ Writer = writers[Len(writers)]
      /\ Writer \in WriterType /\ Writer.pc = "column" /\ Writer.char = "newline"
      /\ w = [Writer EXCEPT !.pc = "test", !.row = Writer.row, !.lines = Writer.lines]
      /\ Writer.row \in 0..MaxY - 1 /\ Writer.lines \in BOOLEAN
  BY LineIs DEF FirstColumn, LineSteps, Window
<1>2. /\ writers' = Above(w) /\ m_Position' = [m_Position EXCEPT !.x = 0]
      /\ UNCHANGED <<Foreground, on, pixels, memory, returned, torn>>
  BY DEF FirstColumn, GoesTo
<1> HIDE DEF w
<1>3. /\ m_Position.x \in 0..MaxX - 1 /\ m_Position.y \in 0..MaxY
      /\ MaxX \in Nat /\ MaxY \in Nat /\ MaxX > 1 /\ MaxY > 2
      /\ \A cell \in Cells : cell[1] \in 0..MaxX - 1 /\ cell[2] \in 0..MaxY - 1
  BY PlaceIs DEF FbInv
<1>4. /\ WritersInv' /\ RowsShown' /\ writers' \in Seq(WriterType) /\ writers' # <<>>
      /\ Len(writers') = Len(writers) /\ Writer'.pc = "test"
      /\ OuterBetweenRows' <=> OuterBetweenRows
  <2>1. Writer.lines \/ (~Writer.lines /\ on' = on)
    BY <1>1, <1>2
  <2>2. "test" \in (LineSteps \ {"store"}) \cup {"paint"}
    BY DEF LineSteps, Window
  <2> QED
    BY <1>1, <1>2, <2>1, <2>2, LineStepIs
<1>5. m_Position' \in [x : 0..MaxX - 1, y : 0..MaxY] /\ m_Position'.x = 0 /\ m_Position'.y = m_Position.y
  BY <1>2, <1>3 DEF FbInv, FbTypes
<1>6. FbTypes'
  BY <1>2, <1>4, <1>5 DEF FbInv, FbTypes
<1>7. RowBound'
  BY <1>1, <1>2, <1>4, <1>5 DEF FbInv, ScreenInv, RowBound, InWindow, Window, At
<1>8. TornKnown' /\ Fresh'
  BY <1>2, <1>4 DEF FbInv, ScreenInv, TornKnown, Fresh, At
<1>9. FreeAhead'
  BY <1>1, <1>2, <1>5 DEF FbInv, ScreenInv, FreeAhead, Fresh, At
<1> QED
  BY <1>4, <1>6, <1>7, <1>8, <1>9 DEF FbInv, ScreenInv

LEMMA TestRowKeeps ==
  ASSUME FbAssumption, FbInv, TestRow
  PROVE  FbInv'
<1> DEFINE pc == IF m_Position.y >= MaxY - 1 THEN "reset" ELSE "flush"
           w == [Writer EXCEPT !.pc = pc]
<1>1. /\ writers # <<>> /\ Len(writers) \in Nat /\ Len(writers) > 0 /\ Writer = writers[Len(writers)]
      /\ Writer \in WriterType /\ Writer.pc = "test" /\ Writer.char = "newline"
      /\ w = [Writer EXCEPT !.pc = pc, !.row = Writer.row, !.lines = Writer.lines]
      /\ Writer.row \in 0..MaxY - 1 /\ Writer.lines \in BOOLEAN
  BY LineIs DEF TestRow, LineSteps, Window
<1>2. writers' = Above(w) /\ UNCHANGED <<m_Position, Foreground, on, pixels, memory, returned, torn>>
  BY DEF TestRow, GoesTo
<1> HIDE DEF w
<1>3. pc \in (LineSteps \ {"store"}) \cup {"paint"}
  BY DEF LineSteps, Window
<1>4. /\ m_Position.y \in 0..MaxY /\ MaxY \in Nat /\ pc \in {"reset", "flush"}
      /\ pc = "flush" => m_Position.y <= MaxY - 2
  BY PlaceIs DEF FbInv
<1> HIDE DEF pc
<1>5. /\ WritersInv' /\ RowsShown' /\ writers' \in Seq(WriterType) /\ writers' # <<>>
      /\ Len(writers') = Len(writers) /\ Writer'.pc = pc
      /\ OuterBetweenRows' <=> OuterBetweenRows
  <2>1. Writer.lines \/ (~Writer.lines /\ on' = on)
    BY <1>1, <1>2
  <2> QED
    BY <1>1, <1>2, <1>3, <2>1, LineStepIs
<1>6. FbTypes'
  BY <1>2, <1>5 DEF FbInv, FbTypes
<1>7. RowBound'
  BY <1>1, <1>2, <1>4, <1>5 DEF FbInv, ScreenInv, RowBound, InWindow, Window, At
<1>8. TornKnown' /\ Fresh' /\ FreeAhead'
  BY <1>2, <1>4, <1>5 DEF FbInv, ScreenInv, TornKnown, Fresh, FreeAhead, At
<1> QED
  BY <1>5, <1>6, <1>7, <1>8 DEF FbInv, ScreenInv

LEMMA NewScreenKeeps ==
  ASSUME FbAssumption, FbInv, NewScreen
  PROVE  FbInv'
<1> DEFINE w == [Writer EXCEPT !.pc = "clear"]
<1>1. /\ writers # <<>> /\ Len(writers) \in Nat /\ Len(writers) > 0 /\ Writer = writers[Len(writers)]
      /\ Writer \in WriterType /\ Writer.pc = "reset" /\ Writer.char = "newline"
      /\ w = [Writer EXCEPT !.pc = "clear", !.row = Writer.row, !.lines = Writer.lines]
      /\ Writer.row \in 0..MaxY - 1 /\ Writer.lines \in BOOLEAN
  BY LineIs DEF NewScreen, LineSteps, Window
<1>2. /\ writers' = Above(w) /\ UNCHANGED <<m_Position, Foreground, on, memory>>
      /\ pixels' = ResetFb /\ returned' = FALSE /\ torn' = OuterBetweenRows
  BY DEF NewScreen, GoesTo, Cleared
<1> HIDE DEF w
<1>3. ResetFb \in [Cells -> Colours] /\ \A cell \in Cells : ResetFb[cell] = "black"
  BY PlaceIs DEF FbInv
<1>4. /\ WritersInv' /\ RowsShown' /\ writers' \in Seq(WriterType) /\ writers' # <<>>
      /\ Len(writers') = Len(writers) /\ Writer'.pc = "clear"
      /\ OuterBetweenRows' <=> OuterBetweenRows
  <2>1. Writer.lines \/ (~Writer.lines /\ on' = on)
    BY <1>1, <1>2
  <2>2. "clear" \in (LineSteps \ {"store"}) \cup {"paint"}
    BY DEF LineSteps, Window
  <2> QED
    BY <1>1, <1>2, <2>1, <2>2, LineStepIs
<1>5. FbTypes'
  <2>1. torn' \in BOOLEAN
    BY <1>2 DEF OuterBetweenRows
  <2> QED
    BY <1>2, <1>3, <1>4, <2>1 DEF FbInv, FbTypes
<1>6. RowBound'
  BY <1>1, <1>2, <1>4 DEF FbInv, ScreenInv, RowBound, InWindow, Window, At
<1>7. TornKnown' /\ Fresh' /\ FreeAhead'
  BY <1>2, <1>3, <1>4 DEF TornKnown, Fresh, FreeAhead, At
<1> QED
  BY <1>4, <1>5, <1>6, <1>7 DEF FbInv, ScreenInv

LEMMA FlushClearKeeps ==
  ASSUME FbAssumption, FbInv, FlushClear
  PROVE  FbInv'
<1> DEFINE w == [Writer EXCEPT !.pc = "home"]
<1>1. /\ writers # <<>> /\ Len(writers) \in Nat /\ Len(writers) > 0 /\ Writer = writers[Len(writers)]
      /\ Writer \in WriterType /\ Writer.pc = "clear" /\ Writer.char = "newline"
      /\ w = [Writer EXCEPT !.pc = "home", !.row = Writer.row, !.lines = Writer.lines]
      /\ Writer.row \in 0..MaxY - 1 /\ Writer.lines \in BOOLEAN
  BY LineIs DEF FlushClear, LineSteps, Window
<1>2. writers' = Above(w) /\ memory' = pixels /\ UNCHANGED <<m_Position, Foreground, on, pixels, returned, torn>>
  BY DEF FlushClear, GoesTo
<1> HIDE DEF w
<1>3. /\ WritersInv' /\ RowsShown' /\ writers' \in Seq(WriterType) /\ writers' # <<>>
      /\ Len(writers') = Len(writers) /\ Writer'.pc = "home"
      /\ OuterBetweenRows' <=> OuterBetweenRows
  <2>1. Writer.lines \/ (~Writer.lines /\ on' = on)
    BY <1>1, <1>2
  <2>2. "home" \in (LineSteps \ {"store"}) \cup {"paint"}
    BY DEF LineSteps, Window
  <2> QED
    BY <1>1, <1>2, <2>1, <2>2, LineStepIs
<1>4. FbTypes'
  BY <1>2, <1>3 DEF FbInv, FbTypes
<1>5. RowBound'
  BY <1>1, <1>2, <1>3 DEF FbInv, ScreenInv, RowBound, InWindow, Window, At
<1>6. TornKnown' /\ Fresh' /\ FreeAhead'
  BY <1>1, <1>2, <1>3 DEF FbInv, ScreenInv, TornKnown, Fresh, FreeAhead, At
<1> QED
  BY <1>3, <1>4, <1>5, <1>6 DEF FbInv, ScreenInv

LEMMA FirstRowKeeps ==
  ASSUME FbAssumption, FbInv, NEW intstate \in BOOLEAN, FirstRow(intstate)
  PROVE  FbInv'
<1> DEFINE w == [Writer EXCEPT !.pc = "paint", !.lines = TRUE]
<1>1. /\ writers # <<>> /\ Len(writers) \in Nat /\ Len(writers) > 0 /\ Writer = writers[Len(writers)]
      /\ Writer \in WriterType /\ Writer.pc = "home" /\ Writer.char = "newline"
      /\ Writer.row \in 0..MaxY - 1 /\ Writer.lines \in BOOLEAN
  BY LineIs DEF FirstRow, LineSteps, Window
<1>2. /\ writers' = Above(w) /\ m_Position' = [m_Position EXCEPT !.y = 0] /\ on' = (on \/ intstate)
      /\ UNCHANGED <<Foreground, pixels, memory, returned, torn>>
  BY DEF FirstRow, Enabled
<1>3. w = [Writer EXCEPT !.pc = "paint", !.row = Writer.row, !.lines = TRUE]
  BY <1>1 DEF WriterType
<1> HIDE DEF w
<1>4. /\ WritersInv' /\ RowsShown' /\ writers' \in Seq(WriterType) /\ writers' # <<>>
      /\ Len(writers') = Len(writers) /\ Writer'.pc = "paint"
      /\ OuterBetweenRows' <=> OuterBetweenRows
  <2>1. "paint" \in (LineSteps \ {"store"}) \cup {"paint"} /\ TRUE \in BOOLEAN
    OBVIOUS
  <2> QED
    BY <1>1, <1>2, <1>3, <2>1, LineStepIs
<1>5. /\ m_Position.x \in 0..MaxX - 1 /\ MaxX \in Nat /\ MaxY \in Nat /\ MaxX > 1 /\ MaxY > 2
      /\ \A cell \in Cells : ResetFb[cell] = "black"
  BY PlaceIs DEF FbInv
<1>6. m_Position' \in [x : 0..MaxX - 1, y : 0..MaxY] /\ m_Position'.y = 0
  BY <1>2, <1>5 DEF FbInv, FbTypes
<1>7. FbTypes'
  BY <1>2, <1>4, <1>6 DEF FbInv, FbTypes
<1>8. RowBound'
  BY <1>4, <1>5, <1>6 DEF RowBound, InWindow, Window, At
<1>9. TornKnown' /\ Fresh'
  BY <1>2, <1>4 DEF FbInv, ScreenInv, TornKnown, Fresh, At
<1>10. FreeAhead'
  BY <1>1, <1>2, <1>5 DEF FbInv, ScreenInv, FreeAhead, Fresh, At
<1> QED
  BY <1>4, <1>7, <1>8, <1>9, <1>10 DEF FbInv, ScreenInv

\* The end of a new line, and with it of the character.
LEMMA FlushRowKeeps ==
  ASSUME FbAssumption, FbInv, NEW intstate \in BOOLEAN, FlushRow(intstate)
  PROVE  FbInv'
<1> DEFINE n == Len(writers)
           w == Done([Writer EXCEPT !.lines = TRUE])
<1>1. /\ writers # <<>> /\ n \in Nat /\ n > 0 /\ Writer = writers[n]
      /\ Writer \in WriterType /\ Writer.pc = "flush" /\ Writer.char = "newline"
  BY LineIs DEF FlushRow, LineSteps, Window
<1>2. /\ writers' = Above(w) /\ memory' = pixels /\ on' = (on \/ intstate)
      /\ UNCHANGED <<m_Position, Foreground, pixels, returned, torn>>
  BY DEF FlushRow, Enabled
<1>3. /\ w \in WriterType /\ w.kind = Writer.kind /\ w.lines = TRUE
      /\ w.CurrentForeground = Writer.CurrentForeground /\ w.char = "none" /\ w.pc = "next"
  BY <1>1 DEF WriterType, Done
<1> HIDE DEF w
<1>4. InStep(w)
  BY <1>3 DEF InStep, LineSteps, Window
<1>5. /\ writers' \in Seq(WriterType) /\ Len(writers') = n /\ writers' # <<>> /\ Writer' = w
      /\ OuterBetweenRows' <=> OuterBetweenRows
  BY <1>1, <1>2, <1>3, AboveIs
<1>6. WritersInv'
  BY <1>1, <1>2, <1>3, <1>4, StepKeepsWriters
<1>7. FbTypes'
  BY <1>2, <1>5 DEF FbInv, FbTypes
<1>8. RowBound'
  <2>1. m_Position.y <= MaxY - 2 /\ m_Position.y \in Nat /\ MaxY \in Nat
    BY <1>1, PlaceIs DEF FbInv, ScreenInv, RowBound, At
  <2> QED
    BY <1>2, <1>3, <1>5, <2>1 DEF RowBound, InWindow, Window, At
<1>9. TornKnown' /\ Fresh' /\ FreeAhead' /\ RowsShown'
  BY <1>2, <1>3, <1>5 DEF FbInv, ScreenInv, TornKnown, Fresh, FreeAhead, RowsShown, At
<1> QED
  BY <1>6, <1>7, <1>8, <1>9 DEF FbInv, ScreenInv

\* The letter that was just written is behind the position.
LetterShown ==
  LET cell == IF m_Position'.x > 0 THEN <<m_Position'.x - 1, m_Position'.y>>
              ELSE <<MaxX - 1, m_Position'.y - 1>>
  IN cell \in Cells /\ pixels'[cell] = Foreground

\* One character, drawn, and the end of its row.
LEMMA PutGlyphKeeps ==
  ASSUME FbAssumption, FbInv, PutGlyph
  PROVE  FbInv' /\ (Writer.char = "letter" /\ Writer'.char = "none" => LetterShown)
<1> DEFINE n == Len(writers)
           x == m_Position.x
           y == m_Position.y
           here == <<x, y>>
           drawn == IF Writer.char = "letter" THEN Foreground ELSE "black"
           screen == [pixels EXCEPT ![here] = drawn]
<1>1. /\ writers # <<>> /\ n \in Nat /\ n > 0 /\ Writer = writers[n] /\ Writer \in WriterType
      /\ Writer.pc = "glyph" /\ Writer.char \in {"letter", "space"}
      /\ UNCHANGED <<Foreground, on>>
  <2>1. /\ writers # <<>> /\ n \in Nat /\ n > 0 /\ Writer = writers[n] /\ Writer \in WriterType
        /\ Writer.pc = "glyph" /\ UNCHANGED <<Foreground, on>>
    BY WriterIs DEF PutGlyph, At, FbInv
  <2>2. n \in 1..n
    BY <2>1
  <2> QED
    BY <2>1, <2>2 DEF FbInv, WritersInv, InStep
<1>2. /\ x \in 0..MaxX - 1 /\ y \in 0..MaxY - 1
      /\ MaxX \in Nat /\ MaxY \in Nat /\ MaxX > 1 /\ MaxY > 2
      /\ y = MaxY - 1 => ~on /\ n > 1 /\ writers[n - 1].pc \in Window
  <2>1. ~InWindow
    BY <1>1 DEF InWindow, Window
  <2> QED
    BY <2>1, PlaceIs DEF FbInv, ScreenInv, RowBound
<1>3. /\ here \in Cells /\ <<0, 0>> \in Cells /\ drawn \in Colours
      /\ \A cell \in Cells : /\ cell[1] \in 0..MaxX - 1 /\ cell[2] \in 0..MaxY - 1
                             /\ cell[2] = y /\ cell[1] = x <=> cell = here
      /\ ResetFb \in [Cells -> Colours] /\ \A cell \in Cells : ResetFb[cell] = "black"
  BY <1>2, PlaceIs DEF Cells, FbInv, FbTypes, Colours
<1>4. /\ screen \in [Cells -> Colours] /\ screen[here] = drawn
      /\ \A cell \in Cells : cell # here => screen[cell] = pixels[cell]
  BY <1>3 DEF FbInv, FbTypes
<1>5. \/ /\ x + 1 < MaxX
         /\ m_Position' = [m_Position EXCEPT !.x = @ + 1]
         /\ pixels' = screen /\ writers' = Above(Done(Writer))
         /\ UNCHANGED <<memory, returned, torn>>
      \/ /\ x + 1 >= MaxX /\ y + 1 < MaxY - 1
         /\ m_Position' = [x |-> 0, y |-> y + 1]
         /\ pixels' = screen /\ memory' = screen /\ returned' = FALSE
         /\ writers' = Above(Done(Writer)) /\ UNCHANGED torn
      \/ /\ x + 1 >= MaxX /\ y + 1 >= MaxY - 1
         /\ m_Position' = [x |-> 0, y |-> 0]
         /\ Cleared /\ memory' = ResetFb /\ GoesTo("paint")
  BY DEF PutGlyph
<1> HIDE DEF screen, drawn, n
<1>6. PICK writer \in WriterType :
        /\ writers' = Above(writer) /\ InStep(writer) /\ writer.kind = Writer.kind
        /\ writer.CurrentForeground = Writer.CurrentForeground /\ writer.lines = Writer.lines
        /\ writer.char # "newline"
        /\ \/ /\ x + 1 < MaxX \/ y + 1 < MaxY - 1
              /\ writer.pc = "next" /\ writer.char = "none"
           \/ /\ x + 1 >= MaxX /\ y + 1 >= MaxY - 1
              /\ writer.pc = "paint" /\ writer.char = Writer.char
  <2>1. CASE writers' = Above(Done(Writer)) /\ (x + 1 < MaxX \/ y + 1 < MaxY - 1)
    <3>1. /\ Done(Writer) \in WriterType /\ Done(Writer).kind = Writer.kind
          /\ Done(Writer).lines = Writer.lines /\ Done(Writer).char = "none" /\ Done(Writer).pc = "next"
          /\ Done(Writer).CurrentForeground = Writer.CurrentForeground
      BY <1>1 DEF WriterType, Done
    <3>2. InStep(Done(Writer))
      BY <3>1 DEF InStep, LineSteps, Window
    <3> QED
      BY <2>1, <3>1, <3>2
  <2>2. CASE GoesTo("paint") /\ x + 1 >= MaxX /\ y + 1 >= MaxY - 1
    <3> DEFINE w == [Writer EXCEPT !.pc = "paint"]
    <3>1. /\ w \in WriterType /\ w.kind = Writer.kind /\ w.lines = Writer.lines
          /\ w.CurrentForeground = Writer.CurrentForeground /\ w.char = Writer.char /\ w.pc = "paint"
      BY <1>1 DEF WriterType
    <3>2. writers' = Above(w)
      BY <2>2 DEF GoesTo
    <3> HIDE DEF w
    <3>3. InStep(w) /\ w.char # "newline"
      BY <1>1, <3>1 DEF InStep, LineSteps, Window
    <3> QED
      BY <2>2, <3>1, <3>2, <3>3
  <2> QED
    BY <1>5, <2>1, <2>2
<1>7. /\ writers' \in Seq(WriterType) /\ Len(writers') = n /\ writers'[n] = writer
      /\ writers' # <<>> /\ Writer' = writer
      /\ \A i \in 1..n : i # n => writers'[i] = writers[i]
      /\ OuterBetweenRows' <=> OuterBetweenRows
  BY <1>1, <1>6, AboveIs DEF n
<1>8. writer.pc \in {"next", "paint"}
  BY <1>6
<1>9. WritersInv'
  <2>1. writer.lines \/ (~Writer.lines /\ on' = on)
    BY <1>1, <1>6 DEF WriterType
  <2> QED
    BY <1>1, <1>6, <1>8, <2>1, StepKeepsWriters
<1>10. /\ m_Position' \in [x : 0..MaxX - 1, y : 0..MaxY] /\ m_Position'.x \in 0..MaxX - 1
       /\ m_Position'.y \in 0..MaxY - 1
       /\ m_Position'.y <= MaxY - 2 \/ m_Position'.y = y
  <2>1. CASE x + 1 < MaxX /\ m_Position' = [m_Position EXCEPT !.x = @ + 1]
    <3>1. m_Position' = [m_Position EXCEPT !.x = x + 1] /\ x + 1 \in 0..MaxX - 1 /\ y \in 0..MaxY
      BY <1>2, <2>1
    <3> QED
      BY <1>2, <3>1 DEF FbInv, FbTypes
  <2>2. CASE y + 1 < MaxY - 1 /\ m_Position' = [x |-> 0, y |-> y + 1]
    <3>1. y + 1 \in 0..MaxY - 1 /\ y + 1 \in 0..MaxY /\ y + 1 <= MaxY - 2 /\ 0 \in 0..MaxX - 1
      BY <1>2, <2>2
    <3> QED
      BY <2>2, <3>1
  <2>3. CASE m_Position' = [x |-> 0, y |-> 0]
    BY <1>2, <2>3
  <2> QED
    BY <1>5, <2>1, <2>2, <2>3
<1>11. FbTypes'
  <2>1. OuterBetweenRows \in BOOLEAN
    BY DEF OuterBetweenRows
  <2>2. torn' \in BOOLEAN /\ returned' \in BOOLEAN
    BY <1>5, <2>1 DEF Cleared, FbInv, FbTypes
  <2>3. pixels' \in [Cells -> Colours] /\ memory' \in [Cells -> Colours]
    BY <1>3, <1>4, <1>5 DEF Cleared, FbInv, FbTypes
  <2> QED
    BY <1>1, <1>7, <1>10, <2>2, <2>3 DEF FbInv, FbTypes
<1>12. RowBound'
  <2>1. ~InWindow' /\ ~At("flush")' /\ writers' # <<>>
    BY <1>7, <1>8 DEF InWindow, Window, At
  <2>2. n > 1 => writers'[n - 1] = writers[n - 1]
    BY <1>1, <1>7
  <2> QED
    BY <1>1, <1>2, <1>7, <1>10, <2>1, <2>2 DEF RowBound
<1>13. TornKnown' /\ Fresh'
  BY <1>5, <1>7, <1>8 DEF FbInv, ScreenInv, TornKnown, Fresh, At, Cleared
<1>14. (\A i \in 1..n : writers'[i].char # "newline") => \A i \in 1..n : writers[i].char # "newline"
  BY <1>1, <1>7
<1>15. FreeAhead' /\ RowsShown' /\ (writer.char = "none" /\ Writer.char = "letter" => LetterShown)
  <2>1. CASE /\ x + 1 < MaxX
             /\ m_Position' = [m_Position EXCEPT !.x = @ + 1]
             /\ pixels' = screen /\ UNCHANGED <<memory, returned, torn>>
    <3>1. m_Position'.x = x + 1 /\ m_Position'.y = y
      BY <1>2, <2>1 DEF FbInv, FbTypes
    <3>2. FreeAhead'
      <4>1. ASSUME ~torn, NEW cell \in Cells,
                   cell[2] > y \/ (cell[2] = y /\ cell[1] >= x + 1 /\ ~returned)
            PROVE  pixels'[cell] = "black"
        BY <1>2, <1>3, <1>4, <2>1, <4>1 DEF FbInv, ScreenInv, FreeAhead
      <4> QED
        BY <2>1, <3>1, <4>1 DEF FreeAhead
    <3>3. RowsShown'
      <4>1. \A cell \in Cells : cell[2] # y => pixels'[cell] = pixels[cell] /\ memory'[cell] = memory[cell]
        BY <1>3, <1>4, <2>1
      <4> QED
        BY <1>7, <1>14, <3>1, <4>1 DEF FbInv, ScreenInv, RowsShown, n
    <3>4. Writer.char = "letter" => LetterShown
      BY <1>2, <1>3, <1>4, <2>1, <3>1 DEF LetterShown, drawn
    <3> QED
      BY <3>2, <3>3, <3>4
  <2>2. CASE /\ x + 1 >= MaxX /\ y + 1 < MaxY - 1
             /\ m_Position' = [x |-> 0, y |-> y + 1]
             /\ pixels' = screen /\ memory' = screen /\ returned' = FALSE /\ UNCHANGED torn
    <3>1. m_Position'.x = 0 /\ m_Position'.y = y + 1
      BY <2>2
    <3>2. FreeAhead'
      <4>1. ASSUME ~torn, NEW cell \in Cells, cell[2] > y PROVE pixels'[cell] = "black"
        BY <1>2, <1>3, <1>4, <2>2, <4>1 DEF FbInv, ScreenInv, FreeAhead
      <4> QED
        BY <1>2, <1>3, <2>2, <3>1, <4>1 DEF FreeAhead
    <3>3. RowsShown'
      BY <2>2 DEF RowsShown
    <3>4. Writer.char = "letter" => LetterShown
      <4>1. MaxX - 1 = x /\ m_Position'.y - 1 = y
        BY <1>2, <2>2, <3>1
      <4> QED
        BY <1>3, <1>4, <2>2, <3>1, <4>1 DEF LetterShown, drawn
    <3> QED
      BY <3>2, <3>3, <3>4
  <2>3. CASE x + 1 >= MaxX /\ y + 1 >= MaxY - 1 /\ Cleared /\ memory' = ResetFb
    <3>1. writer.char # "none"
      BY <1>1, <1>2, <1>6, <2>3
    <3> QED
      BY <1>3, <2>3, <3>1 DEF Cleared, FreeAhead, RowsShown
  <2> QED
    BY <1>5, <2>1, <2>2, <2>3
<1> QED
  BY <1>7, <1>9, <1>11, <1>12, <1>13, <1>15 DEF FbInv, ScreenInv

LEMMA SerialPortWriteKeeps ==
  ASSUME FbAssumption, FbInv, NEW kind \in {"plain", "critical"}, NEW length \in 0..Length,
         SerialPortWrite(kind, length)
  PROVE  FbInv' /\ Len(writers') # Len(writers)
<1> DEFINE n == Len(writers)
           new == [kind |-> kind, left |-> length, InterruptState |-> on,
                   CurrentForeground |-> Saved(kind), lines |-> FALSE,
                   char |-> "none", row |-> 0, pc |-> "next"]
<1>1. /\ writers' = Append(writers, new) /\ on' = FALSE /\ (writers # <<>> => on)
      /\ Foreground' = IF kind = "critical" THEN "yellow" ELSE Foreground
      /\ torn' = (torn \/ (writers # <<>> /\ Writer.pc \in BetweenRows))
      /\ UNCHANGED <<m_Position, pixels, memory, returned>>
  BY DEF SerialPortWrite
<1>2. /\ Length \in Nat /\ Foreground \in {"white", "yellow"} /\ on \in BOOLEAN
      /\ MaxY \in Nat /\ MaxY > 2 /\ m_Position.y \in 0..MaxY
  BY PlaceIs DEF FbAssumption, FbInv, FbTypes
<1>3. /\ new \in WriterType /\ new.CurrentForeground = Foreground /\ ~new.lines
      /\ Within(new) = Foreground' /\ new.pc = "next" /\ new.char = "none"
  BY <1>1, <1>2 DEF WriterType, Saved, Within
<1> HIDE DEF new
<1>4. /\ n \in Nat /\ writers' \in Seq(WriterType) /\ Len(writers') = n + 1 /\ writers'[n + 1] = new
      /\ \A i \in 1..n : writers'[i] = writers[i]
  BY <1>1, <1>3, AppendProperties DEF FbInv, FbTypes
<1>5. writers' # <<>> /\ Writer' = new /\ (writers # <<>> <=> n # 0)
  BY <1>4 DEF Writer, FbInv, FbTypes
<1>6. FbTypes'
  <2>1. torn' \in BOOLEAN
    BY <1>1 DEF FbInv, FbTypes
  <2> QED
    BY <1>1, <1>2, <1>4, <2>1 DEF FbInv, FbTypes
<1>7. n # 0 => Writer = writers[n] /\ n \in 1..n
  BY <1>4 DEF Writer
<1> HIDE DEF n
<1>8. \A i \in 1..n + 1 : i = n + 1 \/ i \in 1..n
  BY <1>4
<1>9. InterruptsKept'
  <2>1. \A i \in 1..n : writers[i].lines
    BY <1>1, <1>4, <1>5 DEF FbInv, WritersInv, InterruptsKept, n
  <2> QED
    BY <1>1, <1>4, <1>8, <2>1 DEF InterruptsKept
<1>10. ColoursNest'
  <2>1. CASE n = 0
    <3>1. writers = <<>>
      BY <1>5, <2>1
    <3>2. writers'[1].CurrentForeground = "white" /\ \A i \in 2..Len(writers') : FALSE
      BY <1>3, <1>4, <2>1, <3>1 DEF FbInv, WritersInv, ColoursNest
    <3> QED
      BY <1>3, <1>5, <3>2 DEF ColoursNest
  <2>2. CASE n # 0
    <3>1. writers # <<>> /\ Foreground = Within(writers[n])
      BY <1>5, <2>2 DEF FbInv, WritersInv, ColoursNest, Writer, n
    <3>2. /\ 1 \in 1..n /\ n \in 1..n /\ (n + 1) - 1 = n
          /\ \A i \in 2..n + 1 : i - 1 \in 1..n /\ (i # n + 1 => i \in 2..n /\ i \in 1..n)
      BY <1>4, <2>2
    <3>3. ASSUME NEW i \in 2..n + 1 PROVE writers'[i].CurrentForeground = Within(writers'[i - 1])
      <4>1. CASE i = n + 1
        BY <1>3, <1>4, <3>1, <3>2, <4>1
      <4>2. CASE i # n + 1
        BY <1>4, <3>2, <4>2 DEF FbInv, WritersInv, ColoursNest, n
      <4> QED
        BY <4>1, <4>2
    <3>4. writers'[1].CurrentForeground = "white"
      BY <1>4, <3>1, <3>2 DEF FbInv, WritersInv, ColoursNest
    <3> QED
      BY <1>3, <1>4, <1>5, <3>3, <3>4 DEF ColoursNest
  <2> QED
    BY <2>1, <2>2
<1>11. (\A i \in 1..Len(writers') : InStep(writers'[i])) /\ RowsLeft'
  <2>1. InStep(new)
    BY <1>3 DEF InStep, LineSteps, Window
  <2>2. \A i \in 1..n : InStep(writers'[i])
    BY <1>4 DEF FbInv, WritersInv, n
  <2>3. ASSUME NEW i \in 1..n, writers'[i].pc = "store" PROVE writers'[i].row <= MaxY - 2
    <3>1. writers # <<>> /\ on
      BY <1>1, <1>4, <1>5
    <3> QED
      BY <1>4, <2>3, <3>1 DEF FbInv, WritersInv, RowsLeft, n
  <2>4. new.pc # "store"
    BY <1>3
  <2> QED
    BY <1>4, <1>8, <2>1, <2>2, <2>3, <2>4 DEF RowsLeft
<1>12. RowBound'
  <2>1. ~InWindow' /\ ~At("flush")'
    BY <1>3, <1>5 DEF InWindow, Window, At
  <2>2. CASE n = 0
    BY <1>1, <1>2, <1>5, <2>1, <2>2 DEF FbInv, ScreenInv, RowBound
  <2>3. CASE n # 0
    <3>1. /\ writers # <<>> /\ on /\ Len(writers') > 1 /\ Len(writers') - 1 = n
          /\ writers'[n] = Writer
      BY <1>1, <1>4, <1>5, <1>7, <2>3
    <3>2. CASE Writer.pc \in Window
      BY <1>1, <1>2, <1>5, <2>1, <3>1, <3>2 DEF FbInv, ScreenInv, RowBound, InWindow
    <3>3. CASE Writer.pc \notin Window
      BY <1>1, <1>2, <1>5, <2>1, <3>1, <3>3 DEF FbInv, ScreenInv, RowBound, InWindow
    <3> QED
      BY <3>2, <3>3
  <2> QED
    BY <2>2, <2>3
<1>13. TornKnown'
  <2>1. ASSUME NEW i \in 1..Len(writers') - 1, writers'[i].pc \in BetweenRows PROVE torn'
    <3>1. i \in 1..n /\ (i = n \/ i \in 1..n - 1) /\ n # 0
      BY <1>4
    <3>2. CASE i = n
      BY <1>1, <1>4, <1>5, <1>7, <2>1, <3>1, <3>2
    <3>3. CASE i \in 1..n - 1
      <4>1. OuterBetweenRows
        BY <1>4, <2>1, <3>1, <3>3 DEF OuterBetweenRows, n
      <4> QED
        BY <1>1, <4>1 DEF FbInv, ScreenInv, TornKnown
    <3> QED
      BY <3>1, <3>2, <3>3
  <2> QED
    BY <2>1 DEF TornKnown, OuterBetweenRows
<1>14. Fresh' /\ FreeAhead'
  BY <1>1, <1>3, <1>5 DEF FbInv, ScreenInv, Fresh, FreeAhead, At
<1>15. RowsShown'
  <2>1. (\A i \in 1..n + 1 : writers'[i].char # "newline") => \A i \in 1..n : writers[i].char # "newline"
    BY <1>4
  <2> QED
    BY <1>1, <1>4, <2>1 DEF FbInv, ScreenInv, RowsShown, n
<1>16. Len(writers') # Len(writers)
  BY <1>4 DEF n
<1> QED
  BY <1>6, <1>9, <1>10, <1>11, <1>12, <1>13, <1>14, <1>15, <1>16 DEF FbInv, WritersInv, ScreenInv

LEMMA WriteReturnsKeeps ==
  ASSUME FbAssumption, FbInv, WriteReturns
  PROVE  FbInv' /\ Len(writers') # Len(writers)
<1> DEFINE n == Len(writers)
<1>1. /\ writers # <<>> /\ n \in Nat /\ n > 0 /\ Writer = writers[n] /\ Writer \in WriterType
      /\ Writer.pc = "next" /\ writers' = SubSeq(writers, 1, n - 1)
      /\ Foreground' = IF Writer.kind = "critical" THEN Writer.CurrentForeground ELSE Foreground
      /\ on' = (on \/ Writer.InterruptState)
      /\ UNCHANGED <<m_Position, pixels, memory, returned, torn>>
  BY WriterIs DEF WriteReturns, FbInv, At
<1>2. /\ writers' \in Seq(WriterType) /\ Len(writers') = n - 1
      /\ \A i \in 1..n - 1 : writers'[i] = writers[i]
  <2>1. \A i \in 1..n - 1 : writers[i] \in WriterType
    BY <1>1, ElementOfSeq DEF FbInv, FbTypes
  <2> QED
    <3>1. writers \in Seq(WriterType) /\ 1 \in Int /\ n - 1 \in Int /\ n - 1 <= n
      BY <1>1 DEF FbInv, FbTypes
    <3>2. /\ SubSeq(writers, 1, n - 1) \in Seq(WriterType)
          /\ Len(SubSeq(writers, 1, n - 1)) = IF 1 <= n - 1 THEN n - 1 - 1 + 1 ELSE 0
          /\ \A i \in 1..n - 1 - 1 + 1 : SubSeq(writers, 1, n - 1)[i] = writers[1 + i - 1]
      BY <2>1, <3>1, SubSeqProperties
    <3>3. n - 1 - 1 + 1 = n - 1 /\ (1 > n - 1 => n - 1 = 0) /\ \A i \in 1..n - 1 : 1 + i - 1 = i
      <4>1. n \in Nat /\ n > 0
        BY <1>1
      <4> HIDE DEF n
      <4> QED
        BY <4>1
    <3> QED
      BY <1>1, <3>2, <3>3
<1>3. Foreground' = Writer.CurrentForeground
  BY <1>1 DEF FbInv, WritersInv, ColoursNest, Within
<1>4. FbTypes'
  BY <1>1, <1>2, <1>3 DEF FbInv, FbTypes, WriterType
<1>5. MaxY \in Nat /\ MaxY > 2 /\ m_Position.y \in 0..MaxY
  BY PlaceIs DEF FbInv
<1> HIDE DEF n
<1>6. \A i \in 1..n - 1 : i \in 1..n /\ i # n /\ i < n
  BY <1>1
<1>7. InterruptsKept'
  BY <1>2, <1>6 DEF FbInv, WritersInv, InterruptsKept, n
<1>8. ColoursNest' /\ (n # 1 => writers' # <<>> /\ Writer' = writers[n - 1])
  <2>1. CASE n = 1
    <3>1. writers' = <<>> /\ \A i \in 2..Len(writers') : FALSE
      BY <1>2, <2>1
    <3>2. Foreground' = "white"
      BY <1>1, <1>3, <2>1 DEF FbInv, WritersInv, ColoursNest
    <3> QED
      BY <2>1, <3>1, <3>2 DEF ColoursNest
  <2>2. CASE n # 1
    <3>1. /\ 1 \in 1..n - 1 /\ n - 1 \in 1..n - 1 /\ n \in 2..n
          /\ \A i \in 2..n - 1 : i \in 1..n - 1 /\ i - 1 \in 1..n - 1 /\ i \in 2..n
      BY <1>1, <2>2
    <3>2. writers' # <<>> /\ Writer' = writers[n - 1]
      BY <1>2, <3>1 DEF Writer
    <3>3. Foreground' = Within(writers[n - 1])
      BY <1>1, <1>3, <3>1 DEF FbInv, WritersInv, ColoursNest, n
    <3>4. writers'[1].CurrentForeground = "white"
      BY <1>1, <1>2, <3>1 DEF FbInv, WritersInv, ColoursNest
    <3>5. \A i \in 2..n - 1 : writers'[i].CurrentForeground = Within(writers'[i - 1])
      BY <1>2, <3>1 DEF FbInv, WritersInv, ColoursNest, n
    <3> QED
      BY <1>2, <3>2, <3>3, <3>4, <3>5 DEF ColoursNest
  <2> QED
    BY <2>1, <2>2
<1>9. (\A i \in 1..Len(writers') : InStep(writers'[i])) /\ RowsLeft'
  BY <1>2, <1>6 DEF FbInv, WritersInv, RowsLeft, n
<1>10. RowBound'
  <2>1. ~InWindow
    BY <1>1 DEF InWindow, Window
  <2>2. CASE n = 1
    <3>1. writers' = <<>> /\ m_Position.y <= MaxY - 2
      BY <1>1, <1>2, <1>5, <2>1, <2>2 DEF FbInv, ScreenInv, RowBound, n
    <3> QED
      BY <1>1, <1>5, <3>1 DEF RowBound, InWindow, At
  <2>3. CASE n # 1
    <3>1. m_Position.y <= MaxY - 1 /\ (m_Position.y = MaxY - 1 => Writer'.pc \in Window)
      BY <1>8, <2>1, <2>3 DEF FbInv, ScreenInv, RowBound, n
    <3>2. writers' # <<>> /\ m_Position' = m_Position
      BY <1>1, <1>8, <2>3
    <3>3. "flush" \notin Window
      BY DEF Window
    <3> QED
      BY <1>5, <3>1, <3>2, <3>3 DEF RowBound, InWindow, At
  <2> QED
    BY <2>2, <2>3
<1>11. TornKnown' /\ Fresh'
  <2>1. ASSUME NEW i \in 1..Len(writers'), writers'[i].pc \in BetweenRows PROVE torn
    <3>1. i \in 1..n - 1
      BY <1>2
    <3>2. OuterBetweenRows
      BY <1>2, <2>1, <3>1 DEF OuterBetweenRows, n
    <3> QED
      BY <3>2 DEF FbInv, ScreenInv, TornKnown
  <2>2. \A i \in 1..Len(writers') - 1 : i \in 1..Len(writers')
    BY <1>1, <1>2
  <2>3. TornKnown'
    BY <1>1, <2>1, <2>2 DEF TornKnown, OuterBetweenRows
  <2>4. Fresh'
    <3>1. CASE n = 1
      <4>1. writers' = <<>>
        BY <1>2, <3>1
      <4> QED
        BY <4>1 DEF Fresh, At
    <3>2. CASE n # 1
      <4>1. n - 1 \in 1..Len(writers') /\ writers'[n - 1] = Writer'
        BY <1>1, <1>2, <1>8, <3>2
      <4>2. ~torn => Writer'.pc \notin BetweenRows
        BY <2>1, <4>1
      <4> QED
        BY <1>1, <4>2 DEF Fresh, At, BetweenRows
    <3> QED
      BY <3>1, <3>2
  <2> QED
    BY <2>3, <2>4
<1>12. FreeAhead'
  BY <1>1 DEF FbInv, ScreenInv, FreeAhead
<1>13. RowsShown'
  <2>1. Writer.char # "newline"
    <3>1. n \in 1..n
      BY <1>1
    <3> QED
      BY <1>1, <3>1 DEF FbInv, WritersInv, InStep, n
  <2>2. \A i \in 1..n : i = n \/ i \in 1..n - 1
    BY <1>1
  <2>3. (\A i \in 1..n - 1 : writers'[i].char # "newline") => \A i \in 1..n : writers[i].char # "newline"
    BY <1>1, <1>2, <2>1, <2>2
  <2> QED
    BY <1>1, <1>2, <2>3 DEF FbInv, ScreenInv, RowsShown, n
<1>14. Len(writers') # Len(writers)
  BY <1>1, <1>2 DEF n
<1> QED
  BY <1>4, <1>7, <1>8, <1>9, <1>10, <1>11, <1>12, <1>13, <1>14 DEF FbInv, WritersInv, ScreenInv

LEMMA FbInitHolds == ASSUME FbAssumption PROVE FbInit => FbInv
<1> SUFFICES ASSUME FbInit PROVE FbInv
  OBVIOUS
<1>1. FbTypes /\ m_Position.y = 0 /\ MaxY \in Nat /\ MaxY > 2
  <2>1. m_Position \in [x : 0..MaxX - 1, y : 0..MaxY] /\ m_Position.y = 0 /\ MaxY \in Nat /\ MaxY > 2
    BY ScreenIs DEF FbInit
  <2>2. ResetFb \in [Cells -> Colours]
    BY DEF ResetFb, Colours
  <2> QED
    BY <2>1, <2>2, EmptySeq DEF FbInit, FbTypes
<1>2. Fresh /\ FreeAhead /\ RowsShown
  BY DEF FbInit, Fresh, FreeAhead, RowsShown, ResetFb, At
<1>3. Len(writers) = 0 /\ writers = <<>>
  BY DEF FbInit
<1>4. WritersInv
  BY <1>3 DEF FbInit, WritersInv, InterruptsKept, ColoursNest, RowsLeft
<1>5. RowBound /\ TornKnown
  BY <1>1, <1>3 DEF RowBound, InWindow, At, TornKnown, OuterBetweenRows
<1> QED
  BY <1>1, <1>2, <1>4, <1>5 DEF FbInv, ScreenInv

\* A step of the console, and the letter it writes.
LEMMA FbStepKeeps ==
  ASSUME FbAssumption, FbInv, [FbNext]_fbVars
  PROVE  FbInv' /\ (fbVars' # fbVars => NewestShown)
<1>1. CASE \E char \in Chars : PutChar(char)
  <2>1. FbInv' /\ ~(Writer.char = "letter" /\ Writer'.char = "none")
    BY <1>1, PutCharKeeps
  <2> QED
    BY <2>1 DEF NewestShown
<1>2. CASE PutGlyph
  <2>1. FbInv' /\ (Writer.char = "letter" /\ Writer'.char = "none" => LetterShown)
    BY <1>2, PutGlyphKeeps
  <2> QED
    BY <2>1 DEF NewestShown, LetterShown
<1>3. CASE PutNewLine
  <2>1. FbInv'
    BY <1>3, StoreRowKeeps, FirstColumnKeeps, TestRowKeeps, NewScreenKeeps, FlushClearKeeps,
       FirstRowKeeps, FlushRowKeeps DEF PutNewLine
  <2>2. \E pc \in LineSteps : At(pc)
    BY <1>3 DEF PutNewLine, StoreRow, FirstColumn, TestRow, NewScreen, FlushClear, FirstRow, FlushRow,
       LineSteps, Window
  <2>3. Writer.char # "letter"
    BY <2>2, LineIs
  <2> QED
    BY <2>1, <2>3 DEF NewestShown
<1>4. CASE \E kind \in {"plain", "critical"}, length \in 0..Length : SerialPortWrite(kind, length)
  BY <1>4, SerialPortWriteKeeps DEF NewestShown
<1>5. CASE WriteReturns
  BY <1>5, WriteReturnsKeeps DEF NewestShown
<1>6. CASE UNCHANGED fbVars
  BY <1>6 DEF fbVars, FbInv, FbTypes, WritersInv, ScreenInv, InterruptsKept, ColoursNest, RowsLeft, RowBound,
     TornKnown, OuterBetweenRows, Fresh, FreeAhead, RowsShown, InWindow, Writer, At
<1> QED
  BY <1>1, <1>2, <1>3, <1>4, <1>5, <1>6 DEF FbNext

\* On a screen of any size, each letter that is written is to be seen, in a box
\* of its own inside of the frame buffer, the rows above are shown as they are, and
\* the colour is as it was, however many writers interrupt each other, between two
\* characters or between any two steps of a new line; nothing that is shown is
\* written over, unless one came in between two rows (FrameBufferSerialPortLib.c,
\* lines 108-185 and 352-397).
THEOREM TheLogIsSeen == FbSpec => LogIsSeen
<1> USE FbAssumption
<1> DEFINE Kept == NewestShown /\ InsideScreen' /\ FreeAhead' /\ RowsShown' /\ InterruptsKept' /\ ColourRestored'
<1>1. FbInit => FbInv
  BY FbInitHolds
<1>2. FbInv /\ [FbNext]_fbVars => FbInv'
  BY FbStepKeeps
<1>3. FbInv => InsideScreen
  <2> SUFFICES ASSUME FbInv, At("glyph") PROVE InsideScreen
    BY DEF InsideScreen
  <2>1. ~InWindow
    BY DEF InWindow, Window, At
  <2>2. <<m_Position.x, m_Position.y>> \in Cells
    BY <2>1, PlaceIs DEF FbInv, ScreenInv, RowBound, Cells
  <2> QED
    BY <2>2, GlyphInBox DEF InsideScreen
<1>4. FbInv => ColourRestored
  BY DEF FbInv, WritersInv, ColoursNest, ColourRestored
<1>5. FbInv /\ FbInv' /\ [FbNext]_fbVars => [Kept]_fbVars
  <2> SUFFICES ASSUME FbInv, FbInv', [FbNext]_fbVars, fbVars' # fbVars PROVE Kept
    OBVIOUS
  <2>1. NewestShown
    BY FbStepKeeps
  <2>2. InsideScreen' /\ ColourRestored'
    BY <1>3, <1>4, PTL
  <2> QED
    BY <2>1, <2>2 DEF FbInv, WritersInv, ScreenInv
<1> QED
  BY <1>1, <1>2, <1>5, PTL DEF FbSpec, LogIsSeen

-----------------------------------------------------------------------------
(* The memory dump.                                                        *)

Places == 0..HEX_LENGTH - 1
Numbers == [Places -> 0..Digits - 1]

DumpTypes ==
  /\ number \in {"address", "length"} /\ Key \in Keys \cup {"null"} /\ got \in BOOLEAN
  /\ Index \in Places /\ HexCharIndex \in 0..Digits - 1
  /\ OldHexCharIndex \in Numbers /\ HexBuffer \in Numbers
  /\ result \in [address : Numbers, length : Numbers]

\* The loop looks at a key that was pressed, or at none.
KeyIsPressed == stage = "handle" => (got <=> Key # "null")

\* Files are open in ReadMemoryAndWriteToFile only.
OpenInPlace == stage \in {"menu", "read", "handle", "locate", "volume"} => open = {}

DumpInv == DumpTypes /\ DigitsAgree /\ KeyIsPressed /\ OpenInPlace

LEMMA NumbersAre ==
  ASSUME DumpAssumption
  PROVE  /\ HEX_LENGTH \in Nat \ {0} /\ Digits \in Nat \ {0} /\ 0 \in Places /\ 0 \in 0..Digits - 1
         /\ Zeros \in Numbers /\ Zeros[0] = 0
  BY DEF DumpAssumption, Places, Numbers, Zeros

LEMMA GetHexInputKeeps ==
  ASSUME DumpAssumption, NEW which \in {"address", "length"}, GetHexInput(which)
  PROVE  /\ number' \in {"address", "length"} /\ Index' \in Places /\ HexCharIndex' \in 0..Digits - 1
         /\ OldHexCharIndex' \in Numbers /\ HexBuffer' \in Numbers
         /\ stage' = "read" /\ DigitsAgree'
  BY NumbersAre DEF GetHexInput, DigitsAgree

LEMMA HandleKeyKeeps ==
  ASSUME DumpAssumption, DumpInv, HandleKey
  PROVE  DumpInv' /\ OncePerKey /\ NumbersAsShown
<1>1. /\ stage = "handle" /\ UNCHANGED <<Key, got>> /\ DumpTypes /\ open = {}
      /\ HexBuffer = OldHexCharIndex /\ HexCharIndex = HexBuffer[Index]
      /\ (got <=> Key # "null")
  BY DEF HandleKey, DumpInv, DigitsAgree, KeyIsPressed, OpenInPlace
<1>2. CASE NextDigit
  <2>1. /\ Key = "escape" /\ stage' = "read" /\ UNCHANGED <<number, HexBuffer, result, open>>
    BY <1>2 DEF NextDigit
  <2>2. OldHexCharIndex' = OldHexCharIndex /\ Index' \in Places /\ HexCharIndex' = HexBuffer[Index']
    <3>1. [OldHexCharIndex EXCEPT ![Index] = HexCharIndex] = OldHexCharIndex
      BY <1>1 DEF DumpTypes, Numbers
    <3>2. Index < HEX_LENGTH - 1 => Index + 1 \in Places
      BY <1>1, NumbersAre DEF DumpTypes, Places
    <3> QED
      BY <1>1, <1>2, <3>1, <3>2 DEF NextDigit, DumpTypes
  <2>3. HexCharIndex' \in 0..Digits - 1
    BY <1>1, <2>2 DEF DumpTypes, Numbers
  <2>4. DumpTypes' /\ DigitsAgree'
    BY <1>1, <2>1, <2>2, <2>3 DEF DumpTypes, DigitsAgree
  <2> QED
    BY <1>1, <2>1, <2>4 DEF DumpInv, KeyIsPressed, OpenInPlace, OncePerKey, NumbersAsShown
<1>3. CASE Cycle
  <2>1. /\ Key = "tab" /\ stage' = "read" /\ UNCHANGED <<number, Index, result, open>>
        /\ HexCharIndex' = (HexCharIndex + 1) % Digits
        /\ HexBuffer' = [HexBuffer EXCEPT ![Index] = HexCharIndex']
        /\ OldHexCharIndex' = [OldHexCharIndex EXCEPT ![Index] = HexCharIndex']
    BY <1>3 DEF Cycle
  <2>2. HexCharIndex' \in 0..Digits - 1
    BY <1>1, <2>1, NumbersAre DEF DumpTypes
  <2>3. DumpTypes' /\ DigitsAgree'
    BY <1>1, <2>1, <2>2 DEF DumpTypes, Numbers, DigitsAgree
  <2> QED
    BY <1>1, <2>1, <2>3 DEF DumpInv, KeyIsPressed, OpenInPlace, OncePerKey, NumbersAsShown
<1>4. CASE PreviousDigit
  <2>1. /\ Key = "backspace" /\ stage' = "read" /\ UNCHANGED <<number, OldHexCharIndex, result, open>>
        /\ Index' = IF Index > 0 THEN Index - 1 ELSE 0
        /\ HexBuffer' = [HexBuffer EXCEPT ![Index'] = OldHexCharIndex[Index']]
        /\ HexCharIndex' = OldHexCharIndex[Index']
    BY <1>4 DEF PreviousDigit
  <2>2. Index' \in Places
    BY <1>1, <2>1, NumbersAre DEF DumpTypes, Places
  <2>3. HexBuffer' = HexBuffer /\ HexCharIndex' \in 0..Digits - 1
    BY <1>1, <2>1, <2>2 DEF DumpTypes, Numbers
  <2>4. DumpTypes' /\ DigitsAgree'
    BY <1>1, <2>1, <2>2, <2>3 DEF DumpTypes, DigitsAgree
  <2> QED
    BY <1>1, <2>1, <2>4 DEF DumpInv, KeyIsPressed, OpenInPlace, OncePerKey, NumbersAsShown
<1>5. CASE Complete
  <2>1. /\ Key = "return" /\ UNCHANGED open /\ result' = [result EXCEPT ![number] = HexBuffer]
        /\ \/ number = "address" /\ GetHexInput("length")
           \/ number = "length" /\ stage' = "locate" /\ UNCHANGED <<number, input>>
    BY <1>1, <1>5 DEF Complete, DumpTypes
  <2>2. /\ result' \in [address : Numbers, length : Numbers] /\ result'[number] = HexBuffer
        /\ number = "length" => result'.address = result.address
    BY <1>1, <2>1 DEF DumpTypes
  <2>3. CASE number = "address" /\ GetHexInput("length")
    <3>1. /\ number' \in {"address", "length"} /\ Index' \in Places /\ HexCharIndex' \in 0..Digits - 1
          /\ OldHexCharIndex' \in Numbers /\ HexBuffer' \in Numbers
          /\ stage' = "read" /\ DigitsAgree'
      BY <2>3, GetHexInputKeeps
    <3> QED
      BY <1>1, <2>1, <2>2, <3>1 DEF DumpInv, DumpTypes, KeyIsPressed, OpenInPlace, OncePerKey, NumbersAsShown
  <2>4. CASE number = "length" /\ stage' = "locate" /\ UNCHANGED <<number, input>>
    BY <1>1, <2>1, <2>2, <2>4 DEF input, DumpInv, DumpTypes, DigitsAgree, KeyIsPressed, OpenInPlace,
       OncePerKey, NumbersAsShown
  <2> QED
    BY <2>1, <2>3, <2>4
<1>6. CASE /\ Key \notin {"escape", "tab", "backspace", "return"}
           /\ stage' = "read" /\ UNCHANGED <<number, input, result, open>>
  BY <1>1, <1>6 DEF input, DumpInv, DumpTypes, DigitsAgree, KeyIsPressed, OpenInPlace, OncePerKey, NumbersAsShown
<1> QED
  BY <1>2, <1>3, <1>4, <1>5, <1>6 DEF HandleKey

LEMMA DumpStepKeeps ==
  ASSUME DumpAssumption, DumpInv, [DumpNext]_dumpVars
  PROVE  DumpInv' /\ (dumpVars' # dumpVars => OncePerKey /\ NumbersAsShown)
<1>1. CASE DumpMemory2Sdcard
  <2>1. /\ number' \in {"address", "length"} /\ Index' \in Places /\ HexCharIndex' \in 0..Digits - 1
        /\ OldHexCharIndex' \in Numbers /\ HexBuffer' \in Numbers
        /\ stage' = "read" /\ DigitsAgree'
    BY <1>1, GetHexInputKeeps DEF DumpMemory2Sdcard
  <2> QED
    BY <1>1, <2>1, NumbersAre
       DEF DumpMemory2Sdcard, DumpInv, DumpTypes, KeyIsPressed, OpenInPlace, OncePerKey, NumbersAsShown
<1>2. CASE \E pressed \in Keys \cup {"none"} : ReadKeyStroke(pressed)
  <2>1. PICK pressed \in Keys \cup {"none"} : ReadKeyStroke(pressed)
    BY <1>2
  <2>2. /\ stage = "read" /\ stage' = "handle" /\ got' = (pressed # "none")
        /\ Key' = IF pressed = "none" THEN "null" ELSE pressed
        /\ UNCHANGED <<number, Index, HexCharIndex, OldHexCharIndex, HexBuffer, result, open>>
    BY <2>1 DEF ReadKeyStroke, NoKey, input
  <2>3. Key' \in Keys \cup {"null"} /\ got' \in BOOLEAN /\ (got' <=> Key' # "null")
    BY <2>2 DEF Keys
  <2> QED
    BY <2>2, <2>3 DEF DumpInv, DumpTypes, DigitsAgree, KeyIsPressed, OpenInPlace, OncePerKey, NumbersAsShown
<1>3. CASE HandleKey
  BY <1>3, HandleKeyKeeps
<1>4. CASE DumpDmesg \/ WriteFile \/ \E works \in BOOLEAN : Locate(works) \/ OpenVolume(works) \/ Open(works)
  <2>1. UNCHANGED <<number, Key, got, Index, HexCharIndex, OldHexCharIndex, HexBuffer, result>>
    BY <1>4 DEF DumpDmesg, WriteFile, Locate, OpenVolume, Open, input
  <2>2. stage \in {"menu", "locate", "volume", "file", "write"} /\ stage' \in {"menu", "locate", "volume", "file", "write"}
    BY <1>4 DEF DumpDmesg, WriteFile, Locate, OpenVolume, Open
  <2>3. OpenInPlace'
    BY <1>4 DEF DumpDmesg, WriteFile, Locate, OpenVolume, Open, DumpInv, OpenInPlace
  <2> QED
    BY <2>1, <2>2, <2>3 DEF DumpInv, DumpTypes, DigitsAgree, KeyIsPressed, OncePerKey, NumbersAsShown
<1>5. CASE UNCHANGED dumpVars
  BY <1>5 DEF dumpVars, DumpInv, DumpTypes, DigitsAgree, KeyIsPressed, OpenInPlace
<1> QED
  BY <1>1, <1>2, <1>3, <1>4, <1>5 DEF DumpNext

\* For numbers of any length and any digits, the prompt takes what it shows, one
\* change for each key, the length does not disturb the address, and no file
\* stays open, whichever call fails (HexInput.c, MemoryTools.c).
THEOREM TheDumpIsAsEntered == DumpSpec => DumpAsEntered
<1> USE DumpAssumption
<1>1. DumpInit => DumpInv
  <2> SUFFICES ASSUME DumpInit PROVE DumpInv
    OBVIOUS
  <2>1. DumpTypes
    BY NumbersAre DEF DumpInit, DumpTypes
  <2> QED
    BY <2>1 DEF DumpInit, DumpInv, DigitsAgree, KeyIsPressed, OpenInPlace
<1>2. DumpInv /\ [DumpNext]_dumpVars => DumpInv'
  BY DumpStepKeeps
<1>3. DumpInv /\ DumpInv' /\ [DumpNext]_dumpVars
      => [OncePerKey /\ NumbersAsShown /\ DigitsAgree' /\ AllClosed']_dumpVars
  BY DumpStepKeeps DEF DumpInv, OpenInPlace, AllClosed
<1> QED
  BY <1>1, <1>2, <1>3, PTL DEF DumpSpec, DumpAsEntered

-----------------------------------------------------------------------------
(* The binding of the graphics console: the greatest of some numbers.       *)

LEMMA LeastExists ==
  ASSUME NEW S \in SUBSET Nat, S # {}
  PROVE  \E i \in S : \A j \in S : i <= j
<1>1. PICK x \in S : \A y \in S : ~ (<<y, x>> \in OpToRel(<, Nat))
  BY NatLessThanWellFounded, WFMin
<1>2. \A y \in S : y \in Nat /\ x \in Nat
  OBVIOUS
<1>3. \A y \in S : ~ (y < x)
  BY <1>1, <1>2, Zenon DEF OpToRel
<1> QED
  BY <1>2, <1>3

\* Finitely many numbers have a bound: were there a first part of them without
\* one, the part before would have one, and so would this.
LEMMA BoundExists ==
  ASSUME NEW n \in Nat, NEW f, \A i \in 1..n : f[i] \in Nat
  PROVE  \E b \in Nat : \A i \in 1..n : f[i] <= b
<1> DEFINE Bounded(k) == \E b \in Nat : \A i \in 1..k : f[i] <= b
           Bad == {k \in 0..n : ~Bounded(k)}
<1>1. SUFFICES ASSUME Bad # {} PROVE FALSE
  <2>1. n \in 0..n
    OBVIOUS
  <2> QED
    BY <1>1, <2>1
<1>2. PICK k \in Bad : \A j \in Bad : k <= j
  <2>1. Bad \in SUBSET Nat
    OBVIOUS
  <2> QED
    BY <1>1, <2>1, LeastExists
<1>3. k \in 0..n /\ ~Bounded(k)
  BY <1>2
<1>4. Bounded(0)
  <2>1. \A i \in 1..0 : f[i] <= 0
    OBVIOUS
  <2> QED
    BY <2>1
<1>5. k - 1 \in 0..n
  BY <1>3, <1>4
<1>6. Bounded(k - 1)
  <2>1. k - 1 \in Bad => k <= k - 1
    BY <1>2
  <2> QED
    BY <1>3, <1>5, <2>1
<1>7. PICK b \in Nat : \A i \in 1..k - 1 : f[i] <= b
  BY <1>6
<1>8. k \in 1..n /\ f[k] \in Nat
  BY <1>3, <1>5
<1> DEFINE c == IF b <= f[k] THEN f[k] ELSE b
<1>9. c \in Nat /\ b <= c /\ f[k] <= c
  BY <1>8
<1>10. ASSUME NEW i \in 1..k PROVE f[i] <= c
  <2>1. i = k \/ (i \in 1..k - 1 /\ i \in 1..n)
    BY <1>3
  <2>2. CASE i = k
    BY <1>9, <2>2
  <2>3. CASE i \in 1..k - 1 /\ i \in 1..n
    <3>1. f[i] <= b /\ f[i] \in Nat
      BY <1>7, <2>3
    <3> HIDE DEF c
    <3> QED
      BY <1>9, <3>1
  <2> QED
    BY <2>1, <2>2, <2>3
<1> QED
  BY <1>3, <1>9, <1>10

LEMMA GreatestExists ==
  ASSUME NEW n \in Nat, NEW S \in SUBSET (1..n), S # {}, NEW f, \A i \in 1..n : f[i] \in Nat
  PROVE  \E i \in S : \A j \in S : f[j] <= f[i]
<1>1. PICK b \in Nat : \A i \in 1..n : f[i] <= b
  BY BoundExists
<1> DEFINE T == {b - f[i] : i \in S}
<1>2. \A i \in S : b - f[i] \in Nat
  BY <1>1
<1>3. T # {} /\ T \in SUBSET Nat
  <2>1. T # {} /\ \A t \in T : t \in Nat
    BY <1>2, Zenon
  <2> QED
    BY <2>1, Zenon
<1>4. PICK t \in T : \A j \in T : t <= j
  BY <1>3, LeastExists
<1>5. PICK i \in S : t = b - f[i]
  OBVIOUS
<1>6. ASSUME NEW j \in S PROVE f[j] <= f[i]
  <2>1. b - f[j] \in T
    OBVIOUS
  <2>2. b - f[i] <= b - f[j]
    BY <1>4, <1>5, <2>1
  <2>3. f[i] \in Nat /\ f[j] \in Nat
    OBVIOUS
  <2> QED
    BY <2>2, <2>3
<1> QED
  BY <1>6

LEMMA MinIs ==
  ASSUME NEW S \in SUBSET Nat, S # {}
  PROVE  Min(S) \in S /\ \A j \in S : Min(S) <= j
  BY LeastExists DEF Min

-----------------------------------------------------------------------------
(* The text modes.                                                         *)

Shows(res) == res \in Nat \X Nat /\ Fits(<<40, 12>>, res)

\* Sizes that fit, each once.
SizesFit(list, res) ==
  /\ list \in Seq(Nat \X Nat)
  /\ \A i, j \in 1..Len(list) : list[i] = list[j] => i = j
  /\ \A i \in 1..Len(list) : list[i] = Hole \/ Fits(list[i], res)

LEMMA WithSizeKeeps ==
  ASSUME NEW list, NEW res, SizesFit(list, res), NEW size \in Nat \X Nat
  PROVE  /\ SizesFit(WithSize(list, size, res), res)
         /\ size[1] # 0 /\ size[2] # 0 /\ Fits(size, res)
            => \E i \in 1..Len(WithSize(list, size, res)) : WithSize(list, size, res)[i] = size
<1> DEFINE new == WithSize(list, size, res)
           n == Len(list)
<1>1. list \in Seq(Nat \X Nat) /\ n \in Nat /\ DOMAIN list = 1..n /\ ToSet(list) = {list[i] : i \in 1..n}
  BY DEF SizesFit, ToSet
<1>2. CASE new = list /\ (0 \in {size[1], size[2]} \/ ~Fits(size, res) \/ size \in ToSet(list))
  BY <1>1, <1>2
<1>3. CASE new = Append(list, size) /\ Fits(size, res) /\ size \notin ToSet(list)
  <2>1. /\ new \in Seq(Nat \X Nat) /\ Len(new) = n + 1 /\ new[n + 1] = size
        /\ \A i \in 1..n : new[i] = list[i]
    BY <1>1, <1>3, AppendProperties
  <2>2. \A i \in 1..n : list[i] # size
    BY <1>1, <1>3
  <2>3. \A i \in 1..n + 1 : i = n + 1 \/ i \in 1..n
    BY <1>1
  <2>4. n + 1 \in 1..n + 1
    BY <1>1
  <2> HIDE DEF new, n
  <2>5. ASSUME NEW i \in 1..n + 1, NEW j \in 1..n + 1, new[i] = new[j] PROVE i = j
    <3>1. CASE i \in 1..n /\ j \in 1..n
      BY <2>1, <2>5, <3>1 DEF SizesFit, n
    <3>2. CASE i = n + 1 \/ j = n + 1
      BY <2>1, <2>2, <2>3, <2>5, <3>2
    <3> QED
      BY <2>3, <3>1, <3>2
  <2>6. \A i \in 1..n + 1 : new[i] = Hole \/ Fits(new[i], res)
    BY <1>3, <2>1, <2>3 DEF SizesFit, n
  <2>7. SizesFit(new, res) /\ \E i \in 1..Len(new) : new[i] = size
    BY <2>1, <2>4, <2>5, <2>6 DEF SizesFit
  <2> QED
    BY <2>7 DEF new
<1> QED
  BY <1>2, <1>3 DEF WithSize

LEMMA TextModesFit ==
  ASSUME NEW res, Shows(res)
  PROVE  /\ SizesFit(TextModes(res), res)
         /\ \E i \in 1..Len(TextModes(res)) : TextModes(res)[i] = FullScreen(res)
         /\ FullScreen(res) # Hole
<1> DEFINE first == <<<<40, 12>>, IF Fits(<<80, 50>>, res) THEN <<80, 50>> ELSE Hole>>
           second == WithSize(first, <<100, 31>>, res)
           third == WithSize(second, <<40, 12>>, res)
<1>1. SizesFit(first, res)
  <2>1. first \in Seq(Nat \X Nat) /\ Len(first) = 2 /\ first[1] # first[2]
    BY DEF Hole
  <2>2. Fits(first[1], res) /\ (first[2] = Hole \/ Fits(first[2], res))
    BY DEF Shows
  <2>3. \A i \in 1..2 : i = 1 \/ i = 2
    OBVIOUS
  <2> HIDE DEF first
  <2> QED
    BY <2>1, <2>2, <2>3 DEF SizesFit
<1> HIDE DEF first
<1>2. SizesFit(second, res)
  BY <1>1, WithSizeKeeps
<1> HIDE DEF second
<1>3. SizesFit(third, res)
  BY <1>2, WithSizeKeeps
<1>4. TextModes(res) = WithSize(third, FullScreen(res), res)
  BY DEF TextModes, mGraphicsConsoleModeData, first, second, third
<1> HIDE DEF third
<1>5. FullScreen(res) \in Nat \X Nat /\ FullScreen(res)[1] >= 40 /\ FullScreen(res)[2] >= 12 /\ Fits(FullScreen(res), res)
  BY DEF Shows, FullScreen, Fits, GlyphWidth, GlyphHeight
<1>6. FullScreen(res) # Hole
  BY <1>5 DEF Hole
<1> QED
  BY <1>3, <1>4, <1>5, <1>6, WithSizeKeeps

\* A size that fits has the same margin on both sides.
LEMMA MarginsAre ==
  ASSUME NEW res \in Nat \X Nat, NEW size \in Nat \X Nat, Fits(size, res)
  PROVE  LET d == Delta(size, res) IN
         /\ d[1] >= 0 /\ d[2] >= 0
         /\ res[1] - size[1] * GlyphWidth - 2 * d[1] \in {0, 1}
         /\ res[2] - size[2] * GlyphHeight - 2 * d[2] \in {0, 1}
<1>1. ASSUME NEW r \in Nat, NEW a \in Nat, a <= r
      PROVE  (r - a) \div 2 >= 0 /\ r - a - 2 * ((r - a) \div 2) \in {0, 1}
  BY <1>1
<1>2. size[1] * 8 \in Nat /\ size[1] * 8 <= res[1] /\ size[2] * 19 \in Nat /\ size[2] * 19 <= res[2]
  BY DEF Fits, GlyphWidth, GlyphHeight
<1>3. res[1] \in Nat /\ res[2] \in Nat
  OBVIOUS
<1> QED
  BY <1>1, <1>2, <1>3 DEF Delta, GlyphWidth, GlyphHeight

LEMMA ModesAreOnScreen ==
  ASSUME NEW res, Shows(res), console.res = res, console.text = TextModes(res)
  PROVE  ModesOnScreen
<1> DEFINE list == TextModes(res)
<1>1. /\ SizesFit(list, res) /\ FullScreen(res) # Hole
      /\ \E i \in 1..Len(list) : list[i] = FullScreen(res)
  BY TextModesFit
<1>2. ToSet(list) = {list[i] : i \in 1..Len(list)} /\ \A i \in 1..Len(list) : list[i] \in Nat \X Nat
  BY <1>1 DEF ToSet, SizesFit
<1> HIDE DEF list
<1>3. FullScreen(res) \in ToSet(list) \ {Hole}
  BY <1>1, <1>2
<1>4. ASSUME NEW s \in ToSet(list) \ {Hole}
      PROVE  LET d == Delta(s, res) IN
             /\ d[1] >= 0 /\ d[2] >= 0
             /\ res[1] - s[1] * GlyphWidth - 2 * d[1] \in {0, 1}
             /\ res[2] - s[2] * GlyphHeight - 2 * d[2] \in {0, 1}
  <2>1. s \in Nat \X Nat /\ Fits(s, res) /\ res \in Nat \X Nat
    BY <1>1, <1>2 DEF SizesFit, Shows
  <2> QED
    BY <2>1, MarginsAre
<1>5. \A i, j \in 1..Len(list) : list[i] = list[j] => i = j
  BY <1>1 DEF SizesFit
<1>6. console.text = list
  BY DEF list
<1> QED
  BY <1>3, <1>4, <1>5, <1>6 DEF ModesOnScreen

-----------------------------------------------------------------------------
(* The resolution.                                                         *)

Screens == Resolution \cup {<<480, 800>>}
DisplayType == [modes : Seq(Screens), current : Nat, refused : SUBSET Nat, silent : SUBSET Nat]

LEMMA ScreensShow ==
  ASSUME BindingAssumption, NEW res \in Screens
  PROVE  Shows(res)
  BY DEF BindingAssumption, Screens, Shows, Fits, GlyphWidth, GlyphHeight

\* There is a largest mode: among the widest of the modes, one of the highest.
LEMMA LargestModeIs ==
  ASSUME BindingAssumption, NEW d \in DisplayType, Answered(d) # {}
  PROVE  LargestMode(d) \in Answered(d)
<1> DEFINE n == Len(d.modes)
           S == Answered(d)
           width == [i \in 1..n |-> d.modes[i][1]]
           height == [i \in 1..n |-> d.modes[i][2]]
<1>1. /\ n \in Nat /\ Modes(d) = 1..n /\ S \in SUBSET (1..n) /\ S # {}
      /\ \A i \in 1..n : d.modes[i] \in Nat \X Nat
  BY ScreensShow DEF DisplayType, Modes, Answered, Shows
<1>2. /\ \A i \in 1..n : width[i] = d.modes[i][1] /\ width[i] \in Nat
      /\ \A i \in 1..n : height[i] = d.modes[i][2] /\ height[i] \in Nat
      /\ \A i, j \in 1..n : d.modes[i] = d.modes[j] <=> width[i] = width[j] /\ height[i] = height[j]
  <2>1. \A a, b \in Nat \X Nat : a = b <=> a[1] = b[1] /\ a[2] = b[2]
    OBVIOUS
  <2> QED
    BY <1>1, <2>1
<1> HIDE DEF n, S, width, height
<1>3. PICK i \in S : \A j \in S : width[j] <= width[i]
  BY <1>1, <1>2, GreatestExists
<1> DEFINE Widest == {j \in S : width[j] = width[i]}
<1>4. PICK k \in Widest : \A j \in Widest : height[j] <= height[k]
  <2>1. Widest # {} /\ Widest \in SUBSET (1..n)
    BY <1>1
  <2> HIDE DEF Widest
  <2> QED
    BY <1>1, <1>2, <2>1, GreatestExists
<1> DEFINE Same == {j \in S : d.modes[j] = d.modes[k]}
<1>5. PICK m \in Same : \A j \in Same : m <= j
  <2>1. k \in Same
    OBVIOUS
  <2>2. Same \in SUBSET Nat
    <3>1. \A j \in S : j \in Nat
      BY <1>1
    <3> HIDE DEF Widest
    <3> QED
      BY <3>1
  <2> HIDE DEF Same
  <2> QED
    BY <2>1, <2>2, LeastExists
<1>6. m \in S /\ m \in 1..n /\ width[m] = width[k] /\ height[m] = height[k] /\ width[k] = width[i] /\ k \in 1..n
  BY <1>1, <1>2
<1>7. ASSUME NEW j \in S
      PROVE  d.modes[j][1] < d.modes[m][1] \/ (d.modes[j][1] = d.modes[m][1] /\ d.modes[j][2] <= d.modes[m][2])
  <2>1. j \in 1..n /\ width[j] <= width[m] /\ width[j] \in Nat /\ width[m] \in Nat
    BY <1>1, <1>2, <1>3, <1>6
  <2>2. width[j] = width[m] => height[j] <= height[m]
    BY <1>4, <1>6
  <2> QED
    BY <1>2, <1>6, <2>1, <2>2
<1>8. ASSUME NEW j \in S, d.modes[j] = d.modes[m] PROVE m <= j
  BY <1>5, <1>8
<1> QED
  BY <1>6, <1>7, <1>8 DEF LargestMode, S

\* Whatever is asked for, found, refused or kept, the mode is one of the
\* display's, the resolution is the mode's, and the display is only set to it.
LEMMA PickModeIs ==
  ASSUME BindingAssumption, NEW d \in DisplayType, d.current \in Modes(d),
         ~(pcd = <<0, 0>> /\ Answered(d) = {})
  PROVE  /\ PickMode(d).number[1] \in Modes(d) /\ PickMode(d).number[2] = d.modes[PickMode(d).number[1]]
         /\ PickMode(d).display \in DisplayType /\ PickMode(d).display.modes = d.modes
         /\ PickMode(d).display.current \in Modes(d)
<1> DEFINE Right(pick) ==
      /\ pick.number[1] \in Modes(d) /\ pick.number[2] = d.modes[pick.number[1]]
      /\ pick.display \in DisplayType /\ pick.display.modes = d.modes
      /\ pick.display.current \in Modes(d)
<1>1. ASSUME NEW n \in Modes(d) PROVE Right([number |-> <<n, d.modes[n]>>, display |-> d])
  OBVIOUS
<1>2. ASSUME NEW res, Reachable(d, res) # {}
      PROVE  Right([CheckModeSupported(d, res) EXCEPT !.number = <<@, res>>])
  <2> DEFINE n == Min(Reachable(d, res))
             e == IF d.modes[d.current] = res THEN d ELSE [d EXCEPT !.current = n]
  <2>1. Reachable(d, res) \in SUBSET Nat
    BY DEF Reachable, Answered, Modes
  <2>2. n \in Modes(d) /\ d.modes[n] = res
    BY <1>2, <2>1, MinIs DEF Reachable, Answered
  <2> HIDE DEF n
  <2>3. n \in Nat
    BY <2>2 DEF Modes
  <2>4. e \in DisplayType /\ e.modes = d.modes /\ e.current \in Modes(d)
    BY <2>2, <2>3 DEF DisplayType
  <2>5. CheckModeSupported(d, res) = [number |-> n, display |-> e]
    BY DEF CheckModeSupported, n
  <2> HIDE DEF e
  <2>6. [CheckModeSupported(d, res) EXCEPT !.number = <<@, res>>] = [number |-> <<n, res>>, display |-> e]
    BY <2>5
  <2> QED
    BY <2>2, <2>4, <2>6
<1>3. pcd = <<0, 0>> => LargestMode(d) \in Modes(d)
  BY LargestModeIs DEF Answered
<1> HIDE DEF Right
<1>4. Right(PickMode(d))
  BY <1>1, <1>2, <1>3 DEF PickMode
<1> QED
  BY <1>4 DEF Right

-----------------------------------------------------------------------------
(* The driver binding.                                                     *)

BindingInv ==
  /\ display \in DisplayType /\ display.current \in Modes(display)
  /\ console # NoConsole =>
       /\ console.res \in Screens /\ console.text = TextModes(console.res)
       /\ console.res = display.modes[display.current]
  /\ NothingHeld /\ held \subseteq {"graphics", "line", "modes", "device"}

LEMMA BindingInitHolds == ASSUME BindingAssumption PROVE BindingInit => BindingInv
<1> SUFFICES ASSUME BindingInit PROVE BindingInv
  OBVIOUS
<1>1. CASE display = SimpleFb
  <2>1. <<<<480, 800>>>> \in Seq(Screens) /\ Len(<<<<480, 800>>>>) = 1
    BY DEF Screens
  <2> QED
    BY <1>1, <2>1 DEF BindingInit, BindingInv, SimpleFb, DisplayType, Modes, NothingHeld
<1>2. CASE display \in OtherDisplays
  <2>1. PICK n \in 1..MostModes : display.modes \in [1..n -> Resolution]
    BY <1>2 DEF OtherDisplays
  <2>2. display.modes \in Seq(Screens)
    <3>1. n \in Nat /\ \A i \in 1..n : display.modes[i] \in Screens
      BY <2>1 DEF BindingAssumption, Screens
    <3>2. display.modes \in [1..n -> Screens]
      BY <2>1, <3>1
    <3> QED
      BY <3>1, <3>2
  <2>3. /\ display = [modes |-> display.modes, current |-> display.current, refused |-> display.refused,
                       silent |-> display.silent]
        /\ display.current \in Nat /\ display.refused \in SUBSET Nat /\ display.current \in Modes(display)
        /\ display.silent \in SUBSET Nat
    BY <1>2 DEF OtherDisplays, BindingAssumption
  <2> QED
    BY <2>2, <2>3 DEF BindingInit, BindingInv, DisplayType, NothingHeld
<1> QED
  BY <1>1, <1>2 DEF BindingInit

LEMMA OpenedKeeps ==
  ASSUME BindingAssumption, BindingInv, console = NoConsole, Opened
  PROVE  BindingInv'
<1> DEFINE pick == PickMode(display)
           picked == pick.number[1]
           res == pick.number[2]
<1>1. /\ picked \in Modes(display) /\ res = display.modes[picked]
      /\ pick.display \in DisplayType /\ pick.display.modes = display.modes
      /\ pick.display.current \in Modes(display)
  BY PickModeIs DEF BindingInv, Opened
<1>2. res \in Screens /\ picked \in Nat
  BY <1>1 DEF BindingInv, DisplayType, Modes
<1>3. \/ display' = pick.display /\ console' = NoConsole /\ held' = {}
      \/ /\ display' = [pick.display EXCEPT !.current = picked]
         /\ \/ /\ console' = [res |-> res, text |-> TextModes(res)]
               /\ held' \subseteq {"graphics", "line", "modes", "device"}
            \/ console' = NoConsole /\ held' = {}
  BY DEF Opened, ErrorExit
<1> HIDE DEF pick, picked, res
<1>4. CASE display' = pick.display /\ console' = NoConsole /\ held' = {}
  BY <1>1, <1>4 DEF BindingInv, NothingHeld, Modes
<1>5. CASE display' = [pick.display EXCEPT !.current = picked]
  <2>1. display' \in DisplayType /\ display'.current = picked /\ display'.modes = display.modes
    BY <1>1, <1>2, <1>5 DEF DisplayType
  <2>2. display'.current \in Modes(display')
    BY <1>1, <2>1 DEF Modes
  <2>3. CASE console' = [res |-> res, text |-> TextModes(res)]
             /\ held' \subseteq {"graphics", "line", "modes", "device"}
    <3>1. console' # NoConsole
      <4>1. Shows(res) /\ ~Shows(<<0, 0>>)
        BY <1>2, ScreensShow DEF Shows, Fits, GlyphWidth, GlyphHeight
      <4>2. console'.res = res /\ NoConsole.res = <<0, 0>>
        BY <2>3 DEF NoConsole
      <4> QED
        BY <4>1, <4>2
    <3>2. console'.res = res /\ console'.text = TextModes(res)
      BY <2>3
    <3> QED
      BY <1>1, <1>2, <2>1, <2>2, <2>3, <3>1, <3>2 DEF BindingInv, NothingHeld
  <2>4. CASE console' = NoConsole /\ held' = {}
    BY <2>1, <2>2, <2>4 DEF BindingInv, NothingHeld
  <2> QED
    BY <1>3, <1>5, <2>3, <2>4
<1> QED
  BY <1>3, <1>4, <1>5

LEMMA BindingStepKeeps ==
  ASSUME BindingAssumption, BindingInv, [BindingNext]_bindingVars
  PROVE  BindingInv'
<1>1. CASE ControllerDriverStart
  <2>1. CASE NotOpened
    BY <1>1, <2>1 DEF ControllerDriverStart, NotOpened, ErrorExit, BindingInv, NothingHeld, Modes
  <2> QED
    BY <1>1, <2>1, OpenedKeeps DEF ControllerDriverStart
<1>2. CASE FirstSetMode
  BY <1>2 DEF FirstSetMode, BindingInv, NothingHeld, Modes
<1>3. CASE ControllerDriverStop
  BY <1>3 DEF ControllerDriverStop, ErrorExit, BindingInv, NothingHeld, Modes
<1>4. CASE OtherSetMode
  <2>1. PICK n \in Modes(display) : display' = [display EXCEPT !.current = n]
    BY <1>4 DEF OtherSetMode
  <2>2. n \in Nat
    BY DEF Modes
  <2>3. display' \in DisplayType /\ display'.current = n /\ display'.modes = display.modes
    BY <2>1, <2>2 DEF BindingInv, DisplayType
  <2>4. display'.current \in Modes(display')
    BY <2>3 DEF Modes
  <2> QED
    BY <1>4, <2>3, <2>4 DEF OtherSetMode, BindingInv, NothingHeld
<1>5. CASE UNCHANGED bindingVars
  BY <1>5 DEF bindingVars, BindingInv, NothingHeld, Modes
<1> QED
  BY <1>1, <1>2, <1>3, <1>4, <1>5 DEF BindingNext

\* On every display that shows mode 0, with any number of modes of which it may
\* refuse some, and whichever resolution the build prefers: the console has the
\* resolution that is in force, its text modes differ and lie in the middle of the
\* screen, one as large as it, and without a console nothing is held
\* (GraphicsConsole.c, lines 233-366, 442-523 and 606-803).
THEOREM TheConsoleFits == BindingSpec => []ConsoleFits
<1> USE BindingAssumption
<1>1. BindingInit => BindingInv
  BY BindingInitHolds
<1>2. BindingInv /\ [BindingNext]_bindingVars => BindingInv'
  BY BindingStepKeeps
<1>3. BindingInv => ConsoleFits
  <2> SUFFICES ASSUME BindingInv PROVE ConsoleFits
    OBVIOUS
  <2>1. ModesOnScreen
    <3>1. CASE console # NoConsole
      BY <3>1, ScreensShow, ModesAreOnScreen DEF BindingInv
    <3>2. CASE console = NoConsole
      BY <3>2 DEF ModesOnScreen
    <3> QED
      BY <3>1, <3>2
  <2> QED
    BY <2>1 DEF BindingInv, ConsoleFits, ResolutionInForce
<1> QED
  BY <1>1, <1>2, <1>3, PTL DEF BindingSpec

-----------------------------------------------------------------------------
(* The text console on graphics: pens.                                     *)

Glyphs == {" ", "x"}
Char == Control \cup Glyphs
MostColumns == Max(ToSet(Columns))
MostRows == Max(ToSet(Rows))

Pens ==
  [columns : Nat, rows : Nat, at : Nat \X Nat, visible : BOOLEAN, color : Color, wide : BOOLEAN,
   text : [Cell -> Glyphs], ink : [Cell -> SUBSET Color]]

\* A pen on the screen, at most behind the last column.
OnScreen(p) ==
  /\ p \in Pens
  /\ p.columns \in 2..MostColumns /\ p.rows \in 1..MostRows
  /\ p.at[1] <= p.columns /\ p.at[2] < p.rows

\* They show the same text, and go on with it alike.
Same(p, q) ==
  /\ p.columns = q.columns /\ p.rows = q.rows
  /\ p.text = q.text /\ p.at = q.at /\ p.wide = q.wide

LEMMA MostIs ==
  ASSUME NEW s \in Seq(Nat), s # <<>>
  PROVE  Max(ToSet(s)) \in Nat /\ \A i \in 1..Len(s) : s[i] <= Max(ToSet(s))
<1>1. /\ Len(s) \in Nat /\ 1..Len(s) # {} /\ ToSet(s) = {s[i] : i \in 1..Len(s)}
      /\ \A i \in 1..Len(s) : s[i] \in Nat
  BY DEF ToSet
<1>2. PICK i \in 1..Len(s) : \A j \in 1..Len(s) : s[j] <= s[i]
  BY <1>1, GreatestExists
<1>3. s[i] \in ToSet(s) /\ \A x \in ToSet(s) : s[i] >= x
  BY <1>1, <1>2
<1>4. Max(ToSet(s)) \in ToSet(s) /\ \A x \in ToSet(s) : Max(ToSet(s)) >= x
  BY <1>3 DEF Max
<1>5. \A j \in 1..Len(s) : s[j] \in ToSet(s)
  BY <1>1
<1> QED
  BY <1>1, <1>4, <1>5

LEMMA ModesAre ==
  /\ MostColumns \in Nat /\ MostRows \in Nat
  /\ \A n \in Mode : Columns[n + 1] \in 2..MostColumns /\ Rows[n + 1] \in 1..MostRows
  /\ 0 \in Mode
<1>1. /\ Columns \in Seq(Nat) /\ Rows \in Seq(Nat) /\ Columns # <<>> /\ Rows # <<>>
      /\ Len(Columns) = Len(Rows) /\ Len(Columns) \in Nat /\ Len(Columns) > 0
      /\ \A i \in 1..Len(Columns) : Columns[i] >= 2 /\ Rows[i] >= 1 /\ Columns[i] \in Nat /\ Rows[i] \in Nat
  <2>1. /\ Columns \in Seq(Nat \ {0, 1}) /\ Rows \in Seq(Nat \ {0})
        /\ Len(Columns) = Len(Rows) /\ Columns # <<>>
    BY ConsoleAssumption
  <2>2. \A i \in 1..Len(Columns) : Columns[i] \in Nat \ {0, 1} /\ Rows[i] \in Nat \ {0}
    BY <2>1
  <2>3. Len(Columns) \in Nat /\ Len(Columns) > 0 /\ Rows # <<>>
    BY <2>1
  <2>4. Columns \in Seq(Nat) /\ Rows \in Seq(Nat)
    BY <2>1, <2>2, <2>3
  <2> QED
    BY <2>1, <2>2, <2>3, <2>4
<1>2. /\ MostColumns \in Nat /\ \A i \in 1..Len(Columns) : Columns[i] <= MostColumns
      /\ MostRows \in Nat /\ \A i \in 1..Len(Columns) : Rows[i] <= MostRows
  BY <1>1, MostIs DEF MostColumns, MostRows
<1>3. \A n \in Mode : n + 1 \in 1..Len(Columns)
  BY <1>1 DEF Mode
<1> QED
  BY <1>1, <1>2, <1>3 DEF Mode

LEMMA CellIs ==
  /\ Cell = (0..MostColumns) \X (0..MostRows - 1)
  /\ \A x \in Nat, y \in Nat : x <= MostColumns /\ y < MostRows => <<x, y>> \in Cell
  /\ \A c \in Cell : c[1] \in 0..MostColumns /\ c[2] \in 0..MostRows - 1 /\ c = <<c[1], c[2]>>
<1>1. Cell = (0..MostColumns) \X (0..MostRows - 1)
  BY DEF Cell, MostColumns, MostRows
<1> QED
  BY <1>1, ModesAre

LEMMA AtIs ==
  ASSUME NEW p, OnScreen(p)
  PROVE  /\ p.at \in Cell /\ p.at = <<p.at[1], p.at[2]>> /\ p.at[1] \in Nat /\ p.at[2] \in Nat
         /\ p.columns \in Nat /\ p.rows \in Nat /\ p.columns <= MostColumns /\ p.rows <= MostRows
         /\ p.text \in [Cell -> Glyphs] /\ p.ink \in [Cell -> SUBSET Color]
         /\ p.visible \in BOOLEAN /\ p.wide \in BOOLEAN /\ p.color \in Color
<1>1. p.at \in Nat \X Nat /\ p.columns \in Nat /\ p.rows \in Nat
  BY DEF OnScreen, Pens
<1>2. p.columns <= MostColumns /\ p.rows <= MostRows /\ MostColumns \in Nat /\ MostRows \in Nat
  BY ModesAre DEF OnScreen
<1>3. p.at = <<p.at[1], p.at[2]>> /\ p.at[1] \in Nat /\ p.at[2] \in Nat
  BY <1>1
<1>4. p.at[1] <= MostColumns /\ p.at[2] < MostRows
  BY <1>1, <1>2, <1>3 DEF OnScreen
<1> QED
  BY <1>1, <1>2, <1>3, <1>4, CellIs DEF OnScreen, Pens

\* The cursor, drawn or erased: twice is nothing.
LEMMA FlushIs ==
  ASSUME NEW p, OnScreen(p)
  PROVE  /\ OnScreen(FlushCursor(p)) /\ Same(FlushCursor(p), p)
         /\ FlushCursor(p).visible = p.visible /\ FlushCursor(p).color = p.color
         /\ FlushCursor(p).ink = IF p.visible THEN [p.ink EXCEPT ![p.at] = SymDiff(@, {p.color})] ELSE p.ink
         /\ FlushCursor(FlushCursor(p)) = p
<1> DEFINE q == FlushCursor(p)
<1>1. p \in Pens /\ p.at \in Cell /\ p.color \in Color /\ p.ink[p.at] \in SUBSET Color
  BY AtIs DEF OnScreen
<1>2. CASE ~p.visible
  BY <1>2 DEF FlushCursor, Same
<1>3. CASE p.visible
  <2>1. q = [p EXCEPT !.ink = [p.ink EXCEPT ![p.at] = SymDiff(p.ink[p.at], {p.color})]]
    BY <1>3 DEF FlushCursor
  <2>2. SymDiff(p.ink[p.at], {p.color}) \in SUBSET Color
    BY <1>1 DEF SymDiff
  <2>3. q.ink = [p.ink EXCEPT ![p.at] = SymDiff(p.ink[p.at], {p.color})] /\ q.ink \in [Cell -> SUBSET Color]
    <3>1. q.ink = [p.ink EXCEPT ![p.at] = SymDiff(p.ink[p.at], {p.color})] /\ p.ink \in [Cell -> SUBSET Color]
      BY <1>1, <2>1 DEF Pens
    <3> QED
      BY <2>2, <3>1
  <2>4. /\ q \in Pens /\ q.columns = p.columns /\ q.rows = p.rows /\ q.at = p.at /\ q.visible = p.visible
        /\ q.color = p.color /\ q.wide = p.wide /\ q.text = p.text
    BY <1>1, <2>1, <2>2, <2>3 DEF Pens
  <2>5. q.ink[q.at] = SymDiff(p.ink[p.at], {p.color})
    BY <1>1, <2>3, <2>4 DEF Pens
  <2>6. SymDiff(q.ink[q.at], {q.color}) = p.ink[p.at]
    BY <2>4, <2>5 DEF SymDiff
  <2>7. FlushCursor(q) = [q EXCEPT !.ink = [q.ink EXCEPT ![p.at] = p.ink[p.at]]]
    BY <1>3, <2>4, <2>6 DEF FlushCursor
  <2>8. [q.ink EXCEPT ![p.at] = p.ink[p.at]] = p.ink
    BY <1>1, <2>3 DEF Pens
  <2>9. FlushCursor(q) = p
    BY <1>1, <2>1, <2>7, <2>8 DEF Pens
  <2> QED
    BY <1>3, <2>3, <2>4, <2>9 DEF OnScreen, Same
<1> QED
  BY <1>1, <1>2, <1>3 DEF OnScreen, Pens

LEMMA MoveIs ==
  ASSUME NEW p, OnScreen(p), NEW x \in Nat, NEW y \in Nat, x <= p.columns, y < p.rows
  PROVE  /\ OnScreen(MoveTo(p, x, y)) /\ MoveTo(p, x, y).at = <<x, y>>
         /\ MoveTo(p, x, y).columns = p.columns /\ MoveTo(p, x, y).rows = p.rows
         /\ MoveTo(p, x, y).visible = p.visible /\ MoveTo(p, x, y).color = p.color
         /\ MoveTo(p, x, y).wide = p.wide /\ MoveTo(p, x, y).text = p.text /\ MoveTo(p, x, y).ink = p.ink
<1> DEFINE q == MoveTo(p, x, y)
<1>1. q = [p EXCEPT !.at = <<x, y>>] /\ p \in Pens
  BY DEF MoveTo, OnScreen
<1>2. <<x, y>> \in Nat \X Nat
  OBVIOUS
<1>3. /\ q \in Pens /\ q.at = <<x, y>> /\ q.columns = p.columns /\ q.rows = p.rows
      /\ q.visible = p.visible /\ q.color = p.color /\ q.wide = p.wide /\ q.text = p.text /\ q.ink = p.ink
  BY <1>1, <1>2 DEF Pens
<1> QED
  BY <1>3 DEF OnScreen

\* What a scrolled screen shows.
Scrolled(cells, p, fill) ==
  [c \in Cell |-> IF ~ (c[1] < p.columns /\ c[2] < p.rows) THEN cells[c]
                  ELSE IF c[2] = p.rows - 1 THEN fill ELSE cells[<<c[1], c[2] + 1>>]]

LEMMA ScrolledIs ==
  ASSUME NEW p, OnScreen(p), NEW S, NEW cells \in [Cell -> S], NEW fill \in S
  PROVE  Scrolled(cells, p, fill) \in [Cell -> S]
<1>1. ASSUME NEW c \in Cell, c[2] < p.rows, c[2] # p.rows - 1
      PROVE  <<c[1], c[2] + 1>> \in Cell
  <2>1. c[1] \in 0..MostColumns /\ c[2] \in 0..MostRows - 1 /\ MostColumns \in Nat /\ MostRows \in Nat
    BY CellIs, ModesAre
  <2>2. p.rows \in Nat /\ p.rows <= MostRows
    BY AtIs
  <2>3. c[2] + 1 < MostRows /\ c[2] + 1 \in Nat /\ c[1] \in Nat /\ c[1] <= MostColumns
    BY <1>1, <2>1, <2>2
  <2> QED
    BY <2>3, CellIs
<1>2. \A c \in Cell : Scrolled(cells, p, fill)[c] \in S
  <2> SUFFICES ASSUME NEW c \in Cell
               PROVE  Scrolled(cells, p, fill)[c] \in S
    OBVIOUS
  <2>1. c[2] < p.rows /\ c[2] # p.rows - 1 => cells[<<c[1], c[2] + 1>>] \in S
    BY <1>1
  <2> QED
    BY <2>1 DEF Scrolled
<1> QED
  BY <1>2 DEF Scrolled

LEMMA LineFeedIs ==
  ASSUME NEW p, OnScreen(p)
  PROVE  /\ OnScreen(LineFeed(p))
         /\ LineFeed(p).columns = p.columns /\ LineFeed(p).rows = p.rows
         /\ LineFeed(p).visible = p.visible /\ LineFeed(p).color = p.color /\ LineFeed(p).wide = p.wide
         /\ LineFeed(p).at = <<p.at[1], IF p.at[2] = p.rows - 1 THEN p.at[2] ELSE p.at[2] + 1>>
         /\ LineFeed(p).text = IF p.at[2] = p.rows - 1 THEN Scrolled(p.text, p, " ") ELSE p.text
         /\ p.ink = Clean => LineFeed(p).ink = Clean
<1> DEFINE q == LineFeed(p)
<1>1. p \in Pens /\ p.at = <<p.at[1], p.at[2]>> /\ p.at[1] \in Nat /\ p.at[2] \in Nat /\ p.rows \in Nat
      /\ p.at[1] <= p.columns /\ p.at[2] < p.rows
  BY AtIs DEF OnScreen
<1>2. CASE p.at[2] = p.rows - 1
  <2>1. q = [p EXCEPT !.text = Scrolled(p.text, p, " "), !.ink = Scrolled(p.ink, p, {})]
    BY <1>1, <1>2 DEF LineFeed, Scroll, Scrolled, Pens
  <2>2. Scrolled(p.text, p, " ") \in [Cell -> Glyphs] /\ Scrolled(p.ink, p, {}) \in [Cell -> SUBSET Color]
    BY AtIs, ScrolledIs DEF Glyphs
  <2>3. /\ q \in Pens /\ q.columns = p.columns /\ q.rows = p.rows /\ q.visible = p.visible /\ q.color = p.color
        /\ q.wide = p.wide /\ q.at = p.at /\ q.text = Scrolled(p.text, p, " ") /\ q.ink = Scrolled(p.ink, p, {})
    BY <1>1, <2>1, <2>2 DEF Pens
  <2>4. ASSUME p.ink = Clean PROVE q.ink = Clean
    <3>1. Clean \in [Cell -> {{}}] /\ {} \in {{}}
      BY DEF Clean
    <3>2. Scrolled(Clean, p, {}) \in [Cell -> {{}}]
      BY <3>1, ScrolledIs
    <3> QED
      BY <2>3, <2>4, <3>2 DEF Clean
  <2> QED
    BY <1>1, <1>2, <2>3, <2>4 DEF OnScreen
<1>3. CASE p.at[2] # p.rows - 1
  <2>1. q = MoveTo(p, p.at[1], p.at[2] + 1)
    BY <1>3 DEF LineFeed
  <2>2. p.at[2] + 1 \in Nat /\ p.at[2] + 1 < p.rows
    BY <1>1, <1>3
  <2> QED
    BY <1>1, <1>3, <2>1, <2>2, MoveIs
<1> QED
  BY <1>2, <1>3

LEMMA NewLineIs ==
  ASSUME NEW p, OnScreen(p)
  PROVE  /\ OnScreen(NewLine(p))
         /\ NewLine(p).columns = p.columns /\ NewLine(p).rows = p.rows
         /\ NewLine(p).visible = p.visible /\ NewLine(p).color = p.color /\ NewLine(p).wide = p.wide
         /\ NewLine(p).at = <<0, IF p.at[2] = p.rows - 1 THEN p.at[2] ELSE p.at[2] + 1>>
         /\ NewLine(p).text = IF p.at[2] = p.rows - 1 THEN Scrolled(p.text, p, " ") ELSE p.text
         /\ p.ink = Clean => NewLine(p).ink = Clean
<1> DEFINE m == MoveTo(p, 0, p.at[2])
<1>1. p.at[2] \in Nat /\ p.at[2] < p.rows /\ p.columns \in Nat /\ 0 <= p.columns
  BY AtIs DEF OnScreen
<1>2. /\ OnScreen(m) /\ m.at = <<0, p.at[2]>> /\ m.columns = p.columns /\ m.rows = p.rows
      /\ m.visible = p.visible /\ m.color = p.color /\ m.wide = p.wide /\ m.text = p.text /\ m.ink = p.ink
  BY <1>1, MoveIs
<1>3. m.at[1] = 0 /\ m.at[2] = p.at[2]
  BY <1>2
<1>4. NewLine(p) = LineFeed(m)
  BY DEF NewLine
<1>5. Scrolled(m.text, m, " ") = Scrolled(p.text, p, " ")
  BY <1>2 DEF Scrolled
<1> HIDE DEF m
<1>6. /\ OnScreen(LineFeed(m))
      /\ LineFeed(m).columns = m.columns /\ LineFeed(m).rows = m.rows
      /\ LineFeed(m).visible = m.visible /\ LineFeed(m).color = m.color /\ LineFeed(m).wide = m.wide
      /\ LineFeed(m).at = <<m.at[1], IF m.at[2] = m.rows - 1 THEN m.at[2] ELSE m.at[2] + 1>>
      /\ LineFeed(m).text = IF m.at[2] = m.rows - 1 THEN Scrolled(m.text, m, " ") ELSE m.text
      /\ m.ink = Clean => LineFeed(m).ink = Clean
  BY <1>2, LineFeedIs, Zenon
<1> QED
  BY <1>2, <1>3, <1>4, <1>5, <1>6, Zenon

LEMMA SameLine ==
  ASSUME NEW p, NEW q, OnScreen(p), OnScreen(q), Same(p, q)
  PROVE  Same(LineFeed(p), LineFeed(q)) /\ Same(NewLine(p), NewLine(q))
<1>1. /\ p.columns = q.columns /\ p.rows = q.rows
      /\ p.text = q.text /\ p.at = q.at /\ p.wide = q.wide
  BY DEF Same
<1>2. Scrolled(p.text, p, " ") = Scrolled(q.text, q, " ")
  BY <1>1, Zenon DEF Scrolled
<1>3. LineFeed(p).at = LineFeed(q).at /\ NewLine(p).at = NewLine(q).at
  <2>1. p.at[1] = q.at[1] /\ p.at[2] = q.at[2] /\ p.rows = q.rows
    BY <1>1
  <2>2. /\ LineFeed(p).at = <<p.at[1], IF p.at[2] = p.rows - 1 THEN p.at[2] ELSE p.at[2] + 1>>
        /\ LineFeed(q).at = <<q.at[1], IF q.at[2] = q.rows - 1 THEN q.at[2] ELSE q.at[2] + 1>>
    BY LineFeedIs, Zenon
  <2>3. /\ NewLine(p).at = <<0, IF p.at[2] = p.rows - 1 THEN p.at[2] ELSE p.at[2] + 1>>
        /\ NewLine(q).at = <<0, IF q.at[2] = q.rows - 1 THEN q.at[2] ELSE q.at[2] + 1>>
    BY NewLineIs, Zenon
  <2> QED
    BY <2>1, <2>2, <2>3, Zenon
<1>4. LineFeed(p).text = LineFeed(q).text /\ NewLine(p).text = NewLine(q).text
  <2>1. /\ LineFeed(p).text = IF p.at[2] = p.rows - 1 THEN Scrolled(p.text, p, " ") ELSE p.text
        /\ LineFeed(q).text = IF q.at[2] = q.rows - 1 THEN Scrolled(q.text, q, " ") ELSE q.text
    BY LineFeedIs, Zenon
  <2>2. /\ NewLine(p).text = IF p.at[2] = p.rows - 1 THEN Scrolled(p.text, p, " ") ELSE p.text
        /\ NewLine(q).text = IF q.at[2] = q.rows - 1 THEN Scrolled(q.text, q, " ") ELSE q.text
    BY NewLineIs, Zenon
  <2> QED
    BY <1>1, <1>2, <2>1, <2>2, Zenon
<1>5. /\ LineFeed(p).columns = LineFeed(q).columns /\ LineFeed(p).rows = LineFeed(q).rows
      /\ LineFeed(p).wide = LineFeed(q).wide
      /\ NewLine(p).columns = NewLine(q).columns /\ NewLine(p).rows = NewLine(q).rows
      /\ NewLine(p).wide = NewLine(q).wide
  BY <1>1, LineFeedIs, NewLineIs, Zenon
<1> QED
  BY <1>3, <1>4, <1>5 DEF Same

-----------------------------------------------------------------------------
(* Drawing.                                                                *)

\* The cells of n characters from the cursor on.
Covered(p, n, c) == c[2] = p.at[2] /\ p.at[1] <= c[1] /\ c[1] < p.at[1] + Width(p) * n
Lettered(p, chars) ==
  [c \in Cell |-> IF Covered(p, Len(chars), c) THEN chars[(c[1] - p.at[1]) \div Width(p) + 1] ELSE p.text[c]]

LEMMA WidthIs ==
  ASSUME NEW p
  PROVE  Width(p) \in {1, 2} /\ (Width(p) = 2 <=> p.wide)
  BY DEF Width

LEMMA DrawIs ==
  ASSUME NEW p, OnScreen(p), NEW chars \in Seq(Glyphs)
  PROVE  /\ OnScreen(Draw(p, chars))
         /\ Draw(p, chars).columns = p.columns /\ Draw(p, chars).rows = p.rows /\ Draw(p, chars).at = p.at
         /\ Draw(p, chars).visible = p.visible /\ Draw(p, chars).color = p.color /\ Draw(p, chars).wide = p.wide
         /\ Draw(p, chars).text = Lettered(p, chars)
         /\ Draw(p, chars).ink = [c \in Cell |-> IF Covered(p, Len(chars), c) THEN {} ELSE p.ink[c]]
<1> DEFINE q == Draw(p, chars)
           covered == {<<x, p.at[2]>> : x \in p.at[1]..p.at[1] + Width(p) * Len(chars) - 1}
           inked == [c \in Cell |-> IF Covered(p, Len(chars), c) THEN {} ELSE p.ink[c]]
<1>1. /\ p \in Pens /\ p.at[1] \in Nat /\ p.at[2] \in Nat /\ Len(chars) \in Nat /\ Width(p) \in {1, 2}
      /\ p.text \in [Cell -> Glyphs] /\ p.ink \in [Cell -> SUBSET Color]
  BY AtIs, WidthIs DEF OnScreen
<1>2. ASSUME NEW c \in Cell PROVE c \in covered <=> Covered(p, Len(chars), c)
  <2>1. c = <<c[1], c[2]>> /\ c[1] \in Nat /\ c[2] \in Nat
    BY CellIs
  <2>2. c \in covered <=> c[2] = p.at[2] /\ c[1] \in p.at[1]..p.at[1] + Width(p) * Len(chars) - 1
    BY <2>1
  <2>3. Width(p) * Len(chars) \in Nat
    BY <1>1
  <2> QED
    BY <1>1, <2>1, <2>2, <2>3 DEF Covered
<1>3. q = [p EXCEPT !.text = [c \in Cell |-> IF c \in covered THEN chars[(c[1] - p.at[1]) \div Width(p) + 1] ELSE p.text[c]],
                    !.ink = [c \in Cell |-> IF c \in covered THEN {} ELSE p.ink[c]]]
  BY <1>1 DEF Draw, Pens
<1> HIDE DEF covered
<1>4. /\ [c \in Cell |-> IF c \in covered THEN chars[(c[1] - p.at[1]) \div Width(p) + 1] ELSE p.text[c]] = Lettered(p, chars)
      /\ [c \in Cell |-> IF c \in covered THEN {} ELSE p.ink[c]] = inked
  BY <1>2, Zenon DEF Lettered
<1>5. q = [p EXCEPT !.text = Lettered(p, chars), !.ink = inked]
  BY <1>3, <1>4, Zenon
<1>6. ASSUME NEW c \in Cell, Covered(p, Len(chars), c)
      PROVE  chars[(c[1] - p.at[1]) \div Width(p) + 1] \in Glyphs
  <2>1. c[1] \in Nat
    BY CellIs
  <2>2. (c[1] - p.at[1]) \div Width(p) + 1 \in 1..Len(chars)
    <3>1. CASE Width(p) = 1
      BY <1>1, <1>6, <2>1, <3>1 DEF Covered
    <3>2. CASE Width(p) = 2
      BY <1>1, <1>6, <2>1, <3>2 DEF Covered
    <3> QED
      BY <1>1, <3>1, <3>2
  <2> QED
    BY <2>2
<1>7. Lettered(p, chars) \in [Cell -> Glyphs]
  BY <1>1, <1>6 DEF Lettered
<1>8. inked \in [Cell -> SUBSET Color]
  <2>1. \A c \in Cell : p.ink[c] \in SUBSET Color /\ {} \in SUBSET Color
    BY <1>1
  <2> QED
    BY <2>1
<1> HIDE DEF inked
<1>9. /\ q \in Pens /\ q.columns = p.columns /\ q.rows = p.rows /\ q.at = p.at /\ q.visible = p.visible
      /\ q.color = p.color /\ q.wide = p.wide /\ q.text = Lettered(p, chars) /\ q.ink = inked
  BY <1>1, <1>5, <1>7, <1>8 DEF Pens
<1> QED
  BY <1>9 DEF OnScreen, inked

\* Without ink there is none after drawing; without characters nothing changes.
LEMMA DrawsClean ==
  ASSUME NEW p, OnScreen(p), NEW chars \in Seq(Glyphs), p.ink = Clean
  PROVE  Draw(p, chars).ink = Clean
<1>1. \A c \in Cell : p.ink[c] = {}
  BY DEF Clean
<1>2. Draw(p, chars).ink = [c \in Cell |-> IF Covered(p, Len(chars), c) THEN {} ELSE p.ink[c]]
  BY DrawIs
<1> QED
  BY <1>1, <1>2 DEF Clean

LEMMA DrawsNothing ==
  ASSUME NEW p, OnScreen(p)
  PROVE  Lettered(p, <<>>) = p.text
<1>1. p.text \in [Cell -> Glyphs] /\ p.at[1] \in Nat /\ Width(p) * Len(<<>>) = 0
  BY AtIs, WidthIs
<1>2. \A c \in Cell : ~Covered(p, Len(<<>>), c)
  BY <1>1, CellIs DEF Covered
<1> QED
  BY <1>1, <1>2 DEF Lettered

LEMMA SameDraw ==
  ASSUME NEW p, NEW q, OnScreen(p), OnScreen(q), Same(p, q), NEW chars \in Seq(Glyphs)
  PROVE  Same(Draw(p, chars), Draw(q, chars))
<1>1. p.columns = q.columns /\ p.rows = q.rows /\ p.text = q.text /\ p.at = q.at /\ p.wide = q.wide
  BY DEF Same
<1>2. Width(p) = Width(q)
  BY <1>1 DEF Width
<1>3. Lettered(p, chars) = Lettered(q, chars)
  BY <1>1, <1>2, Zenon DEF Lettered, Covered
<1>4. /\ Draw(p, chars).text = Lettered(p, chars) /\ Draw(q, chars).text = Lettered(q, chars)
      /\ Draw(p, chars).at = p.at /\ Draw(q, chars).at = q.at
      /\ Draw(p, chars).columns = p.columns /\ Draw(q, chars).columns = q.columns
      /\ Draw(p, chars).rows = p.rows /\ Draw(q, chars).rows = q.rows
      /\ Draw(p, chars).wide = p.wide /\ Draw(q, chars).wide = q.wide
  BY DrawIs, Zenon
<1> QED
  BY <1>1, <1>3, <1>4, Zenon DEF Same

\* One character and then the others are all of them.
LEMMA DrawsOn ==
  ASSUME NEW p, OnScreen(p), NEW chars \in Seq(Glyphs), chars # <<>>, NEW q, q.wide = p.wide,
         q.at = <<p.at[1] + Width(p), p.at[2]>>, q.text = Lettered(p, <<Head(chars)>>)
  PROVE  Lettered(q, Tail(chars)) = Lettered(p, chars)
<1>1. /\ p.at[1] \in Nat /\ p.at[2] \in Nat /\ Width(p) \in {1, 2} /\ Width(q) = Width(p)
      /\ Len(chars) \in Nat /\ Len(chars) > 0 /\ Len(Tail(chars)) = Len(chars) - 1
      /\ \A i \in 1..Len(chars) - 1 : Tail(chars)[i] = chars[i + 1]
      /\ Len(<<Head(chars)>>) = 1 /\ <<Head(chars)>>[1] = chars[1]
  BY AtIs, WidthIs DEF Width
<1>2. q.at[1] = p.at[1] + Width(p) /\ q.at[2] = p.at[2]
  OBVIOUS
<1>3. ASSUME NEW c \in Cell
      PROVE  Lettered(q, Tail(chars))[c] = Lettered(p, chars)[c]
  <2> DEFINE d == c[1] - p.at[1]
  <2>1. c[1] \in Nat /\ c[2] \in Nat
    BY CellIs
  <2>2. /\ Covered(q, Len(Tail(chars)), c) <=> c[2] = p.at[2] /\ Width(p) <= d /\ d < Width(p) * Len(chars)
        /\ Covered(p, Len(chars), c) <=> c[2] = p.at[2] /\ 0 <= d /\ d < Width(p) * Len(chars)
        /\ Covered(p, 1, c) <=> c[2] = p.at[2] /\ 0 <= d /\ d < Width(p)
    <3>1. Width(p) * (Len(chars) - 1) = Width(p) * Len(chars) - Width(p) /\ Width(p) * 1 = Width(p)
          /\ Width(p) * Len(chars) \in Nat
      BY <1>1
    <3>2. Covered(q, Len(Tail(chars)), c) <=> c[2] = p.at[2] /\ p.at[1] + Width(p) <= c[1]
                                                 /\ c[1] < p.at[1] + Width(p) + Width(p) * (Len(chars) - 1)
      BY <1>1, <1>2 DEF Covered
    <3>3. Width(p) <= d <=> p.at[1] + Width(p) <= c[1]
      BY <1>1, <2>1
    <3>4. d < Width(p) * Len(chars) <=> c[1] < p.at[1] + Width(p) * Len(chars)
      BY <1>1, <2>1, <3>1
    <3>5. c[1] < p.at[1] + Width(p) + Width(p) * (Len(chars) - 1) <=> c[1] < p.at[1] + Width(p) * Len(chars)
      BY <1>1, <2>1, <3>1
    <3>6. (0 <= d <=> p.at[1] <= c[1]) /\ (d < Width(p) <=> c[1] < p.at[1] + Width(p))
      BY <1>1, <2>1
    <3>7. Covered(p, Len(chars), c) <=> c[2] = p.at[2] /\ p.at[1] <= c[1] /\ c[1] < p.at[1] + Width(p) * Len(chars)
      BY DEF Covered
    <3>8. Covered(p, 1, c) <=> c[2] = p.at[2] /\ p.at[1] <= c[1] /\ c[1] < p.at[1] + Width(p)
      BY <1>1, <3>1 DEF Covered
    <3> HIDE DEF d
    <3> QED
      BY <3>2, <3>3, <3>4, <3>5, <3>6, <3>7, <3>8, Zenon
  <2>3. q.text[c] = IF Covered(p, 1, c) THEN <<Head(chars)>>[(c[1] - p.at[1]) \div Width(p) + 1] ELSE p.text[c]
    BY <1>1 DEF Lettered
  <2>4. /\ Lettered(q, Tail(chars))[c] = IF Covered(q, Len(Tail(chars)), c)
                                         THEN Tail(chars)[(c[1] - q.at[1]) \div Width(p) + 1] ELSE q.text[c]
        /\ Lettered(p, chars)[c] = IF Covered(p, Len(chars), c) THEN chars[d \div Width(p) + 1] ELSE p.text[c]
    BY <1>1 DEF Lettered
  <2>5. CASE Covered(q, Len(Tail(chars)), c)
    <3>1. c[1] - q.at[1] = d - Width(p)
      BY <1>1, <1>2, <2>1
    <3>2. (d - Width(p)) \div Width(p) + 1 = d \div Width(p) /\ d \div Width(p) \in 1..Len(chars) - 1
      <4>1. d \in Int /\ Width(p) <= d /\ d < Width(p) * Len(chars)
        BY <1>1, <2>1, <2>2, <2>5
      <4> HIDE DEF d
      <4>2. CASE Width(p) = 1
        BY <1>1, <4>1, <4>2
      <4>3. CASE Width(p) = 2
        <5>1. d \in Int /\ 2 <= d /\ d < 2 * Len(chars)
          BY <4>1, <4>3
        <5>2. (d - 2) \div 2 + 1 = d \div 2 /\ d \div 2 \in 1..Len(chars) - 1
          BY <1>1, <5>1
        <5> QED
          BY <4>3, <5>2
      <4> QED
        BY <1>1, <4>2, <4>3
    <3>3. Covered(p, Len(chars), c)
      BY <1>1, <2>1, <2>2, <2>5
    <3> QED
      BY <1>1, <2>4, <2>5, <3>1, <3>2, <3>3
  <2>6. CASE Covered(p, 1, c)
    <3>1. ~Covered(q, Len(Tail(chars)), c) /\ Covered(p, Len(chars), c)
      <4>1. Width(p) <= Width(p) * Len(chars) /\ Width(p) * Len(chars) \in Nat
        BY <1>1
      <4> QED
        BY <1>1, <2>1, <2>2, <2>6, <4>1
    <3>2. d \div Width(p) = 0
      <4>1. d \in Int /\ 0 <= d /\ d < Width(p)
        BY <1>1, <2>1, <2>2, <2>6
      <4> HIDE DEF d
      <4>2. CASE Width(p) = 1
        BY <4>1, <4>2
      <4>3. CASE Width(p) = 2
        BY <4>1, <4>3
      <4> QED
        BY <1>1, <4>2, <4>3
    <3> QED
      BY <1>1, <2>3, <2>4, <2>6, <3>1, <3>2
  <2>7. CASE ~Covered(q, Len(Tail(chars)), c) /\ ~Covered(p, 1, c)
    <3>1. ~Covered(p, Len(chars), c)
      BY <1>1, <2>1, <2>2, <2>7
    <3> QED
      BY <2>3, <2>4, <2>7, <3>1
  <2> QED
    BY <2>5, <2>6, <2>7
<1>4. Lettered(q, Tail(chars)) = [c \in Cell |-> Lettered(p, chars)[c]]
  BY <1>3 DEF Lettered
<1>5. Lettered(p, chars) = [c \in Cell |-> Lettered(p, chars)[c]]
  BY DEF Lettered
<1> QED
  BY <1>4, <1>5

-----------------------------------------------------------------------------
(* How much fits on a line.                                                *)

LEMMA MaxIs ==
  ASSUME NEW n \in Nat, NEW S \in SUBSET (0..n), S # {}
  PROVE  Max(S) \in S /\ \A x \in S : x <= Max(S)
<1> DEFINE T == {n - x : x \in S}
<1>1. \A x \in S : x \in Nat /\ n - x \in Nat
  OBVIOUS
<1>2. T # {} /\ T \in SUBSET Nat
  <2>1. T # {} /\ \A t \in T : t \in Nat
    BY <1>1, Zenon
  <2> QED
    BY <2>1, Zenon
<1>3. PICK t \in T : \A y \in T : t <= y
  BY <1>2, LeastExists
<1>4. PICK m \in S : t = n - m
  OBVIOUS
<1>5. ASSUME NEW x \in S PROVE x <= m
  <2>1. n - x \in T
    OBVIOUS
  <2>2. n - m <= n - x
    BY <1>3, <1>4, <2>1
  <2> QED
    BY <1>1, <2>2
<1>6. \E x \in S : \A y \in S : x >= y
  BY <1>1, <1>5
<1>7. Max(S) \in S /\ \A y \in S : Max(S) >= y
  BY <1>6 DEF Max
<1> QED
  BY <1>1, <1>7

\* As many characters as fit; another one does not.
Room(p, str, n) == (\A i \in 1..n : Printable(str, i)) /\ p.at[1] + Width(p) * n <= p.columns

LEMMA CountIs ==
  ASSUME NEW p, OnScreen(p), NEW str \in Seq(Char)
  PROVE  /\ Count(p, str) \in 0..Len(str) /\ Room(p, str, Count(p, str))
         /\ \A n \in 0..Len(str) : Room(p, str, n) => n <= Count(p, str)
         /\ Printable(str, Count(p, str) + 1) => p.at[1] + Width(p) * (Count(p, str) + 1) > p.columns
<1> DEFINE S == {n \in 0..Len(str) : Room(p, str, n)}
           k == Count(p, str)
<1>1. Len(str) \in Nat /\ p.at[1] \in Nat /\ p.columns \in Nat /\ p.at[1] <= p.columns /\ Width(p) \in {1, 2}
  BY AtIs, WidthIs DEF OnScreen
<1>2. k = Max(S)
  BY Zenon DEF Count, Room
<1>3. 0 \in S
  <2>1. Width(p) * 0 = 0 /\ 1..0 = {}
    BY <1>1
  <2> QED
    BY <1>1, <2>1 DEF Room
<1>4. S \in SUBSET (0..Len(str)) /\ S # {}
  BY <1>3
<1>5. k \in S /\ \A n \in S : n <= k
  BY <1>1, <1>2, <1>4, MaxIs
<1> HIDE DEF k
<1>6. ASSUME Printable(str, k + 1) PROVE p.at[1] + Width(p) * (k + 1) > p.columns
  <2>1. k \in 0..Len(str) /\ k + 1 <= Len(str) /\ \A i \in 1..k : Printable(str, i)
    BY <1>5, <1>6 DEF Printable, Room
  <2>2. \A i \in 1..k + 1 : i \in 1..k \/ i = k + 1
    BY <2>1
  <2>3. ~Room(p, str, k + 1)
    <3>1. k + 1 \in 0..Len(str) /\ ~(k + 1 <= k)
      BY <1>1, <2>1
    <3> QED
      BY <1>5, <3>1
  <2>4. ~(p.at[1] + Width(p) * (k + 1) <= p.columns)
    BY <1>6, <2>1, <2>2, <2>3 DEF Room
  <2>5. p.at[1] + Width(p) * (k + 1) \in Nat
    BY <1>1, <2>1
  <2> QED
    BY <1>1, <2>4, <2>5
<1> QED
  BY <1>5, <1>6 DEF k

-----------------------------------------------------------------------------
(* The cursor.                                                             *)

\* The cursor where it is, and nowhere else.
Cursor(p) == [c \in Cell |-> IF p.visible /\ c = p.at THEN {p.color} ELSE {}]

LEMMA CursorIs ==
  ASSUME NEW p, OnScreen(p)
  PROVE  /\ p.ink = Clean => FlushCursor(p).ink = Cursor(p)
         /\ p.ink = Cursor(p) => FlushCursor(p).ink = Clean
<1>1. p.at \in Cell /\ p.ink \in [Cell -> SUBSET Color] /\ p.visible \in BOOLEAN
  BY AtIs
<1>2. FlushCursor(p).ink = IF p.visible THEN [p.ink EXCEPT ![p.at] = SymDiff(@, {p.color})] ELSE p.ink
  BY FlushIs
<1>3. SymDiff({}, {p.color}) = {p.color} /\ SymDiff({p.color}, {p.color}) = {}
  BY DEF SymDiff
<1>4. ASSUME p.ink = Clean PROVE FlushCursor(p).ink = Cursor(p)
  <2>1. p.ink = [c \in Cell |-> {}]
    BY <1>4 DEF Clean
  <2>2. CASE p.visible
    <3>1. FlushCursor(p).ink = [p.ink EXCEPT ![p.at] = {p.color}]
      BY <1>1, <1>2, <1>3, <2>1, <2>2
    <3>2. \A c \in Cell : FlushCursor(p).ink[c] = IF p.visible /\ c = p.at THEN {p.color} ELSE {}
      BY <1>1, <2>1, <2>2, <3>1
    <3>3. FlushCursor(p).ink = [c \in Cell |-> FlushCursor(p).ink[c]]
      BY <1>1, <3>1
    <3> QED
      BY <3>2, <3>3 DEF Cursor
  <2>3. CASE ~p.visible
    BY <1>2, <2>1, <2>3 DEF Cursor
  <2> QED
    BY <2>2, <2>3
<1>5. ASSUME p.ink = Cursor(p) PROVE FlushCursor(p).ink = Clean
  <2>1. p.ink = [c \in Cell |-> IF p.visible /\ c = p.at THEN {p.color} ELSE {}]
    BY <1>5 DEF Cursor
  <2>2. CASE p.visible
    <3>1. p.ink[p.at] = {p.color}
      BY <1>1, <2>1, <2>2
    <3>2. FlushCursor(p).ink = [p.ink EXCEPT ![p.at] = {}]
      BY <1>1, <1>2, <1>3, <2>2, <3>1
    <3>3. \A c \in Cell : FlushCursor(p).ink[c] = {}
      BY <1>1, <2>1, <2>2, <3>2
    <3>4. FlushCursor(p).ink = [c \in Cell |-> FlushCursor(p).ink[c]]
      BY <1>1, <3>2
    <3> QED
      BY <3>3, <3>4 DEF Clean
  <2>3. CASE ~p.visible
    BY <1>2, <2>1, <2>3 DEF Clean
  <2> QED
    BY <2>2, <2>3
<1> QED
  BY <1>4, <1>5

\* The cell under the cursor is the first that is drawn.
LEMMA DrawsOver ==
  ASSUME NEW p, OnScreen(p), NEW chars \in Seq(Glyphs), chars # <<>>, p.ink \in {Clean, Cursor(p)}
  PROVE  Draw(p, chars).ink = Clean
<1>1. Draw(p, chars).ink = [c \in Cell |-> IF Covered(p, Len(chars), c) THEN {} ELSE p.ink[c]]
  BY DrawIs
<1>2. ASSUME NEW c \in Cell, c = p.at PROVE Covered(p, Len(chars), c)
  <2>1. p.at[1] \in Nat /\ Len(chars) \in Nat /\ Len(chars) > 0 /\ Width(p) \in {1, 2}
    BY AtIs, WidthIs
  <2>2. Width(p) * Len(chars) > 0 /\ Width(p) * Len(chars) \in Nat
    BY <2>1
  <2>3. p.at[1] < p.at[1] + Width(p) * Len(chars) /\ p.at[1] <= p.at[1]
    BY <2>1, <2>2
  <2> QED
    BY <1>2, <2>3, Zenon DEF Covered
<1>3. ASSUME NEW c \in Cell, ~Covered(p, Len(chars), c) PROVE p.ink[c] = {}
  <2>1. c # p.at
    BY <1>2, <1>3
  <2> QED
    BY <2>1 DEF Clean, Cursor
<1> QED
  BY <1>1, <1>3 DEF Clean

\* A narrow blank in one cell.
LEMMA BlankIs ==
  ASSUME NEW p, OnScreen(p), ~p.wide
  PROVE  Lettered(p, <<" ">>) = [p.text EXCEPT ![p.at] = " "]
<1>1. /\ p.at \in Cell /\ p.at = <<p.at[1], p.at[2]>> /\ p.at[1] \in Nat /\ p.at[2] \in Nat
      /\ p.text \in [Cell -> Glyphs] /\ Width(p) = 1 /\ Len(<<" ">>) = 1
  BY AtIs DEF Width
<1>2. ASSUME NEW c \in Cell PROVE Lettered(p, <<" ">>)[c] = IF c = p.at THEN " " ELSE p.text[c]
  <2>1. c = <<c[1], c[2]>> /\ c[1] \in Nat /\ c[2] \in Nat
    BY CellIs
  <2>2. Covered(p, 1, c) <=> c = p.at
    <3>1. Covered(p, 1, c) <=> c[2] = p.at[2] /\ c[1] = p.at[1]
      BY <1>1, <2>1 DEF Covered
    <3> QED
      BY <1>1, <2>1, <3>1
  <2>3. c = p.at => (c[1] - p.at[1]) \div Width(p) + 1 = 1
    BY <1>1, <2>1
  <2>4. <<" ">>[1] = " "
    OBVIOUS
  <2>5. Lettered(p, <<" ">>)[c] = IF Covered(p, 1, c) THEN <<" ">>[(c[1] - p.at[1]) \div Width(p) + 1] ELSE p.text[c]
    BY <1>1, Zenon DEF Lettered
  <2> QED
    BY <2>2, <2>3, <2>4, <2>5
<1>3. Lettered(p, <<" ">>) = [c \in Cell |-> IF c = p.at THEN " " ELSE p.text[c]]
  <2>1. Lettered(p, <<" ">>) = [c \in Cell |-> Lettered(p, <<" ">>)[c]]
    BY DEF Lettered
  <2> QED
    BY <1>2, <2>1
<1>4. [p.text EXCEPT ![p.at] = " "] = [c \in Cell |-> IF c = p.at THEN " " ELSE p.text[c]]
  BY <1>1
<1> QED
  BY <1>3, <1>4

LEMMA WrappedIs ==
  ASSUME NEW p, OnScreen(p)
  PROVE  Wrapped(p) = (IF p.at[1] = p.columns THEN NewLine(p) ELSE p)
<1>1. FlushCursor(FlushCursor(p)) = p
  BY FlushIs
<1>2. OnScreen(NewLine(p))
  BY NewLineIs
<1>3. FlushCursor(FlushCursor(NewLine(p))) = NewLine(p)
  BY <1>2, FlushIs
<1>4. Wrapped(p) = IF p.at[1] >= p.columns THEN FlushCursor(FlushCursor(NewLine(FlushCursor(FlushCursor(p))))) ELSE p
  BY Zenon DEF Wrapped
<1>5. p.at[1] >= p.columns <=> p.at[1] = p.columns
  BY AtIs DEF OnScreen
<1> QED
  BY <1>1, <1>3, <1>4, <1>5

LEMMA WideIs ==
  ASSUME NEW p, OnScreen(p), NEW v \in BOOLEAN
  PROVE  LET q == [p EXCEPT !.wide = v] IN
         /\ OnScreen(q) /\ q.columns = p.columns /\ q.rows = p.rows /\ q.at = p.at /\ q.visible = p.visible
         /\ q.color = p.color /\ q.wide = v /\ q.text = p.text /\ q.ink = p.ink
<1> DEFINE q == [p EXCEPT !.wide = v]
<1>1. p \in Pens
  BY DEF OnScreen
<1>2. /\ q \in Pens /\ q.columns = p.columns /\ q.rows = p.rows /\ q.at = p.at /\ q.visible = p.visible
      /\ q.color = p.color /\ q.wide = v /\ q.text = p.text /\ q.ink = p.ink
  BY <1>1 DEF Pens
<1>3. OnScreen(q)
  BY <1>2 DEF OnScreen
<1> QED
  BY <1>2, <1>3, Zenon

LEMMA BlankedIs ==
  ASSUME NEW p, OnScreen(p), NEW c \in Cell
  PROVE  LET q == [p EXCEPT !.text[c] = " "] IN
         /\ OnScreen(q) /\ q.columns = p.columns /\ q.rows = p.rows /\ q.at = p.at /\ q.visible = p.visible
         /\ q.color = p.color /\ q.wide = p.wide /\ q.text = [p.text EXCEPT ![c] = " "] /\ q.ink = p.ink
<1> DEFINE q == [p EXCEPT !.text[c] = " "]
<1>1. p \in Pens /\ p.text \in [Cell -> Glyphs]
  BY AtIs DEF OnScreen
<1>2. [p.text EXCEPT ![c] = " "] \in [Cell -> Glyphs]
  BY <1>1 DEF Glyphs
<1>3. q = [p EXCEPT !.text = [p.text EXCEPT ![c] = " "]]
  BY <1>1 DEF Pens
<1>4. /\ q \in Pens /\ q.columns = p.columns /\ q.rows = p.rows /\ q.at = p.at /\ q.visible = p.visible
      /\ q.color = p.color /\ q.wide = p.wide /\ q.text = [p.text EXCEPT ![c] = " "] /\ q.ink = p.ink
  BY <1>1, <1>2, <1>3 DEF Pens
<1>5. OnScreen(q)
  BY <1>4 DEF OnScreen
<1> QED
  BY <1>4, <1>5, Zenon

-----------------------------------------------------------------------------
(* A run of text.                                                          *)

Run(p, str) == SubSeq(str, 1, Count(p, str))

LEMMA RunIs ==
  ASSUME NEW p, OnScreen(p), NEW str \in Seq(Char)
  PROVE  /\ Run(p, str) \in Seq(Glyphs) /\ Len(Run(p, str)) = Count(p, str)
         /\ \A i \in 1..Count(p, str) : Run(p, str)[i] = str[i]
<1> DEFINE k == Count(p, str)
<1>1. k \in 0..Len(str) /\ Room(p, str, k)
  BY CountIs
<1> HIDE DEF k
<1>2. \A i \in 1..k : str[i] \in Glyphs
  <2> SUFFICES ASSUME NEW i \in 1..k PROVE str[i] \in Glyphs
    OBVIOUS
  <2>1. Printable(str, i) /\ i \in 1..Len(str)
    BY <1>1 DEF Room
  <2>2. str[i] \in Char /\ str[i] \notin Control
    BY <2>1 DEF Printable
  <2> QED
    BY <2>2 DEF Char
<1>3. /\ SubSeq(str, 1, k) \in Seq(Char) /\ Len(SubSeq(str, 1, k)) = k
      /\ \A i \in 1..k : SubSeq(str, 1, k)[i] = str[i]
  BY <1>1
<1>4. SubSeq(str, 1, k) \in Seq(Glyphs)
  <2>1. \A i \in 1..Len(SubSeq(str, 1, k)) : SubSeq(str, 1, k)[i] \in Glyphs
    BY <1>2, <1>3
  <2> QED
    BY <1>3, <2>1
<1> QED
  BY <1>3, <1>4 DEF Run, k

LEMMA DrawRunIs ==
  ASSUME NEW p, OnScreen(p), NEW str \in Seq(Char), ~Odd(p, str)
  PROVE  LET d == DrawRun(p, str) IN
         /\ OnScreen(d) /\ d.columns = p.columns /\ d.rows = p.rows
         /\ d.visible = p.visible /\ d.color = p.color /\ d.wide = p.wide
         /\ d.at = <<p.at[1] + Width(p) * Count(p, str), p.at[2]>>
         /\ d.text = Lettered(p, Run(p, str)) /\ d.ink = Draw(p, Run(p, str)).ink
<1> DEFINE d == DrawRun(p, str)
           k == Count(p, str)
           q == Draw(p, Run(p, str))
           x == p.at[1] + Width(p) * k
<1>1. /\ k \in Nat /\ p.at[1] \in Nat /\ p.at[2] \in Nat /\ Width(p) \in {1, 2}
      /\ x <= p.columns /\ p.at[2] < p.rows /\ Run(p, str) \in Seq(Glyphs)
  BY CountIs, RunIs, AtIs, WidthIs DEF Room, OnScreen
<1> HIDE DEF k
<1>2. x \in Nat
  BY <1>1
<1>3. IndexAfter(p, str) = Width(p) * k
  <2>1. IndexAfter(p, str) = Width(p) * k + 0
    BY DEF IndexAfter, k
  <2> QED
    BY <1>1, <2>1
<1>4. d = MoveTo(q, x, p.at[2])
  BY <1>3, Zenon DEF DrawRun, Run, k
<1> HIDE DEF x, q
<1>5. /\ OnScreen(q) /\ q.columns = p.columns /\ q.rows = p.rows /\ q.visible = p.visible /\ q.color = p.color
      /\ q.wide = p.wide /\ q.text = Lettered(p, Run(p, str))
  BY <1>1, DrawIs, Zenon DEF q
<1>6. /\ OnScreen(MoveTo(q, x, p.at[2])) /\ MoveTo(q, x, p.at[2]).at = <<x, p.at[2]>>
      /\ MoveTo(q, x, p.at[2]).columns = q.columns /\ MoveTo(q, x, p.at[2]).rows = q.rows
      /\ MoveTo(q, x, p.at[2]).visible = q.visible /\ MoveTo(q, x, p.at[2]).color = q.color
      /\ MoveTo(q, x, p.at[2]).wide = q.wide /\ MoveTo(q, x, p.at[2]).text = q.text
      /\ MoveTo(q, x, p.at[2]).ink = q.ink
  <2>1. x <= q.columns /\ p.at[2] < q.rows
    BY <1>1, <1>5, Zenon DEF x
  <2> QED
    BY <1>1, <1>2, <1>5, <2>1, MoveIs, Zenon
<1> QED
  BY <1>4, <1>5, <1>6, Zenon DEF x, q, k

-----------------------------------------------------------------------------
(* The nested call that writes a space.                                    *)

\* Its result before the cursor is drawn.
Spaced(p) == [Wrapped(DrawRun([FlushCursor(p) EXCEPT !.wide = FALSE], <<" ">>)) EXCEPT !.wide = p.wide]

\* The space, and the end of the line.
AfterSpace(p) ==
  LET b == MoveTo([p EXCEPT !.text[p.at] = " "], p.at[1] + 1, p.at[2]) IN
  IF b.at[1] = b.columns THEN NewLine(b) ELSE b

LEMMA AfterSpaceIs ==
  ASSUME NEW p, OnScreen(p), p.at[1] < p.columns
  PROVE  LET b == MoveTo([p EXCEPT !.text[p.at] = " "], p.at[1] + 1, p.at[2]) IN
         /\ OnScreen(b) /\ b.columns = p.columns /\ b.rows = p.rows /\ b.at = <<p.at[1] + 1, p.at[2]>>
         /\ b.visible = p.visible /\ b.color = p.color /\ b.wide = p.wide
         /\ b.text = [p.text EXCEPT ![p.at] = " "]
<1> DEFINE q == [p EXCEPT !.text[p.at] = " "]
           b == MoveTo(q, p.at[1] + 1, p.at[2])
<1>1. p.at \in Cell /\ p.at[1] + 1 \in Nat /\ p.at[2] \in Nat /\ p.at[1] + 1 <= p.columns /\ p.at[2] < p.rows
  BY AtIs DEF OnScreen
<1>2. /\ OnScreen(q) /\ q.columns = p.columns /\ q.rows = p.rows /\ q.visible = p.visible
      /\ q.color = p.color /\ q.wide = p.wide /\ q.text = [p.text EXCEPT ![p.at] = " "]
  BY <1>1, BlankedIs
<1> HIDE DEF q
<1>3. p.at[1] + 1 <= q.columns /\ p.at[2] < q.rows
  BY <1>1, <1>2, Zenon
<1>4. OnScreen(q)
  BY <1>2
<1>5. /\ OnScreen(b) /\ b.at = <<p.at[1] + 1, p.at[2]>> /\ b.columns = q.columns /\ b.rows = q.rows
      /\ b.visible = q.visible /\ b.color = q.color /\ b.wide = q.wide /\ b.text = q.text
  <2> DEFINE x == p.at[1] + 1
             y == p.at[2]
  <2>1. x \in Nat /\ y \in Nat /\ x <= q.columns /\ y < q.rows
    BY <1>1, <1>3, Zenon
  <2> HIDE DEF x, y
  <2>2. /\ OnScreen(MoveTo(q, x, y)) /\ MoveTo(q, x, y).at = <<x, y>>
        /\ MoveTo(q, x, y).columns = q.columns /\ MoveTo(q, x, y).rows = q.rows
        /\ MoveTo(q, x, y).visible = q.visible /\ MoveTo(q, x, y).color = q.color
        /\ MoveTo(q, x, y).wide = q.wide /\ MoveTo(q, x, y).text = q.text
    BY <1>4, <2>1, MoveIs
  <2> QED
    BY <2>2, Zenon DEF x, y
<1> QED
  BY <1>2, <1>5, Zenon DEF q

LEMMA Single ==
  ASSUME NEW S, NEW x \in S
  PROVE  <<x>> \in Seq(S) /\ Len(<<x>>) = 1 /\ <<x>>[1] = x /\ <<x>> # <<>>
  OBVIOUS

\* A narrow space fits.
LEMMA SpaceFits ==
  ASSUME NEW p, OnScreen(p), ~p.wide, p.at[1] < p.columns, NEW str \in Seq(Glyphs), Len(str) = 1
  PROVE  /\ Count(p, str) = 1 /\ ~Odd(p, str) /\ Run(p, str) = str
         /\ p.at[1] + Width(p) * Count(p, str) = p.at[1] + 1
<1>1. str \in Seq(Char) /\ str[1] \in Glyphs /\ str[1] \notin Control
  <2>1. \A c \in Glyphs : c \in Char /\ c \notin Control
    BY DEF Char, Glyphs, Control
  <2>2. \A i \in 1..Len(str) : str[i] \in Glyphs
    BY ElementOfSeq, Zenon
  <2>3. str[1] \in Glyphs
    BY <2>2
  <2>4. str \in Seq(Char)
    BY <2>1, <2>2
  <2> QED
    BY <2>1, <2>3, <2>4, Zenon
<1>2. Width(p) = 1 /\ p.at[1] \in Nat /\ p.columns \in Nat /\ p.at[1] + 1 <= p.columns
  BY AtIs DEF Width
<1>3. Printable(str, 1)
  BY <1>1 DEF Printable
<1>4. Room(p, str, 1)
  <2>1. \A i \in 1..1 : i = 1
    OBVIOUS
  <2>2. p.at[1] + Width(p) * 1 <= p.columns
    BY <1>2
  <2> QED
    BY <1>3, <2>1, <2>2, Zenon DEF Room
<1>5. Count(p, str) \in 0..Len(str) /\ \A n \in 0..Len(str) : Room(p, str, n) => n <= Count(p, str)
  BY <1>1, CountIs, Zenon
<1>6. Count(p, str) = 1
  <2> DEFINE k == Count(p, str)
  <2>1. k \in 0..1 /\ \A n \in 0..1 : Room(p, str, n) => n <= k
    BY <1>1, <1>5
  <2> HIDE DEF k
  <2>2. k = 1
    BY <1>4, <2>1
  <2> QED
    BY <2>2 DEF k
<1>7. ~Odd(p, str)
  BY Zenon DEF Odd
<1>8. SubSeq(str, 1, 1) = str
  BY <1>1
<1>9. p.at[1] + Width(p) * 1 = p.at[1] + 1
  BY <1>2
<1> QED
  BY <1>1, <1>6, <1>7, <1>8, <1>9, Zenon DEF Run

LEMMA SpacedIs ==
  ASSUME NEW p, OnScreen(p), p.at[1] < p.columns
  PROVE  /\ WriteSpace(p) = FlushCursor(Spaced(p))
         /\ OnScreen(Spaced(p)) /\ Same(Spaced(p), AfterSpace(p)) /\ OnScreen(AfterSpace(p))
         /\ Spaced(p).visible = p.visible /\ Spaced(p).color = p.color
         /\ Spaced(p).columns = p.columns /\ Spaced(p).rows = p.rows /\ Spaced(p).wide = p.wide
         /\ p.ink = Clean => Spaced(p).ink = Clean
<1> DEFINE f == FlushCursor(p)
           n == [f EXCEPT !.wide = FALSE]
           d == DrawRun(n, <<" ">>)
           w == Wrapped(d)
           b == MoveTo([p EXCEPT !.text[p.at] = " "], p.at[1] + 1, p.at[2])
<1>1. WriteSpace(p) = FlushCursor(Spaced(p)) /\ Spaced(p) = [w EXCEPT !.wide = p.wide]
      /\ AfterSpace(p) = IF b.at[1] = b.columns THEN NewLine(b) ELSE b
  BY Zenon DEF WriteSpace, Spaced, AfterSpace
<1>2. /\ OnScreen(f) /\ f.columns = p.columns /\ f.rows = p.rows /\ f.at = p.at /\ f.text = p.text
      /\ f.wide = p.wide /\ f.visible = p.visible /\ f.color = p.color
      /\ p.ink = Clean => f.ink = Cursor(p)
  BY FlushIs, CursorIs, Zenon DEF Same
<1> HIDE DEF f
<1>3. /\ OnScreen(n) /\ n.columns = p.columns /\ n.rows = p.rows /\ n.at = p.at /\ n.text = p.text
      /\ ~n.wide /\ n.visible = p.visible /\ n.color = p.color /\ n.ink = f.ink
  BY <1>2, WideIs
<1> HIDE DEF n
<1>4. n.at[1] < n.columns /\ ~n.wide
  BY <1>3
<1> DEFINE s == <<" ">>
<1>5. s = <<" ">>
  OBVIOUS
<1> HIDE DEF s
<1>6. /\ s \in Seq(Char) /\ s \in Seq(Glyphs) /\ s # <<>>
      /\ ~Odd(n, s) /\ Run(n, s) = s /\ n.at[1] + Width(n) * Count(n, s) = n.at[1] + 1
  <2>1. " " \in Glyphs /\ Glyphs \subseteq Char
    BY DEF Glyphs, Char
  <2>2. s \in Seq(Glyphs) /\ s \in Seq(Char) /\ Len(s) = 1 /\ s # <<>>
    BY <1>5, <2>1, Single, Zenon
  <2> QED
    BY <1>3, <1>4, <2>2, SpaceFits, Zenon
<1>7. /\ OnScreen(DrawRun(n, s)) /\ DrawRun(n, s).columns = n.columns /\ DrawRun(n, s).rows = n.rows
      /\ DrawRun(n, s).visible = n.visible /\ DrawRun(n, s).color = n.color /\ DrawRun(n, s).wide = n.wide
      /\ DrawRun(n, s).at = <<n.at[1] + Width(n) * Count(n, s), n.at[2]>>
      /\ DrawRun(n, s).text = Lettered(n, Run(n, s)) /\ DrawRun(n, s).ink = Draw(n, Run(n, s)).ink
  BY <1>3, <1>6, DrawRunIs, Zenon
<1>8. d = DrawRun(n, s)
  BY <1>5, Zenon
<1>9. /\ OnScreen(d) /\ d.columns = n.columns /\ d.rows = n.rows
      /\ d.visible = n.visible /\ d.color = n.color /\ d.wide = n.wide
      /\ d.at = <<n.at[1] + 1, n.at[2]>>
      /\ d.text = Lettered(n, s) /\ d.ink = Draw(n, s).ink
  BY <1>6, <1>7, <1>8, Zenon
<1> HIDE DEF d
<1>10. d.text = [p.text EXCEPT ![p.at] = " "]
  <2>1. Lettered(n, s) = [n.text EXCEPT ![n.at] = " "]
    <3>1. Lettered(n, <<" ">>) = [n.text EXCEPT ![n.at] = " "]
      BY <1>3, BlankIs, Zenon
    <3> QED
      BY <1>5, <3>1, Zenon
  <2> QED
    BY <1>3, <1>9, <2>1, Zenon
<1>11. ASSUME p.ink = Clean PROVE d.ink = Clean
  <2>1. Cursor(n) = Cursor(p)
    BY <1>3, Zenon DEF Cursor
  <2>2. n.ink \in {Clean, Cursor(n)}
    BY <1>2, <1>3, <1>11, <2>1, Zenon
  <2>3. Draw(n, s).ink = Clean
    BY <1>3, <1>6, <2>2, DrawsOver, Zenon
  <2> QED
    BY <1>9, <2>3, Zenon
<1>12. /\ OnScreen(b) /\ b.columns = p.columns /\ b.rows = p.rows /\ b.at = <<p.at[1] + 1, p.at[2]>>
       /\ b.visible = p.visible /\ b.color = p.color /\ b.wide = p.wide
       /\ b.text = [p.text EXCEPT ![p.at] = " "]
  BY AfterSpaceIs
<1> HIDE DEF b
<1>13. d.at = b.at /\ d.text = b.text /\ d.columns = b.columns /\ d.rows = b.rows
  BY <1>3, <1>9, <1>10, <1>12
<1>14. w = IF d.at[1] = d.columns THEN NewLine(d) ELSE d
  BY <1>9, WrappedIs, Zenon
<1>15. OnScreen(AfterSpace(p)) /\ AfterSpace(p).wide = p.wide
  <2>1. OnScreen(NewLine(b)) /\ NewLine(b).wide = b.wide
    BY <1>12, NewLineIs, Zenon
  <2> QED
    BY <1>1, <1>12, <2>1, Zenon
<1>16. /\ OnScreen(w) /\ w.columns = p.columns /\ w.rows = p.rows /\ w.visible = p.visible /\ w.color = p.color
       /\ p.ink = Clean => w.ink = Clean
  <2>1. /\ OnScreen(NewLine(d)) /\ NewLine(d).columns = d.columns /\ NewLine(d).rows = d.rows
        /\ NewLine(d).visible = d.visible /\ NewLine(d).color = d.color
        /\ d.ink = Clean => NewLine(d).ink = Clean
    BY <1>9, NewLineIs, Zenon
  <2> QED
    BY <1>3, <1>9, <1>11, <1>14, <2>1, Zenon
<1>17. w.text = AfterSpace(p).text /\ w.at = AfterSpace(p).at
       /\ AfterSpace(p).columns = p.columns /\ AfterSpace(p).rows = p.rows
  <2>1. Scrolled(d.text, d, " ") = Scrolled(b.text, b, " ")
    BY <1>13, Zenon DEF Scrolled
  <2>2. /\ NewLine(d).text = (IF d.at[2] = d.rows - 1 THEN Scrolled(d.text, d, " ") ELSE d.text)
        /\ NewLine(b).text = (IF b.at[2] = b.rows - 1 THEN Scrolled(b.text, b, " ") ELSE b.text)
        /\ NewLine(d).at = <<0, IF d.at[2] = d.rows - 1 THEN d.at[2] ELSE d.at[2] + 1>>
        /\ NewLine(b).at = <<0, IF b.at[2] = b.rows - 1 THEN b.at[2] ELSE b.at[2] + 1>>
        /\ NewLine(b).columns = b.columns /\ NewLine(b).rows = b.rows
    BY <1>9, <1>12, NewLineIs, Zenon
  <2>3. NewLine(d).text = NewLine(b).text /\ NewLine(d).at = NewLine(b).at
    BY <1>13, <2>1, <2>2, Zenon
  <2> QED
    BY <1>1, <1>12, <1>13, <1>14, <2>2, <2>3, Zenon
<1> HIDE DEF w
<1>18. /\ OnScreen(Spaced(p)) /\ Spaced(p).columns = p.columns /\ Spaced(p).rows = p.rows
       /\ Spaced(p).visible = p.visible /\ Spaced(p).color = p.color /\ Spaced(p).wide = p.wide
       /\ Spaced(p).at = w.at /\ Spaced(p).text = w.text /\ Spaced(p).ink = w.ink
  <2>1. p.wide \in BOOLEAN
    BY AtIs
  <2>2. LET q == [w EXCEPT !.wide = p.wide] IN
        /\ OnScreen(q) /\ q.columns = w.columns /\ q.rows = w.rows /\ q.at = w.at /\ q.visible = w.visible
        /\ q.color = w.color /\ q.wide = p.wide /\ q.text = w.text /\ q.ink = w.ink
    BY <1>16, <2>1, WideIs
  <2> QED
    BY <1>1, <1>16, <2>2, Zenon
<1> QED
  BY <1>1, <1>15, <1>16, <1>17, <1>18, Zenon DEF Same

-----------------------------------------------------------------------------
(* The terminal.                                                           *)

LEMMA FittedIs ==
  ASSUME NEW t, OnScreen(t)
  PROVE  /\ OnScreen(Fitted(t)) /\ Fitted(t).columns = t.columns /\ Fitted(t).rows = t.rows
         /\ Fitted(t).visible = t.visible /\ Fitted(t).color = t.color /\ Fitted(t).wide = t.wide
         /\ t.ink = Clean => Fitted(t).ink = Clean
         /\ Fitted(t).at[1] + Width(t) <= t.columns
         /\ t.at[1] + Width(t) > t.columns => Fitted(t).at[1] = 0
<1> DEFINE c == <<t.columns - 1, t.at[2]>>
           b == [t EXCEPT !.text[c] = " "]
<1>1. /\ t.at[1] \in Nat /\ t.at[2] \in Nat /\ t.columns \in Nat /\ t.columns >= 2 /\ Width(t) \in {1, 2}
      /\ c \in Cell
  <2>1. /\ t.at[1] \in Nat /\ t.at[2] \in Nat /\ t.columns \in Nat /\ t.columns >= 2 /\ Width(t) \in {1, 2}
        /\ t.at[2] < t.rows /\ t.rows \in Nat /\ t.columns <= MostColumns /\ t.rows <= MostRows
    BY AtIs, WidthIs, ModesAre DEF OnScreen
  <2>2. MostColumns \in Nat /\ MostRows \in Nat
    BY ModesAre
  <2>3. t.columns - 1 \in Nat /\ t.columns - 1 <= MostColumns /\ t.at[2] < MostRows
    BY <2>1, <2>2
  <2> QED
    BY <2>1, <2>3, CellIs
<1> HIDE DEF c
<1>2. /\ OnScreen(b) /\ b.columns = t.columns /\ b.rows = t.rows /\ b.visible = t.visible
      /\ b.color = t.color /\ b.wide = t.wide /\ b.ink = t.ink
  BY <1>1, BlankedIs, Zenon
<1> HIDE DEF b
<1>3. /\ OnScreen(NewLine(b)) /\ NewLine(b).columns = b.columns /\ NewLine(b).rows = b.rows
      /\ NewLine(b).visible = b.visible /\ NewLine(b).color = b.color /\ NewLine(b).wide = b.wide
      /\ NewLine(b).at = <<0, IF b.at[2] = b.rows - 1 THEN b.at[2] ELSE b.at[2] + 1>>
      /\ b.ink = Clean => NewLine(b).ink = Clean
  BY <1>2, NewLineIs, Zenon
<1>4. NewLine(b).at[1] = 0
  BY <1>3
<1>5. CASE t.at[1] + Width(t) > t.columns
  <2>1. Fitted(t) = NewLine(b)
    BY <1>5, Zenon DEF Fitted, b, c
  <2>2. 0 + Width(t) <= t.columns
    BY <1>1
  <2> QED
    BY <1>2, <1>3, <1>4, <2>1, <2>2, Zenon
<1>6. CASE ~(t.at[1] + Width(t) > t.columns)
  <2>1. Fitted(t) = t
    BY <1>6, Zenon DEF Fitted
  <2>2. t.at[1] + Width(t) <= t.columns
    BY <1>1, <1>6
  <2> QED
    BY <1>6, <2>1, <2>2, Zenon
<1> QED
  BY <1>5, <1>6, Zenon

LEMMA SameFitted ==
  ASSUME NEW p, NEW q, OnScreen(p), OnScreen(q), Same(p, q)
  PROVE  Same(Fitted(p), Fitted(q))
<1> DEFINE c == <<p.columns - 1, p.at[2]>>
           b == [p EXCEPT !.text[c] = " "]
           d == [q EXCEPT !.text[c] = " "]
<1>1. p.columns = q.columns /\ p.rows = q.rows /\ p.text = q.text /\ p.at = q.at /\ p.wide = q.wide
  BY DEF Same
<1>2. Width(p) = Width(q)
  BY <1>1 DEF Width
<1>3. c \in Cell
  <2>1. /\ p.at[2] \in Nat /\ p.columns \in Nat /\ p.columns >= 2
        /\ p.at[2] < p.rows /\ p.rows \in Nat /\ p.columns <= MostColumns /\ p.rows <= MostRows
    BY AtIs, ModesAre DEF OnScreen
  <2>2. MostColumns \in Nat /\ MostRows \in Nat
    BY ModesAre
  <2>3. p.columns - 1 \in Nat /\ p.columns - 1 <= MostColumns /\ p.at[2] < MostRows
    BY <2>1, <2>2
  <2> QED
    BY <2>1, <2>3, CellIs
<1> HIDE DEF c
<1>4. /\ OnScreen(b) /\ b.columns = p.columns /\ b.rows = p.rows /\ b.at = p.at /\ b.wide = p.wide
      /\ b.text = [p.text EXCEPT ![c] = " "]
      /\ OnScreen(d) /\ d.columns = q.columns /\ d.rows = q.rows /\ d.at = q.at /\ d.wide = q.wide
      /\ d.text = [q.text EXCEPT ![c] = " "]
  BY <1>3, BlankedIs, Zenon
<1> HIDE DEF b, d
<1>5. Same(b, d)
  BY <1>1, <1>4, Zenon DEF Same
<1>6. Same(NewLine(b), NewLine(d))
  BY <1>4, <1>5, SameLine, Zenon
<1>7. /\ Fitted(p) = IF p.at[1] + Width(p) > p.columns THEN NewLine(b) ELSE p
      /\ Fitted(q) = IF q.at[1] + Width(q) > q.columns THEN NewLine(d) ELSE q
  <2>1. d = [q EXCEPT !.text[<<q.columns - 1, q.at[2]>>] = " "]
    BY <1>1, Zenon DEF d, c
  <2> QED
    BY <2>1, Zenon DEF Fitted, b, c
<1>8. (p.at[1] + Width(p) > p.columns) <=> (q.at[1] + Width(q) > q.columns)
  BY <1>1, <1>2, Zenon
<1> QED
  BY <1>6, <1>7, <1>8, Zenon

LEMMA AtEndIs ==
  ASSUME NEW t, OnScreen(t)
  PROVE  /\ OnScreen(AtEnd(t)) /\ AtEnd(t).columns = t.columns /\ AtEnd(t).rows = t.rows
         /\ AtEnd(t).visible = t.visible /\ AtEnd(t).color = t.color /\ AtEnd(t).wide = t.wide
         /\ AtEnd(t).at[1] < t.columns
         /\ t.ink = Clean => AtEnd(t).ink = Clean
<1>1. /\ OnScreen(NewLine(t)) /\ NewLine(t).columns = t.columns /\ NewLine(t).rows = t.rows
      /\ NewLine(t).visible = t.visible /\ NewLine(t).color = t.color /\ NewLine(t).wide = t.wide
      /\ NewLine(t).at = <<0, IF t.at[2] = t.rows - 1 THEN t.at[2] ELSE t.at[2] + 1>>
      /\ t.ink = Clean => NewLine(t).ink = Clean
  BY NewLineIs, Zenon
<1>2. NewLine(t).at[1] = 0
  BY <1>1
<1>3. 0 < t.columns /\ (t.at[1] # t.columns => t.at[1] < t.columns)
  BY AtIs, ModesAre DEF OnScreen
<1> QED
  BY <1>1, <1>2, <1>3, Zenon DEF AtEnd

\* A run of text that fits, and the cursor behind it.
Typed(u, chars) == MoveTo(Draw(u, chars), u.at[1] + Width(u) * Len(chars), u.at[2])

LEMMA TypedIs ==
  ASSUME NEW u, OnScreen(u), NEW chars \in Seq(Glyphs), u.at[1] + Width(u) * Len(chars) <= u.columns
  PROVE  /\ OnScreen(Typed(u, chars)) /\ Typed(u, chars).columns = u.columns /\ Typed(u, chars).rows = u.rows
         /\ Typed(u, chars).visible = u.visible /\ Typed(u, chars).color = u.color
         /\ Typed(u, chars).wide = u.wide /\ Typed(u, chars).text = Lettered(u, chars)
         /\ Typed(u, chars).at = <<u.at[1] + Width(u) * Len(chars), u.at[2]>>
         /\ Typed(u, chars).ink = Draw(u, chars).ink
<1> DEFINE d == Draw(u, chars)
           column == u.at[1] + Width(u) * Len(chars)
           row == u.at[2]
<1>1. column \in Nat /\ row \in Nat /\ row < u.rows
  <2>1. u.at[1] \in Nat /\ u.at[2] \in Nat /\ u.at[2] < u.rows /\ Width(u) \in {1, 2} /\ Len(chars) \in Nat
    BY AtIs, WidthIs DEF OnScreen
  <2>2. Width(u) * Len(chars) \in Nat
    BY <2>1
  <2> QED
    BY <2>1, <2>2
<1>2. column <= u.columns
  OBVIOUS
<1>3. Typed(u, chars) = MoveTo(d, column, row)
  BY DEF Typed
<1> HIDE DEF column, row, d
<1>4. /\ OnScreen(d) /\ d.columns = u.columns /\ d.rows = u.rows /\ d.visible = u.visible /\ d.color = u.color
      /\ d.wide = u.wide /\ d.text = Lettered(u, chars)
  BY DrawIs, Zenon DEF d
<1>5. column <= d.columns /\ row < d.rows
  BY <1>1, <1>2, <1>4, Zenon
<1>6. /\ OnScreen(MoveTo(d, column, row)) /\ MoveTo(d, column, row).at = <<column, row>>
      /\ MoveTo(d, column, row).columns = d.columns /\ MoveTo(d, column, row).rows = d.rows
      /\ MoveTo(d, column, row).visible = d.visible /\ MoveTo(d, column, row).color = d.color
      /\ MoveTo(d, column, row).wide = d.wide /\ MoveTo(d, column, row).text = d.text
      /\ MoveTo(d, column, row).ink = d.ink
  BY <1>1, <1>4, <1>5, MoveIs, Zenon
<1> QED
  BY <1>3, <1>4, <1>6, Zenon DEF column, row, d

LEMMA PutIs ==
  ASSUME NEW t, OnScreen(t), NEW ch \in Glyphs
  PROVE  /\ OnScreen(Put(t, ch)) /\ Put(t, ch).columns = t.columns /\ Put(t, ch).rows = t.rows
         /\ Put(t, ch).visible = t.visible /\ Put(t, ch).color = t.color /\ Put(t, ch).wide = t.wide
         /\ Put(t, ch).at[1] < t.columns
         /\ t.ink = Clean => Put(t, ch).ink = Clean
         /\ Put(t, ch) = AtEnd(Typed(Fitted(t), <<ch>>)) /\ OnScreen(Typed(Fitted(t), <<ch>>))
<1> DEFINE u == Fitted(t)
           one == <<ch>>
           q == Typed(u, one)
<1>1. one \in Seq(Glyphs) /\ Len(one) = 1
  BY Single
<1> HIDE DEF one
<1>2. /\ OnScreen(u) /\ u.columns = t.columns /\ u.rows = t.rows /\ u.visible = t.visible /\ u.color = t.color
      /\ u.wide = t.wide /\ u.at[1] + Width(t) <= t.columns
      /\ t.ink = Clean => u.ink = Clean
  BY FittedIs, Zenon
<1> HIDE DEF u
<1>3. Width(u) = Width(t) /\ Width(u) \in {1, 2} /\ u.at[1] \in Nat /\ Width(u) * Len(one) = Width(u)
  BY <1>1, <1>2, AtIs, WidthIs DEF Width
<1>4. u.at[1] + Width(u) * Len(one) <= u.columns
  BY <1>2, <1>3, Zenon
<1>5. /\ OnScreen(q) /\ q.columns = u.columns /\ q.rows = u.rows
      /\ q.visible = u.visible /\ q.color = u.color /\ q.wide = u.wide
      /\ q.ink = Draw(u, one).ink
  BY <1>1, <1>2, <1>4, TypedIs, Zenon
<1>6. t.ink = Clean => q.ink = Clean
  BY <1>1, <1>2, <1>5, DrawsClean, Zenon
<1>7. Put(t, ch) = AtEnd(q)
  <2>1. Put(t, ch) = AtEnd(MoveTo(Draw(u, one), u.at[1] + Width(u), u.at[2]))
    BY Zenon DEF Put, u, one
  <2> QED
    BY <1>3, <2>1, Zenon DEF Typed
<1> HIDE DEF q
<1>8. /\ OnScreen(AtEnd(q)) /\ AtEnd(q).columns = q.columns /\ AtEnd(q).rows = q.rows
      /\ AtEnd(q).visible = q.visible /\ AtEnd(q).color = q.color /\ AtEnd(q).wide = q.wide
      /\ AtEnd(q).at[1] < q.columns
      /\ q.ink = Clean => AtEnd(q).ink = Clean
  BY <1>5, AtEndIs, Zenon
<1> QED
  BY <1>2, <1>5, <1>6, <1>7, <1>8, Zenon DEF q, u, one

\* The place that a backspace erases.
Before(t) == IF t.at[1] > 0 THEN <<t.at[1] - 1, t.at[2]>> ELSE <<t.columns - 1, t.at[2] - 1>>

LEMMA BeforeIs ==
  ASSUME NEW t, OnScreen(t), t.at # <<0, 0>>
  PROVE  /\ Before(t) \in Cell /\ Before(t) \in Nat \X Nat
         /\ Before(t)[1] < t.columns /\ Before(t)[2] < t.rows
<1>1. /\ t.at[1] \in Nat /\ t.at[2] \in Nat /\ t.columns \in Nat /\ t.columns >= 2 /\ t.at[1] <= t.columns
      /\ t.at[2] < t.rows /\ t.rows \in Nat /\ t.columns <= MostColumns /\ t.rows <= MostRows
      /\ t.at = <<t.at[1], t.at[2]>>
  BY AtIs, ModesAre DEF OnScreen
<1>2. MostColumns \in Nat /\ MostRows \in Nat
  BY ModesAre
<1>3. CASE t.at[1] > 0
  <2>1. Before(t) = <<t.at[1] - 1, t.at[2]>>
    BY <1>3 DEF Before
  <2>2. t.at[1] - 1 \in Nat /\ t.at[1] - 1 < t.columns /\ t.at[1] - 1 <= MostColumns /\ t.at[2] < MostRows
    BY <1>1, <1>2, <1>3
  <2>3. <<t.at[1] - 1, t.at[2]>> \in Cell
    BY <1>1, <2>2, CellIs
  <2> QED
    BY <1>1, <2>1, <2>2, <2>3
<1>4. CASE t.at[1] = 0
  <2>1. Before(t) = <<t.columns - 1, t.at[2] - 1>>
    BY <1>4 DEF Before
  <2>2. t.at[2] # 0
    BY <1>1, <1>4
  <2>3. t.columns - 1 \in Nat /\ t.columns - 1 < t.columns /\ t.columns - 1 <= MostColumns
        /\ t.at[2] - 1 \in Nat /\ t.at[2] - 1 < t.rows /\ t.at[2] - 1 < MostRows
    BY <1>1, <1>2, <2>2
  <2>4. <<t.columns - 1, t.at[2] - 1>> \in Cell
    BY <2>3, CellIs
  <2> QED
    BY <2>1, <2>3, <2>4
<1> QED
  BY <1>1, <1>3, <1>4

LEMMA EraseIs ==
  ASSUME NEW t, OnScreen(t), t.at[1] < t.columns
  PROVE  /\ OnScreen(Erase(t)) /\ Erase(t).columns = t.columns /\ Erase(t).rows = t.rows
         /\ Erase(t).visible = t.visible /\ Erase(t).color = t.color /\ Erase(t).wide = t.wide
         /\ Erase(t).at[1] < t.columns /\ Erase(t).ink = t.ink
         /\ t.at = <<0, 0>> => Erase(t) = t
         /\ t.at # <<0, 0>> => /\ Erase(t).at = Before(t)
                              /\ Erase(t).text = [t.text EXCEPT ![Before(t)] = " "]
<1>1. CASE t.at = <<0, 0>>
  BY <1>1 DEF Erase
<1>2. CASE t.at # <<0, 0>>
  <2> DEFINE c == Before(t)
             b == [t EXCEPT !.text[c] = " "]
             m == MoveTo(b, c[1], c[2])
  <2>1. c \in Cell /\ c \in Nat \X Nat /\ c[1] < t.columns /\ c[2] < t.rows
    BY <1>2, BeforeIs
  <2>2. c = <<c[1], c[2]>> /\ c[1] \in Nat /\ c[2] \in Nat /\ t.columns \in Nat
    BY <2>1, AtIs
  <2>3. c[1] <= t.columns
    BY <2>1, <2>2
  <2>4. Erase(t) = [t EXCEPT !.at = c, !.text[c] = " "]
    BY <1>2, Zenon DEF Erase, Before
  <2> HIDE DEF c
  <2>5. /\ OnScreen(b) /\ b.columns = t.columns /\ b.rows = t.rows /\ b.visible = t.visible
        /\ b.color = t.color /\ b.wide = t.wide /\ b.text = [t.text EXCEPT ![c] = " "] /\ b.ink = t.ink
    BY <2>1, BlankedIs, Zenon
  <2>6. /\ OnScreen(m) /\ m.at = <<c[1], c[2]>> /\ m.columns = b.columns /\ m.rows = b.rows
        /\ m.visible = b.visible /\ m.color = b.color /\ m.wide = b.wide /\ m.text = b.text /\ m.ink = b.ink
    <3>1. c[1] <= b.columns /\ c[2] < b.rows /\ OnScreen(b)
      BY <2>1, <2>3, <2>5, Zenon
    <3> HIDE DEF b
    <3> QED
      BY <2>2, <3>1, MoveIs
  <2>7. Erase(t) = m
    <3>1. t \in Pens
      BY DEF OnScreen
    <3>2. m = [[t EXCEPT !.text[c] = " "] EXCEPT !.at = c]
      BY <2>2 DEF MoveTo
    <3> QED
      BY <2>4, <3>1, <3>2 DEF Pens
  <2> HIDE DEF m, b
  <2>8. m.at[1] < t.columns
    BY <2>1, <2>2, <2>6, Zenon
  <2> QED
    BY <1>2, <2>2, <2>5, <2>6, <2>7, <2>8, Zenon DEF c
<1> QED
  BY <1>1, <1>2

LEMMA BackspaceIs ==
  ASSUME NEW p, OnScreen(p), p.at[1] < p.columns
  PROVE  /\ OnScreen(Backspace(p)) /\ Same(Backspace(p), Erase(p))
         /\ Backspace(p).visible = p.visible /\ Backspace(p).color = p.color
         /\ p.ink = Clean => Backspace(p).ink = Clean
<1>1. CASE p.at = <<0, 0>>
  <2>1. p.at[1] = 0 /\ p.at[2] = 0
    BY <1>1
  <2>2. Backspace(p) = p
    BY <2>1 DEF Backspace
  <2>3. Erase(p) = p
    BY <1>1 DEF Erase
  <2> QED
    BY <2>2, <2>3 DEF Same
<1>2. CASE p.at # <<0, 0>>
  <2> DEFINE c == Before(p)
             m == MoveTo(p, c[1], c[2])
             s == Spaced(m)
             b == MoveTo([m EXCEPT !.text[m.at] = " "], m.at[1] + 1, m.at[2])
             r == MoveTo(s, c[1], c[2])
  <2>1. c \in Cell /\ c \in Nat \X Nat /\ c[1] < p.columns /\ c[2] < p.rows
    BY <1>2, BeforeIs
  <2>2. c = <<c[1], c[2]>> /\ c[1] \in Nat /\ c[2] \in Nat /\ p.columns \in Nat /\ c[1] <= p.columns
    BY <2>1, AtIs
  <2>3. /\ p.at[1] \in Nat /\ p.at[2] \in Nat /\ p.at = <<p.at[1], p.at[2]>>
        /\ p.at[1] = 0 => p.at[2] > 0 /\ c = <<p.columns - 1, p.at[2] - 1>>
        /\ p.at[1] # 0 => p.at[1] > 0 /\ c = <<p.at[1] - 1, p.at[2]>>
    <3>1. p.at[1] \in Nat /\ p.at[2] \in Nat /\ p.at = <<p.at[1], p.at[2]>>
      BY AtIs
    <3>2. p.at[1] = 0 => p.at[2] > 0
      BY <1>2, <3>1
    <3> QED
      BY <3>1, <3>2 DEF Before
  <2> HIDE DEF c
  <2>4. /\ OnScreen(m) /\ m.at = <<c[1], c[2]>> /\ m.columns = p.columns /\ m.rows = p.rows
        /\ m.visible = p.visible /\ m.color = p.color /\ m.wide = p.wide /\ m.text = p.text /\ m.ink = p.ink
    BY <2>1, <2>2, MoveIs, Zenon
  <2> HIDE DEF m
  <2>5. m.at = c /\ m.at[1] < m.columns
    BY <2>1, <2>2, <2>4, Zenon
  <2>6. /\ WriteSpace(m) = FlushCursor(s) /\ OnScreen(s) /\ Same(s, AfterSpace(m))
        /\ s.visible = m.visible /\ s.color = m.color /\ s.columns = m.columns /\ s.rows = m.rows
        /\ s.wide = m.wide
        /\ m.ink = Clean => s.ink = Clean
    BY <2>4, <2>5, SpacedIs, Zenon
  <2> HIDE DEF s
  <2>7. FlushCursor(WriteSpace(m)) = s
    BY <2>6, FlushIs, Zenon
  <2>8. /\ OnScreen(b) /\ b.columns = p.columns /\ b.rows = p.rows /\ b.at = <<c[1] + 1, c[2]>>
        /\ b.text = [p.text EXCEPT ![c] = " "]
    <3>1. /\ OnScreen(b) /\ b.columns = m.columns /\ b.rows = m.rows
          /\ b.at = <<m.at[1] + 1, m.at[2]>> /\ b.text = [m.text EXCEPT ![m.at] = " "]
      BY <2>4, <2>5, AfterSpaceIs, Zenon
    <3> HIDE DEF b
    <3> QED
      BY <2>4, <2>5, <3>1, Zenon
  <2>13. b.at = <<c[1] + 1, c[2]>> /\ b.columns = p.columns /\ b.rows = p.rows
    BY <2>8, Zenon
  <2>9. AfterSpace(m) = IF b.at[1] = b.columns THEN NewLine(b) ELSE b
    BY Zenon DEF AfterSpace
  <2> HIDE DEF b
  <2>10. /\ OnScreen(r) /\ r.at = <<c[1], c[2]>> /\ r.columns = s.columns /\ r.rows = s.rows
         /\ r.visible = s.visible /\ r.color = s.color /\ r.wide = s.wide /\ r.text = s.text /\ r.ink = s.ink
    <3>1. c[1] <= s.columns /\ c[2] < s.rows
      BY <2>1, <2>2, <2>4, <2>6, Zenon
    <3>2. OnScreen(s) /\ c[1] \in Nat /\ c[2] \in Nat
      BY <2>2, <2>6, Zenon
    <3> QED
      BY <3>1, <3>2, MoveIs, Zenon
  <2>11. s.text = [p.text EXCEPT ![c] = " "] /\ Backspace(p) = r
    <3>1. CASE p.at[1] = 0
      <4>1. c[1] = p.columns - 1 /\ c[2] = p.at[2] - 1
        BY <2>3, <3>1
      <4>2. b.at[1] = b.columns /\ b.at[2] = p.at[2] - 1 /\ b.at[2] # b.rows - 1
        <5>1. b.at[1] = c[1] + 1 /\ b.at[2] = c[2] /\ b.columns = p.columns /\ b.rows = p.rows
          BY <2>13
        <5>2. p.at[2] < p.rows /\ p.rows \in Nat
          BY AtIs DEF OnScreen
        <5> QED
          BY <2>2, <2>3, <4>1, <5>1, <5>2
      <4>3. /\ NewLine(b).at = <<0, IF b.at[2] = b.rows - 1 THEN b.at[2] ELSE b.at[2] + 1>>
            /\ NewLine(b).text = IF b.at[2] = b.rows - 1 THEN Scrolled(b.text, b, " ") ELSE b.text
        BY <2>8, NewLineIs, Zenon
      <4>4. NewLine(b).at = <<0, b.at[2] + 1>> /\ NewLine(b).text = b.text
        BY <4>2, <4>3, Zenon
      <4>5. s.at = <<0, b.at[2] + 1>> /\ s.text = b.text
        BY <2>6, <2>9, <4>2, <4>4, Zenon DEF Same
      <4>6. s.at[2] - 1 = c[2]
        BY <2>2, <2>3, <4>1, <4>2, <4>5
      <4>7. m = MoveTo(p, p.columns - 1, p.at[2] - 1)
        BY <4>1, Zenon DEF m
      <4>8. Backspace(p) = MoveTo(s, p.columns - 1, s.at[2] - 1)
        <5>1. p.at[2] > 0
          BY <2>3, <3>1
        <5>2. Backspace(p) = LET up == FlushCursor(WriteSpace(MoveTo(p, p.columns - 1, p.at[2] - 1)))
                             IN MoveTo(up, p.columns - 1, up.at[2] - 1)
          BY <3>1, <5>1 DEF Backspace
        <5> QED
          BY <2>7, <4>7, <5>2, Zenon
      <4> QED
        BY <2>8, <4>1, <4>5, <4>6, <4>8, Zenon
    <3>2. CASE p.at[1] # 0
      <4>1. c[1] = p.at[1] - 1 /\ c[2] = p.at[2] /\ p.at[1] > 0
        BY <2>3, <3>2
      <4>2. b.at[1] # b.columns
        <5>1. b.at[1] = c[1] + 1 /\ b.columns = p.columns
          BY <2>13
        <5> QED
          BY <2>2, <2>3, <4>1, <5>1
      <4>3. s.at = b.at /\ s.text = b.text
        BY <2>6, <2>9, <4>2, Zenon DEF Same
      <4>4. s.at[1] - 1 = c[1] /\ s.at[2] = c[2]
        BY <2>2, <2>13, <4>3
      <4>5. m = MoveTo(p, p.at[1] - 1, p.at[2])
        BY <4>1, Zenon DEF m
      <4>6. Backspace(p) = MoveTo(s, s.at[1] - 1, s.at[2])
        <5>1. Backspace(p) = LET left == FlushCursor(WriteSpace(MoveTo(p, p.at[1] - 1, p.at[2])))
                             IN MoveTo(left, left.at[1] - 1, left.at[2])
          BY <3>2, <4>1 DEF Backspace
        <5> QED
          BY <2>7, <4>5, <5>1, Zenon
      <4> QED
        BY <2>8, <4>3, <4>4, <4>6, Zenon
    <3> QED
      BY <3>1, <3>2
  <2> HIDE DEF r
  <2>12. /\ Erase(p).at = c /\ Erase(p).text = [p.text EXCEPT ![c] = " "]
         /\ Erase(p).columns = p.columns /\ Erase(p).rows = p.rows /\ Erase(p).wide = p.wide
    BY <1>2, EraseIs, Zenon DEF c
  <2>17. Backspace(p) = r
    BY <2>11
  <2>14. Same(Backspace(p), Erase(p))
    <3>1. r.at = Erase(p).at
      BY <2>2, <2>10, <2>12, Zenon
    <3>2. r.text = Erase(p).text
      BY <2>10, <2>11, <2>12, Zenon
    <3>3. r.columns = p.columns /\ r.rows = p.rows /\ r.wide = p.wide
      BY <2>4, <2>6, <2>10, Zenon
    <3> QED
      BY <2>12, <2>17, <3>1, <3>2, <3>3, Zenon DEF Same
  <2>15. Backspace(p).visible = p.visible /\ Backspace(p).color = p.color /\ OnScreen(Backspace(p))
    BY <2>4, <2>6, <2>10, <2>11, Zenon
  <2>16. p.ink = Clean => Backspace(p).ink = Clean
    <3>1. p.ink = Clean => s.ink = Clean
      BY <2>4, <2>6, Zenon
    <3>2. r.ink = s.ink
      BY <2>10, Zenon
    <3> QED
      BY <2>17, <3>1, <3>2, Zenon
  <2> QED
    BY <2>14, <2>15, <2>16, Zenon
<1> QED
  BY <1>1, <1>2

\* The controls and the glyphs.
LEMMA CharIs ==
  ASSUME NEW ch \in Char
  PROVE  ch \in Control \/ ch \in Glyphs
  BY Zenon DEF Char

LEMMA TermStepIs ==
  ASSUME NEW t, OnScreen(t), t.at[1] < t.columns, NEW ch \in Char
  PROVE  /\ OnScreen(TermStep(t, ch)) /\ TermStep(t, ch).columns = t.columns /\ TermStep(t, ch).rows = t.rows
         /\ TermStep(t, ch).visible = t.visible /\ TermStep(t, ch).color = t.color
         /\ TermStep(t, ch).at[1] < t.columns
         /\ t.ink = Clean => TermStep(t, ch).ink = Clean
<1> DEFINE s == TermStep(t, ch)
<1>1. t.at[1] \in Nat /\ t.at[2] \in Nat /\ t.at[2] < t.rows /\ t.columns \in Nat /\ 0 < t.columns /\ 0 <= t.columns
  BY AtIs, ModesAre DEF OnScreen
<1>2. CASE ch = "backspace"
  <2>1. s = Erase(t)
    BY <1>2, Zenon DEF TermStep
  <2> QED
    BY <2>1, EraseIs, Zenon
<1>3. CASE ch = "line feed"
  <2>1. s = LineFeed(t)
    BY <1>3 DEF TermStep
  <2>2. /\ OnScreen(LineFeed(t)) /\ LineFeed(t).columns = t.columns /\ LineFeed(t).rows = t.rows
        /\ LineFeed(t).visible = t.visible /\ LineFeed(t).color = t.color
        /\ LineFeed(t).at = <<t.at[1], IF t.at[2] = t.rows - 1 THEN t.at[2] ELSE t.at[2] + 1>>
        /\ t.ink = Clean => LineFeed(t).ink = Clean
    BY LineFeedIs, Zenon
  <2>3. LineFeed(t).at[1] = t.at[1]
    BY <2>2
  <2> QED
    BY <2>1, <2>2, <2>3, Zenon
<1>4. CASE ch = "carriage return"
  <2>1. s = MoveTo(t, 0, t.at[2])
    BY <1>4 DEF TermStep
  <2>2. OnScreen(s) /\ s.at = <<0, t.at[2]>> /\ s.columns = t.columns /\ s.rows = t.rows
        /\ s.visible = t.visible /\ s.color = t.color /\ s.ink = t.ink
    BY <1>1, <2>1, MoveIs
  <2> QED
    BY <1>1, <2>2
<1>5. CASE ch \in {"wide", "narrow"}
  <2> DEFINE v == (ch = "wide")
  <2>1. v \in BOOLEAN /\ s = [t EXCEPT !.wide = v]
    BY <1>5 DEF TermStep
  <2> HIDE DEF v
  <2>2. LET q == [t EXCEPT !.wide = v] IN
        /\ OnScreen(q) /\ q.columns = t.columns /\ q.rows = t.rows /\ q.at = t.at /\ q.visible = t.visible
        /\ q.color = t.color /\ q.wide = v /\ q.text = t.text /\ q.ink = t.ink
    BY <2>1, WideIs
  <2> QED
    BY <2>1, <2>2, Zenon
<1>6. CASE ch \notin Control
  <2>1. ch \in Glyphs /\ s = Put(t, ch)
    BY <1>6, CharIs DEF TermStep, Control
  <2> QED
    BY <2>1, PutIs, Zenon
<1>7. ch \in Control => ch = "backspace" \/ ch = "line feed" \/ ch = "carriage return" \/ ch \in {"wide", "narrow"}
  BY DEF Control
<1> QED
  BY <1>2, <1>3, <1>4, <1>5, <1>6, <1>7, Zenon

-----------------------------------------------------------------------------
(* A turn of the loop.                                                     *)

LEMMA ControlTurns ==
  ASSUME NEW p, OnScreen(p), p.at[1] < p.columns, NEW str, Head(str) \in Control
  PROVE  /\ OnScreen(Turn(p, str)) /\ Same(Turn(p, str), TermStep(p, Head(str)))
         /\ Turn(p, str).visible = p.visible /\ Turn(p, str).color = p.color
         /\ p.ink = Clean => Turn(p, str).ink = Clean
<1> DEFINE ch == Head(str)
           q == Turn(p, str)
<1>1. p.at[2] \in Nat /\ p.at[2] < p.rows /\ p.columns \in Nat /\ 0 <= p.columns
  BY AtIs DEF OnScreen
<1>2. CASE ch = "backspace"
  <2>1. q = Backspace(p) /\ TermStep(p, ch) = Erase(p)
    BY <1>2, Zenon DEF Turn, TermStep
  <2> QED
    BY <2>1, BackspaceIs, Zenon
<1>3. CASE ch = "line feed"
  <2>1. q = LineFeed(p) /\ TermStep(p, ch) = LineFeed(p)
    BY <1>3 DEF Turn, TermStep
  <2>2. /\ OnScreen(LineFeed(p)) /\ LineFeed(p).visible = p.visible /\ LineFeed(p).color = p.color
        /\ p.ink = Clean => LineFeed(p).ink = Clean
    BY LineFeedIs, Zenon
  <2> QED
    BY <2>1, <2>2, Zenon DEF Same
<1>4. CASE ch = "carriage return"
  <2>1. q = MoveTo(p, 0, p.at[2]) /\ TermStep(p, ch) = MoveTo(p, 0, p.at[2])
    BY <1>4 DEF Turn, TermStep
  <2>2. OnScreen(q) /\ q.visible = p.visible /\ q.color = p.color /\ q.ink = p.ink
    BY <1>1, <2>1, MoveIs
  <2> QED
    BY <2>1, <2>2, Zenon DEF Same
<1>5. CASE ch \in {"wide", "narrow"}
  <2> DEFINE v == (ch = "wide")
  <2>1. v \in BOOLEAN /\ q = [p EXCEPT !.wide = v] /\ TermStep(p, ch) = [p EXCEPT !.wide = v]
    BY <1>5 DEF Turn, TermStep
  <2> HIDE DEF v
  <2>2. LET w == [p EXCEPT !.wide = v] IN
        /\ OnScreen(w) /\ w.columns = p.columns /\ w.rows = p.rows /\ w.at = p.at /\ w.visible = p.visible
        /\ w.color = p.color /\ w.wide = v /\ w.text = p.text /\ w.ink = p.ink
    BY <2>1, WideIs
  <2> QED
    BY <2>1, <2>2, Zenon DEF Same
<1>6. ch = "backspace" \/ ch = "line feed" \/ ch = "carriage return" \/ ch \in {"wide", "narrow"}
  BY DEF Control
<1> QED
  BY <1>2, <1>3, <1>4, <1>5, <1>6, Zenon

\* The pen behind the text that fits, where the line is not at its end.
LEMMA SameTyped ==
  ASSUME NEW p, NEW q, OnScreen(p), OnScreen(q), Same(p, q), NEW chars \in Seq(Glyphs),
         p.at[1] + Width(p) * Len(chars) <= p.columns
  PROVE  Same(Typed(p, chars), Typed(q, chars)) /\ q.at[1] + Width(q) * Len(chars) <= q.columns
<1>1. p.columns = q.columns /\ p.rows = q.rows /\ p.text = q.text /\ p.at = q.at /\ p.wide = q.wide
  BY DEF Same
<1>2. Width(p) = Width(q)
  BY <1>1 DEF Width
<1>3. q.at[1] + Width(q) * Len(chars) <= q.columns
  BY <1>1, <1>2, Zenon
<1>4. Lettered(p, chars) = Lettered(q, chars)
  BY <1>1, <1>2, Zenon DEF Lettered, Covered
<1>5. /\ Typed(p, chars).columns = p.columns /\ Typed(p, chars).rows = p.rows
      /\ Typed(p, chars).wide = p.wide /\ Typed(p, chars).text = Lettered(p, chars)
      /\ Typed(p, chars).at = <<p.at[1] + Width(p) * Len(chars), p.at[2]>>
  BY TypedIs, Zenon
<1>6. /\ Typed(q, chars).columns = q.columns /\ Typed(q, chars).rows = q.rows
      /\ Typed(q, chars).wide = q.wide /\ Typed(q, chars).text = Lettered(q, chars)
      /\ Typed(q, chars).at = <<q.at[1] + Width(q) * Len(chars), q.at[2]>>
  BY <1>3, TypedIs, Zenon
<1>7. Typed(p, chars).at = Typed(q, chars).at
  BY <1>1, <1>2, <1>5, <1>6, Zenon
<1> QED
  BY <1>1, <1>3, <1>4, <1>5, <1>6, <1>7, Zenon DEF Same

LEMMA MoveTwice ==
  ASSUME NEW p \in Pens, NEW a, NEW b, NEW x, NEW y
  PROVE  MoveTo(MoveTo(p, a, b), x, y) = MoveTo(p, x, y)
  BY DEF MoveTo, Pens

LEMMA NewLineMoved ==
  ASSUME NEW p, OnScreen(p), NEW x \in Nat, x <= p.columns
  PROVE  NewLine(MoveTo(p, x, p.at[2])) = NewLine(p)
<1> DEFINE m == MoveTo(p, x, p.at[2])
<1>1. p \in Pens /\ p.at[2] \in Nat /\ p.at[2] < p.rows
  BY AtIs DEF OnScreen
<1>2. m.at = <<x, p.at[2]>>
  BY <1>1, MoveIs
<1>3. m.at[2] = p.at[2]
  BY <1>2
<1>4. MoveTo(m, 0, p.at[2]) = MoveTo(p, 0, p.at[2])
  BY <1>1, MoveTwice
<1> QED
  BY <1>3, <1>4, Zenon DEF NewLine

\* A wide character without room: the blank that is written is the terminal's.
LEMMA PaddingIs ==
  ASSUME NEW q, OnScreen(q), q.wide, q.at[1] = q.columns - 1
  PROVE  Same(Spaced(q), Fitted(q)) /\ Spaced(q).at[1] = 0
<1> DEFINE c == [q EXCEPT !.text[q.at] = " "]
           b == MoveTo(c, q.at[1] + 1, q.at[2])
<1>1. /\ q.at \in Cell /\ q.at = <<q.at[1], q.at[2]>> /\ q.at[1] \in Nat /\ q.at[2] \in Nat /\ q.columns \in Nat
      /\ q.at[1] < q.columns /\ q.at[1] + 1 = q.columns /\ q.at[1] + 1 \in Nat
  BY AtIs
<1>2. Width(q) = 2 /\ q.at[1] + Width(q) > q.columns
  BY <1>1 DEF Width
<1>3. <<q.columns - 1, q.at[2]>> = q.at
  BY <1>1
<1>4. Fitted(q) = NewLine(c)
  BY <1>2, <1>3, Zenon DEF Fitted
<1>5. /\ OnScreen(c) /\ c.columns = q.columns /\ c.at = q.at
  BY <1>1, BlankedIs, Zenon
<1>6. AfterSpace(q) = IF b.at[1] = b.columns THEN NewLine(b) ELSE b
  BY Zenon DEF AfterSpace
<1>7. b.at = <<q.at[1] + 1, q.at[2]>> /\ b.columns = q.columns
  BY <1>1, AfterSpaceIs, Zenon
<1> HIDE DEF c
<1>8. NewLine(b) = NewLine(c)
  <2>1. q.at[1] + 1 <= c.columns
    BY <1>1, <1>5
  <2>2. NewLine(MoveTo(c, q.at[1] + 1, c.at[2])) = NewLine(c)
    BY <1>1, <1>5, <2>1, NewLineMoved, Zenon
  <2> QED
    BY <1>5, <2>2, Zenon
<1> HIDE DEF b
<1>9. b.at[1] = b.columns
  BY <1>1, <1>7
<1>10. Same(Spaced(q), Fitted(q))
  <2>1. Same(Spaced(q), AfterSpace(q))
    BY <1>1, SpacedIs, Zenon
  <2> QED
    BY <1>4, <1>6, <1>8, <1>9, <2>1, Zenon
<1>11. Spaced(q).at = Fitted(q).at /\ Fitted(q).at[1] = 0
  <2>1. Fitted(q).at[1] = 0
    BY <1>2, FittedIs, Zenon
  <2> QED
    BY <1>10, <2>1, Zenon DEF Same
<1> QED
  BY <1>10, <1>11, Zenon

\* Where the console goes on after text: on the next line when this one is full
\* or the next character has no room.
AheadOf(q, next) ==
  IF q.at[1] = q.columns THEN NewLine(q) ELSE IF q.wide /\ next THEN Fitted(q) ELSE q

LEMMA TextTurns ==
  ASSUME NEW p, OnScreen(p), p.at[1] < p.columns, NEW str \in Seq(Char), str # <<>>, Head(str) \notin Control
  PROVE  LET r == Turn(p, str)
             q == Typed(p, Run(p, str))
             next == Printable(str, Count(p, str) + 1) IN
         /\ OnScreen(q) /\ OnScreen(r) /\ r.visible = p.visible /\ r.color = p.color
         /\ r.columns = p.columns /\ r.rows = p.rows /\ r.at[1] < r.columns
         /\ Same(r, AheadOf(q, next))
         /\ q.ink = Clean => r.ink = Clean \/ (next /\ r.at[1] = 0 /\ r.ink = Cursor(r))
         /\ Count(p, str) = 0 => p.wide /\ p.at[1] = p.columns - 1 /\ next
<1> DEFINE k == Count(p, str)
           run == Run(p, str)
           r == Turn(p, str)
           q == Typed(p, run)
           next == Printable(str, k + 1)
           full == p.at[1] + Width(p) * k = p.columns
<1>1. /\ k \in Nat /\ p.at[1] \in Nat /\ p.at[2] \in Nat /\ p.columns \in Nat /\ Width(p) \in {1, 2}
      /\ p.at[1] + Width(p) * k <= p.columns
      /\ next => p.at[1] + Width(p) * (k + 1) > p.columns
      /\ run \in Seq(Glyphs) /\ Len(run) = k
  BY CountIs, RunIs, AtIs, WidthIs DEF Room
<1>2. Printable(str, 1)
  BY DEF Printable
<1>3. r = Wrapped(Padded(DrawRun(p, str)))
  BY DEF Turn, Control
<1>4. Odd(p, str) <=> p.wide /\ next /\ p.at[1] + 2 * k = p.columns - 1
  BY Zenon DEF Odd
<1>5. IndexAfter(p, str) = Width(p) * k + IF Odd(p, str) THEN 2 ELSE 0
  BY Zenon DEF IndexAfter
<1>6. DrawRun(p, str) = MoveTo(Draw(p, run), p.at[1] + IndexAfter(p, str), p.at[2])
  BY Zenon DEF DrawRun, Run
<1>7. k = 0 => next
  BY <1>2
<1> HIDE DEF k, run, next, r
<1>8. /\ OnScreen(q) /\ q.columns = p.columns /\ q.rows = p.rows
      /\ q.visible = p.visible /\ q.color = p.color /\ q.wide = p.wide
      /\ q.at = <<p.at[1] + Width(p) * k, p.at[2]>>
  <2>1. p.at[1] + Width(p) * Len(run) <= p.columns
    BY <1>1, Zenon
  <2>2. /\ OnScreen(q) /\ q.columns = p.columns /\ q.rows = p.rows
        /\ q.visible = p.visible /\ q.color = p.color /\ q.wide = p.wide
        /\ q.at = <<p.at[1] + Width(p) * Len(run), p.at[2]>>
    BY <1>1, <2>1, TypedIs, Zenon
  <2> QED
    BY <1>1, <2>2, Zenon
<1>9. q = MoveTo(Draw(p, run), p.at[1] + Width(p) * k, p.at[2])
  BY <1>1, Zenon DEF Typed
<1>10. q.at[1] = p.at[1] + Width(p) * k /\ q.at[2] = p.at[2]
  BY <1>8
<1>11. next => \/ p.at[1] + Width(p) * k = p.columns
               \/ p.wide /\ p.at[1] + 2 * k = p.columns - 1
  <2>1. CASE Width(p) = 1
    <3>1. Width(p) * k = k /\ Width(p) * (k + 1) = k + 1
      BY <1>1, <2>1
    <3>2. k \in Nat /\ p.at[1] \in Nat /\ p.columns \in Nat
          /\ p.at[1] + k <= p.columns /\ (next => p.at[1] + (k + 1) > p.columns)
      BY <1>1, <3>1, Zenon
    <3> QED
      BY <3>1, <3>2
  <2>2. CASE Width(p) = 2
    <3>1. p.wide
      BY <2>2 DEF Width
    <3>2. Width(p) * k = 2 * k /\ Width(p) * (k + 1) = 2 * k + 2
      BY <1>1, <2>2
    <3>3. k \in Nat /\ p.at[1] \in Nat /\ p.columns \in Nat
          /\ p.at[1] + 2 * k <= p.columns /\ (next => p.at[1] + (2 * k + 2) > p.columns)
      BY <1>1, <3>2, Zenon
    <3> QED
      BY <3>1, <3>2, <3>3
  <2> QED
    BY <1>1, <2>1, <2>2
<1>12. k = 0 => p.wide /\ p.at[1] = p.columns - 1 /\ next
  <2>1. k = 0 => Width(p) * k = 0 /\ 2 * k = 0
    BY <1>1
  <2> QED
    BY <1>1, <1>7, <1>11, <2>1
<1> HIDE DEF q
<1>13. CASE Odd(p, str)
  <2>1. p.wide /\ next /\ p.at[1] + 2 * k = p.columns - 1 /\ Width(p) = 2
    BY <1>4, <1>13 DEF Width
  <2>2. q.at[1] = q.columns - 1 /\ q.wide /\ q.at[1] < q.columns /\ q.at[1] # q.columns /\ q.at[1] = p.columns - 1
    BY <1>1, <1>8, <1>10, <2>1
  <2> DEFINE d == DrawRun(p, str)
  <2>3. d.at[1] = p.columns + 1 /\ d.at[2] = p.at[2] /\ d.columns = p.columns
        /\ MoveTo(d, d.at[1] - 2, d.at[2]) = q
    <3> DEFINE o == Draw(p, run)
    <3>1. OnScreen(o) /\ o.columns = p.columns
      BY <1>1, DrawIs, Zenon
    <3> HIDE DEF o
    <3>2. d = MoveTo(o, p.at[1] + IndexAfter(p, str), p.at[2]) /\ p.at[1] + IndexAfter(p, str) = p.columns + 1
      <4>1. IndexAfter(p, str) = 2 * k + 2
        BY <1>5, <1>13, <2>1
      <4>2. p.at[1] + IndexAfter(p, str) = p.columns + 1
        BY <1>1, <2>1, <4>1
      <4> QED
        BY <1>6, <4>2, Zenon DEF o
    <3>3. o \in Pens
      BY <3>1 DEF OnScreen
    <3> HIDE DEF d
    <3>4. d = MoveTo(o, p.columns + 1, p.at[2])
      BY <3>2
    <3>5. d.at = <<p.columns + 1, p.at[2]>> /\ d.columns = o.columns
      BY <3>3, <3>4 DEF MoveTo, Pens
    <3>6. d.at[1] = p.columns + 1 /\ d.at[2] = p.at[2] /\ d.at[1] - 2 = p.at[1] + Width(p) * k
      BY <1>1, <2>1, <3>5
    <3>7. MoveTo(d, d.at[1] - 2, d.at[2]) = MoveTo(o, p.at[1] + Width(p) * k, p.at[2])
      BY <3>3, <3>4, <3>6, MoveTwice
    <3> QED
      BY <1>9, <3>1, <3>5, <3>6, <3>7, Zenon DEF o
  <2>4. Padded(d) = WriteSpace(q)
    <3>1. d.at[1] > d.columns
      BY <1>1, <2>3
    <3> QED
      BY <2>3, <3>1, Zenon DEF Padded
  <2>5. /\ WriteSpace(q) = FlushCursor(Spaced(q)) /\ OnScreen(Spaced(q))
        /\ Spaced(q).visible = q.visible /\ Spaced(q).color = q.color
        /\ Spaced(q).columns = q.columns /\ Spaced(q).rows = q.rows
        /\ q.ink = Clean => Spaced(q).ink = Clean
    BY <1>8, <2>2, SpacedIs, Zenon
  <2>6. Same(Spaced(q), Fitted(q)) /\ Spaced(q).at[1] = 0
    BY <1>8, <2>2, PaddingIs, Zenon
  <2> DEFINE s == Spaced(q)
             w == FlushCursor(s)
  <2>7. /\ OnScreen(w) /\ Same(w, s) /\ w.visible = s.visible /\ w.color = s.color
        /\ s.ink = Clean => w.ink = Cursor(s)
    BY <2>5, FlushIs, CursorIs, Zenon
  <2> HIDE DEF s, w
  <2>8. w.at = s.at /\ w.columns = s.columns /\ w.rows = s.rows
    BY <2>7, Zenon DEF Same
  <2>9. w.at[1] = 0 /\ w.columns = p.columns /\ w.rows = p.rows /\ 0 < p.columns /\ w.at[1] # w.columns
    <3>1. w.at[1] = 0 /\ w.columns = p.columns /\ w.rows = p.rows
      BY <1>8, <2>5, <2>6, <2>8, Zenon DEF s
    <3>2. 0 < p.columns
      BY <1>1
    <3> QED
      BY <3>1, <3>2
  <2>10. r = w
    <3>1. Wrapped(w) = IF w.at[1] = w.columns THEN NewLine(w) ELSE w
      BY <2>7, WrappedIs, Zenon
    <3> QED
      BY <1>3, <2>4, <2>5, <2>9, <3>1, Zenon DEF w, s
  <2>11. AheadOf(q, next) = Fitted(q)
    BY <2>1, <2>2, Zenon DEF AheadOf
  <2>12. Same(r, AheadOf(q, next))
    <3>1. Same(w, s) /\ Same(s, Fitted(q))
      BY <2>6, <2>7, Zenon DEF s
    <3> QED
      BY <2>10, <2>11, <3>1, Zenon DEF Same
  <2>13. Cursor(s) = Cursor(w)
    BY <2>7, <2>8, Zenon DEF Cursor
  <2>14. q.ink = Clean => r.ink = Cursor(r)
    BY <2>5, <2>7, <2>10, <2>13, Zenon DEF s
  <2>15. r.visible = p.visible /\ r.color = p.color
    BY <1>8, <2>5, <2>7, <2>10, Zenon DEF s
  <2>16. OnScreen(r) /\ r.columns = p.columns /\ r.rows = p.rows /\ r.at[1] = 0 /\ r.at[1] < r.columns
    BY <2>7, <2>9, <2>10, Zenon
  <2> QED
    BY <1>8, <1>12, <2>1, <2>12, <2>14, <2>15, <2>16, Zenon DEF k, run, next, r, q
<1>14. CASE ~Odd(p, str)
  <2>1. DrawRun(p, str) = q
    <3>1. IndexAfter(p, str) = Width(p) * k
      BY <1>1, <1>5, <1>14
    <3> QED
      BY <1>6, <1>9, <3>1, Zenon
  <2>2. q.at[1] \in Nat /\ q.at[1] <= q.columns /\ q.columns \in Nat
    BY <1>8, AtIs DEF OnScreen
  <2>3. Padded(q) = q
    <3>1. ~(q.at[1] > q.columns)
      BY <2>2
    <3> QED
      BY <3>1, Zenon DEF Padded
  <2>4. r = IF q.at[1] = q.columns THEN NewLine(q) ELSE q
    <3>1. Wrapped(q) = IF q.at[1] = q.columns THEN NewLine(q) ELSE q
      BY <1>8, WrappedIs, Zenon
    <3> QED
      BY <1>3, <2>1, <2>3, <3>1, Zenon
  <2>5. q.at[1] # q.columns => ~(q.wide /\ next)
    BY <1>4, <1>8, <1>10, <1>11, <1>14, Zenon
  <2>6. r = AheadOf(q, next)
    BY <2>4, <2>5, Zenon DEF AheadOf
  <2>7. Same(r, AheadOf(q, next))
    BY <2>6, Zenon DEF Same
  <2>8. /\ OnScreen(NewLine(q)) /\ NewLine(q).columns = q.columns /\ NewLine(q).rows = q.rows
        /\ NewLine(q).visible = q.visible /\ NewLine(q).color = q.color
        /\ NewLine(q).at = <<0, IF q.at[2] = q.rows - 1 THEN q.at[2] ELSE q.at[2] + 1>>
        /\ q.ink = Clean => NewLine(q).ink = Clean
    BY <1>8, NewLineIs, Zenon
  <2>9. NewLine(q).at[1] = 0 /\ 0 < q.columns /\ (q.at[1] # q.columns => q.at[1] < q.columns)
    <3>1. NewLine(q).at[1] = 0
      BY <2>8
    <3>2. 0 < q.columns
      BY <1>1, <1>8
    <3>3. q.at[1] # q.columns => q.at[1] < q.columns
      BY <2>2
    <3> QED
      BY <3>1, <3>2, <3>3
  <2>10. /\ OnScreen(r) /\ r.visible = p.visible /\ r.color = p.color
         /\ r.columns = p.columns /\ r.rows = p.rows /\ r.at[1] < r.columns
    BY <1>8, <2>4, <2>8, <2>9, Zenon
  <2>11. q.ink = Clean => r.ink = Clean
    BY <2>4, <2>8, Zenon
  <2> QED
    BY <1>8, <1>12, <2>7, <2>10, <2>11, Zenon DEF k, run, next, r, q
<1> QED
  BY <1>13, <1>14

-----------------------------------------------------------------------------
(* The text console on graphics: its inductive invariant.                   *)

TextNext == WString # <<>> /\ Head(WString) \notin Control

ConTypes ==
  /\ {started, visible, upset, writing, wide} \subseteq BOOLEAN
  /\ mode \in {-1} \cup Mode /\ color \in Color /\ line \in {"none", "live", "freed"}
  /\ text \in [Cell -> Glyphs] /\ ink \in [Cell -> SUBSET Color]
  /\ WString \in Seq(Char) /\ behind \in Seq(Char)
  /\ mode \in Mode => OnScreen(Here) /\ at[1] < Columns[mode + 1]

\* The terminal has the size of the text, and no cursor is drawn on it.
TermTypes ==
  mode \in Mode =>
    /\ OnScreen(term) /\ term.ink = Clean /\ term.at[1] < term.columns
    /\ term.columns = Columns[mode + 1] /\ term.rows = Rows[mode + 1]

\* A string is written in a mode that has been set.
Settled ==
  /\ writing => mode \in Mode
  /\ mode \in Mode => started
  /\ mode \notin Mode => line = "none"
  /\ ~writing => behind = <<>> /\ WString = <<>> /\ ~wide /\ ~term.wide

\* Between two calls all is as it should be.
Between == Ready => Same(Here, term) /\ (~upset => ink = Cursor(Here))

\* While a string is written the cursor is not drawn, except where a blank has
\* been written at the end of the line above; the text that follows covers it.
InkKept ==
  writing /\ ~upset => ink = Clean \/ (TextNext /\ at[1] = 0 /\ ink = Cursor(Here))

\* When the terminal has all that is written, the console is where it is, or on
\* the next line already, where the next wide character will be.
Followed ==
  writing /\ behind = <<>> =>
    \/ Same(Here, term)
    \/ TextNext /\ term.wide /\ term.at[1] = term.columns - 1 /\ Same(Here, Fitted(term))

\* What the terminal has yet to take brings it there: one control, or text that
\* fits on its line.
Behind ==
  writing /\ behind # <<>> =>
    \/ Len(behind) = 1 /\ Head(behind) \in Control /\ Same(Here, TermStep(term, Head(behind)))
    \/ /\ behind \in Seq(Glyphs)
       /\ Fitted(term).at[1] + Width(term) * Len(behind) <= term.columns
       /\ Same(Here, AheadOf(Typed(Fitted(term), behind), TextNext))

ConInv == ConTypes /\ TermTypes /\ Settled /\ Between /\ InkKept /\ Followed /\ Behind

LEMMA ModeIs == mode \in Mode <=> mode \in Nat /\ mode < Len(Columns)
<1>1. Columns \in Seq(Nat \ {0, 1})
  BY ConsoleAssumption
<1>2. Len(Columns) \in Nat
  BY <1>1
<1> QED
  BY <1>2 DEF Mode

LEMMA ReadyIs == ConTypes => (Ready <=> started /\ mode \in Mode /\ ~writing)
<1>1. mode \in {-1} \cup Mode => (mode >= 0 <=> mode \in Mode)
  BY ModeIs
<1> QED
  BY <1>1 DEF ConTypes, Ready

LEMMA RecordIs ==
  ASSUME NEW p \in Pens
  PROVE  [columns |-> p.columns, rows |-> p.rows, at |-> p.at, visible |-> p.visible, color |-> p.color,
          wide |-> p.wide, text |-> p.text, ink |-> p.ink] = p
  BY DEF Pens

\* What is seen after a step is a pen.
LEMMA AppearsIs ==
  ASSUME NEW q, OnScreen(q), q.columns = Columns[mode' + 1], q.rows = Rows[mode' + 1], Appears(q),
         visible' = q.visible, color' = q.color, wide' \in BOOLEAN
  PROVE  /\ OnScreen(Here') /\ Here'.columns = q.columns /\ Here'.rows = q.rows /\ Here'.at = q.at
         /\ Here'.wide = wide' /\ Here'.text = q.text /\ Here'.ink = q.ink /\ Cursor(Here') = Cursor(q)
         /\ wide' = q.wide => Same(Here', q)
         /\ text' \in [Cell -> Glyphs] /\ ink' \in [Cell -> SUBSET Color]
<1> DEFINE r == [q EXCEPT !.wide = wide']
<1>1. /\ OnScreen(r) /\ r.columns = q.columns /\ r.rows = q.rows /\ r.at = q.at /\ r.visible = q.visible
      /\ r.color = q.color /\ r.wide = wide' /\ r.text = q.text /\ r.ink = q.ink
  BY WideIs, Zenon
<1> HIDE DEF r
<1>2. at' = q.at /\ text' = q.text /\ ink' = q.ink
  BY DEF Appears
<1>3. Here' = [columns |-> r.columns, rows |-> r.rows, at |-> r.at, visible |-> r.visible, color |-> r.color,
               wide |-> r.wide, text |-> r.text, ink |-> r.ink]
  BY <1>1, <1>2, Zenon DEF Here
<1>4. Here' = r
  <2>1. r \in Pens
    BY <1>1 DEF OnScreen
  <2> QED
    BY <1>3, <2>1, RecordIs, Zenon
<1>5. Cursor(r) = Cursor(q)
  BY <1>1, Zenon DEF Cursor
<1>6. q.text \in [Cell -> Glyphs] /\ q.ink \in [Cell -> SUBSET Color]
  BY AtIs
<1>7. Here'.text = q.text /\ Here'.ink = q.ink /\ Here'.at = q.at /\ Here'.wide = wide'
      /\ Here'.columns = q.columns /\ Here'.rows = q.rows
  BY <1>1, <1>4, Zenon
<1> QED
  BY <1>1, <1>2, <1>4, <1>5, <1>6, <1>7, Zenon DEF Same

\* After a step between two calls.
LEMMA IdleKeeps ==
  ASSUME ConInv, ~writing, UNCHANGED <<loop, behind>>, ConTypes', TermTypes', Between',
         mode' \in Mode => started', mode' \notin Mode => line' = "none", ~term'.wide
  PROVE  ConInv'
<1>1. ~writing /\ behind = <<>> /\ WString = <<>> /\ ~wide
  BY DEF ConInv, Settled
<1>2. ~writing' /\ behind' = <<>> /\ WString' = <<>> /\ ~wide'
  BY <1>1 DEF loop
<1> QED
  BY <1>2 DEF ConInv, Settled, InkKept, Followed, Behind

-----------------------------------------------------------------------------
(* The steps between two calls.                                            *)

LEMMA DefaultIs == DefaultColor \in Color
<1>1. Color # {}
  BY ConsoleAssumption
<1> QED
  BY <1>1 DEF DefaultColor

LEMMA EmptyPageIs ==
  ASSUME NEW n \in Mode
  PROVE  /\ OnScreen(Page(n)) /\ Page(n).columns = Columns[n + 1] /\ Page(n).rows = Rows[n + 1]
         /\ Page(n).ink = Clean /\ ~Page(n).wide /\ Page(n).at[1] < Page(n).columns
<1> DEFINE p == Page(n)
<1>1. Columns[n + 1] \in 2..MostColumns /\ Rows[n + 1] \in 1..MostRows /\ MostColumns \in Nat /\ MostRows \in Nat
  BY ModesAre
<1>2. Blank \in [Cell -> Glyphs] /\ Clean \in [Cell -> SUBSET Color] /\ DefaultColor \in Color
  BY DefaultIs DEF Blank, Clean, Glyphs
<1>3. p = [columns |-> Columns[n + 1], rows |-> Rows[n + 1], at |-> <<0, 0>>, visible |-> FALSE,
           color |-> DefaultColor, wide |-> FALSE, text |-> Blank, ink |-> Clean]
  BY DEF Page
<1> HIDE DEF p
<1>4. p \in Pens
  BY <1>1, <1>2, <1>3 DEF Pens
<1>5. p.columns = Columns[n + 1] /\ p.rows = Rows[n + 1] /\ p.at = <<0, 0>> /\ ~p.wide /\ p.ink = Clean
  BY <1>3
<1>6. p.at[1] <= p.columns /\ p.at[2] < p.rows /\ p.at[1] < p.columns
  <2>1. p.at[1] = 0 /\ p.at[2] = 0
    BY <1>5
  <2> QED
    BY <1>1, <1>5, <2>1
<1>7. OnScreen(p)
  BY <1>1, <1>4, <1>5, <1>6 DEF OnScreen
<1> QED
  BY <1>5, <1>6, <1>7, Zenon DEF p

\* The same with another cursor.
WithCursor(p, v, c) == [p EXCEPT !.visible = v, !.color = c]

LEMMA PageIs ==
  ASSUME NEW n \in Mode, NEW v \in BOOLEAN, NEW c \in Color
  PROVE  LET q == WithCursor(Page(n), v, c) IN
         /\ OnScreen(q) /\ q.columns = Columns[n + 1] /\ q.rows = Rows[n + 1]
         /\ q.visible = v /\ q.color = c /\ q.wide = FALSE /\ q.ink = Clean
         /\ Same(q, Page(n)) /\ q.at[1] < q.columns
<1> DEFINE p == Page(n)
           q == WithCursor(p, v, c)
<1>1. /\ OnScreen(p) /\ p.columns = Columns[n + 1] /\ p.rows = Rows[n + 1] /\ p.ink = Clean /\ ~p.wide
      /\ p.at[1] < p.columns
  BY EmptyPageIs, Zenon
<1> HIDE DEF p
<1>2. p \in Pens
  BY <1>1 DEF OnScreen
<1>3. /\ q \in Pens /\ q.columns = p.columns /\ q.rows = p.rows /\ q.at = p.at /\ q.visible = v
      /\ q.color = c /\ q.wide = p.wide /\ q.text = p.text /\ q.ink = p.ink
  BY <1>2 DEF Pens, WithCursor
<1>4. p.wide = FALSE
  BY <1>1, <1>2 DEF Pens
<1> HIDE DEF q
<1>5. OnScreen(q) /\ Same(q, p)
  BY <1>1, <1>3 DEF OnScreen, Same
<1>6. q.at[1] < q.columns
  BY <1>1, <1>3, Zenon
<1> QED
  BY <1>1, <1>3, <1>4, <1>5, <1>6, Zenon DEF p, q

\* The screen has been filled.
LEMMA FilledIs ==
  ASSUME ConInv, ~writing, NEW n \in Mode, mode' = n, visible' \in BOOLEAN, color' \in Color, Blanked(n),
         started', line' \in {"none", "live", "freed"}, started' \in BOOLEAN
  PROVE  ConInv'
<1> DEFINE p == WithCursor(Page(n), visible', color')
           q == FlushCursor(p)
<1>1. Appears(q) /\ upset' = FALSE /\ term' = Page(n) /\ UNCHANGED <<loop, behind>>
  BY Zenon DEF Blanked, WithCursor
<1>2. /\ OnScreen(p) /\ p.columns = Columns[n + 1] /\ p.rows = Rows[n + 1]
      /\ p.visible = visible' /\ p.color = color' /\ p.wide = FALSE /\ p.ink = Clean
      /\ Same(p, Page(n)) /\ p.at[1] < p.columns
  BY PageIs, Zenon
<1> HIDE DEF p
<1>3. /\ OnScreen(q) /\ Same(q, p) /\ q.visible = p.visible /\ q.color = p.color /\ q.ink = Cursor(p)
  BY <1>2, FlushIs, CursorIs, Zenon
<1> HIDE DEF q
<1>4. /\ q.columns = Columns[mode' + 1] /\ q.rows = Rows[mode' + 1] /\ visible' = q.visible /\ color' = q.color
      /\ q.wide = FALSE /\ q.at = p.at /\ q.at[1] < Columns[mode' + 1]
  BY <1>2, <1>3, Zenon DEF Same
<1>5. ~wide /\ wide' = wide /\ wide \in BOOLEAN /\ wide' = q.wide /\ writing' = writing /\ writing \in BOOLEAN
      /\ WString' = WString /\ behind' = behind /\ WString \in Seq(Char) /\ behind \in Seq(Char)
  BY <1>1, <1>4 DEF ConInv, ConTypes, Settled, loop
<1>6. /\ OnScreen(Here') /\ Same(Here', q) /\ Here'.ink = q.ink /\ Cursor(Here') = Cursor(q)
      /\ text' \in [Cell -> Glyphs] /\ ink' \in [Cell -> SUBSET Color]
  BY <1>1, <1>3, <1>4, <1>5, AppearsIs, Zenon
<1>7. at' = q.at /\ ink' = q.ink /\ text' = q.text
  BY <1>1, Zenon DEF Appears
<1>8. Cursor(q) = Cursor(p)
  BY <1>3, Zenon DEF Cursor, Same
<1>9. Same(Here', term') /\ ink' = Cursor(Here')
  <2>1. Same(Here', Page(n))
    BY <1>2, <1>3, <1>6, Zenon DEF Same
  <2> QED
    BY <1>1, <1>3, <1>6, <1>7, <1>8, <2>1, Zenon
<1>10. ConTypes'
  BY <1>1, <1>4, <1>5, <1>6, <1>7 DEF ConTypes
<1>11. TermTypes' /\ ~term'.wide
  BY <1>1, EmptyPageIs, Zenon DEF TermTypes
<1>12. Between'
  BY <1>9, Zenon DEF Between
<1> QED
  BY <1>1, <1>10, <1>11, <1>12, IdleKeeps, Zenon

LEMMA StutterKeeps == ASSUME ConInv, UNCHANGED consoleVars PROVE ConInv'
<1>1. /\ started' = started /\ mode' = mode /\ visible' = visible /\ color' = color /\ line' = line
      /\ at' = at /\ text' = text /\ ink' = ink /\ writing' = writing /\ WString' = WString /\ wide' = wide
      /\ upset' = upset /\ term' = term /\ behind' = behind
  BY DEF consoleVars, record, loop, terminal
<1>2. Here' = Here
  BY <1>1, Zenon DEF Here
<1>3. ConTypes' /\ TermTypes' /\ Settled'
  BY <1>1, <1>2, Zenon DEF ConInv, ConTypes, TermTypes, Settled
<1>4. Between' /\ InkKept' /\ Followed' /\ Behind'
  BY <1>1, <1>2, Zenon DEF ConInv, Between, Ready, InkKept, TextNext, Followed, Behind
<1> QED
  BY <1>3, <1>4 DEF ConInv

LEMMA StartKeeps == ASSUME ConInv, Start PROVE ConInv'
<1>1. ~started /\ mode \notin Mode /\ ~writing /\ ~term.wide
  BY DEF Start, ConInv, Settled
<1>2. CASE Template /\ started' = TRUE /\ UNCHANGED <<text, ink, loop, upset, terminal>>
  <2>1. /\ mode' = -1 /\ visible' = TRUE /\ color' = DefaultColor /\ line' = "none" /\ started' = TRUE
        /\ text' = text /\ ink' = ink /\ writing' = writing /\ WString' = WString /\ wide' = wide
        /\ upset' = upset /\ term' = term /\ behind' = behind
    BY <1>2 DEF Template, loop, terminal
  <2>2. mode' \notin Mode /\ ~(mode' >= 0)
    BY <2>1 DEF Mode
  <2>3. ConTypes'
    BY <2>1, <2>2, DefaultIs DEF ConInv, ConTypes
  <2>4. TermTypes' /\ Between' /\ ~term'.wide
    BY <1>1, <2>1, <2>2 DEF TermTypes, Between, Ready
  <2> QED
    BY <1>1, <2>1, <2>2, <2>3, <2>4, IdleKeeps DEF loop
<1>3. CASE /\ started' = TRUE
           /\ mode' = 0 /\ visible' = TRUE /\ color' = DefaultColor /\ line' = "live"
           /\ Blanked(0)
  <2>1. 0 \in Mode /\ visible' \in BOOLEAN /\ color' \in Color /\ started' \in BOOLEAN /\ started'
        /\ line' \in {"none", "live", "freed"}
    BY <1>3, ModesAre, DefaultIs
  <2> QED
    BY <1>1, <1>3, <2>1, FilledIs, Zenon
<1> QED
  BY <1>2, <1>3 DEF Start

LEMMA StopKeeps == ASSUME ConInv, Stop PROVE ConInv'
<1>1. ~writing
  BY DEF Stop
<1>2. CASE UNCHANGED consoleVars
  BY <1>2, StutterKeeps
<1>3. CASE /\ started' = FALSE /\ Template
           /\ text' = Blank /\ ink' = Clean /\ upset' = FALSE /\ term' = Page(0)
           /\ UNCHANGED <<loop, behind>>
  <2>1. /\ mode' = -1 /\ visible' = TRUE /\ color' = DefaultColor /\ line' = "none" /\ started' = FALSE
        /\ text' = Blank /\ ink' = Clean /\ writing' = writing /\ WString' = WString /\ wide' = wide
        /\ upset' = FALSE /\ term' = Page(0) /\ behind' = behind
    BY <1>3 DEF Template, loop
  <2>2. mode' \notin Mode
    BY <2>1 DEF Mode
  <2>3. Blank \in [Cell -> Glyphs] /\ Clean \in [Cell -> SUBSET Color]
    BY DEF Blank, Clean, Glyphs
  <2>4. ConTypes'
    BY <2>1, <2>2, <2>3, DefaultIs DEF ConInv, ConTypes
  <2>5. TermTypes' /\ Between' /\ ~term'.wide
    BY <2>1, <2>2, ModesAre, EmptyPageIs DEF TermTypes, Between, Ready
  <2> QED
    BY <1>1, <1>3, <2>1, <2>2, <2>4, <2>5, IdleKeeps
<1> QED
  BY <1>2, <1>3 DEF Stop

LEMMA ClearScreenKeeps == ASSUME ConInv, ClearScreen PROVE ConInv'
<1>1. started /\ mode \in Mode /\ ~writing
  BY ReadyIs DEF ConInv, ClearScreen
<1>2. Blanked(mode) /\ UNCHANGED record
  BY DEF ClearScreen
<1>3. started' = started /\ mode' = mode /\ visible' = visible /\ color' = color /\ line' = line
  BY <1>2 DEF record
<1>4. visible' \in BOOLEAN /\ color' \in Color /\ started' \in BOOLEAN /\ line' \in {"none", "live", "freed"}
  BY <1>3 DEF ConInv, ConTypes
<1> QED
  BY <1>1, <1>2, <1>3, <1>4, FilledIs, Zenon

LEMMA SetModeKeeps == ASSUME ConInv, NEW n \in Mode, SetMode(n) PROVE ConInv'
<1>1. started /\ ~writing /\ started' = started /\ visible' = visible /\ color' = color
  BY DEF SetMode
<1>2. visible' \in BOOLEAN /\ color' \in Color /\ started' \in BOOLEAN
  BY <1>1 DEF ConInv, ConTypes
<1>3. mode' = n /\ Blanked(n) /\ line' \in {"none", "live", "freed"}
  BY DEF SetMode, ConInv, ConTypes
<1> QED
  BY <1>1, <1>2, <1>3, FilledIs, Zenon

LEMMA SetModeFailsKeeps == ASSUME ConInv, NEW n \in Mode, SetModeFails(n) PROVE ConInv'
<1>1. /\ ~writing /\ started' = started /\ mode' = mode /\ at' = at /\ visible' = visible /\ color' = color
      /\ text' = text /\ writing' = writing /\ WString' = WString /\ wide' = wide
      /\ term' = term /\ behind' = behind
  BY DEF SetModeFails, loop, terminal
<1>2. CASE line = "none"
  <2>1. UNCHANGED consoleVars
    BY <1>1, <1>2 DEF SetModeFails, consoleVars, record, loop, terminal
  <2> QED
    BY <2>1, StutterKeeps
<1>3. CASE line # "none"
  <2> DEFINE q == FlushCursor(Here)
  <2>1. mode \in Mode /\ started /\ ~term.wide
    BY <1>1, <1>3 DEF ConInv, Settled
  <2>2. line' = "freed" /\ ink' = q.ink /\ upset' = TRUE
    BY <1>3 DEF SetModeFails
  <2>3. OnScreen(Here) /\ at[1] < Columns[mode + 1] /\ wide \in BOOLEAN /\ Same(Here, term)
    BY <1>1, <2>1, ReadyIs DEF ConInv, ConTypes, Between
  <2>4. /\ Here.columns = Columns[mode + 1] /\ Here.rows = Rows[mode + 1] /\ Here.at = at /\ Here.wide = wide
        /\ Here.visible = visible /\ Here.color = color /\ Here.text = text
    BY DEF Here
  <2>5. OnScreen(q) /\ Same(q, Here) /\ q.visible = Here.visible /\ q.color = Here.color
    BY <2>3, FlushIs
  <2> HIDE DEF q
  <2>6. /\ q.columns = Columns[mode' + 1] /\ q.rows = Rows[mode' + 1] /\ visible' = q.visible /\ color' = q.color
        /\ Appears(q) /\ wide' = q.wide
    BY <1>1, <2>2, <2>4, <2>5, Zenon DEF Same, Appears
  <2>7. wide' \in BOOLEAN
    BY <1>1, <2>3
  <2>8. /\ OnScreen(Here') /\ Same(Here', q)
        /\ text' \in [Cell -> Glyphs] /\ ink' \in [Cell -> SUBSET Color]
    BY <2>5, <2>6, <2>7, AppearsIs, Zenon
  <2>9. ConTypes'
    BY <1>1, <2>2, <2>3, <2>8 DEF ConInv, ConTypes
  <2>10. TermTypes'
    BY <1>1, <2>1, Zenon DEF ConInv, TermTypes
  <2>11. Between'
    <3>1. Same(Here', term')
      BY <1>1, <2>3, <2>5, <2>8, Zenon DEF Same
    <3> QED
      BY <2>2, <3>1 DEF Between
  <2> QED
    BY <1>1, <2>1, <2>9, <2>10, <2>11, IdleKeeps DEF loop
<1> QED
  BY <1>2, <1>3

\* The cursor has been erased, something changed and the cursor drawn.
LEMMA RedrawnIs ==
  ASSUME ConInv, Ready, NEW g, OnScreen(g), g.ink = FlushCursor(Here).ink, Appears(FlushCursor(g)),
         visible' = g.visible, color' = g.color, g.columns = Columns[mode + 1], g.rows = Rows[mode + 1],
         g.at[1] < g.columns, UNCHANGED <<started, mode, line, loop, upset, behind>>,
         OnScreen(term'), term'.ink = Clean, ~term'.wide, Same(g, term')
  PROVE  ConInv'
<1> DEFINE f == FlushCursor(Here)
           q == FlushCursor(g)
<1>1. started /\ mode \in Mode /\ ~writing
  BY ReadyIs DEF ConInv
<1>2. OnScreen(Here) /\ wide \in BOOLEAN /\ (~upset => Here.ink = Cursor(Here))
  <2>1. Here.ink = ink
    BY DEF Here
  <2> QED
    BY <1>1, <2>1 DEF ConInv, ConTypes, Between
<1>3. ~upset => f.ink = Clean
  BY <1>2, CursorIs, Zenon
<1>4. /\ OnScreen(q) /\ Same(q, g) /\ q.visible = g.visible /\ q.color = g.color
      /\ g.ink = Clean => q.ink = Cursor(g)
  BY FlushIs, CursorIs, Zenon
<1> HIDE DEF f
<1>5. ~upset => q.ink = Cursor(g)
  BY <1>3, <1>4, Zenon DEF f
<1>6. /\ started' = started /\ mode' = mode /\ line' = line /\ writing' = writing /\ WString' = WString
      /\ wide' = wide /\ upset' = upset /\ behind' = behind
  BY DEF loop
<1> HIDE DEF q
<1>7. /\ q.columns = Columns[mode' + 1] /\ q.rows = Rows[mode' + 1] /\ visible' = q.visible /\ color' = q.color
      /\ Appears(q) /\ wide' \in BOOLEAN
  BY <1>2, <1>4, <1>6, Zenon DEF Same, q
<1>8. /\ OnScreen(Here') /\ Here'.columns = q.columns /\ Here'.rows = q.rows /\ Here'.at = q.at
      /\ Here'.wide = wide' /\ Here'.text = q.text /\ Here'.ink = q.ink /\ Cursor(Here') = Cursor(q)
      /\ text' \in [Cell -> Glyphs] /\ ink' \in [Cell -> SUBSET Color]
  BY <1>4, <1>7, AppearsIs, Zenon
<1>9. ~wide' /\ ~g.wide
  <2>1. ~wide
    BY <1>1 DEF ConInv, Settled
  <2> QED
    BY <1>6, <2>1 DEF Same
<1>10. Same(Here', term')
  <2>1. wide' = FALSE /\ g.wide = FALSE
    <3>1. g.wide \in BOOLEAN
      BY AtIs
    <3> QED
      BY <1>7, <1>9, <3>1
  <2>2. g.wide = term'.wide /\ g.columns = term'.columns /\ g.rows = term'.rows /\ g.text = term'.text /\ g.at = term'.at
    BY Zenon DEF Same
  <2>3. q.columns = g.columns /\ q.rows = g.rows /\ q.text = g.text /\ q.at = g.at
    BY <1>4, Zenon DEF Same
  <2> QED
    BY <1>8, <2>1, <2>2, <2>3, Zenon DEF Same
<1>11. at' = q.at /\ q.at = g.at /\ at'[1] < Columns[mode' + 1]
  BY <1>4, <1>6, <1>7, Zenon DEF Appears, Same
<1>12. ConTypes'
  <2>1. g.visible \in BOOLEAN /\ g.color \in Color
    BY AtIs
  <2> QED
    BY <1>6, <1>7, <1>8, <1>11, <2>1 DEF ConInv, ConTypes
<1>13. TermTypes'
  <2>1. term'.at = g.at /\ term'.columns = g.columns /\ term'.rows = g.rows
    BY Zenon DEF Same
  <2> QED
    BY <1>6, <2>1, Zenon DEF TermTypes
<1>14. Between'
  <2>1. Cursor(q) = Cursor(g)
    BY <1>4, Zenon DEF Cursor, Same
  <2>2. ink' = q.ink
    BY <1>7, Zenon DEF Appears
  <2>3. Cursor(Here') = Cursor(g)
    BY <1>8, <2>1, Zenon
  <2>4. upset' = upset
    BY <1>6
  <2>5. ~upset' => ink' = Cursor(Here')
    BY <1>5, <2>2, <2>3, <2>4
  <2> QED
    BY <1>10, <2>5, Zenon DEF Between
<1> QED
  BY <1>1, <1>6, <1>12, <1>13, <1>14, IdleKeeps DEF loop

\* The pen of a call that may draw.
LEMMA ReadyPen ==
  ASSUME ConInv, Ready
  PROVE  LET f == FlushCursor(Here) IN
         /\ OnScreen(f) /\ f.columns = Columns[mode + 1] /\ f.rows = Rows[mode + 1] /\ f.at = at
         /\ f.visible = visible /\ f.color = color /\ Same(f, term) /\ f.at[1] < f.columns
         /\ mode \in Mode /\ OnScreen(term) /\ term.ink = Clean /\ ~term.wide
         /\ term.columns = Columns[mode + 1] /\ term.rows = Rows[mode + 1]
<1> DEFINE f == FlushCursor(Here)
<1>1. started /\ mode \in Mode /\ ~writing
  BY ReadyIs DEF ConInv
<1>2. OnScreen(Here) /\ at[1] < Columns[mode + 1] /\ Same(Here, term)
  BY <1>1 DEF ConInv, ConTypes, Between
<1>3. /\ Here.columns = Columns[mode + 1] /\ Here.rows = Rows[mode + 1] /\ Here.at = at
      /\ Here.visible = visible /\ Here.color = color
  BY DEF Here
<1>4. OnScreen(f) /\ Same(f, Here) /\ f.visible = Here.visible /\ f.color = Here.color
  BY <1>2, FlushIs
<1> HIDE DEF f
<1>5. /\ f.columns = Columns[mode + 1] /\ f.rows = Rows[mode + 1] /\ f.at = at
      /\ f.visible = visible /\ f.color = color
  BY <1>3, <1>4, Zenon DEF Same
<1>6. Same(f, term) /\ f.at[1] < f.columns
  BY <1>2, <1>4, <1>5, Zenon DEF Same
<1>7. /\ OnScreen(term) /\ term.ink = Clean /\ ~term.wide
      /\ term.columns = Columns[mode + 1] /\ term.rows = Rows[mode + 1]
  BY <1>1 DEF ConInv, TermTypes, Settled
<1> QED
  BY <1>1, <1>4, <1>5, <1>6, <1>7, Zenon DEF f

LEMMA SetAttributeKeeps == ASSUME ConInv, NEW c \in Color, SetAttribute(c) PROVE ConInv'
<1> DEFINE f == FlushCursor(Here)
           g == [f EXCEPT !.color = c]
<1>1. /\ Ready /\ color' = c /\ Appears(FlushCursor(g))
      /\ started' = started /\ mode' = mode /\ visible' = visible /\ line' = line
      /\ UNCHANGED loop /\ upset' = upset /\ term' = term /\ behind' = behind
  BY DEF SetAttribute, Redrawn, terminal
<1>2. /\ OnScreen(f) /\ f.columns = Columns[mode + 1] /\ f.rows = Rows[mode + 1] /\ f.visible = visible
      /\ Same(f, term) /\ f.at[1] < f.columns
      /\ OnScreen(term) /\ term.ink = Clean /\ ~term.wide
  BY <1>1, ReadyPen, Zenon
<1>3. g.ink = FlushCursor(Here).ink /\ OnScreen(g) /\ Same(g, f) /\ g.visible = f.visible /\ g.color = c
  <2> HIDE DEF f
  <2>1. f \in Pens
    BY <1>2 DEF OnScreen
  <2>2. /\ g \in Pens /\ g.columns = f.columns /\ g.rows = f.rows /\ g.at = f.at /\ g.visible = f.visible
        /\ g.color = c /\ g.wide = f.wide /\ g.text = f.text /\ g.ink = f.ink
    BY <2>1 DEF Pens
  <2> HIDE DEF g
  <2> QED
    BY <1>2, <2>2 DEF OnScreen, Same, f
<1> HIDE DEF f, g
<1>4. /\ g.columns = Columns[mode + 1] /\ g.rows = Rows[mode + 1] /\ g.at[1] < g.columns /\ visible' = g.visible
      /\ color' = g.color /\ Same(g, term')
  BY <1>1, <1>2, <1>3, Zenon DEF Same
<1>5. OnScreen(term') /\ term'.ink = Clean /\ ~term'.wide
  BY <1>1, <1>2, Zenon
<1>6. UNCHANGED <<started, mode, line, loop, upset, behind>>
  BY <1>1
<1> QED
  BY <1>1, <1>3, <1>4, <1>5, <1>6, RedrawnIs, Zenon

LEMMA EnableCursorKeeps == ASSUME ConInv, NEW v \in BOOLEAN, EnableCursor(v) PROVE ConInv'
<1> DEFINE f == FlushCursor(Here)
           g == [f EXCEPT !.visible = v]
<1>1. /\ Ready /\ visible' = v /\ Appears(FlushCursor(g))
      /\ started' = started /\ mode' = mode /\ color' = color /\ line' = line
      /\ UNCHANGED loop /\ upset' = upset /\ term' = term /\ behind' = behind
  BY DEF EnableCursor, Redrawn, terminal
<1>2. /\ OnScreen(f) /\ f.columns = Columns[mode + 1] /\ f.rows = Rows[mode + 1] /\ f.color = color
      /\ Same(f, term) /\ f.at[1] < f.columns
      /\ OnScreen(term) /\ term.ink = Clean /\ ~term.wide
  BY <1>1, ReadyPen, Zenon
<1>3. g.ink = FlushCursor(Here).ink /\ OnScreen(g) /\ Same(g, f) /\ g.color = f.color /\ g.visible = v
  <2> HIDE DEF f
  <2>1. f \in Pens
    BY <1>2 DEF OnScreen
  <2>2. /\ g \in Pens /\ g.columns = f.columns /\ g.rows = f.rows /\ g.at = f.at /\ g.visible = v
        /\ g.color = f.color /\ g.wide = f.wide /\ g.text = f.text /\ g.ink = f.ink
    BY <2>1 DEF Pens
  <2> HIDE DEF g
  <2> QED
    BY <1>2, <2>2 DEF OnScreen, Same, f
<1> HIDE DEF f, g
<1>4. /\ g.columns = Columns[mode + 1] /\ g.rows = Rows[mode + 1] /\ g.at[1] < g.columns
      /\ color' = g.color /\ Same(g, term')
  BY <1>1, <1>2, <1>3, Zenon DEF Same
<1>7. visible' = g.visible
  BY <1>1, <1>3
<1>5. OnScreen(term') /\ term'.ink = Clean /\ ~term'.wide
  BY <1>1, <1>2, Zenon
<1>6. UNCHANGED <<started, mode, line, loop, upset, behind>>
  BY <1>1
<1> QED
  BY <1>1, <1>3, <1>4, <1>5, <1>6, <1>7, RedrawnIs, Zenon

LEMMA SetCursorPositionKeeps == ASSUME ConInv, NEW where \in Cell, SetCursorPosition(where) PROVE ConInv'
<1> DEFINE f == FlushCursor(Here)
           g == [f EXCEPT !.at = where]
           t == [term EXCEPT !.at = where]
<1>1. /\ Ready /\ Appears(FlushCursor(g)) /\ term' = t
      /\ where[1] < Columns[mode + 1] /\ where[2] < Rows[mode + 1]
      /\ started' = started /\ mode' = mode /\ visible' = visible /\ color' = color /\ line' = line
      /\ UNCHANGED loop /\ upset' = upset /\ behind' = behind
  BY DEF SetCursorPosition, Redrawn, record
<1>2. /\ OnScreen(f) /\ f.columns = Columns[mode + 1] /\ f.rows = Rows[mode + 1] /\ f.color = color
      /\ f.visible = visible /\ Same(f, term)
      /\ OnScreen(term) /\ term.ink = Clean /\ ~term.wide
      /\ term.columns = Columns[mode + 1] /\ term.rows = Rows[mode + 1] /\ mode \in Mode
  BY <1>1, ReadyPen, Zenon
<1>3. where \in Nat \X Nat /\ where[1] <= Columns[mode + 1]
  BY <1>1, <1>2, CellIs, ModesAre
<1>4. g.ink = FlushCursor(Here).ink /\ OnScreen(g) /\ g.visible = f.visible /\ g.color = f.color
      /\ g.columns = f.columns /\ g.rows = f.rows /\ g.at = where /\ g.wide = f.wide /\ g.text = f.text
  <2> HIDE DEF f
  <2>1. f \in Pens
    BY <1>2 DEF OnScreen
  <2>2. /\ g \in Pens /\ g.columns = f.columns /\ g.rows = f.rows /\ g.at = where /\ g.visible = f.visible
        /\ g.color = f.color /\ g.wide = f.wide /\ g.text = f.text /\ g.ink = f.ink
    BY <1>3, <2>1 DEF Pens
  <2> HIDE DEF g
  <2> QED
    BY <1>1, <1>2, <1>3, <2>2 DEF OnScreen, f
<1>5. /\ OnScreen(t) /\ t.columns = term.columns /\ t.rows = term.rows /\ t.at = where /\ t.wide = term.wide
      /\ t.text = term.text /\ t.ink = term.ink
  <2>1. term \in Pens
    BY <1>2 DEF OnScreen
  <2>2. /\ t \in Pens /\ t.columns = term.columns /\ t.rows = term.rows /\ t.at = where
        /\ t.wide = term.wide /\ t.text = term.text /\ t.ink = term.ink
    BY <1>3, <2>1 DEF Pens
  <2> HIDE DEF t
  <2> QED
    BY <1>1, <1>2, <1>3, <2>2 DEF OnScreen
<1> HIDE DEF f, g, t
<1>6. /\ g.columns = Columns[mode + 1] /\ g.rows = Rows[mode + 1] /\ g.at[1] < g.columns
      /\ visible' = g.visible /\ color' = g.color /\ Same(g, term')
  BY <1>1, <1>2, <1>4, <1>5, Zenon DEF Same
<1>7. OnScreen(term') /\ term'.ink = Clean /\ ~term'.wide
  BY <1>1, <1>2, <1>5, Zenon
<1>8. UNCHANGED <<started, mode, line, loop, upset, behind>>
  BY <1>1
<1> QED
  BY <1>1, <1>4, <1>6, <1>7, <1>8, RedrawnIs, Zenon

-----------------------------------------------------------------------------
(* The steps that write a string.                                          *)

LEMMA StringsAre == ASSUME NEW str \in Strings PROVE str \in Seq(Char)
<1>1. Control \cup {" ", "x"} = Char
  BY Zenon DEF Char, Glyphs
<1>2. Strings \subseteq Seq(Control \cup {" ", "x"})
  BY ConsoleAssumption, Zenon
<1> QED
  BY <1>1, <1>2, Zenon

LEMMA OutputStringKeeps == ASSUME ConInv, NEW str \in Strings, OutputString(str) PROVE ConInv'
<1> DEFINE q == FlushCursor(Here)
<1>1. /\ Ready /\ writing' = TRUE /\ WString' = str /\ Appears(q)
      /\ started' = started /\ mode' = mode /\ visible' = visible /\ color' = color /\ line' = line
      /\ wide' = wide /\ upset' = upset /\ term' = term /\ behind' = behind
  BY DEF OutputString, record, terminal
<1>2. started /\ mode \in Mode /\ ~writing /\ behind = <<>> /\ ~wide
  BY <1>1, ReadyIs DEF ConInv, Settled
<1>3. /\ OnScreen(q) /\ q.columns = Columns[mode + 1] /\ q.rows = Rows[mode + 1] /\ q.at = at
      /\ q.visible = visible /\ q.color = color /\ Same(q, term) /\ q.at[1] < q.columns
  BY <1>1, ReadyPen, Zenon
<1>4. OnScreen(Here) /\ (~upset => Here.ink = Cursor(Here)) /\ wide \in BOOLEAN /\ upset \in BOOLEAN /\ Here.wide = wide
  BY <1>1, <1>2 DEF ConInv, ConTypes, Between, Here
<1>5. ~upset => q.ink = Clean
  BY <1>4, CursorIs, Zenon
<1>6. q.wide = wide
  BY <1>4, FlushIs, Zenon DEF Same
<1> HIDE DEF q
<1>7. /\ OnScreen(Here') /\ Same(Here', q) /\ Here'.ink = q.ink
      /\ text' \in [Cell -> Glyphs] /\ ink' \in [Cell -> SUBSET Color]
  <2>1. /\ q.columns = Columns[mode' + 1] /\ q.rows = Rows[mode' + 1] /\ visible' = q.visible /\ color' = q.color
        /\ wide' \in BOOLEAN /\ wide' = q.wide
    BY <1>1, <1>3, <1>4, <1>6
  <2> QED
    BY <1>1, <1>3, <2>1, AppearsIs, Zenon
<1>8. at' = q.at /\ ink' = q.ink
  BY <1>1 DEF Appears
<1>9. ConTypes'
  <2>1. at'[1] < Columns[mode' + 1]
    BY <1>1, <1>3, <1>8, Zenon
  <2>2. str \in Seq(Char)
    BY StringsAre
  <2> QED
    BY <1>1, <1>7, <2>1, <2>2 DEF ConInv, ConTypes
<1>10. TermTypes'
  BY <1>1, Zenon DEF ConInv, TermTypes
<1>11. Settled' /\ Between'
  BY <1>1, <1>2 DEF Settled, Between, Ready
<1>12. InkKept'
  BY <1>1, <1>5, <1>8 DEF InkKept
<1>13. Followed'
  <2>1. Same(Here', term')
    BY <1>1, <1>3, <1>7, Zenon DEF Same
  <2> QED
    BY <2>1 DEF Followed
<1>14. Behind'
  BY <1>1, <1>2 DEF Behind
<1> QED
  BY <1>9, <1>10, <1>11, <1>12, <1>13, <1>14 DEF ConInv

LEMMA OutputReturnsKeeps == ASSUME ConInv, OutputReturns PROVE ConInv'
<1> DEFINE q == FlushCursor(Here)
           t == [term EXCEPT !.wide = FALSE]
<1>1. /\ writing /\ WString = <<>> /\ behind = <<>> /\ writing' = FALSE /\ wide' = FALSE /\ Appears(q) /\ term' = t
      /\ started' = started /\ mode' = mode /\ visible' = visible /\ color' = color /\ line' = line
      /\ WString' = WString /\ upset' = upset /\ behind' = behind
  BY DEF OutputReturns, record
<1>2. mode \in Mode /\ started /\ upset \in BOOLEAN /\ Same(Here, term) /\ (~upset => ink = Clean)
  BY <1>1 DEF ConInv, ConTypes, Settled, Followed, InkKept, TextNext
<1>3. OnScreen(Here) /\ at[1] < Columns[mode + 1]
  BY <1>2 DEF ConInv, ConTypes
<1>4. /\ OnScreen(term) /\ term.ink = Clean /\ term.at[1] < term.columns
      /\ term.columns = Columns[mode + 1] /\ term.rows = Rows[mode + 1]
  BY <1>2 DEF ConInv, TermTypes
<1>5. /\ Here.columns = Columns[mode + 1] /\ Here.rows = Rows[mode + 1] /\ Here.at = at
      /\ Here.visible = visible /\ Here.color = color /\ Here.ink = ink
  BY DEF Here
<1>6. /\ OnScreen(q) /\ Same(q, Here) /\ q.visible = Here.visible /\ q.color = Here.color
      /\ ~upset => q.ink = Cursor(Here)
  <2>1. Here.ink = Clean => q.ink = Cursor(Here)
    BY <1>3, CursorIs, Zenon
  <2> QED
    BY <1>2, <1>3, <1>5, <2>1, FlushIs, Zenon
<1>7. /\ OnScreen(t) /\ t.columns = term.columns /\ t.rows = term.rows /\ t.at = term.at /\ ~t.wide
      /\ t.text = term.text /\ t.ink = term.ink
  <2>1. FALSE \in BOOLEAN
    OBVIOUS
  <2> QED
    BY <1>4, <2>1, WideIs
<1> HIDE DEF q, t
<1>8. /\ q.columns = Columns[mode' + 1] /\ q.rows = Rows[mode' + 1] /\ visible' = q.visible /\ color' = q.color
      /\ q.at = at
  BY <1>1, <1>5, <1>6, Zenon DEF Same
<1>9. /\ OnScreen(Here') /\ Here'.columns = q.columns /\ Here'.rows = q.rows /\ Here'.at = q.at
      /\ Here'.wide = wide' /\ Here'.text = q.text /\ Cursor(Here') = Cursor(q)
      /\ text' \in [Cell -> Glyphs] /\ ink' \in [Cell -> SUBSET Color]
  <2>1. wide' \in BOOLEAN
    BY <1>1
  <2> QED
    BY <1>1, <1>6, <1>8, <2>1, AppearsIs, Zenon
<1>10. at' = at /\ ink' = q.ink
  BY <1>1, <1>8 DEF Appears
<1>11. ConTypes'
  BY <1>1, <1>3, <1>9, <1>10 DEF ConInv, ConTypes
<1>12. TermTypes'
  BY <1>1, <1>4, <1>7, Zenon DEF TermTypes
<1>13. Settled'
  BY <1>1, <1>2, <1>7 DEF ConInv, Settled
<1>14. Between'
  <2>1. Same(Here', term')
    <3>1. Here'.columns = t.columns /\ Here'.rows = t.rows /\ Here'.text = t.text /\ Here'.at = t.at
      BY <1>2, <1>6, <1>7, <1>9, Zenon DEF Same
    <3>2. Here'.wide = FALSE /\ t.wide = FALSE
      <4>1. t.wide \in BOOLEAN
        BY <1>7, AtIs
      <4> QED
        BY <1>1, <1>7, <1>9, <4>1
    <3> QED
      BY <1>1, <3>1, <3>2 DEF Same
  <2>2. Cursor(q) = Cursor(Here)
    BY <1>6, Zenon DEF Cursor, Same
  <2>3. ~upset' => ink' = Cursor(Here')
    BY <1>1, <1>6, <1>9, <1>10, <2>2
  <2> QED
    BY <2>1, <2>3, Zenon DEF Between
<1>15. InkKept' /\ Followed' /\ Behind'
  BY <1>1 DEF InkKept, Followed, Behind
<1> QED
  BY <1>11, <1>12, <1>13, <1>14, <1>15 DEF ConInv

LEMMA SameAhead ==
  ASSUME NEW p, NEW q, OnScreen(p), OnScreen(q), Same(p, q), NEW next
  PROVE  Same(AheadOf(p, next), AheadOf(q, next))
<1>1. p.at = q.at /\ p.columns = q.columns /\ p.wide = q.wide
  BY DEF Same
<1>2. Same(NewLine(p), NewLine(q)) /\ Same(Fitted(p), Fitted(q))
  BY SameLine, SameFitted, Zenon
<1>3. p.at[1] = p.columns <=> q.at[1] = q.columns
  BY <1>1, Zenon
<1>4. CASE p.at[1] = p.columns
  BY <1>2, <1>3, <1>4, Zenon DEF AheadOf
<1>5. CASE p.at[1] # p.columns /\ (p.wide /\ next)
  <2>1. q.at[1] # q.columns /\ (q.wide /\ next)
    BY <1>1, <1>3, <1>5
  <2> QED
    BY <1>2, <1>5, <2>1, Zenon DEF AheadOf
<1>6. CASE p.at[1] # p.columns /\ ~(p.wide /\ next)
  <2>1. q.at[1] # q.columns /\ ~(q.wide /\ next)
    BY <1>1, <1>3, <1>6
  <2> QED
    BY <1>6, <2>1, Zenon DEF AheadOf
<1> QED
  BY <1>4, <1>5, <1>6, Zenon

LEMMA SameControl ==
  ASSUME NEW p, NEW q, OnScreen(p), OnScreen(q), Same(p, q), p.at[1] < p.columns, NEW ch \in Control
  PROVE  Same(TermStep(p, ch), TermStep(q, ch))
<1>1. p.columns = q.columns /\ p.rows = q.rows /\ p.text = q.text /\ p.at = q.at /\ p.wide = q.wide
  BY DEF Same
<1>2. q.at[1] < q.columns
  BY <1>1, Zenon
<1>3. CASE ch = "backspace"
  <2>1. TermStep(p, ch) = Erase(p) /\ TermStep(q, ch) = Erase(q)
    BY <1>3, Zenon DEF TermStep
  <2>2. CASE p.at = <<0, 0>>
    <3>1. Erase(p) = p /\ Erase(q) = q
      BY <1>1, <2>2, Zenon DEF Erase
    <3> QED
      BY <2>1, <3>1, Zenon
  <2>3. CASE p.at # <<0, 0>>
    <3>1. Before(p) = Before(q)
      BY <1>1, Zenon DEF Before
    <3>2. /\ Erase(p).columns = p.columns /\ Erase(p).rows = p.rows /\ Erase(p).wide = p.wide
          /\ Erase(p).at = Before(p) /\ Erase(p).text = [p.text EXCEPT ![Before(p)] = " "]
      BY <2>3, EraseIs, Zenon
    <3>3. /\ Erase(q).columns = q.columns /\ Erase(q).rows = q.rows /\ Erase(q).wide = q.wide
          /\ Erase(q).at = Before(q) /\ Erase(q).text = [q.text EXCEPT ![Before(q)] = " "]
      <4>1. q.at # <<0, 0>>
        BY <1>1, <2>3, Zenon
      <4> QED
        BY <1>2, <4>1, EraseIs, Zenon
    <3>4. Erase(p).text = Erase(q).text
      BY <1>1, <3>1, <3>2, <3>3, Zenon
    <3> QED
      BY <1>1, <2>1, <3>1, <3>2, <3>3, <3>4, Zenon DEF Same
  <2> QED
    BY <2>2, <2>3
<1>4. CASE ch = "line feed"
  <2>1. TermStep(p, ch) = LineFeed(p) /\ TermStep(q, ch) = LineFeed(q)
    BY <1>4 DEF TermStep
  <2> QED
    BY <2>1, SameLine, Zenon
<1>5. CASE ch = "carriage return"
  <2>1. TermStep(p, ch) = MoveTo(p, 0, p.at[2]) /\ TermStep(q, ch) = MoveTo(q, 0, q.at[2])
    BY <1>5 DEF TermStep
  <2>2. p.at[2] \in Nat /\ p.at[2] < p.rows /\ 0 <= p.columns /\ q.at[2] \in Nat /\ q.at[2] < q.rows /\ 0 <= q.columns
    BY AtIs DEF OnScreen
  <2> DEFINE r == MoveTo(p, 0, p.at[2])
             s == MoveTo(q, 0, q.at[2])
  <2>3. r.columns = p.columns /\ r.rows = p.rows /\ r.at = <<0, p.at[2]>> /\ r.text = p.text /\ r.wide = p.wide
    BY <2>2, MoveIs
  <2>4. s.columns = q.columns /\ s.rows = q.rows /\ s.at = <<0, q.at[2]>> /\ s.text = q.text /\ s.wide = q.wide
    BY <2>2, MoveIs
  <2> HIDE DEF r, s
  <2> QED
    BY <1>1, <2>1, <2>3, <2>4, Zenon DEF Same, r, s
<1>6. CASE ch \in {"wide", "narrow"}
  <2> DEFINE v == (ch = "wide")
             r == [p EXCEPT !.wide = v]
             s == [q EXCEPT !.wide = v]
  <2>1. v \in BOOLEAN /\ TermStep(p, ch) = r /\ TermStep(q, ch) = s
    BY <1>6 DEF TermStep
  <2> HIDE DEF v
  <2>2. /\ r.columns = p.columns /\ r.rows = p.rows /\ r.at = p.at /\ r.wide = v /\ r.text = p.text
        /\ s.columns = q.columns /\ s.rows = q.rows /\ s.at = q.at /\ s.wide = v /\ s.text = q.text
    BY <2>1, WideIs
  <2> HIDE DEF r, s
  <2> QED
    BY <1>1, <2>1, <2>2, Zenon DEF Same
<1> QED
  BY <1>3, <1>4, <1>5, <1>6 DEF Control

\* What is left of a string after its first characters.
LEMMA RestIs ==
  ASSUME NEW str \in Seq(Char), NEW n \in 0..Len(str)
  PROVE  LET rest == SubSeq(str, n + 1, Len(str)) IN
         /\ rest \in Seq(Char) /\ SubSeq(str, 1, n) \in Seq(Char) /\ Len(SubSeq(str, 1, n)) = n
         /\ rest # <<>> /\ Head(rest) \notin Control <=> Printable(str, n + 1)
<1> DEFINE rest == SubSeq(str, n + 1, Len(str))
<1>1. /\ rest \in Seq(Char) /\ Len(rest) = Len(str) - n /\ Len(str) \in Nat
      /\ SubSeq(str, 1, n) \in Seq(Char) /\ Len(SubSeq(str, 1, n)) = n
  BY SubSeqProperties
<1>2. ASSUME n + 1 <= Len(str) PROVE rest # <<>> /\ Head(rest) = str[n + 1]
  <2>1. rest[1] = str[n + 1]
    BY <1>1, <1>2
  <2> HIDE DEF rest
  <2>2. Len(rest) > 0
    BY <1>1, <1>2
  <2> QED
    BY <1>1, <2>1, <2>2
<1>3. ASSUME ~(n + 1 <= Len(str)) PROVE rest = <<>>
  <2>1. Len(rest) = 0
    BY <1>1, <1>3
  <2> QED
    BY <1>1, <2>1
<1> HIDE DEF rest
<1>4. rest # <<>> /\ Head(rest) \notin Control <=> Printable(str, n + 1)
  BY <1>2, <1>3, Zenon DEF Printable
<1> QED
  BY <1>1, <1>4, Zenon DEF rest

\* The console and its terminal before a turn of the loop.
LEMMA LoopPen ==
  ASSUME ConInv, writing
  PROVE  /\ mode \in Mode /\ started /\ OnScreen(Here) /\ at[1] < Columns[mode + 1]
         /\ Here.columns = Columns[mode + 1] /\ Here.rows = Rows[mode + 1] /\ Here.at = at
         /\ Here.visible = visible /\ Here.color = color /\ Here.ink = ink /\ Here.wide = wide
         /\ OnScreen(term) /\ term.ink = Clean /\ term.at[1] < term.columns
         /\ term.columns = Columns[mode + 1] /\ term.rows = Rows[mode + 1]
         /\ upset \in BOOLEAN /\ WString \in Seq(Char) /\ behind \in Seq(Char)
<1>1. mode \in Mode /\ started
  BY DEF ConInv, Settled
<1>2. OnScreen(Here) /\ at[1] < Columns[mode + 1] /\ upset \in BOOLEAN /\ WString \in Seq(Char) /\ behind \in Seq(Char)
  BY <1>1 DEF ConInv, ConTypes
<1>3. /\ Here.columns = Columns[mode + 1] /\ Here.rows = Rows[mode + 1] /\ Here.at = at
      /\ Here.visible = visible /\ Here.color = color /\ Here.ink = ink /\ Here.wide = wide
  BY DEF Here
<1>4. /\ OnScreen(term) /\ term.ink = Clean /\ term.at[1] < term.columns
      /\ term.columns = Columns[mode + 1] /\ term.rows = Rows[mode + 1]
  BY <1>1 DEF ConInv, TermTypes
<1> QED
  BY <1>1, <1>2, <1>3, <1>4

\* What a turn leaves, when the rest is as the invariant says.
LEMMA LoopIs ==
  ASSUME ConInv, writing, NEW r, OnScreen(r), r.columns = Columns[mode + 1], r.rows = Rows[mode + 1],
         r.visible = visible, r.color = color, r.at[1] < r.columns, Appears(r), wide' = r.wide,
         UNCHANGED <<record, writing, upset, term>>, WString' \in Seq(Char), behind' \in Seq(Char),
         ~upset => r.ink = Clean \/ (TextNext' /\ r.at[1] = 0 /\ r.ink = Cursor(r)),
         behind' = <<>> => Same(r, term) \/ (TextNext' /\ term.wide /\ term.at[1] = term.columns - 1 /\ Same(r, Fitted(term))),
         behind' # <<>> =>
           \/ Len(behind') = 1 /\ Head(behind') \in Control /\ Same(r, TermStep(term, Head(behind')))
           \/ /\ behind' \in Seq(Glyphs)
              /\ Fitted(term).at[1] + Width(term) * Len(behind') <= term.columns
              /\ Same(r, AheadOf(Typed(Fitted(term), behind'), TextNext'))
  PROVE  ConInv'
<1>1. /\ started' = started /\ mode' = mode /\ visible' = visible /\ color' = color /\ line' = line
      /\ writing' = writing /\ upset' = upset /\ term' = term
  BY DEF record
<1>2. wide' \in BOOLEAN
  BY AtIs
<1>3. /\ OnScreen(Here') /\ Same(Here', r) /\ Here'.ink = r.ink /\ Cursor(Here') = Cursor(r)
      /\ text' \in [Cell -> Glyphs] /\ ink' \in [Cell -> SUBSET Color]
  <2>1. r.columns = Columns[mode' + 1] /\ r.rows = Rows[mode' + 1] /\ visible' = r.visible /\ color' = r.color
    BY <1>1
  <2> QED
    BY <1>2, <2>1, AppearsIs, Zenon
<1>4. at' = r.at /\ ink' = r.ink
  BY DEF Appears
<1>5. mode \in Mode /\ started /\ writing' /\ upset \in BOOLEAN /\ at'[1] < Columns[mode' + 1]
  BY <1>1, <1>4, LoopPen
<1>6. ConTypes'
  BY <1>1, <1>2, <1>3, <1>5 DEF ConInv, ConTypes
<1>7. TermTypes'
  BY <1>1, Zenon DEF ConInv, TermTypes
<1>8. Settled' /\ Between'
  BY <1>1, <1>5 DEF Settled, Between, Ready
<1>9. InkKept'
  BY <1>1, <1>3, <1>4, <1>5 DEF InkKept
<1>10. Followed'
  <2>1. \A t : Same(r, t) => Same(Here', t)
    BY <1>3, Zenon DEF Same
  <2> QED
    BY <1>1, <2>1, Zenon DEF Followed
<1>11. Behind'
  <2>1. \A t : Same(r, t) => Same(Here', t)
    BY <1>3, Zenon DEF Same
  <2> QED
    BY <1>1, <2>1, Zenon DEF Behind
<1> QED
  BY <1>6, <1>7, <1>8, <1>9, <1>10, <1>11 DEF ConInv

LEMMA ControlLoops == ASSUME ConInv, Loop, Head(WString) \in Control PROVE ConInv'
<1> DEFINE p == Here
           str == WString
           r == Turn(p, str)
           ch == Head(str)
<1>1. /\ writing /\ str # <<>> /\ behind = <<>> /\ Appears(r) /\ wide' = r.wide
      /\ UNCHANGED <<record, writing, upset, term>>
      /\ WString' = SubSeq(str, 2, Len(str)) /\ behind' = SubSeq(str, 1, 1)
  <2>1. Taken(p, str) = 1 /\ 1 + 1 = 2
    BY DEF Taken
  <2> QED
    BY <2>1, Zenon DEF Loop
<1>2. /\ OnScreen(p) /\ p.columns = Columns[mode + 1] /\ p.rows = Rows[mode + 1] /\ p.at[1] < p.columns
      /\ p.visible = visible /\ p.color = color /\ p.ink = ink
      /\ OnScreen(term) /\ term.at[1] < term.columns /\ term.columns = Columns[mode + 1]
      /\ str \in Seq(Char)
  BY <1>1, LoopPen, Zenon
<1>3. Same(p, term) /\ (~upset => p.ink = Clean)
  <2>1. ~TextNext
    BY DEF TextNext
  <2> QED
    BY <1>1, <1>2, <2>1 DEF ConInv, Followed, InkKept
<1>4. ch \in Char /\ str[1] = ch /\ Len(str) \in Nat /\ 1 \in 0..Len(str)
  BY <1>1, <1>2 DEF Char
<1>5. /\ WString' \in Seq(Char) /\ behind' \in Seq(Char) /\ Len(behind') = 1 /\ Head(behind') = ch
  <2>1. behind'[1] = str[1]
    BY <1>1, <1>2, <1>4
  <2>2. /\ WString' \in Seq(Char) /\ behind' \in Seq(Char) /\ Len(behind') = 1
    <3>1. 1 + 1 = 2
      OBVIOUS
    <3> QED
      BY <1>1, <1>2, <1>4, <3>1, RestIs, Zenon
  <2>3. Head(behind') = behind'[1]
    BY <2>2
  <2> QED
    BY <1>4, <2>1, <2>2, <2>3
<1> HIDE DEF p, str, ch
<1>6. /\ OnScreen(r) /\ Same(r, TermStep(p, ch)) /\ r.visible = p.visible /\ r.color = p.color
      /\ p.ink = Clean => r.ink = Clean
  BY <1>2, ControlTurns, Zenon DEF ch, str
<1>7. Same(TermStep(p, ch), TermStep(term, ch))
  BY <1>2, <1>3, SameControl, Zenon DEF ch, str
<1> HIDE DEF r
<1>8. r.columns = p.columns /\ r.rows = p.rows /\ r.at[1] < r.columns
  <2>1. TermStep(p, ch).columns = p.columns /\ TermStep(p, ch).rows = p.rows /\ TermStep(p, ch).at[1] < p.columns
    BY <1>2, <1>4, TermStepIs, Zenon
  <2> QED
    BY <1>6, <2>1, Zenon DEF Same
<1>9. Same(r, TermStep(term, Head(behind')))
  BY <1>5, <1>6, <1>7, Zenon DEF Same
<1>10. behind' # <<>>
  <2>1. Len(behind') = 1
    BY <1>5, Zenon
  <2> QED
    BY <2>1
<1>11. Head(behind') \in Control
  BY <1>5 DEF ch, str
<1> QED
  BY <1>1, <1>2, <1>3, <1>5, <1>6, <1>8, <1>9, <1>10, <1>11, LoopIs

LEMMA TextLoops == ASSUME ConInv, Loop, Head(WString) \notin Control PROVE ConInv'
<1> DEFINE p == Here
           str == WString
           k == Count(p, str)
           run == Run(p, str)
           r == Turn(p, str)
           q == Typed(p, run)
           next == Printable(str, k + 1)
           u == Fitted(term)
<1>1. /\ writing /\ str # <<>> /\ behind = <<>> /\ Appears(r) /\ wide' = r.wide
      /\ UNCHANGED <<record, writing, upset, term>>
      /\ WString' = SubSeq(str, k + 1, Len(str)) /\ behind' = run
  <2>1. Taken(p, str) = k
    BY DEF Taken
  <2> QED
    BY <2>1, Zenon DEF Loop, Run
<1>2. /\ OnScreen(p) /\ p.columns = Columns[mode + 1] /\ p.rows = Rows[mode + 1] /\ p.at[1] < p.columns
      /\ p.visible = visible /\ p.color = color /\ p.ink = ink /\ p.at = at
      /\ OnScreen(term) /\ term.at[1] < term.columns /\ term.columns = Columns[mode + 1]
      /\ str \in Seq(Char) /\ Head(str) \notin Control
  BY <1>1, LoopPen, Zenon
<1>3. /\ ~upset => p.ink = Clean \/ (p.at[1] = 0 /\ p.ink = Cursor(p))
      /\ Same(p, term) \/ (term.wide /\ term.at[1] = term.columns - 1 /\ Same(p, u))
  BY <1>1, <1>2, Zenon DEF ConInv, InkKept, Followed
<1>4. /\ k \in 0..Len(str) /\ k \in Nat /\ p.at[1] + Width(p) * k <= p.columns
      /\ run \in Seq(Glyphs) /\ Len(run) = k
  BY <1>2, CountIs, RunIs DEF Room
<1>5. WString' \in Seq(Char) /\ (TextNext' <=> next) /\ run \in Seq(Char)
  BY <1>1, <1>2, <1>4, RestIs, Zenon DEF TextNext, Run
<1> HIDE DEF p, str
<1>6. /\ OnScreen(q) /\ OnScreen(r) /\ r.visible = p.visible /\ r.color = p.color
      /\ r.columns = p.columns /\ r.rows = p.rows /\ r.at[1] < r.columns
      /\ Same(r, AheadOf(q, next))
      /\ q.ink = Clean => r.ink = Clean \/ (next /\ r.at[1] = 0 /\ r.ink = Cursor(r))
      /\ k = 0 => p.wide /\ p.at[1] = p.columns - 1 /\ next
  BY <1>1, <1>2, TextTurns, Zenon
<1> HIDE DEF k, run, r, next
<1>7. /\ p.at[1] \in Nat /\ p.columns \in Nat /\ p.columns >= 2 /\ Width(p) \in {1, 2}
      /\ term.at[1] \in Nat /\ term.columns \in Nat /\ Width(term) \in {1, 2}
  BY <1>2, AtIs, WidthIs, ModesAre DEF OnScreen
<1>8. /\ q.text = Lettered(p, run) /\ q.at = <<p.at[1] + Width(p) * Len(run), p.at[2]>> /\ q.wide = p.wide
      /\ q.columns = p.columns /\ q.rows = p.rows /\ q.ink = Draw(p, run).ink
  <2>1. p.at[1] + Width(p) * Len(run) <= p.columns
    BY <1>4, Zenon
  <2> QED
    BY <1>2, <1>4, <2>1, TypedIs, Zenon
<1> HIDE DEF q
<1>9. ~upset => q.ink = Clean
  <2>1. CASE k = 0
    <3>1. p.at[1] # 0
      BY <1>6, <1>7, <2>1
    <3>2. ~upset => p.ink = Clean
      BY <1>3, <3>1
    <3> QED
      BY <1>2, <1>4, <1>8, <3>2, DrawsClean
  <2>2. CASE k # 0
    <3>1. run # <<>>
      BY <1>4, <2>2
    <3>2. ~upset => p.ink \in {Clean, Cursor(p)}
      BY <1>3
    <3> QED
      BY <1>2, <1>4, <1>8, <3>1, <3>2, DrawsOver
  <2> QED
    BY <2>1, <2>2
<1>10. ~upset => r.ink = Clean \/ (TextNext' /\ r.at[1] = 0 /\ r.ink = Cursor(r))
  BY <1>5, <1>6, <1>9
<1>11. /\ OnScreen(u) /\ u.columns = term.columns /\ u.wide = term.wide
       /\ term.at[1] + Width(term) > term.columns => u.at[1] = 0
  BY <1>2, FittedIs, Zenon
<1>12. ASSUME behind' = <<>>
       PROVE  TextNext' /\ term.wide /\ term.at[1] = term.columns - 1 /\ Same(r, Fitted(term))
  <2>1. k = 0 /\ run = <<>>
    BY <1>1, <1>4, <1>12
  <2>2. p.wide /\ p.at[1] = p.columns - 1 /\ next /\ p.at[1] # 0
    BY <1>6, <1>7, <2>1
  <2>3. Same(p, term)
    <3>1. ~(term.wide /\ term.at[1] = term.columns - 1 /\ Same(p, u))
      <4> SUFFICES ASSUME term.wide /\ term.at[1] = term.columns - 1 /\ Same(p, u)
                   PROVE  FALSE
        OBVIOUS
      <4>1. term.at[1] + Width(term) > term.columns
        BY <1>7 DEF Width
      <4>2. p.at[1] = 0
        BY <1>11, <4>1 DEF Same
      <4> QED
        BY <2>2, <4>2
    <3> QED
      BY <1>3, <3>1
  <2>4. q.at[1] = p.at[1] /\ q.at = p.at
    <3>1. p.at = <<p.at[1], p.at[2]>> /\ p.at[1] + Width(p) * 0 = p.at[1]
      <4>1. p.at = <<p.at[1], p.at[2]>>
        BY <1>2, AtIs, Zenon
      <4>2. Width(p) * 0 = 0
        BY <1>7
      <4>3. p.at[1] + Width(p) * 0 = p.at[1]
        BY <1>7, <4>2
      <4> QED
        BY <4>1, <4>3, Zenon
    <3>2. Len(run) = 0
      BY <1>4, <2>1
    <3> QED
      BY <1>8, <3>1, <3>2, Zenon
  <2>5. q.text = p.text
    BY <1>2, <1>8, <2>1, DrawsNothing, Zenon
  <2>6. Same(q, term)
    BY <1>8, <2>3, <2>4, <2>5, Zenon DEF Same
  <2>7. AheadOf(q, next) = Fitted(q)
    <3>1. q.at[1] # q.columns
      BY <1>7, <1>8, <2>2, <2>4
    <3> QED
      BY <1>8, <2>2, <3>1, Zenon DEF AheadOf
  <2>8. Same(Fitted(q), Fitted(term))
    BY <1>2, <1>6, <2>6, SameFitted, Zenon
  <2>9. Same(r, Fitted(term))
    BY <1>6, <2>7, <2>8, Zenon DEF Same
  <2>10. term.wide /\ term.at[1] = term.columns - 1
    BY <2>2, <2>3, Zenon DEF Same
  <2> QED
    BY <1>5, <2>2, <2>9, <2>10
<1>13. ASSUME behind' # <<>>
       PROVE  /\ behind' \in Seq(Glyphs)
              /\ Fitted(term).at[1] + Width(term) * Len(behind') <= term.columns
              /\ Same(r, AheadOf(Typed(Fitted(term), behind'), TextNext'))
  <2>1. k >= 1 /\ k \in Nat
    <3>1. k # 0
      BY <1>1, <1>4, <1>13
    <3> QED
      BY <1>4, <3>1
  <2>2. Same(p, u)
    <3>1. ASSUME Same(p, term) PROVE Same(p, u)
      <4>1. Width(p) <= Width(p) * k /\ Width(p) * k \in Nat
        BY <1>7, <2>1
      <4>2. p.at[1] + Width(p) <= p.columns
        BY <1>4, <1>7, <4>1
      <4>3. term.at[1] + Width(term) <= term.columns
        <5>1. p.at = term.at /\ p.wide = term.wide /\ p.columns = term.columns
          BY <3>1 DEF Same
        <5>2. Width(p) = Width(term)
          BY <5>1 DEF Width
        <5> QED
          BY <4>2, <5>1, <5>2, Zenon
      <4>4. ~(term.at[1] + Width(term) > term.columns)
        BY <1>7, <4>3
      <4>5. u = term
        BY <4>4, Zenon DEF Fitted
      <4> QED
        BY <3>1, <4>5, Zenon
    <3> QED
      BY <1>3, <3>1
  <2>3. p.at[1] + Width(p) * Len(run) <= p.columns
    BY <1>4, Zenon
  <2>4. Same(q, Typed(u, run)) /\ u.at[1] + Width(u) * Len(run) <= u.columns
    BY <1>2, <1>4, <1>11, <2>2, <2>3, SameTyped, Zenon DEF q
  <2>5. Width(u) = Width(term)
    BY <1>11 DEF Width
  <2>6. OnScreen(Typed(u, run))
    BY <1>4, <1>11, <2>4, TypedIs, Zenon
  <2>7. Same(AheadOf(q, next), AheadOf(Typed(u, run), next))
    BY <1>6, <2>4, <2>6, SameAhead, Zenon
  <2>8. Same(r, AheadOf(Typed(u, run), next))
    BY <1>6, <2>7, Zenon DEF Same
  <2>9. Same(r, AheadOf(Typed(u, run), TextNext'))
    <3>1. AheadOf(Typed(u, run), next) = AheadOf(Typed(u, run), TextNext')
      BY <1>5 DEF AheadOf
    <3> QED
      BY <2>8, <3>1, Zenon
  <2> QED
    BY <1>1, <1>4, <1>11, <2>4, <2>5, <2>9, Zenon
<1> QED
  <2>1. behind' \in Seq(Char)
    BY <1>1, <1>5
  <2>2. r.columns = Columns[mode + 1] /\ r.rows = Rows[mode + 1] /\ r.visible = visible /\ r.color = color
        /\ r.at[1] < r.columns /\ OnScreen(r)
    BY <1>2, <1>6
  <2> QED
    BY <1>1, <1>5, <1>10, <1>12, <1>13, <2>1, <2>2, LoopIs

LEMMA GlyphsAre == ASSUME NEW ch \in Glyphs PROVE ch \in Char /\ ch \notin Control
  BY DEF Glyphs, Char, Control

\* The terminal puts a character; it is the first of those that fit.
LEMMA PutsFirst ==
  ASSUME NEW t, OnScreen(t), NEW chars \in Seq(Glyphs), chars # <<>>,
         Fitted(t).at[1] + Width(t) * Len(chars) <= t.columns
  PROVE  LET ch == Head(chars)
             s == Put(t, ch)
             q == Typed(Fitted(t), chars) IN
         /\ OnScreen(q) /\ q.columns = t.columns /\ q.wide = t.wide /\ q.at[1] <= t.columns
         /\ Len(chars) = 1 => s = AtEnd(q)
         /\ Len(chars) # 1 =>
              /\ Fitted(s) = s /\ Width(s) = Width(t)
              /\ s.at[1] + Width(s) * Len(Tail(chars)) <= t.columns
              /\ OnScreen(Typed(s, Tail(chars))) /\ Same(q, Typed(s, Tail(chars)))
<1> DEFINE ch == Head(chars)
           rest == Tail(chars)
           n == Len(chars)
           one == <<ch>>
           u == Fitted(t)
           s == Put(t, ch)
           q == Typed(u, chars)
           d == Typed(u, one)
<1>1. /\ n \in Nat /\ n >= 1 /\ ch \in Glyphs /\ rest \in Seq(Glyphs) /\ Len(rest) = n - 1
      /\ one \in Seq(Glyphs) /\ Len(one) = 1 /\ (n = 1 => chars = one)
  <2>1. n \in Nat /\ n >= 1 /\ ch \in Glyphs /\ rest \in Seq(Glyphs) /\ Len(rest) = n - 1
    OBVIOUS
  <2>2. one \in Seq(Glyphs) /\ Len(one) = 1
    BY <2>1, Single, Zenon
  <2>3. n = 1 => chars = one
    OBVIOUS
  <2> QED
    BY <2>1, <2>2, <2>3
<1>2. /\ OnScreen(u) /\ u.columns = t.columns /\ u.rows = t.rows /\ u.wide = t.wide
      /\ u.at[1] + Width(t) <= t.columns
  BY FittedIs, Zenon
<1>3. Width(u) = Width(t) /\ Width(t) \in {1, 2}
  BY <1>2, WidthIs DEF Width
<1>4. u.at[1] \in Nat /\ u.at[2] \in Nat /\ t.columns \in Nat
  BY <1>2, AtIs
<1>5. u.at[1] + Width(u) * n <= u.columns
  BY <1>2, <1>3, Zenon
<1>6. /\ OnScreen(q) /\ q.columns = u.columns /\ q.rows = u.rows /\ q.wide = u.wide
      /\ q.text = Lettered(u, chars) /\ q.at = <<u.at[1] + Width(u) * n, u.at[2]>>
  BY <1>2, <1>5, TypedIs, Zenon
<1>7. s = AtEnd(d) /\ OnScreen(d)
  BY <1>1, PutIs, Zenon
<1>8. q.at[1] <= t.columns
  BY <1>2, <1>6 DEF OnScreen
<1>9. ASSUME n = 1 PROVE s = AtEnd(q)
  BY <1>1, <1>7, <1>9, Zenon
<1>10. ASSUME n # 1
       PROVE  /\ Fitted(s) = s /\ Width(s) = Width(t)
              /\ s.at[1] + Width(s) * Len(rest) <= t.columns
              /\ OnScreen(Typed(s, rest)) /\ Same(q, Typed(s, rest))
  <2> HIDE DEF ch, rest, n, u, q, s
  <2>1. /\ d.columns = u.columns /\ d.rows = u.rows /\ d.wide = u.wide /\ d.text = Lettered(u, one)
        /\ d.at = <<u.at[1] + Width(u) * Len(one), u.at[2]>>
    <3>1. u.at[1] + Width(u) * Len(one) <= u.columns
      <4>1. Width(u) * Len(one) = Width(t)
        BY <1>1, <1>3
      <4> QED
        BY <1>2, <4>1, Zenon
    <3> QED
      BY <1>1, <1>2, <3>1, TypedIs, Zenon
  <2> HIDE DEF one, d
  <2>2. d.at[1] = u.at[1] + Width(t) /\ d.at[2] = u.at[2]
    <3>1. Width(u) * Len(one) = Width(t)
      BY <1>1, <1>3
    <3>2. d.at = <<u.at[1] + Width(t), u.at[2]>>
      BY <2>1, <3>1, Zenon
    <3> QED
      BY <3>2
  <2>3. /\ Width(t) * n = Width(t) + Width(t) * (n - 1) /\ Width(t) * (n - 1) \in Nat
        /\ Width(t) <= Width(t) * (n - 1)
    <3>1. n \in Nat /\ n >= 2
      BY <1>1, <1>10
    <3>2. CASE Width(t) = 1
      BY <3>1, <3>2
    <3>3. CASE Width(t) = 2
      BY <3>1, <3>3
    <3> QED
      BY <1>3, <3>2, <3>3
  <2>4. u.at[1] + (Width(t) + Width(t) * (n - 1)) <= t.columns
    BY <1>2, <1>3, <1>5, <2>3, Zenon
  <2>5. d.at[1] + Width(t) * (n - 1) <= t.columns /\ d.at[1] + Width(t) <= t.columns /\ d.at[1] # t.columns
        /\ d.at[1] \in Nat
    <3> DEFINE w == Width(t)
               m == w * (n - 1)
    <3>1. w \in Nat /\ w >= 1 /\ m \in Nat /\ w <= m
      BY <1>3, <2>3
    <3>2. d.at[1] = u.at[1] + w /\ u.at[1] + (w + m) <= t.columns
      BY <2>2, <2>4
    <3> HIDE DEF m
    <3> HIDE DEF w
    <3>3. d.at[1] + m <= t.columns /\ d.at[1] + w <= t.columns /\ d.at[1] # t.columns /\ d.at[1] \in Nat
      BY <1>4, <3>1, <3>2
    <3> QED
      BY <3>3, Zenon DEF m, w
  <2>6. s = d
    <3>1. d.at[1] # d.columns
      BY <1>2, <2>1, <2>5, Zenon
    <3> QED
      BY <1>7, <3>1, Zenon DEF AtEnd
  <2>7. Width(d) = Width(t) /\ d.columns = t.columns
    <3>1. d.wide = t.wide /\ d.columns = t.columns
      BY <1>2, <2>1, Zenon
    <3> QED
      BY <3>1 DEF Width
  <2>8. Fitted(d) = d
    <3>1. ~(d.at[1] + Width(d) > d.columns)
      BY <1>3, <1>4, <2>5, <2>7
    <3> QED
      BY <3>1, Zenon DEF Fitted
  <2>9. d.at[1] + Width(d) * Len(rest) <= d.columns /\ d.at[1] + Width(d) * Len(rest) <= t.columns
    BY <1>1, <2>5, <2>7, Zenon
  <2>10. /\ OnScreen(Typed(d, rest)) /\ Typed(d, rest).columns = d.columns /\ Typed(d, rest).rows = d.rows
         /\ Typed(d, rest).wide = d.wide /\ Typed(d, rest).text = Lettered(d, rest)
         /\ Typed(d, rest).at = <<d.at[1] + Width(d) * Len(rest), d.at[2]>>
    BY <1>1, <1>7, <2>9, TypedIs, Zenon
  <2>11. Lettered(d, rest) = Lettered(u, chars)
    <3>1. d.at = <<u.at[1] + Width(u), u.at[2]>>
      <4>1. Width(u) * Len(one) = Width(u)
        BY <1>1, <1>3
      <4> QED
        BY <2>1, <4>1, Zenon
    <3> QED
      BY <1>2, <2>1, <3>1, DrawsOn, Zenon DEF one, ch, rest
  <2>12. d.at[1] + Width(d) * Len(rest) = u.at[1] + Width(u) * n
    <3>1. d.at[1] + Width(d) * Len(rest) = u.at[1] + Width(t) + Width(t) * (n - 1)
      BY <1>1, <2>2, <2>7, Zenon
    <3>2. u.at[1] + Width(t) + Width(t) * (n - 1) = u.at[1] + (Width(t) + Width(t) * (n - 1))
      BY <1>3, <1>4, <2>3
    <3> QED
      BY <1>3, <2>3, <3>1, <3>2, Zenon
  <2>13. Same(q, Typed(d, rest))
    <3>1. q.at = Typed(d, rest).at
      BY <1>6, <2>2, <2>10, <2>12, Zenon
    <3>2. q.columns = Typed(d, rest).columns /\ q.rows = Typed(d, rest).rows /\ q.wide = Typed(d, rest).wide
      BY <1>6, <2>1, <2>10, Zenon
    <3>3. q.text = Typed(d, rest).text
      BY <1>6, <2>10, <2>11, Zenon
    <3> QED
      BY <3>1, <3>2, <3>3, Zenon DEF Same
  <2> QED
    BY <2>6, <2>7, <2>8, <2>9, <2>10, <2>13, Zenon
<1> HIDE DEF ch, rest, n, one, u, s, q, d
<1>11. q.columns = t.columns /\ q.wide = t.wide
  BY <1>2, <1>6, Zenon
<1> QED
  BY <1>6, <1>8, <1>9, <1>10, <1>11, Zenon DEF ch, rest, n, u, s, q

\* The terminal takes a character; what is left is as the invariant says.
LEMMA TakenIs ==
  ASSUME ConInv, TermTakes, OnScreen(term'), term'.ink = Clean, term'.at[1] < term.columns,
         term'.columns = term.columns, term'.rows = term.rows,
         Tail(behind) = <<>> =>
           Same(Here, term') \/ (TextNext /\ term'.wide /\ term'.at[1] = term'.columns - 1 /\ Same(Here, Fitted(term'))),
         Tail(behind) # <<>> =>
           /\ Tail(behind) \in Seq(Glyphs)
           /\ Fitted(term').at[1] + Width(term') * Len(Tail(behind)) <= term'.columns
           /\ Same(Here, AheadOf(Typed(Fitted(term'), Tail(behind)), TextNext))
  PROVE  ConInv'
<1>1. /\ started' = started /\ mode' = mode /\ visible' = visible /\ color' = color /\ line' = line
      /\ at' = at /\ text' = text /\ ink' = ink /\ writing' = writing /\ WString' = WString /\ wide' = wide
      /\ upset' = upset /\ behind # <<>> /\ behind' = Tail(behind)
  BY DEF TermTakes, record, loop
<1>2. writing
  BY <1>1 DEF ConInv, Settled
<1>3. /\ mode \in Mode /\ started /\ term.columns = Columns[mode + 1] /\ term.rows = Rows[mode + 1]
      /\ behind \in Seq(Char)
  BY <1>2, LoopPen, Zenon
<1>4. Here' = Here /\ TextNext' = TextNext
  BY <1>1, Zenon DEF Here, TextNext
<1>5. behind' \in Seq(Char)
  BY <1>1, <1>3
<1>6. ConTypes'
  <2>1. /\ {started, visible, upset, writing, wide} \subseteq BOOLEAN
        /\ mode \in {-1} \cup Mode /\ color \in Color /\ line \in {"none", "live", "freed"}
        /\ text \in [Cell -> Glyphs] /\ ink \in [Cell -> SUBSET Color]
        /\ WString \in Seq(Char) /\ OnScreen(Here) /\ at[1] < Columns[mode + 1]
    BY <1>3, Zenon DEF ConInv, ConTypes
  <2> QED
    BY <1>1, <1>4, <1>5, <2>1, Zenon DEF ConTypes
<1>7. TermTypes'
  BY <1>1, <1>3, Zenon DEF TermTypes
<1>8. Settled' /\ Between'
  BY <1>1, <1>2, <1>3 DEF Settled, Between, Ready
<1>9. InkKept'
  <2>1. InkKept
    BY DEF ConInv
  <2> QED
    BY <1>1, <1>4, <2>1, Zenon DEF InkKept
<1>10. Followed'
  BY <1>1, <1>4, Zenon DEF Followed
<1>11. Behind'
  BY <1>1, <1>4, Zenon DEF Behind
<1> QED
  BY <1>6, <1>7, <1>8, <1>9, <1>10, <1>11 DEF ConInv

LEMMA OneIsLeft ==
  ASSUME NEW chars \in Seq(Char), Len(chars) = 1
  PROVE  Tail(chars) = <<>>
<1>1. Tail(chars) \in Seq(Char) /\ Len(Tail(chars)) = 0
  OBVIOUS
<1> QED
  BY <1>1

LEMMA TermTakesKeeps == ASSUME ConInv, TermTakes PROVE ConInv'
<1> DEFINE t == term
           ch == Head(behind)
           s == TermStep(t, ch)
           rest == Tail(behind)
           q == Typed(Fitted(t), behind)
<1>1. behind # <<>> /\ term' = s /\ writing
  BY DEF TermTakes, ConInv, Settled
<1>2. /\ OnScreen(Here) /\ OnScreen(t) /\ t.ink = Clean /\ t.at[1] < t.columns /\ behind \in Seq(Char)
  BY <1>1, LoopPen, Zenon
<1>3. ch \in Char
  BY <1>1, <1>2
<1>4. /\ OnScreen(s) /\ s.ink = Clean /\ s.at[1] < t.columns /\ s.columns = t.columns /\ s.rows = t.rows
  BY <1>2, <1>3, TermStepIs, Zenon
<1> HIDE DEF t, ch, s, rest, q
<1>5. CASE Len(behind) = 1 /\ ch \in Control /\ Same(Here, s)
  <2>1. rest = <<>>
    BY <1>2, <1>5, OneIsLeft, Zenon DEF rest
  <2> QED
    BY <1>1, <1>4, <1>5, <2>1, TakenIs, Zenon DEF t, rest
<1>6. CASE /\ behind \in Seq(Glyphs)
           /\ Fitted(t).at[1] + Width(t) * Len(behind) <= t.columns
           /\ Same(Here, AheadOf(q, TextNext))
  <2>1. ch \in Glyphs
    BY <1>1, <1>6 DEF ch
  <2>2. s = Put(t, ch)
    BY <2>1 DEF s, TermStep, Glyphs
  <2>3. /\ OnScreen(q) /\ q.columns = t.columns /\ q.wide = t.wide /\ q.at[1] <= t.columns
        /\ Len(behind) = 1 => s = AtEnd(q)
        /\ Len(behind) # 1 =>
             /\ Fitted(s) = s /\ Width(s) = Width(t)
             /\ s.at[1] + Width(s) * Len(rest) <= t.columns
             /\ OnScreen(Typed(s, rest)) /\ Same(q, Typed(s, rest))
    BY <1>1, <1>2, <1>6, <2>2, PutsFirst, Zenon DEF ch, q, rest
  <2>4. CASE Len(behind) = 1
    <3>1. rest = <<>>
      BY <1>2, <2>4, OneIsLeft, Zenon DEF rest
    <3>2. CASE q.at[1] = q.columns
      <4>1. Same(Here, s)
        BY <1>6, <2>3, <2>4, <3>2, Zenon DEF AheadOf, AtEnd
      <4> QED
        BY <1>1, <1>4, <3>1, <4>1, TakenIs, Zenon DEF t, rest
    <3>3. CASE q.at[1] # q.columns /\ ~(q.wide /\ TextNext)
      <4>1. Same(Here, s)
        BY <1>6, <2>3, <2>4, <3>3, Zenon DEF AheadOf, AtEnd
      <4> QED
        BY <1>1, <1>4, <3>1, <4>1, TakenIs, Zenon DEF t, rest
    <3>4. CASE q.at[1] # q.columns /\ q.wide /\ TextNext
      <4>1. s = q /\ Same(Here, Fitted(s))
        BY <1>6, <2>3, <2>4, <3>4, Zenon DEF AheadOf, AtEnd
      <4>2. s.wide
        BY <3>4, <4>1, Zenon
      <4>3. CASE s.at[1] = s.columns - 1
        BY <1>1, <1>4, <3>1, <3>4, <4>1, <4>2, <4>3, TakenIs, Zenon DEF t, rest
      <4>4. CASE s.at[1] # s.columns - 1
        <5>1. s.at[1] \in Nat /\ s.columns \in Nat /\ s.at[1] < s.columns
          BY <1>4, AtIs, Zenon
        <5>2. Width(s) = 2
          BY <4>2 DEF Width
        <5>3. ~(s.at[1] + Width(s) > s.columns)
          BY <4>4, <5>1, <5>2
        <5>4. Same(Here, s)
          BY <4>1, <5>3, Zenon DEF Fitted
        <5> QED
          BY <1>1, <1>4, <3>1, <5>4, TakenIs, Zenon DEF t, rest
      <4> QED
        BY <4>3, <4>4
    <3> QED
      BY <3>2, <3>3, <3>4
  <2>5. CASE Len(behind) # 1
    <3>1. rest # <<>> /\ rest \in Seq(Glyphs)
      <4>1. Len(behind) \in Nat /\ Len(behind) > 0
        BY <1>1, <1>2
      <4>2. rest \in Seq(Glyphs) /\ Len(rest) = Len(behind) - 1
        BY <1>1, <1>6 DEF rest
      <4>3. Len(rest) # 0
        BY <2>5, <4>1, <4>2
      <4> QED
        BY <4>2, <4>3
    <3>2. Fitted(s).at[1] + Width(s) * Len(rest) <= s.columns
      BY <1>4, <2>3, <2>5, Zenon
    <3>3. Same(AheadOf(q, TextNext), AheadOf(Typed(s, rest), TextNext))
      BY <2>3, <2>5, SameAhead, Zenon
    <3>4. Same(Here, AheadOf(Typed(Fitted(s), rest), TextNext))
      BY <1>6, <2>3, <2>5, <3>3, Zenon DEF Same
    <3> QED
      BY <1>1, <1>4, <3>1, <3>2, <3>4, TakenIs, Zenon DEF t, rest
  <2> QED
    BY <2>4, <2>5
<1> QED
  <2>1. Behind
    BY DEF ConInv
  <2> QED
    BY <1>1, <1>5, <1>6, <2>1, Zenon DEF Behind, t, ch, s, q

-----------------------------------------------------------------------------
(* The invariant holds.                                                    *)

LEMMA ConInitHolds == ASSUME ConsoleInit PROVE ConInv
<1>1. /\ started = FALSE /\ mode = -1 /\ at = <<0, 0>> /\ visible = TRUE /\ color = DefaultColor
      /\ text = Blank /\ ink = Clean /\ line = "none" /\ upset = FALSE
      /\ writing = FALSE /\ WString = <<>> /\ wide = FALSE /\ term = Page(0) /\ behind = <<>>
  BY DEF ConsoleInit
<1>2. mode \notin Mode /\ ~(mode >= 0)
  BY <1>1 DEF Mode
<1>3. text \in [Cell -> Glyphs] /\ ink \in [Cell -> SUBSET Color]
  BY <1>1 DEF Blank, Clean, Glyphs
<1>4. WString \in Seq(Char) /\ behind \in Seq(Char)
  BY <1>1
<1>5. ConTypes
  BY <1>1, <1>2, <1>3, <1>4, DefaultIs DEF ConTypes
<1>6. ~term.wide
  BY <1>1, ModesAre, EmptyPageIs, Zenon
<1> QED
  BY <1>1, <1>2, <1>5, <1>6 DEF ConInv, TermTypes, Settled, Between, Ready, InkKept, Followed, Behind

LEMMA ConStepKeeps == ConInv /\ [ConsoleNext]_consoleVars => ConInv'
<1> SUFFICES ASSUME ConInv, [ConsoleNext]_consoleVars PROVE ConInv'
  OBVIOUS
<1>1. CASE UNCHANGED consoleVars
  BY <1>1, StutterKeeps, Zenon
<1>2. CASE Start
  BY <1>2, StartKeeps, Zenon
<1>3. CASE Stop
  BY <1>3, StopKeeps, Zenon
<1>4. CASE ClearScreen
  BY <1>4, ClearScreenKeeps, Zenon
<1>5. CASE Reset
  <2>1. 0 \in Mode /\ SetMode(0)
    BY <1>5, ModesAre, Zenon DEF Reset
  <2> QED
    BY <2>1, SetModeKeeps, Zenon
<1>6. ASSUME NEW n \in Mode, SetMode(n) PROVE ConInv'
  BY <1>6, SetModeKeeps, Zenon
<1>7. ASSUME NEW n \in Mode, SetModeFails(n) PROVE ConInv'
  BY <1>7, SetModeFailsKeeps, Zenon
<1>8. ASSUME NEW c \in Color, SetAttribute(c) PROVE ConInv'
  BY <1>8, SetAttributeKeeps, Zenon
<1>9. ASSUME NEW where \in Cell, SetCursorPosition(where) PROVE ConInv'
  BY <1>9, SetCursorPositionKeeps, Zenon
<1>10. ASSUME NEW v \in BOOLEAN, EnableCursor(v) PROVE ConInv'
  BY <1>10, EnableCursorKeeps, Zenon
<1>11. ASSUME NEW str \in Strings, OutputString(str) PROVE ConInv'
  BY <1>11, OutputStringKeeps, Zenon
<1>12. CASE Loop
  <2>1. CASE Head(WString) \in Control
    BY <1>12, <2>1, ControlLoops, Zenon
  <2>2. CASE Head(WString) \notin Control
    BY <1>12, <2>2, TextLoops, Zenon
  <2> QED
    BY <2>1, <2>2
<1>13. CASE OutputReturns
  BY <1>13, OutputReturnsKeeps, Zenon
<1>14. CASE TermTakes
  BY <1>14, TermTakesKeeps, Zenon
<1> QED
  BY <1>1, <1>2, <1>3, <1>4, <1>5, <1>6, <1>7, <1>8, <1>9, <1>10, <1>11, <1>12, <1>13, <1>14, Zenon
     DEF ConsoleNext

\* What is seen after every call is what a terminal shows that takes one
\* character after the other, the cursor included, for any text modes, colours
\* and strings (GraphicsConsole.c, lines 950-1148).
THEOREM TheScreenIsATerminal == ConsoleSpec => []ScreenIsTerminal
<1>1. ConsoleInit => ConInv
  BY ConInitHolds
<1>2. ConInv /\ [ConsoleNext]_consoleVars => ConInv'
  BY ConStepKeeps
<1>3. ConInv => ScreenIsTerminal
  <2> SUFFICES ASSUME ConInv PROVE ScreenIsTerminal
    OBVIOUS
  <2>1. ConTypes /\ Between
    BY DEF ConInv
  <2>2. ConsoleTypeOK
    <3>1. /\ {started, visible, writing, wide, upset} \subseteq BOOLEAN
          /\ mode \in {-1} \cup Mode /\ color \in Color /\ line \in {"none", "live", "freed"}
          /\ text \in [Cell -> {" ", "x"}] /\ ink \in [Cell -> SUBSET Color]
      BY <2>1 DEF ConTypes, Glyphs
    <3>2. WString \in Seq(Control \cup {" ", "x"})
      BY <2>1 DEF ConTypes, Char, Glyphs
    <3>3. ASSUME mode >= 0 PROVE at[1] \in 0..Columns[mode + 1] - 1 /\ at[2] \in 0..Rows[mode + 1] - 1
      <4>1. mode \in Mode
        BY <2>1, <3>3 DEF ConTypes
      <4>2. OnScreen(Here) /\ at[1] < Columns[mode + 1]
        BY <2>1, <4>1 DEF ConTypes
      <4>3. Here.at = at /\ Here.columns = Columns[mode + 1] /\ Here.rows = Rows[mode + 1]
        BY DEF Here
      <4>4. at[1] \in Nat /\ at[2] \in Nat /\ Columns[mode + 1] \in Nat /\ Rows[mode + 1] \in Nat
            /\ at[2] < Rows[mode + 1]
        BY <4>2, <4>3, AtIs, Zenon DEF OnScreen
      <4> QED
        BY <4>2, <4>4
    <3> QED
      BY <3>1, <3>2, <3>3 DEF ConsoleTypeOK
  <2>3. CursorShown
    <3> SUFFICES ASSUME Ready, ~upset PROVE ink = [c \in Cell |-> IF visible /\ c = at THEN {color} ELSE {}]
      BY Zenon DEF CursorShown
    <3>1. ink = Cursor(Here)
      BY <2>1 DEF Between
    <3>2. Here.visible = visible /\ Here.at = at /\ Here.color = color
      BY DEF Here
    <3> QED
      BY <3>1, <3>2, Zenon DEF Cursor
  <2>4. TextIsTerminals
    <3>1. Here.text = text /\ Here.at = at
      BY DEF Here
    <3> QED
      BY <2>1, <3>1, Zenon DEF Between, Same, TextIsTerminals
  <2> QED
    BY <2>2, <2>3, <2>4 DEF ScreenIsTerminal
<1> QED
  BY <1>1, <1>2, <1>3, PTL DEF ConsoleSpec
================================================================================
