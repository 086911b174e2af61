-------------------------------- MODULE ConOut --------------------------------
(***************************************************************************)
(* The text half of the console splitter's output (ConSplitter.c): mConOut *)
(* and mStdErr each show one text console made of many, with the modes all *)
(* of them have.  A device can belong to both.                             *)
(*                                                                         *)
(* The size of a mode is a value; a mode a device does not support has     *)
(* NoSize, which only its mode 1 can have.  Mode numbers count from zero.  *)
(***************************************************************************)
EXTENDS Integers, SequencesExt, FiniteSetsExt

CONSTANTS
  TextDevice,  \* the output devices
  ModeSizes,   \* ModeSizes[d]: the sizes of d's modes, a sequence
  NoSize,      \* 0 columns by 0 rows
  Base,        \* 40 columns by 12 rows, which every device has as mode 0
  Preferred,   \* PcdConOutColumn by PcdConOutRow as built
  Cell         \* cursor positions; 0 is the upper left corner

\* A mode's number never reaches the half of NoMode.
ASSUME TextAssumption ==
  /\ IsFiniteSet(TextDevice) /\ "none" \notin TextDevice /\ 0 \in Cell
  /\ \A d \in TextDevice :
       /\ Len(ModeSizes[d]) \in 1..127 /\ DOMAIN ModeSizes[d] = 1..Len(ModeSizes[d])
       /\ ModeSizes[d][1] = Base
       /\ \A i \in DOMAIN ModeSizes[d] : ModeSizes[d][i] = NoSize => i = 2

VARIABLES
  con,         \* the two splitters
  dev,         \* the devices: mode and cursor
  preferred    \* the two PCDs, as they are now

textVars == <<con, dev, preferred>>

TextSplitter == {"ConOut", "StdErr"}
OtherSplitter(s) == CHOOSE t \in TextSplitter : t # s

NoMode == 255
None == "none"
ListPlaces == 1..Cardinality(TextDevice)

ModesOf(d) == 0..Len(ModeSizes[d]) - 1
Size(d, m) == IF m \in ModesOf(d) THEN ModeSizes[d][m + 1] ELSE NoSize

\* TextOutList keeps what was in a place behind the last console.
Consoles(c) == {c.slots[p] : p \in 1..c.count}

\* TextOutQueryData and TextOutModeMap without a console: the base mode.
NoTable == [query |-> [m \in {0} |-> Base], map |-> [m \in {0} |-> <<0>>]]

\* ConSplitterTextOutConstructor.  map[m] is, for each console, its mode behind
\* mode m.  History: fresh, no console has another mode than was set last;
\* inStep, nor its cursor at another place.
Fresh0 == [slots |-> [p \in ListPlaces |-> None], count |-> 0, mode |-> 0, cursor |-> 0,
           query |-> NoTable.query, map |-> NoTable.map, fresh |-> TRUE, inStep |-> TRUE]

TextInit ==
  /\ con = [s \in TextSplitter |-> Fresh0]
  /\ dev = [d \in TextDevice |-> [mode |-> 0, cursor |-> 0]]
  /\ preferred = Preferred

-----------------------------------------------------------------------------
(* The table of modes.                                                     *)

\* ConSplitterAddOutputMode: the first console's modes are the splitter's.
AddOutputMode(c, d) ==
  [c EXCEPT !.query = [m \in ModesOf(d) |-> Size(d, m)], !.map = [m \in ModesOf(d) |-> <<m>>]]

RowsBefore(rows, m) == Cardinality({r \in rows : r < m})

NumberAfter(mode, gone) == IF mode \in gone THEN -1 ELSE mode - RowsBefore(gone, mode)

\* Modes 0 and 1 keep their places.
Kept(c, keep) == {m \in DOMAIN c.map : m < 2 \/ m \in keep}

\* ConSplitterGetIntersection: the rows that are not kept are closed up.
GetIntersection(c, keep) ==
  LET stay == Kept(c, keep) IN
  [c EXCEPT !.map = [n \in 0..Cardinality(stay) - 1 |->
                       c.map[CHOOSE m \in stay : RowsBefore(stay, m) = n]],
            !.mode = NumberAfter(c.mode, DOMAIN c.map \ stay)]

\* The size of a splitter's mode is that of its first console's.
SizeOf(c, m) == c.query[c.map[m][1]]

\* A console without mode 1 takes it from the splitter.
LacksMode1(c, d) == Len(ModeSizes[d]) > 1 /\ 1 \in DOMAIN c.map /\ Size(d, 1) = NoSize

WithoutMode1(c, d) == IF LacksMode1(c, d) THEN [c EXCEPT !.query[1] = NoSize] ELSE c

\* The first of c's modes with this size, a set of one or none.
FirstRow(c, size) ==
  {r \in DOMAIN c.map : SizeOf(c, r) = size /\ \A q \in 0..r - 1 : SizeOf(c, q) # size}

\* ConSplitterSyncOutputMode: each mode of the new console is entered in the
\* first row of its size, the last mode of a size stays there.
Entered(c, d, r) == {m \in ModesOf(d) : Size(d, m) # NoSize /\ r \in FirstRow(c, Size(d, m))}

SyncOutputMode(c0, d) ==
  LET c == WithoutMode1(c0, d)
      entry == [r \in DOMAIN c.map |->
                  IF Entered(c, d, r) # {} THEN Max(Entered(c, d, r))
                  ELSE IF r = 1 /\ LacksMode1(c0, d) THEN 1 ELSE -1] IN
  GetIntersection([c EXCEPT !.map = [r \in DOMAIN c.map |-> Append(c.map[r], entry[r])]],
                  {r \in DOMAIN c.map : entry[r] # -1})

\* The next console of TextOutList.
Joined(c, d) ==
  LET table == IF c.count = 0 THEN AddOutputMode(c, d) ELSE SyncOutputMode(c, d) IN
  [table EXCEPT !.count = @ + 1]

-----------------------------------------------------------------------------
(* Setting a mode.  A world is the two splitters with the devices.         *)

\* What some devices are set to; what they show is no longer the other
\* splitter's doing.
OnDevices(w, s, new) ==
  LET other == w.con[OtherSplitter(s)]
      theirs == DOMAIN new \cap Consoles(other) IN
  [con |-> [w.con EXCEPT ![OtherSplitter(s)] =
              [other EXCEPT !.fresh = @ /\ \A d \in theirs : new[d].mode = w.dev[d].mode,
                            !.inStep = @ /\ \A d \in theirs : new[d].cursor = w.dev[d].cursor]],
   dev |-> [d \in TextDevice |-> IF d \in DOMAIN new THEN new[d] ELSE w.dev[d]]]

\* Every console is called, whatever those before it returned, and the error
\* met last is returned: a call succeeds that no console refuses.
Refusals(c) == SUBSET Consoles(c)

Succeeds(refusing) == refusing = {}

\* Cursors are moved.  A console that refuses keeps its own, the splitter's is
\* written all the same.
AllTo(w, s, cell, refusing) ==
  LET c == w.con[s]
      v == OnDevices(w, s, [d \in Consoles(c) \ refusing |-> [w.dev[d] EXCEPT !.cursor = cell]]) IN
  [v EXCEPT !.con[s] = [c EXCEPT !.cursor = cell, !.inStep = Succeeds(refusing)]]

\* ConSplitterTextOutClearScreen
TextOutClearScreen(w, s, refusing) == AllTo(w, s, 0, refusing)

\* Mutant: the number itself is passed on.
Behind_Same(c, n) == [d \in Consoles(c) |-> n]

\* The device mode behind splitter mode n, for each console.
Behind(c, n) == [d \in Consoles(c) |-> c.map[n][CHOOSE p \in 1..c.count : c.slots[p] = d]]

\* ConSplitterTextOutSetMode, with the devices that refuse it.  The mode is
\* recorded whether they do or not; the mode that is recorded is only cleared.
SetMode(w, s, n, refusing) ==
  LET c == w.con[s]
      mode == Behind(c, n)
      taking == {d \in DOMAIN mode \ refusing : Size(d, mode[d]) # NoSize}
      v == OnDevices(w, s, [d \in taking |-> [mode |-> mode[d], cursor |-> 0]]) IN
  IF n \notin DOMAIN c.map THEN w
  ELSE IF n = c.mode THEN TextOutClearScreen(w, s, refusing)
  ELSE [v EXCEPT !.con[s] = [c EXCEPT !.mode = n, !.cursor = 0, !.fresh = (taking = DOMAIN mode),
                                      !.inStep = (taking = DOMAIN mode)]]

\* The search walks on through the other list for each console of ConOut, so
\* that only the first is compared with what is in the list.
SharedFound(w) ==
  LET out == w.con["ConOut"]
      err == w.con["StdErr"] IN
  \E i \in 1..out.count, j \in 1..err.count :
    LET k == (i - 1) * err.count + j IN
    /\ k \in ListPlaces
    /\ err.slots[k] = out.slots[i]

\* ConSplitterGetIntersectionBetweenConOutAndStrErr
IntersectBoth(w) ==
  LET out == w.con["ConOut"]
      err == w.con["StdErr"]
      keepOut == {m \in DOMAIN out.map : FirstRow(err, SizeOf(out, m)) # {}}
      keepErr == UNION {FirstRow(err, SizeOf(out, m)) : m \in DOMAIN out.map}
      w1 == [w EXCEPT !.con["ConOut"] = GetIntersection(out, keepOut)]
      w2 == IF w1.con["ConOut"].mode < 0 THEN SetMode(w1, "ConOut", 0, {}) ELSE w1
      w3 == [w2 EXCEPT !.con["StdErr"] = GetIntersection(w2.con["StdErr"], keepErr)] IN
  IF ~SharedFound(w) THEN w
  ELSE IF w3.con["StdErr"].mode < 0 THEN SetMode(w3, "StdErr", 0, {}) ELSE w3

-----------------------------------------------------------------------------
(* Devices come and go.                                                    *)

World == [con |-> con, dev |-> dev]
Becomes(w) == con' = w.con /\ dev' = w.dev

\* QueryMode fails for a size of zero.
Offered(c) == {m \in DOMAIN c.map : SizeOf(c, m) # NoSize}
Last0(ms) == IF ms = {} THEN NoMode ELSE Max(ms)

\* ConsplitterSetConsoleOutMode: the preferred size, else the base mode, which
\* is then preferred for good.
PreferMode(c) == Last0({m \in Offered(c) : SizeOf(c, m) = preferred})

BaseMode(c) == Last0({m \in Offered(c) : SizeOf(c, m) = Base})

\* ConSplitterTextOutAddDevice
TextOutAddDevice(s, d) ==
  LET c0 == [con[s] EXCEPT !.mode = NoMode, !.slots[con[s].count + 1] = d]
      w2 == IntersectBoth([con |-> [con EXCEPT ![s] = Joined(c0, d)], dev |-> dev])
      c == w2.con[s]
      prefers == PreferMode(c) # NoMode IN
  /\ d \notin Consoles(con[s])
  /\ Becomes(SetMode(w2, s, IF prefers THEN PreferMode(c) ELSE BaseMode(c), {}))
  /\ preferred' = IF prefers THEN preferred ELSE Base

\* ConSplitterTextOutDeleteDevice: the table is built anew from the consoles
\* that stay.  The mode keeps its number, whatever that stands for now.
Rebuild(c, count) ==
  LET built[n \in 0..count] ==
        IF n = 0 THEN [c EXCEPT !.count = 0, !.fresh = FALSE, !.inStep = FALSE]
        ELSE Joined(built[n - 1], c.slots[n])
  IN built[count]

Emptied(c) == [c EXCEPT !.count = 0, !.query = NoTable.query, !.map = NoTable.map,
                        !.mode = 0, !.cursor = 0]

\* The consoles behind it move up by a place.
WithoutPlace(c, d) ==
  LET at == CHOOSE p \in 1..c.count : c.slots[p] = d IN
  [c EXCEPT !.slots = [p \in ListPlaces |-> IF at <= p /\ p < c.count THEN c.slots[p + 1] ELSE c.slots[p]]]

TextOutDeleteDevice(s, d) ==
  LET left == WithoutPlace(con[s], d)
      now(splitter) == [con |-> [con EXCEPT ![s] = splitter], dev |-> dev] IN
  /\ d \in Consoles(con[s])
  /\ Becomes(IF left.count = 1 THEN now(Emptied(left)) ELSE IntersectBoth(now(Rebuild(left, left.count - 1))))
  /\ UNCHANGED preferred

-----------------------------------------------------------------------------
(* The calls of SimpleTextOut.                                             *)

CallSetMode(s) ==
  \E n \in DOMAIN con[s].map, refusing \in Refusals(con[s]) : Becomes(SetMode(World, s, n, refusing))

CallClearScreen(s) ==
  \E refusing \in Refusals(con[s]) : Becomes(TextOutClearScreen(World, s, refusing))

\* ConSplitterTextOutReset: every console goes to its mode 0, or refuses.
ResetConsoles(s) ==
  \E refusing \in Refusals(con[s]) :
    LET c == con[s]
        w == OnDevices(World, s, [d \in Consoles(c) \ refusing |-> [mode |-> 0, cursor |-> 0]]) IN
    Becomes([w EXCEPT !.con[s] = [c EXCEPT !.mode = 0, !.cursor = 0, !.fresh = Succeeds(refusing),
                                           !.inStep = Succeeds(refusing)]])

\* What a text does to a cursor depends on where it is and on the size of the
\* mode.  A console that refuses stops anywhere.
Stand(d) == <<Size(d, dev[d].mode), dev[d].cursor>>

Typed(c, refusing) ==
  {to \in [Consoles(c) -> Cell] :
     \A d, e \in Consoles(c) \ refusing : Stand(d) = Stand(e) => to[d] = to[e]}

OneSize(c) == \A d, e \in Consoles(c) : Size(d, dev[d].mode) = Size(e, dev[e].mode)

\* ConSplitterTextOutOutputString: the splitter's cursor is its first
\* console's, refused or not; without one it counts for itself.
TextOutOutputString(s) ==
  LET c == con[s] IN
  \E refusing \in Refusals(c), cell \in Cell : \E to \in Typed(c, refusing) :
    LET w == OnDevices(World, s, [d \in Consoles(c) |-> [dev[d] EXCEPT !.cursor = to[d]]]) IN
    /\ c.count > 0 => cell = to[c.slots[1]]
    /\ Becomes([w EXCEPT !.con[s] =
                  [c EXCEPT !.cursor = cell, !.inStep = @ /\ Succeeds(refusing) /\ OneSize(c)]])

\* The mode's number is not looked at: the table may be read before its start.
SetCursorPosition(s) ==
  /\ con[s].mode >= 0
  /\ \E cell \in Cell, refusing \in Refusals(con[s]) : Becomes(AllTo(World, s, cell, refusing))

ModeCall(s) == (CallSetMode(s) \/ ResetConsoles(s)) /\ UNCHANGED preferred
CursorCall(s) ==
  /\ CallClearScreen(s) \/ TextOutOutputString(s) \/ SetCursorPosition(s)
  /\ UNCHANGED preferred

TextNext ==
  \E s \in TextSplitter :
    \/ \E d \in TextDevice : TextOutAddDevice(s, d) \/ TextOutDeleteDevice(s, d)
    \/ ModeCall(s)
    \/ CursorCall(s)

TextSpec == TextInit /\ [][TextNext]_textVars

-----------------------------------------------------------------------------
(* Properties.                                                             *)

Sizes == {NoSize, Base} \cup UNION {ToSet(ModeSizes[d]) : d \in TextDevice}

\* Every variable has its type.
TextTypeOK ==
  /\ DOMAIN con = TextSplitter
  /\ \A s \in TextSplitter :
       /\ con[s].slots \in [ListPlaces -> TextDevice \cup {None}]
       /\ con[s].count \in 0..Cardinality(TextDevice)
       /\ con[s].mode \in -1..NoMode - 1
       /\ con[s].cursor \in Cell
       /\ Range(con[s].query) \subseteq Sizes
       /\ con[s].fresh \in BOOLEAN /\ con[s].inStep \in BOOLEAN
       /\ \A n \in DOMAIN con[s].map : Len(con[s].map[n]) = IF con[s].count = 0 THEN 1 ELSE con[s].count
  /\ \A d \in TextDevice : dev[d].mode \in ModesOf(d) /\ dev[d].cursor \in Cell
  /\ preferred \in {Preferred, Base}

\* Behind mode n of a splitter is, on the console in place p, a mode of that
\* very size; mode 1 may be missing, and then is offered only where no console
\* has said so.
RowSound(c, n, p) ==
  LET size == Size(c.slots[p], c.map[n][p]) IN
  IF n # 1 THEN size = SizeOf(c, n)
  ELSE SizeOf(c, n) # NoSize =>
         /\ Len(ModeSizes[c.slots[p]]) > 1 => Size(c.slots[p], 1) # NoSize
         /\ c.map[n][p] = -1 \/ size = SizeOf(c, n)

\* Every mode the splitters offer is one of each console (lines 2384-2402,
\* 2450-2481, 2526-2555, 3405-3430).
ModeMapSound ==
  \A s \in TextSplitter : \A n \in DOMAIN con[s].map, p \in 1..con[s].count : RowSound(con[s], n, p)

Displayed(w, s) ==
  LET c == w.con[s] IN
  c.fresh => /\ c.mode \in DOMAIN c.map
             /\ \A d \in Consoles(c) : Size(d, w.dev[d].mode) = SizeOf(c, c.mode)

\* After a change of mode no console refused, every console shows the size
\* QueryMode reports for the current mode, until a console is deleted or the
\* other splitter sets a device of both (lines 3192, 3302, 4584-4589, 4862-4875).
DisplayedMode == \A s \in TextSplitter : Displayed(World, s)

Together(w, s) == w.con[s].inStep => \A d \in Consoles(w.con[s]) : w.dev[d].cursor = w.con[s].cursor

\* After a call that set the cursor and returned success, the position the
\* splitter reports is where every console has its cursor, until a console is
\* deleted, refuses, is written to in a mode of another size, or is moved by the
\* other splitter (lines 4635-4647, 4966-4980, 5046-5063).
CursorsAgree == \A s \in TextSplitter : Together(World, s)

OffersAll(a, b) ==
  \A m \in DOMAIN a.map \ {0, 1} : \E n \in DOMAIN b.map : SizeOf(a, m) = SizeOf(b, n)

Agree(w) ==
  LET out == w.con["ConOut"]
      err == w.con["StdErr"] IN
  out.count > 0 /\ out.slots[1] \in Consoles(err) => OffersAll(out, err) /\ OffersAll(err, out)

\* When the first console of ConOut is one of StdErr, too, both offer the same
\* sizes beyond mode 1 (lines 2618-2716).
SharedModesAgree == Agree(World)

\* The consoles behind a splitter show what it reports, through every change of
\* the list, of the mode and of the other splitter.
ConsolesAgree == TextTypeOK /\ ModeMapSound /\ DisplayedMode /\ CursorsAgree /\ SharedModesAgree
=============================================================================
