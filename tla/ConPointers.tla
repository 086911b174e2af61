----------------------------- MODULE ConPointers -----------------------------
(***************************************************************************)
(* The pointer half of the input splitter (ConSplitter.c): mice and touch  *)
(* screens join mConIn as keyboards do, and a state is put together from   *)
(* those of all of them.  One axis stands for the three.                   *)
(***************************************************************************)
EXTENDS Integers, SequencesExt, FiniteSetsExt

CONSTANTS
  Pointer,       \* the devices: PointerKind[p] is "simple" or "absolute"
  PointerKind,
  Resolution,    \* of a simple pointer; 0 when it does not have the axis
  Lowest, Highest,  \* range of an absolute pointer; 0..0 without the axis
  VirtualResolution, VirtualMax,   \* of the splitter's own pointers
  PointerUnit,   \* CONSOLE_SPLITTER_ALLOC_UNIT
  Travel         \* bound: how far a mouse moves, and how often it is read

VARIABLES
  pointers,        \* PointerList and AbsolutePointerList
  room,        \* their capacities
  due,         \* InputEventSignalState and AbsoluteInputEventSignalState
  managed,     \* devices the driver has opened
  travel,      \* movement a mouse has not reported yet
  place,       \* where a touch screen is touched, or NoTouch
  pointed,     \* result of the last GetState of each kind
  moved, shown, readings,   \* history: counts moved, shown, and how often
  left         \* history: a device has left since the kind was last asked

pvars == <<pointers, room, due, managed, travel, place, pointed, moved, shown, readings, left>>

Kinds == {"simple", "absolute"}
NoTouch == -1
Of(kind) == {p \in Pointer : PointerKind[p] = kind}

ASSUME PointersAssumption ==
  /\ PointerKind \in [Pointer -> Kinds]
  /\ \A p \in Of("simple") : Resolution[p] \in Nat
  /\ \A p \in Of("absolute") : Lowest[p] \in Nat /\ Highest[p] \in Nat
  /\ VirtualResolution \in Nat /\ VirtualMax \in Nat /\ Travel \in Nat
  /\ PointerUnit \in Nat \ {0}

PointersInit ==
  /\ pointers = [k \in Kinds |-> <<>>]
  /\ room = [k \in Kinds |-> PointerUnit]
  /\ due = [k \in Kinds |-> FALSE]
  /\ managed = {}
  /\ travel = [p \in Of("simple") |-> 0]
  /\ place = [p \in Of("absolute") |-> NoTouch]
  /\ pointed = [kind |-> "simple", status |-> "not ready", at |-> 0]
  /\ moved = [p \in Of("simple") |-> 0]
  /\ shown = [p \in Of("simple") |-> 0] /\ readings = [p \in Of("simple") |-> 0]
  /\ left = [k \in Kinds |-> FALSE]

-----------------------------------------------------------------------------
(* The devices.                                                            *)

Move(p) ==
  /\ PointerKind[p] = "simple"
  /\ \E by \in {-1, 1} :
       /\ moved[p] + by \in -Travel..Travel /\ travel[p] + by # 0
       /\ readings[p] < Travel
       /\ travel' = [travel EXCEPT ![p] = @ + by]
       /\ moved' = [moved EXCEPT ![p] = @ + by]
  /\ UNCHANGED <<pointers, room, due, managed, place, pointed, shown, readings, left>>

Touch(p) ==
  /\ PointerKind[p] = "absolute"
  /\ \E at \in Lowest[p]..Highest[p] : place' = [place EXCEPT ![p] = at]
  /\ UNCHANGED <<pointers, room, due, managed, travel, pointed, moved, shown, readings, left>>

HasInput(p) == IF PointerKind[p] = "simple" THEN travel[p] # 0 ELSE place[p] # NoTouch

-----------------------------------------------------------------------------
(* Devices come and go.                                                    *)

\* A list that cannot grow leaves the device open and unlisted.
AddTo(k, p) ==
  LET full == Len(pointers[k]) >= room[k] IN
  /\ p \in Of(k) \ managed
  /\ managed' = managed \cup {p}
  /\ \/ /\ pointers' = [pointers EXCEPT ![k] = Append(@, p)]
        /\ room' = IF full THEN [room EXCEPT ![k] = @ + PointerUnit] ELSE room
     \/ full /\ UNCHANGED <<pointers, room>>
  /\ UNCHANGED <<due, travel, place, pointed, moved, shown, readings, left>>

StartSimplePointer(p) == AddTo("simple", p)
StartAbsolutePointer(p) == AddTo("absolute", p)

DeleteFrom(k, p) ==
  /\ p \in Of(k) \cap managed
  /\ managed' = managed \ {p}
  /\ \/ \E i \in DOMAIN pointers[k] :
            /\ pointers[k][i] = p /\ \A j \in 1..i - 1 : pointers[k][j] # p
            /\ pointers' = [pointers EXCEPT ![k] = RemoveAt(@, i)]
     \/ p \notin ToSet(pointers[k]) /\ UNCHANGED pointers
  /\ left' = [left EXCEPT ![k] = TRUE]
  /\ UNCHANGED <<room, due, travel, place, pointed, moved, shown, readings>>

StopSimplePointer(p) == DeleteFrom("simple", p)
StopAbsolutePointer(p) == DeleteFrom("absolute", p)

-----------------------------------------------------------------------------
(* Reset, GetState and the wait events.                                    *)

Answering(k) == SUBSET ToSet(pointers[k])
\* Mutant: the signal state survives the call.
Asked_StaysDue(k) == due' = due /\ left' = [left EXCEPT ![k] = FALSE]

Asked(k) == due' = [due EXCEPT ![k] = FALSE] /\ left' = [left EXCEPT ![k] = FALSE]

\* A device that fails keeps its movement; the others have lost theirs.
ResetSimplePointers ==
  /\ Asked("simple")
  /\ \E done \in Answering("simple") :
       /\ travel' = [p \in Of("simple") |-> IF p \in done THEN 0 ELSE travel[p]]
       /\ moved' = [p \in Of("simple") |-> IF p \in done THEN moved[p] - travel[p] ELSE moved[p]]
  /\ UNCHANGED <<pointers, room, managed, place, pointed, shown, readings>>

ResetAbsolutePointers ==
  /\ Asked("absolute")
  /\ \E done \in Answering("absolute") :
       place' = [p \in Of("absolute") |-> IF p \in done THEN NoTouch ELSE place[p]]
  /\ UNCHANGED <<pointers, room, managed, travel, pointed, moved, shown, readings>>

\* C divides towards zero.
Quotient(a, b) == IF a >= 0 THEN a \div b ELSE -((-a) \div b)

Scaled(p) ==
  IF Resolution[p] = 0 THEN 0 ELSE Quotient(travel[p] * VirtualResolution, Resolution[p])

Status(k, answering, ready) ==
  IF answering # ToSet(pointers[k]) THEN "device error"
  ELSE IF ready = {} THEN "not ready" ELSE "success"

Movement(ready) == MapThenSumSet(Scaled, ready)

\* A device error wins over any success, yet what the others reported is
\* taken from them and added up.
GetSimpleState ==
  /\ Asked("simple")
  /\ \E answering \in Answering("simple") :
       LET ready == {p \in answering : HasInput(p)} IN
       /\ travel' = [p \in Of("simple") |-> IF p \in ready THEN 0 ELSE travel[p]]
       /\ shown' = [p \in Of("simple") |-> IF p \in ready THEN shown[p] + Scaled(p) ELSE shown[p]]
       /\ readings' = [p \in Of("simple") |-> IF p \in ready THEN readings[p] + 1 ELSE readings[p]]
       /\ pointed' = [kind |-> "simple", status |-> Status("simple", answering, ready), at |-> Movement(ready)]
  /\ UNCHANGED <<pointers, room, managed, place, moved>>

\* The last device in the list that has the axis decides where the pointer is;
\* its own lowest position is not taken off.
Place(p) == (place[p] * VirtualMax) \div (Highest[p] - Lowest[p])

GetAbsoluteState ==
  /\ Asked("absolute")
  /\ \E answering \in Answering("absolute") :
       LET ready == {p \in answering : HasInput(p)}
           list == pointers["absolute"]
           known == {i \in DOMAIN list : list[i] \in ready /\ Highest[list[i]] # 0} IN
       /\ place' = [p \in Of("absolute") |-> IF p \in ready THEN NoTouch ELSE place[p]]
       /\ pointed' = [kind |-> "absolute", status |-> Status("absolute", answering, ready),
                      at |-> IF known = {} THEN 0 ELSE Place(list[Max(known)])]
  /\ UNCHANGED <<pointers, room, managed, travel, moved, shown, readings>>

WaitForInputOf(k) ==
  /\ due' = [due EXCEPT ![k] = @ \/ \E i \in DOMAIN pointers[k] : HasInput(pointers[k][i])]
  /\ UNCHANGED <<pointers, room, managed, travel, place, pointed, moved, shown, readings, left>>

WaitForSimpleInput == WaitForInputOf("simple")
WaitForAbsoluteInput == WaitForInputOf("absolute")

SimpleNext ==
  \/ \E p \in Pointer : Move(p) \/ StartSimplePointer(p) \/ StopSimplePointer(p)
  \/ ResetSimplePointers \/ WaitForSimpleInput \/ GetSimpleState
AbsoluteNext ==
  \/ \E p \in Pointer : Touch(p) \/ StartAbsolutePointer(p) \/ StopAbsolutePointer(p)
  \/ ResetAbsolutePointers \/ WaitForAbsoluteInput \/ GetAbsoluteState
PointersNext == SimpleNext \/ AbsoluteNext

PointersSpec == PointersInit /\ [][PointersNext]_pvars

-----------------------------------------------------------------------------
(* Properties.                                                             *)

\* Each list holds managed devices of its kind, each once, and fits its
\* buffer (lines 2107-2121, 2148-2157, 2184-2198, 2225-2234).
ListsMatch ==
  \A k \in Kinds :
    /\ IsInjective(pointers[k])
    /\ ToSet(pointers[k]) \subseteq Of(k) \cap managed
    /\ Len(pointers[k]) <= room[k]

\* A pointer that was signalled still has something to report, unless a
\* device has left (lines 4159, 4281, 4313-4325, 4354, 4418, 4528-4540).
DueIsHonest ==
  \A k \in Kinds : due[k] => left[k] \/ \E i \in DOMAIN pointers[k] : HasInput(pointers[k][i])

\* What the pointer has moved for a mouse is what the mouse has moved in the
\* splitter's resolution: each reading rounds less than one step of it away,
\* and nothing is counted twice (lines 4229-4247).
MovementShown ==
  \A p \in Of("simple") :
    LET res == Resolution[p]
        off == VirtualResolution * (moved[p] - travel[p]) - res * shown[p] IN
    res # 0 => off <= (res - 1) * readings[p] /\ -off <= (res - 1) * readings[p]

\* The position of the splitter's touch screen lies in its range, when the
\* ranges of the devices start at zero (lines 4461-4490).
TouchInRange ==
  (\A p \in Of("absolute") : Lowest[p] = 0) => (pointed.kind = "absolute" => pointed.at \in 0..VirtualMax)

\* The splitter's mouse and touch screen tell of its devices what they did,
\* while these come, go and fail.
PointersAgree == ListsMatch /\ DueIsHonest /\ MovementShown /\ TouchInRange
=============================================================================
