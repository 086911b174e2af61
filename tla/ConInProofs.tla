----------------------------- MODULE ConInProofs -----------------------------
(***************************************************************************)
(* That the lists, buffers and registrations of the console splitter's     *)
(* keyboards fit each other, and that what is read, signalled and lit is   *)
(* what the keyboards have: for any number of keyboards, registrations and *)
(* keystrokes.  That its pointers say what mice and touch screens did: for *)
(* any number of them, of any resolution and range.                        *)
(***************************************************************************)
EXTENDS ConIn, ConPointers, SequenceTheorems, FiniteSetTheorems, WellFoundedInduction, TLAPS

ListTypes ==
  /\ textIn \in Seq(Device) /\ textInEx \in Seq(ExDevice)
  /\ textInCount \in Nat /\ exCount \in Nat /\ queueCount \in Nat
  /\ notifyList \in Seq(Node)
  /\ open \subseteq Device /\ removed \in BOOLEAN
  /\ devRegs \in [Device -> SUBSET Regs]

KeyTypes ==
  /\ keyQueue \in Seq(Key) /\ devKeys \in [Device -> Seq(Key)]
  /\ made \in [Device -> 0..KeyBound] /\ lastRead \in [Device -> 0..KeyBound]
  /\ cleared \in [Device -> 0..KeyBound] /\ resetMark \in [Device -> 0..KeyBound]
  /\ partialKeys \subseteq Key /\ signalled \in BOOLEAN

Settings ==
  [kind : {"none", "set", "reset"}, value : Toggle, export : BOOLEAN, at : Nat, raced : BOOLEAN, failed : BOOLEAN]

ToggleTypes ==
  /\ physical \in Toggle /\ exported \in BOOLEAN /\ torn \in BOOLEAN
  /\ devToggle \in [Device -> Toggle] /\ pending \in [Device -> Seq(Toggle)]
  /\ setting \in Settings

\* A growth that failed has enlarged some nodes, and perhaps the queue, but not
\* the list itself: the list is the smallest of the buffers that it indexes.
Fits ==
  /\ Len(textIn) <= textInCount /\ Len(textInEx) <= exCount
  /\ exCount <= queueCount /\ queueCount <= exCount + Unit
  /\ \A k \in DOMAIN notifyList :
       exCount <= Capacity(notifyList[k]) /\ Capacity(notifyList[k]) <= exCount + Unit

QueueFits == keyQueue # <<>> => Len(keyQueue) < queueCount

\* A registration is in the list once, so that what unregisters it with the
\* devices leaves no node behind.
RegisteredOnce ==
  \A k, l \in DOMAIN notifyList : notifyList[k].reg = notifyList[l].reg => k = l

\* As long as no place has moved up, each node has the handle of every device
\* at its place, and a device that is not listed has no registration.
HandlesInPlace ==
  ~removed =>
    /\ \A k \in DOMAIN notifyList : \A i \in DOMAIN textInEx : notifyList[k].handles[i] = textInEx[i]
    /\ \A d \in Device : (\A i \in DOMAIN textInEx : textInEx[i] # d) => devRegs[d] = {}

InStep == ListTypes /\ Fits /\ RegisteredOnce /\ HandlesInPlace /\ NotifyEverywhere /\ ListedOnce

IInv == InStep /\ KeyTypes /\ ToggleTypes /\ QueueFits

-----------------------------------------------------------------------------
(* Least and greatest numbers, and sequences.                              *)

LEMMA LeastExists ==
  ASSUME NEW S \in SUBSET Nat, S # {}
  PROVE  \E i \in S : \A j \in S : i <= j
<1>1. IsWellFoundedOn(OpToRel(<, Nat), Nat)
  BY NatLessThanWellFounded
<1>2. PICK x \in S : \A y \in S : ~ (<<y, x>> \in OpToRel(<, Nat))
  BY <1>1, WFMin
<1>3. \A y \in S : y \in Nat /\ x \in Nat
  OBVIOUS
<1>4. \A y \in S : ~ (y < x)
  BY <1>2, <1>3, Zenon DEF OpToRel
<1>5. \A y \in S : x <= y
  BY <1>3, <1>4
<1> QED
  BY <1>5

\* The first of some places is one of them.
LEMMA FirstIs ==
  ASSUME NEW S \in SUBSET Nat, S # {}
  PROVE  First(S) \in S /\ \A j \in S : First(S) <= j
  BY LeastExists DEF First

\* A bounded set of numbers has a greatest one.
LEMMA MaxIs ==
  ASSUME NEW n \in Nat, NEW S \in SUBSET (0..n), S # {}
  PROVE  Max(S) \in S /\ \A j \in S : j <= Max(S)
<1> DEFINE T == {n - i : i \in S}
<1>1. \A i \in S : n - i \in Nat
  OBVIOUS
<1>2. T # {} /\ \A t \in T : t \in Nat
  BY <1>1, Zenon
<1>3. T \in SUBSET Nat
  BY <1>2, Zenon
<1>4. PICK t \in T : \A j \in T : t <= j
  BY <1>2, <1>3, LeastExists
<1>5. PICK i \in S : t = n - i
  OBVIOUS
<1>6. \A j \in S : j <= i
  <2> TAKE j \in S
  <2>1. n - j \in T
    OBVIOUS
  <2> QED
    BY <2>1, <1>4, <1>5
<1> QED
  BY <1>6 DEF Max

LEMMA MapIsSeq ==
  ASSUME NEW S, NEW n \in Nat, NEW f \in [1..n -> S]
  PROVE  f \in Seq(S) /\ Len(f) = n /\ DOMAIN f = 1..n
  OBVIOUS

LEMMA FiniteUpTo ==
  ASSUME NEW n \in Nat
  PROVE  IsFiniteSet(1..n) /\ Cardinality(1..n) = n
<1>1. 1 \in Int /\ n \in Int /\ (IF 1 > n THEN 0 ELSE n - 1 + 1) = n
  OBVIOUS
<1> QED
  BY <1>1, FS_Interval

\* What comes behind a place is a shorter list of the same things.
LEMMA AfterIs ==
  ASSUME NEW S, NEW q \in Seq(S), NEW i \in DOMAIN q
  PROVE  After(q, i) \in Seq(S) /\ Len(After(q, i)) = Len(q) - i
<1>1. i \in 1..Len(q) /\ Len(q) \in Nat
  OBVIOUS
<1>2. i + 1 \in 1..Len(q) + 1 /\ Len(q) \in i..Len(q)
  BY <1>1
<1> QED
  BY <1>1, <1>2, SubSeqProperties DEF After

LEMMA RealAtIs ==
  ASSUME NEW S, NEW q \in Seq(S)
  PROVE  RealAt(q) \in SUBSET Nat /\ RealAt(q) \subseteq DOMAIN q
  BY DEF RealAt

\* The first real key of a queue, and what is left behind it.
LEMMA FirstReal ==
  ASSUME NEW S, NEW q \in Seq(S), RealAt(q) # {}
  PROVE  /\ First(RealAt(q)) \in DOMAIN q
         /\ q[First(RealAt(q))] \in S
         /\ After(q, First(RealAt(q))) \in Seq(S)
         /\ Len(After(q, First(RealAt(q)))) < Len(q)
<1>1. First(RealAt(q)) \in DOMAIN q
  BY RealAtIs, FirstIs
<1>2. First(RealAt(q)) \in 1..Len(q) /\ Len(q) \in Nat
  BY <1>1
<1> QED
  BY <1>1, <1>2, AfterIs, ElementOfSeq

-----------------------------------------------------------------------------
(* Toggle states.                                                          *)

LEMMA SetOnTypes ==
  ASSUME ToggleTypes, NEW ds, NEW value \in Toggle, SetOn(ds, value)
  PROVE  devToggle' \in [Device -> Toggle]
  BY DEF ToggleTypes, SetOn

LEMMA CalmIs ==
  /\ Calm.value = 0
  /\ Calm \in Settings
  BY DEF Calm, Toggle, Settings

LEMMA GoOnTypes ==
  ASSUME NEW s \in Settings, NEW n \in Nat
  PROVE  [s EXCEPT !.at = n] \in Settings /\ [s EXCEPT !.at = n, !.failed = TRUE] \in Settings
<1>1. [s EXCEPT !.at = n] \in Settings
  BY DEF Settings
<1>2. \A t \in Settings : [t EXCEPT !.failed = TRUE] \in Settings
  BY DEF Settings
<1>3. [s EXCEPT !.at = n, !.failed = TRUE] = [[s EXCEPT !.at = n] EXCEPT !.failed = TRUE]
  BY Zenon
<1> QED
  BY <1>1, <1>2, <1>3

LEMMA ToggleActions ==
  ASSUME ToggleTypes, ConInAssumption,
         \/ \E d \in Device : PressToggle(d) \/ ToggleStateSyncKeyNotify(d)
         \/ \E value \in Toggle, export \in BOOLEAN : SetState(value, export)
         \/ SetNext \/ SetDone
  PROVE  ToggleTypes'
<1>1. ASSUME NEW d \in Device, PressToggle(d) PROVE ToggleTypes'
  <2>1. devToggle' \in [Device -> Toggle]
    BY <1>1 DEF PressToggle, ToggleTypes, Toggle
  <2>2. <<1 - devToggle[d]>> \in Seq(Toggle)
    BY DEF ToggleTypes, Toggle
  <2>3. pending' \in [Device -> Seq(Toggle)]
    BY <1>1, <2>2 DEF PressToggle, ToggleTypes
  <2> QED
    BY <1>1, <2>1, <2>3 DEF PressToggle, ToggleTypes
<1>2. ASSUME NEW d \in Device, ToggleStateSyncKeyNotify(d) PROVE ToggleTypes'
  <2>1. pending' \in [Device -> Seq(Toggle)]
    BY <1>2 DEF ToggleStateSyncKeyNotify, ToggleTypes
  <2>2. pending[d] \in Seq(Toggle) /\ pending[d] # <<>>
    BY <1>2 DEF ToggleStateSyncKeyNotify, ToggleTypes
  <2>3. physical' \in Toggle
    BY <1>2, <2>2, HeadTailProperties DEF ToggleStateSyncKeyNotify
  <2>4. PICK taking \in SUBSET ToSet(textInEx) :
          LET refused == taking # ToSet(textInEx) IN
          IF physical' = physical
          THEN taking = {} /\ Interrupts(FALSE) /\ UNCHANGED <<devToggle, torn>>
          ELSE SetOn(taking, physical') /\ torn' = refused /\ Interrupts(refused)
    BY <1>2 DEF ToggleStateSyncKeyNotify
  <2>5. devToggle' \in [Device -> Toggle] /\ torn' \in BOOLEAN
    BY <2>3, <2>4, SetOnTypes DEF ToggleTypes
  <2>6. PICK refused \in BOOLEAN : Interrupts(refused)
    BY <2>4, Zenon
  <2>7. setting' \in Settings
    <3>1. setting.failed \in BOOLEAN
      BY DEF ToggleTypes, Settings
    <3>2. (setting.failed \/ refused) \in BOOLEAN
      BY <3>1, Zenon
    <3> QED
      BY <2>6, <3>2 DEF Interrupts, ToggleTypes, Settings
  <2> QED
    BY <1>2, <2>1, <2>3, <2>5, <2>7 DEF ToggleStateSyncKeyNotify, ToggleTypes
<1>3. ASSUME NEW value \in Toggle, NEW export \in BOOLEAN, SetState(value, export) PROVE ToggleTypes'
  <2>1. setting' = [Calm EXCEPT !.kind = "set", !.value = value, !.export = export]
    BY <1>3 DEF SetState
  <2>2. setting' \in Settings
    BY <2>1, CalmIs DEF Settings
  <2> QED
    BY <1>3, <2>2 DEF SetState, ToggleTypes, toggles
<1>4. ASSUME SetNext PROVE ToggleTypes'
  <2>1. Passed \in Toggle
    BY DEF Passed, ToggleTypes, Settings
  <2>2. devToggle' \in [Device -> Toggle] /\ torn' \in BOOLEAN
    BY <1>4, <2>1, SetOnTypes DEF SetNext, ToggleTypes
  <2>3. setting' \in Settings
    <3>1. setting \in Settings /\ setting.at + 1 \in Nat
      BY DEF ToggleTypes, Settings
    <3> QED
      BY <1>4, <3>1, GoOnTypes, CalmIs DEF SetNext
  <2> QED
    BY <1>4, <2>2, <2>3 DEF SetNext, ToggleTypes
<1>5. ASSUME SetDone PROVE ToggleTypes'
  <2>1. torn' \in BOOLEAN
    <3>1. torn' = (setting.raced \/ setting.failed) /\ setting.raced \in BOOLEAN /\ setting.failed \in BOOLEAN
      BY <1>5 DEF SetDone, ToggleTypes, Settings
    <3> QED
      BY <3>1, Zenon
  <2>2. physical' \in Toggle /\ exported' \in BOOLEAN
    BY <1>5 DEF SetDone, ToggleTypes, Settings
  <2> QED
    BY <1>5, <2>1, <2>2, CalmIs DEF SetDone, ToggleTypes
<1> QED
  BY <1>1, <1>2, <1>3, <1>4, <1>5

-----------------------------------------------------------------------------
(* Keys.                                                                   *)

\* The keys stay keys, and the queue stays behind its buffer.
KeysGood == KeyTypes /\ QueueFits

LEMMA DeliverTypes ==
  ASSUME KeyTypes, NEW key \in Key, Deliver(key)
  PROVE  lastRead' \in [Device -> 0..KeyBound]
<1>1. key.n \in 0..KeyBound /\ key.dev \in Device
  BY DEF Key
<1> QED
  BY <1>1 DEF KeyTypes, Deliver

LEMMA PressKeeps ==
  ASSUME KeysGood, ConInAssumption, NEW d \in Device, Press(d)
  PROVE  KeysGood'
<1>1. made' \in [Device -> 0..KeyBound] /\ made[d] + 1 \in 1..KeyBound
  BY DEF Press, KeysGood, KeyTypes, ConInAssumption
<1>2. PICK partial \in BOOLEAN :
        LET key == [dev |-> d, n |-> made[d] + 1] IN
        /\ devKeys' = [devKeys EXCEPT ![d] = Append(@, key)]
        /\ partialKeys' = IF partial THEN partialKeys \cup {key} ELSE partialKeys
  BY DEF Press
<1> DEFINE key == [dev |-> d, n |-> made[d] + 1]
<1>3. key \in Key
  BY <1>1 DEF Key
<1>4. devKeys[d] \in Seq(Key)
  BY DEF KeysGood, KeyTypes
<1> HIDE DEF key
<1>5. Append(devKeys[d], key) \in Seq(Key)
  BY <1>3, <1>4, AppendProperties
<1>6. devKeys' \in [Device -> Seq(Key)]
  BY <1>2, <1>5 DEF KeysGood, KeyTypes, key
<1>7. partialKeys' \subseteq Key
  BY <1>2, <1>3 DEF KeysGood, KeyTypes, key
<1> QED
  BY <1>1, <1>6, <1>7 DEF Press, KeysGood, KeyTypes, QueueFits, lists

LEMMA HolderHasKey ==
  ASSUME KeyTypes, NEW d \in Device
  PROVE  /\ devKeys[d] \in Seq(Key)
         /\ HasKey(d) <=> RealAt(devKeys[d]) # {}
  BY DEF KeyTypes, HasKey, RealAt

LEMMA ReadKeyStrokeKeeps ==
  ASSUME InStep, KeysGood, ConInAssumption, ReadKeyStroke
  PROVE  KeysGood'
<1> DEFINE queued == RealAt(keyQueue)
           holders == {i \in DOMAIN textIn : HasKey(textIn[i])}
           last == IF holders = {} THEN Len(textIn) ELSE First(holders)
           emptied == {textIn[i] : i \in 1..last}
           from == {d \in emptied : HasKey(d)}
<1>1. CASE queued # {}
  <2>1. /\ Deliver(keyQueue[First(queued)]) /\ keyQueue' = After(keyQueue, First(queued))
        /\ UNCHANGED devKeys
    BY <1>1 DEF ReadKeyStroke
  <2>2. keyQueue \in Seq(Key)
    BY DEF KeysGood, KeyTypes
  <2>3. /\ keyQueue[First(queued)] \in Key /\ keyQueue' \in Seq(Key) /\ Len(keyQueue') < Len(keyQueue)
        /\ keyQueue # <<>>
    BY <1>1, <2>1, <2>2, FirstReal
  <2>4. lastRead' \in [Device -> 0..KeyBound]
    BY <2>1, <2>3, DeliverTypes DEF KeysGood
  <2>5. queueCount' = queueCount /\ queueCount \in Nat
    BY DEF ReadKeyStroke, lists, InStep, ListTypes
  <2>6. Len(keyQueue) < queueCount /\ Len(keyQueue) \in Nat /\ Len(keyQueue') \in Nat
    BY <2>2, <2>3, LenProperties DEF KeysGood, QueueFits
  <2>7. QueueFits'
    BY <2>3, <2>5, <2>6 DEF QueueFits
  <2> QED
    BY <2>1, <2>3, <2>4, <2>7 DEF ReadKeyStroke, KeysGood, KeyTypes
<1>2. CASE queued = {}
  <2>1. /\ keyQueue' = <<>>
        /\ devKeys' = [d \in Device |->
             IF d \in from THEN After(devKeys[d], First(RealAt(devKeys[d])))
             ELSE IF d \in emptied THEN <<>> ELSE devKeys[d]]
        /\ \/ UNCHANGED lastRead
           \/ \E d \in from : Deliver(devKeys[d][First(RealAt(devKeys[d]))])
    BY <1>2 DEF ReadKeyStroke
  <2>2. last \in 0..Len(textIn)
    <3>1. textIn \in Seq(Device) /\ Len(textIn) \in Nat
      BY LenProperties DEF InStep, ListTypes
    <3>2. holders \in SUBSET Nat /\ holders \subseteq 1..Len(textIn)
      BY <3>1
    <3>3. CASE holders = {}
      BY <3>1, <3>3
    <3>4. CASE holders # {}
      <4> HIDE DEF holders
      <4>1. First(holders) \in 1..Len(textIn)
        BY <3>2, <3>4, FirstIs
      <4> QED
        BY <3>1, <3>4, <4>1
    <3> QED
      BY <3>3, <3>4
  <2>3. emptied \subseteq Device /\ from \subseteq Device
    <3> HIDE DEF last
    <3>1. \A i \in 1..last : textIn[i] \in Device
      BY <2>2, ElementOfSeq DEF InStep, ListTypes
    <3> QED
      BY <3>1
  <2> HIDE DEF holders, last, emptied
  <2>4. \A d \in from :
          /\ devKeys[d][First(RealAt(devKeys[d]))] \in Key
          /\ After(devKeys[d], First(RealAt(devKeys[d]))) \in Seq(Key)
    BY <2>3, HolderHasKey, FirstReal DEF KeysGood
  <2>5. lastRead' \in [Device -> 0..KeyBound]
    BY <2>1, <2>4, DeliverTypes DEF KeysGood, KeyTypes
  <2>6. devKeys' \in [Device -> Seq(Key)]
    <3> HIDE DEF from
    <3>1. \A d \in Device : devKeys'[d] \in Seq(Key)
      BY <2>1, <2>4 DEF KeysGood, KeyTypes
    <3> QED
      BY <2>1, <3>1
  <2>7. UNCHANGED <<made, cleared, resetMark, partialKeys>> /\ signalled' = FALSE
    BY DEF ReadKeyStroke
  <2>8. keyQueue' \in Seq(Key)
    BY <2>1
  <2> QED
    BY <2>1, <2>5, <2>6, <2>7, <2>8 DEF KeysGood, KeyTypes, QueueFits
<1> QED
  BY <1>1, <1>2

\* What ReadKeyStrokeEx does: the places asked, those whose key is kept, their
\* order, and the keys that go to the queue.
Asks(asked, kept, order, items) ==
  /\ asked \subseteq DOMAIN textInEx /\ kept \subseteq asked /\ order \in InOrder(kept) /\ items \in Seq(Key)
  /\ keyQueue # <<>> => asked = {}
  /\ \A i \in asked : /\ textInEx[i] \in Device
                      /\ devKeys[textInEx[i]] \in Seq(Key) /\ devKeys[textInEx[i]] # <<>>
  /\ \A i \in asked \ kept : ~Real(Head(devKeys[textInEx[i]]))
  /\ devKeys' = [d \in Device |->
       IF \E i \in asked : textInEx[i] = d THEN Tail(devKeys[d]) ELSE devKeys[d]]
  /\ IsFiniteSet(kept) /\ Len(items) = Cardinality(kept) /\ Len(items) <= Len(textInEx)
  /\ \A n \in 1..Len(items) : items[n] = Head(devKeys[textInEx[order[n]]])
  /\ IF keyQueue \o items = <<>> THEN UNCHANGED <<keyQueue, lastRead>>
     ELSE Deliver(Head(keyQueue \o items)) /\ keyQueue' = Tail(keyQueue \o items)

LEMMA KeysAsked ==
  ASSUME InStep, KeysGood, ConInAssumption, ReadKeyStrokeEx
  PROVE  \E asked, kept, order, items : Asks(asked, kept, order, items)
<1> DEFINE HeadOf(i) == Head(devKeys[textInEx[i]])
           Sought(answering) ==
             {i \in DOMAIN textInEx : keyQueue = <<>> /\ textInEx[i] \in answering /\ devKeys[textInEx[i]] # <<>>}
           Kept(answering) == {i \in Sought(answering) : exported \/ Real(HeadOf(i))}
<1>1. PICK answering \in SUBSET ToSet(textInEx) :
        /\ devKeys' = [d \in Device |->
             IF \E i \in Sought(answering) : textInEx[i] = d THEN Tail(devKeys[d]) ELSE devKeys[d]]
        /\ \E order \in InOrder(Kept(answering)) :
             LET queue == keyQueue \o [n \in 1..Cardinality(Kept(answering)) |-> HeadOf(order[n])] IN
             IF queue = <<>>
             THEN UNCHANGED <<keyQueue, lastRead>>
             ELSE Deliver(Head(queue)) /\ keyQueue' = Tail(queue)
  BY DEF ReadKeyStrokeEx
<1> DEFINE asked == Sought(answering)
           kept == Kept(answering)
           size == Cardinality(kept)
<1>2. textInEx \in Seq(Device) /\ Len(textInEx) \in Nat /\ DOMAIN textInEx = 1..Len(textInEx)
  <2>1. ExDevice \subseteq Device /\ textInEx \in Seq(ExDevice)
    BY DEF ConInAssumption, InStep, ListTypes
  <2>2. textInEx \in Seq(Device)
    BY <2>1, SeqMonotonic
  <2> QED
    BY <2>1, <2>2, LenProperties
<1>3. \A i \in asked : /\ i \in 1..Len(textInEx)
                       /\ textInEx[i] \in Device
                       /\ devKeys[textInEx[i]] \in Seq(Key) /\ devKeys[textInEx[i]] # <<>>
                       /\ keyQueue = <<>>
  BY <1>2 DEF KeysGood, KeyTypes
<1>4. \A i \in asked : HeadOf(i) \in Key
  BY <1>3, HeadTailProperties
<1>5. kept \subseteq asked /\ kept \subseteq 1..Len(textInEx)
  BY <1>3
<1>6. \A i \in asked \ kept : ~Real(HeadOf(i))
  OBVIOUS
<1>7. IsFiniteSet(kept) /\ size \in Nat /\ size <= Len(textInEx)
  <2>1. IsFiniteSet(1..Len(textInEx)) /\ Cardinality(1..Len(textInEx)) = Len(textInEx)
    BY <1>2, FiniteUpTo
  <2> HIDE DEF Kept
  <2> QED
    BY <2>1, <1>5, FS_Subset, FS_CardinalityType
<1>8. PICK order \in InOrder(kept) :
        LET queue == keyQueue \o [n \in 1..size |-> HeadOf(order[n])] IN
        IF queue = <<>>
        THEN UNCHANGED <<keyQueue, lastRead>>
        ELSE Deliver(Head(queue)) /\ keyQueue' = Tail(queue)
  BY <1>1
<1> DEFINE items == [n \in 1..size |-> HeadOf(order[n])]
<1>9. /\ items \in Seq(Key) /\ Len(items) = size
      /\ \A n \in 1..size : items[n] = HeadOf(order[n])
  <2> HIDE DEF Kept, Sought
  <2>1. \A n \in 1..size : order[n] \in asked
    BY <1>5 DEF InOrder
  <2>2. \A n \in 1..size : HeadOf(order[n]) \in Key
    BY <2>1, <1>4
  <2> HIDE DEF HeadOf
  <2>3. items \in [1..size -> Key] /\ \A n \in 1..size : items[n] = HeadOf(order[n])
    BY <2>2
  <2> HIDE DEF items
  <2> QED
    BY <2>3, <1>7, MapIsSeq
<1>10. IF keyQueue \o items = <<>> THEN UNCHANGED <<keyQueue, lastRead>>
       ELSE Deliver(Head(keyQueue \o items)) /\ keyQueue' = Tail(keyQueue \o items)
  BY <1>8
<1>11. devKeys' = [d \in Device |-> IF \E i \in asked : textInEx[i] = d THEN Tail(devKeys[d]) ELSE devKeys[d]]
  BY <1>1
<1>12. asked \in SUBSET DOMAIN textInEx /\ (keyQueue # <<>> => asked = {})
  OBVIOUS
<1> HIDE DEF Sought, Kept, asked, kept, size, items
<1>13. asked \subseteq DOMAIN textInEx /\ kept \subseteq asked /\ order \in InOrder(kept) /\ items \in Seq(Key)
  BY <1>5, <1>8, <1>9, <1>12 DEF kept
<1>14. /\ IsFiniteSet(kept) /\ Len(items) = Cardinality(kept) /\ Len(items) <= Len(textInEx)
       /\ \A n \in 1..Len(items) : items[n] = Head(devKeys[textInEx[order[n]]])
  BY <1>7, <1>9 DEF size
<1>15. /\ \A i \in asked : /\ textInEx[i] \in Device
                           /\ devKeys[textInEx[i]] \in Seq(Key) /\ devKeys[textInEx[i]] # <<>>
       /\ \A i \in asked \ kept : ~Real(Head(devKeys[textInEx[i]]))
  BY <1>3, <1>6
<1> HIDE DEF HeadOf
<1>16. Asks(asked, kept, order, items)
  BY <1>10, <1>11, <1>12, <1>13, <1>14, <1>15, Zenon DEF Asks
<1> QED
  BY <1>16, Zenon

\* The queue is filled only when it is empty, with at most one key of each
\* listed device.
LEMMA ReadKeyStrokeExKeeps ==
  ASSUME InStep, KeysGood, ConInAssumption, ReadKeyStrokeEx
  PROVE  KeysGood'
<1>1. PICK asked, kept, order, items : Asks(asked, kept, order, items)
  BY KeysAsked, Zenon
<1>2. /\ keyQueue # <<>> => asked = {}
      /\ \A i \in asked : /\ textInEx[i] \in Device
                          /\ devKeys[textInEx[i]] \in Seq(Key) /\ devKeys[textInEx[i]] # <<>>
      /\ devKeys' = [d \in Device |->
           IF \E i \in asked : textInEx[i] = d THEN Tail(devKeys[d]) ELSE devKeys[d]]
      /\ kept \subseteq asked /\ IsFiniteSet(kept) /\ items \in Seq(Key)
      /\ Len(items) = Cardinality(kept) /\ Len(items) <= Len(textInEx)
      /\ IF keyQueue \o items = <<>> THEN UNCHANGED <<keyQueue, lastRead>>
         ELSE Deliver(Head(keyQueue \o items)) /\ keyQueue' = Tail(keyQueue \o items)
  BY <1>1, Zenon DEF Asks
<1>3. /\ Len(textInEx) \in Nat /\ Len(textInEx) <= queueCount /\ queueCount \in Nat
      /\ keyQueue \in Seq(Key) /\ Len(keyQueue) \in Nat /\ Len(items) \in Nat
  <2>1. Len(textInEx) \in Nat /\ Len(textInEx) <= exCount /\ exCount \in Nat /\ exCount <= queueCount /\ queueCount \in Nat
    BY LenProperties DEF InStep, ListTypes, Fits
  <2>2. keyQueue \in Seq(Key)
    BY DEF KeysGood, KeyTypes
  <2> QED
    BY <2>1, <2>2, LenProperties
<1>4. devKeys' \in [Device -> Seq(Key)]
  <2>1. \A d \in Device : (IF \E i \in asked : textInEx[i] = d THEN Tail(devKeys[d]) ELSE devKeys[d]) \in Seq(Key)
    BY <1>2, HeadTailProperties DEF KeysGood, KeyTypes
  <2> QED
    BY <1>2, <2>1
<1> DEFINE queue == keyQueue \o items
<1>5. queue \in Seq(Key) /\ Len(queue) = Len(keyQueue) + Len(items)
  BY <1>2, <1>3, ConcatProperties
<1>6. Len(queue) <= queueCount
  <2>1. CASE keyQueue = <<>>
    BY <2>1, <1>2, <1>3, <1>5, EmptySeq
  <2>2. CASE keyQueue # <<>>
    <3>1. kept = {}
      BY <1>2, <2>2
    <3>2. Len(items) = 0
      BY <1>2, <3>1, FS_EmptySet
    <3> QED
      BY <2>2, <1>3, <1>5, <3>2 DEF KeysGood, QueueFits
  <2> QED
    BY <2>1, <2>2
<1>7. IF queue = <<>> THEN UNCHANGED <<keyQueue, lastRead>>
      ELSE Deliver(Head(queue)) /\ keyQueue' = Tail(queue)
  BY <1>2
<1> HIDE DEF queue
<1>8. UNCHANGED <<made, cleared, resetMark, partialKeys, queueCount>> /\ signalled' = FALSE
  BY DEF ReadKeyStrokeEx, lists
<1>9. CASE queue = <<>>
  BY <1>4, <1>7, <1>8, <1>9 DEF KeysGood, KeyTypes, QueueFits
<1>10. CASE queue # <<>>
  <2>1. Head(queue) \in Key /\ keyQueue' \in Seq(Key) /\ Len(keyQueue') = Len(queue) - 1 /\ Len(queue) \in Nat
    BY <1>5, <1>7, <1>10, HeadTailProperties, LenProperties
  <2>2. lastRead' \in [Device -> 0..KeyBound]
    BY <2>1, <1>7, <1>10, DeliverTypes DEF KeysGood
  <2>3. QueueFits'
    BY <2>1, <1>3, <1>6, <1>8 DEF QueueFits
  <2> QED
    BY <1>4, <1>8, <2>1, <2>2, <2>3 DEF KeysGood, KeyTypes
<1> QED
  BY <1>9, <1>10

LEMMA ResetDevicesKeeps ==
  ASSUME KeysGood, ToggleTypes, ConInAssumption, NEW list \in Seq(Device), ResetDevices(list)
  PROVE  KeysGood' /\ ToggleTypes'
<1>1. PICK done \in SUBSET ToSet(list) :
       /\ devKeys' = [d \in Device |-> IF d \in done THEN <<>> ELSE devKeys[d]]
       /\ SetOn(done \cap ExDevice, 0)
       /\ cleared' = [d \in Device |-> Max({cleared[d]}
            \cup (IF d \in done THEN {made[d]} ELSE {})
            \cup (IF done = ToSet(list) THEN {key.n : key \in {k \in ToSet(keyQueue) : k.dev = d}} ELSE {}))]
       /\ IF done = ToSet(list)
          THEN /\ physical' = 0 /\ exported' = FALSE
               /\ setting' = [Calm EXCEPT !.kind = "reset"]
               /\ resetMark' = [d \in Device |-> IF d \in done THEN made[d] ELSE resetMark[d]]
               /\ UNCHANGED torn
          ELSE torn' = TRUE /\ UNCHANGED <<physical, exported, setting, resetMark>>
  BY DEF ResetDevices
<1>2. devKeys' \in [Device -> Seq(Key)]
  BY <1>1 DEF KeysGood, KeyTypes
<1>3. devToggle' \in [Device -> Toggle] /\ 0 \in Toggle
  BY <1>1, SetOnTypes DEF Toggle
<1>4. cleared' \in [Device -> 0..KeyBound]
  <2>1. ASSUME NEW d \in Device PROVE cleared'[d] \in 0..KeyBound
    <3> DEFINE queued == {key.n : key \in {k \in ToSet(keyQueue) : k.dev = d}}
               marks == {cleared[d]} \cup (IF d \in done THEN {made[d]} ELSE {})
                        \cup (IF done = ToSet(list) THEN queued ELSE {})
    <3>0. \A i \in DOMAIN keyQueue : keyQueue[i] \in Key
      BY ElementOfSeq, LenProperties DEF KeysGood, KeyTypes
    <3>1. \A key \in ToSet(keyQueue) : key.n \in 0..KeyBound
      BY <3>0 DEF ToSet, Key
    <3>2. queued \subseteq 0..KeyBound
      BY <3>1
    <3>3. cleared[d] \in 0..KeyBound /\ made[d] \in 0..KeyBound
      BY DEF KeysGood, KeyTypes
    <3> HIDE DEF queued
    <3>4. marks \in SUBSET (0..KeyBound) /\ marks # {}
      BY <3>2, <3>3
    <3>5. cleared'[d] = Max(marks)
      BY <1>1 DEF queued
    <3> HIDE DEF marks
    <3> QED
      BY <3>4, <3>5, MaxIs DEF ConInAssumption
  <2> QED
    BY <1>1, <2>1
<1>5. resetMark' \in [Device -> 0..KeyBound]
  BY <1>1 DEF KeysGood, KeyTypes
<1>6. /\ physical' \in Toggle /\ exported' \in BOOLEAN /\ torn' \in BOOLEAN
      /\ setting' \in Settings
  <2>1. [Calm EXCEPT !.kind = "reset"] \in Settings
    BY CalmIs DEF Settings
  <2> QED
    BY <1>1, <1>3, <2>1 DEF ToggleTypes
<1>7. UNCHANGED <<keyQueue, queueCount, made, partialKeys, lastRead, pending>> /\ signalled' = FALSE
  BY DEF ResetDevices, lists
<1> QED
  BY <1>2, <1>3, <1>4, <1>5, <1>6, <1>7 DEF KeysGood, KeyTypes, ToggleTypes, QueueFits

LEMMA WaitForKeyKeeps ==
  ASSUME KeysGood, WaitForKey
  PROVE  KeysGood'
<1>1. signalled' \in BOOLEAN
  <2>1. signalled' = (signalled \/ \E i \in DOMAIN textIn : HasKey(textIn[i]))
    BY DEF WaitForKey
  <2>2. signalled \in BOOLEAN
    BY DEF KeysGood, KeyTypes
  <2> QED
    BY <2>1, <2>2, Zenon
<1> QED
  BY <1>1 DEF WaitForKey, KeysGood, KeyTypes, QueueFits, lists

-----------------------------------------------------------------------------
(* Lists that lose an entry.                                               *)

LEMMA RemoveAtIs ==
  ASSUME NEW S, NEW q \in Seq(S), NEW i \in 1..Len(q)
  PROVE  /\ RemoveAt(q, i) \in Seq(S)
         /\ Len(RemoveAt(q, i)) = Len(q) - 1
         /\ \A j \in 1..Len(q) - 1 : RemoveAt(q, i)[j] = IF j < i THEN q[j] ELSE q[j + 1]
<1> DEFINE front == SubSeq(q, 1, i - 1)
           back == SubSeq(q, i + 1, Len(q))
<1>1. Len(q) \in Nat /\ \A j \in 1..Len(q) : q[j] \in S
  BY LenProperties, ElementOfSeq
<1>2. /\ front \in Seq(S) /\ Len(front) = i - 1
      /\ \A j \in 1..i - 1 : front[j] = q[j]
  <2>1. 1 \in Int /\ i - 1 \in Int /\ \A j \in 1..i - 1 : q[j] \in S
    BY <1>1
  <2>2. /\ front \in Seq(S) /\ Len(front) = (IF 1 <= i - 1 THEN i - 1 - 1 + 1 ELSE 0)
        /\ \A j \in 1..(i - 1) - 1 + 1 : front[j] = q[1 + j - 1]
    BY <2>1, SubSeqProperties
  <2> QED
    BY <2>2, <1>1
<1>3. /\ back \in Seq(S) /\ Len(back) = Len(q) - i
      /\ \A j \in 1..Len(q) - i : back[j] = q[j + i]
  <2>1. i + 1 \in Int /\ Len(q) \in Int /\ \A j \in i + 1..Len(q) : q[j] \in S
    BY <1>1
  <2>2. /\ back \in Seq(S) /\ Len(back) = (IF i + 1 <= Len(q) THEN Len(q) - (i + 1) + 1 ELSE 0)
        /\ \A j \in 1..Len(q) - (i + 1) + 1 : back[j] = q[i + 1 + j - 1]
    BY <2>1, SubSeqProperties
  <2> QED
    BY <2>2, <1>1
<1>4. RemoveAt(q, i) = front \o back
  BY DEF RemoveAt
<1> HIDE DEF front, back
<1>5. /\ front \o back \in Seq(S) /\ Len(front \o back) = Len(q) - 1
      /\ \A j \in 1..Len(q) - 1 : (front \o back)[j] = IF j <= i - 1 THEN front[j] ELSE back[j - (i - 1)]
  <2>1. /\ front \o back \in Seq(S) /\ Len(front \o back) = Len(front) + Len(back)
        /\ \A j \in 1..Len(front) + Len(back) :
             (front \o back)[j] = IF j <= Len(front) THEN front[j] ELSE back[j - Len(front)]
    BY <1>2, <1>3, ConcatProperties
  <2>2. Len(front) + Len(back) = Len(q) - 1
    BY <1>1, <1>2, <1>3
  <2> QED
    BY <2>1, <2>2, <1>2
<1>6. ASSUME NEW j \in 1..Len(q) - 1
      PROVE  (front \o back)[j] = IF j < i THEN q[j] ELSE q[j + 1]
  <2>1. CASE j < i
    <3>1. j \in 1..i - 1
      BY <1>1, <2>1
    <3>2. (front \o back)[j] = front[j]
      BY <1>5, <3>1
    <3> QED
      BY <1>2, <2>1, <3>1, <3>2
  <2>2. CASE ~(j < i)
    <3>1. ~(j <= i - 1) /\ j - (i - 1) \in 1..Len(q) - i /\ j - (i - 1) + i = j + 1
      BY <1>1, <2>2
    <3>2. (front \o back)[j] = back[j - (i - 1)]
      BY <1>5, <3>1
    <3>3. back[j - (i - 1)] = q[j + 1]
      BY <1>3, <3>1
    <3> QED
      BY <2>2, <3>2, <3>3
  <2> QED
    BY <2>1, <2>2
<1> QED
  BY <1>4, <1>5, <1>6

\* Of a list in which everything is once, the entry alone is taken out.
LEMMA RemovedIs ==
  ASSUME NEW S, NEW q \in Seq(S), IsInjective(q), NEW i \in 1..Len(q)
  PROVE  /\ RemoveAt(q, i) \in Seq(S)
         /\ Len(RemoveAt(q, i)) <= Len(q)
         /\ IsInjective(RemoveAt(q, i))
         /\ \A e : e \in ToSet(RemoveAt(q, i)) <=> e \in ToSet(q) /\ e # q[i]
<1> DEFINE r == RemoveAt(q, i)
<1>1. Len(q) \in Nat /\ DOMAIN q = 1..Len(q)
  BY LenProperties
<1>2. /\ r \in Seq(S) /\ Len(r) = Len(q) - 1
      /\ \A j \in 1..Len(q) - 1 : r[j] = IF j < i THEN q[j] ELSE q[j + 1]
  BY RemoveAtIs
<1> HIDE DEF r
<1>3. DOMAIN r = 1..Len(q) - 1
  BY <1>1, <1>2, LenProperties
<1>4. IsInjective(r)
  <2> SUFFICES ASSUME NEW a \in 1..Len(q) - 1, NEW b \in 1..Len(q) - 1, r[a] = r[b]
               PROVE  a = b
    BY <1>3 DEF IsInjective
  <2>1. \A m, n \in 1..Len(q) : q[m] = q[n] => m = n
    BY <1>1 DEF IsInjective
  <2> DEFINE From(j) == IF j < i THEN j ELSE j + 1
  <2>2. From(a) \in 1..Len(q) /\ From(b) \in 1..Len(q) /\ r[a] = q[From(a)] /\ r[b] = q[From(b)]
    BY <1>1, <1>2
  <2>3. From(a) = From(b)
    BY <2>1, <2>2
  <2> QED
    BY <1>1, <2>3
<1>5. ASSUME NEW e PROVE e \in ToSet(r) <=> e \in ToSet(q) /\ e # q[i]
  <2>1. ASSUME e \in ToSet(r) PROVE e \in ToSet(q) /\ e # q[i]
    <3>1. PICK j \in 1..Len(q) - 1 : e = r[j]
      BY <1>3, <2>1 DEF ToSet
    <3> DEFINE m == IF j < i THEN j ELSE j + 1
    <3>2. m \in 1..Len(q) /\ m # i /\ e = q[m]
      BY <1>1, <1>2, <3>1
    <3> HIDE DEF m
    <3>3. \A n \in 1..Len(q) : q[m] = q[n] => m = n
      BY <1>1, <3>2 DEF IsInjective
    <3> QED
      BY <1>1, <3>2, <3>3 DEF ToSet
  <2>2. ASSUME e \in ToSet(q), e # q[i] PROVE e \in ToSet(r)
    <3>1. PICK m \in 1..Len(q) : e = q[m]
      BY <1>1, <2>2 DEF ToSet
    <3>2. m # i
      BY <2>2, <3>1
    <3> DEFINE j == IF m < i THEN m ELSE m - 1
    <3>3. j \in 1..Len(q) - 1 /\ e = r[j]
      BY <1>1, <1>2, <3>1, <3>2
    <3> QED
      BY <1>3, <3>3 DEF ToSet
  <2> QED
    BY <2>1, <2>2
<1>6. Len(r) <= Len(q)
  BY <1>1, <1>2
<1> QED
  BY <1>2, <1>4, <1>5, <1>6 DEF r

LEMMA WithoutIs ==
  ASSUME NEW S, NEW q \in Seq(S), IsInjective(q), NEW d
  PROVE  /\ Without(q, d) \in Seq(S)
         /\ Len(Without(q, d)) <= Len(q)
         /\ IsInjective(Without(q, d))
         /\ \A e : e \in ToSet(Without(q, d)) <=> e \in ToSet(q) /\ e # d
<1> DEFINE places == {i \in DOMAIN q : q[i] = d}
<1>1. Len(q) \in Nat /\ DOMAIN q = 1..Len(q)
  BY LenProperties
<1>2. CASE ~Contains(q, d)
  <2>1. Without(q, d) = q
    BY <1>2 DEF Without
  <2>2. \A e : e \in ToSet(q) <=> e \in ToSet(q) /\ e # d
    BY <1>1, <1>2 DEF ToSet, Contains
  <2> QED
    BY <1>1, <2>1, <2>2
<1>3. CASE Contains(q, d)
  <2> DEFINE i == First(places)
             r == RemoveAt(q, i)
  <2>1. places \in SUBSET Nat /\ places # {}
    BY <1>1, <1>3 DEF Contains
  <2>2. i \in 1..Len(q) /\ q[i] = d
    BY <1>1, <2>1, FirstIs
  <2>3. Without(q, d) = r
    BY <1>3 DEF Without
  <2> HIDE DEF i, places
  <2>4. /\ r \in Seq(S) /\ Len(r) <= Len(q) /\ IsInjective(r)
        /\ \A e : e \in ToSet(r) <=> e \in ToSet(q) /\ e # d
    BY <2>2, RemovedIs
  <2> QED
    BY <2>3, <2>4
<1> QED
  BY <1>2, <1>3

LEMMA StopKeeps ==
  ASSUME InStep, ConInAssumption, NEW d \in Device, Stop(d)
  PROVE  InStep'
<1>1. /\ textInEx' = Without(textInEx, d) /\ textIn' = Without(textIn, d)
      /\ open' = open \ {d} /\ removed' = TRUE
      /\ UNCHANGED <<textInCount, exCount, queueCount, notifyList, devRegs>>
  BY DEF Stop, TextInExDeleteDevice, TextInDeleteDevice
<1>2. /\ textIn' \in Seq(Device) /\ Len(textIn') <= Len(textIn)
      /\ IsInjective(textIn')
      /\ \A e : e \in ToSet(textIn') <=> e \in ToSet(textIn) /\ e # d
  BY <1>1, WithoutIs DEF InStep, ListTypes, ListedOnce
<1>3. /\ textInEx' \in Seq(ExDevice) /\ Len(textInEx') <= Len(textInEx)
      /\ IsInjective(textInEx')
      /\ \A e : e \in ToSet(textInEx') <=> e \in ToSet(textInEx) /\ e # d
  BY <1>1, WithoutIs DEF InStep, ListTypes, ListedOnce
<1>4. ListTypes'
  BY <1>1, <1>2, <1>3 DEF InStep, ListTypes
<1>5. Fits'
  <2>1. /\ Len(textIn) \in Nat /\ Len(textIn') \in Nat /\ Len(textInEx) \in Nat /\ Len(textInEx') \in Nat
        /\ textInCount \in Nat /\ exCount \in Nat
    BY <1>2, <1>3, LenProperties DEF InStep, ListTypes
  <2>2. Len(textIn') <= textInCount /\ Len(textInEx') <= exCount
    BY <2>1, <1>2, <1>3 DEF InStep, Fits
  <2> QED
    BY <2>2, <1>1 DEF InStep, Fits, Capacity
<1>6. RegisteredOnce' /\ HandlesInPlace'
  BY <1>1 DEF InStep, RegisteredOnce, HandlesInPlace
<1>7. NotifyEverywhere'
  <2> SUFFICES ASSUME NEW i \in DOMAIN textInEx'
               PROVE  {notifyList[k].reg : k \in DOMAIN notifyList} \subseteq devRegs[textInEx'[i]]
    BY <1>1 DEF NotifyEverywhere
  <2>1. textInEx'[i] \in ToSet(textInEx')
    BY DEF ToSet
  <2>2. textInEx'[i] \in ToSet(textInEx)
    BY <2>1, <1>3
  <2>3. PICK j \in DOMAIN textInEx : textInEx'[i] = textInEx[j]
    BY <2>2 DEF ToSet
  <2> QED
    BY <2>3 DEF InStep, NotifyEverywhere
<1>8. ListedOnce'
  <2>1. ToSet(textInEx) \subseteq ToSet(textIn) /\ ToSet(textIn) \subseteq open
    BY DEF InStep, ListedOnce
  <2> QED
    BY <2>1, <1>1, <1>2, <1>3 DEF ListedOnce
<1> QED
  BY <1>4, <1>5, <1>6, <1>7, <1>8 DEF InStep

-----------------------------------------------------------------------------
(* Registrations.                                                          *)

Wanted == {notifyList[k].reg : k \in DOMAIN notifyList}

LEMMA NodesAre ==
  ASSUME ListTypes
  PROVE  /\ Len(notifyList) \in Nat /\ DOMAIN notifyList = 1..Len(notifyList)
         /\ Len(textInEx) \in Nat /\ DOMAIN textInEx = 1..Len(textInEx)
         /\ \A k \in DOMAIN notifyList : notifyList[k] \in Node
         /\ \A i \in DOMAIN textInEx : textInEx[i] \in ExDevice
         /\ Wanted \subseteq Regs
<1>1. notifyList \in Seq(Node) /\ textInEx \in Seq(ExDevice)
  BY DEF ListTypes
<1>2. /\ Len(notifyList) \in Nat /\ DOMAIN notifyList = 1..Len(notifyList)
      /\ Len(textInEx) \in Nat /\ DOMAIN textInEx = 1..Len(textInEx)
      /\ \A k \in DOMAIN notifyList : notifyList[k] \in Node
      /\ \A i \in DOMAIN textInEx : textInEx[i] \in ExDevice
  BY <1>1, LenProperties, ElementOfSeq
<1>3. \A k \in DOMAIN notifyList : notifyList[k].reg \in Regs
  BY <1>2 DEF Node
<1> QED
  BY <1>2, <1>3 DEF Wanted

\* What is not registered is not in a node.
LEMMA NewRegistration ==
  ASSUME NEW reg, ~Registered(reg)
  PROVE  reg \notin Wanted
  BY DEF Registered, IsKeyRegistered, Wanted

LEMMA NewNode ==
  ASSUME ListTypes, ConInAssumption, NEW reg \in Regs, Len(textInEx) <= exCount
  PROVE  LET handles == [i \in 1..exCount |-> IF i <= Len(textInEx) THEN textInEx[i] ELSE NoHandle] IN
         /\ handles \in Seq(Device \cup {NoHandle}) /\ Len(handles) = exCount
         /\ \A i \in DOMAIN textInEx : handles[i] = textInEx[i]
<1> DEFINE handles == [i \in 1..exCount |-> IF i <= Len(textInEx) THEN textInEx[i] ELSE NoHandle]
<1>1. /\ exCount \in Nat /\ Len(textInEx) \in Nat /\ DOMAIN textInEx = 1..Len(textInEx)
      /\ \A i \in 1..Len(textInEx) : textInEx[i] \in Device
  BY NodesAre DEF ListTypes, ConInAssumption
<1>2. handles \in [1..exCount -> Device \cup {NoHandle}]
  BY <1>1
<1>3. \A i \in DOMAIN textInEx : handles[i] = textInEx[i]
  BY <1>1
<1> HIDE DEF handles
<1>4. handles \in Seq(Device \cup {NoHandle}) /\ Len(handles) = exCount
  BY <1>1, <1>2, MapIsSeq
<1> QED
  BY <1>3, <1>4 DEF handles

LEMMA RegisterKeeps ==
  ASSUME InStep, ConInAssumption, NEW reg \in Reg, RegisterKeyNotify(reg)
  PROVE  InStep'
<1>1. PICK good \in 0..Len(textInEx) :
       IF good = Len(textInEx)
       THEN /\ devRegs' = [d \in Device |->
                 IF Contains(textInEx, d) THEN devRegs[d] \cup {reg} ELSE devRegs[d]]
            /\ notifyList' = Append(notifyList, [reg |-> reg, handles |->
                 [i \in 1..exCount |-> IF i <= good THEN textInEx[i] ELSE NoHandle]])
       ELSE /\ devRegs' = [d \in Device |->
                 IF \E i \in 1..good : textInEx[i] = d THEN devRegs[d] \ {reg} ELSE devRegs[d]]
            /\ UNCHANGED notifyList
  BY DEF RegisterKeyNotify
<1>2. reg \in Regs /\ reg \notin Wanted
  BY NewRegistration DEF RegisterKeyNotify, Regs
<1>3. UNCHANGED <<textIn, textInCount, textInEx, exCount, queueCount, open, removed>>
  BY DEF RegisterKeyNotify
<1>4. ListTypes
  BY DEF InStep
<1>5. /\ Len(notifyList) \in Nat /\ DOMAIN notifyList = 1..Len(notifyList)
      /\ Len(textInEx) \in Nat /\ DOMAIN textInEx = 1..Len(textInEx)
      /\ \A i \in DOMAIN textInEx : textInEx[i] \in Device
  BY <1>4, NodesAre DEF ConInAssumption
<1>6. ListedOnce'
  BY <1>3 DEF InStep, ListedOnce
<1>7. \A i \in DOMAIN textInEx : Wanted \subseteq devRegs[textInEx[i]] /\ (~removed => devRegs[textInEx[i]] = Wanted)
  BY DEF InStep, NotifyEverywhere, Wanted
<1>8. CASE good # Len(textInEx)
  <2>1. /\ devRegs' = [d \in Device |->
             IF \E i \in 1..good : textInEx[i] = d THEN devRegs[d] \ {reg} ELSE devRegs[d]]
        /\ UNCHANGED notifyList
    BY <1>1, <1>8
  <2>2. \A d \in Device : devRegs'[d] \subseteq devRegs[d] /\ devRegs[d] \subseteq devRegs'[d] \cup {reg}
    BY <2>1
  <2>3. ListTypes'
    BY <1>3, <1>4, <2>1 DEF ListTypes
  <2>4. Fits' /\ RegisteredOnce'
    BY <1>3, <2>1 DEF InStep, Fits, RegisteredOnce, Capacity
  <2>5. HandlesInPlace'
    BY <1>3, <2>1 DEF InStep, HandlesInPlace
  <2>6. NotifyEverywhere'
    BY <1>2, <1>3, <1>5, <1>7, <2>1, <2>2 DEF NotifyEverywhere, Wanted
  <2> QED
    BY <1>6, <2>3, <2>4, <2>5, <2>6 DEF InStep
<1>9. CASE good = Len(textInEx)
  <2> DEFINE handles == [i \in 1..exCount |-> IF i <= Len(textInEx) THEN textInEx[i] ELSE NoHandle]
             node == [reg |-> reg, handles |-> handles]
  <2>1. /\ devRegs' = [d \in Device |->
             IF Contains(textInEx, d) THEN devRegs[d] \cup {reg} ELSE devRegs[d]]
        /\ notifyList' = Append(notifyList, node)
    BY <1>1, <1>9
  <2>2. /\ handles \in Seq(Device \cup {NoHandle}) /\ Len(handles) = exCount
        /\ \A i \in DOMAIN textInEx : handles[i] = textInEx[i]
    BY <1>2, <1>4, NewNode DEF InStep, Fits
  <2>3. node \in Node
    BY <1>2, <2>2 DEF Node
  <2>4. node.reg = reg /\ node.handles = handles
    OBVIOUS
  <2> HIDE DEF handles, node
  <2>5. /\ notifyList' \in Seq(Node) /\ Len(notifyList') = Len(notifyList) + 1
        /\ \A k \in 1..Len(notifyList) : notifyList'[k] = notifyList[k]
        /\ notifyList'[Len(notifyList) + 1] = node
    BY <1>4, <2>1, <2>3, AppendProperties DEF ListTypes
  <2>6. DOMAIN notifyList' = 1..Len(notifyList) + 1
    BY <2>5, LenProperties
  <2>7. ListTypes'
    <3>1. devRegs' \in [Device -> SUBSET Regs]
      BY <1>2, <1>4, <2>1 DEF ListTypes
    <3> QED
      BY <1>3, <1>4, <2>5, <3>1 DEF ListTypes
  <2>8. \A k \in DOMAIN notifyList' : (k \in DOMAIN notifyList /\ notifyList'[k] = notifyList[k])
                                      \/ (k = Len(notifyList) + 1 /\ notifyList'[k] = node)
    BY <1>5, <2>5, <2>6
  <2>9. Fits'
    <3>1. \A k \in DOMAIN notifyList : exCount <= Len(notifyList[k].handles) /\ Len(notifyList[k].handles) <= exCount + Unit
      BY DEF InStep, Fits, Capacity
    <3>2. exCount <= Len(node.handles) /\ Len(node.handles) <= exCount + Unit
      BY <1>4, <2>2, <2>4 DEF ListTypes, ConInAssumption
    <3> QED
      BY <1>3, <2>8, <3>1, <3>2 DEF InStep, Fits, Capacity
  <2>10. RegisteredOnce'
    <3>1. \A k \in DOMAIN notifyList : notifyList[k].reg # reg
      BY <1>2 DEF Wanted
    <3> QED
      BY <2>4, <2>8, <3>1 DEF InStep, RegisteredOnce
  <2>11. HandlesInPlace'
    <3>1. ASSUME ~removed, NEW k \in DOMAIN notifyList', NEW i \in DOMAIN textInEx
          PROVE  notifyList'[k].handles[i] = textInEx[i]
      BY <2>2, <2>4, <2>8, <3>1 DEF InStep, HandlesInPlace
    <3>2. ASSUME ~removed, NEW d \in Device, \A i \in DOMAIN textInEx : textInEx[i] # d
          PROVE  devRegs'[d] = {}
      BY <1>5, <2>1, <3>2 DEF InStep, HandlesInPlace, Contains
    <3> QED
      BY <1>3, <3>1, <3>2 DEF HandlesInPlace
  <2>12. Wanted' = Wanted \cup {reg}
    BY <1>5, <2>4, <2>5, <2>6 DEF Wanted
  <2>13. NotifyEverywhere'
    <3>1. \A i \in DOMAIN textInEx : devRegs'[textInEx[i]] = devRegs[textInEx[i]] \cup {reg}
      BY <1>5, <2>1 DEF Contains
    <3>2. \A i \in DOMAIN textInEx' :
            Wanted' \subseteq devRegs'[textInEx'[i]] /\ (~removed' => devRegs'[textInEx'[i]] = Wanted')
      BY <1>3, <1>7, <2>12, <3>1
    <3> QED
      BY <3>2 DEF NotifyEverywhere, Wanted
  <2> QED
    BY <1>6, <2>7, <2>9, <2>10, <2>11, <2>13 DEF InStep
<1> QED
  BY <1>8, <1>9

LEMMA UnregisterKeeps ==
  ASSUME InStep, ConInAssumption, NEW k \in 2..Len(notifyList), UnregisterKeyNotify(k)
  PROVE  InStep'
<1> DEFINE node == notifyList[k]
<1>1. /\ devRegs' = [d \in Device |->
           IF \E i \in DOMAIN textInEx : textInEx[i] = d /\ node.handles[i] = d
           THEN devRegs[d] \ {node.reg} ELSE devRegs[d]]
      /\ notifyList' = RemoveAt(notifyList, k)
      /\ UNCHANGED <<textIn, textInCount, textInEx, exCount, queueCount, open, removed>>
  BY DEF UnregisterKeyNotify
<1>2. ListTypes
  BY DEF InStep
<1>3. /\ Len(notifyList) \in Nat /\ DOMAIN notifyList = 1..Len(notifyList)
      /\ Len(textInEx) \in Nat /\ DOMAIN textInEx = 1..Len(textInEx)
      /\ \A i \in DOMAIN textInEx : textInEx[i] \in Device
      /\ k \in 1..Len(notifyList) /\ notifyList \in Seq(Node)
  BY <1>2, NodesAre DEF ConInAssumption, ListTypes
<1>4. /\ notifyList' \in Seq(Node) /\ Len(notifyList') = Len(notifyList) - 1
      /\ \A j \in 1..Len(notifyList) - 1 : notifyList'[j] = IF j < k THEN notifyList[j] ELSE notifyList[j + 1]
  BY <1>1, <1>3, RemoveAtIs
<1> DEFINE From(j) == IF j < k THEN j ELSE j + 1
<1>5. DOMAIN notifyList' = 1..Len(notifyList) - 1
  BY <1>4, LenProperties
<1>6. \A j \in DOMAIN notifyList' :
        From(j) \in DOMAIN notifyList /\ From(j) # k /\ notifyList'[j] = notifyList[From(j)]
  BY <1>3, <1>4, <1>5
<1>7. \A i, j \in DOMAIN notifyList' : From(i) = From(j) => i = j
  BY <1>3, <1>5
<1>8. \A d \in Device : devRegs'[d] \subseteq devRegs[d] /\ devRegs[d] \subseteq devRegs'[d] \cup {node.reg}
  BY <1>1
<1> HIDE DEF From
<1>9. ListTypes'
  <2>1. devRegs' \in [Device -> SUBSET Regs]
    BY <1>1, <1>2 DEF ListTypes
  <2> QED
    BY <1>1, <1>2, <1>4, <2>1 DEF ListTypes
<1>10. Fits'
  BY <1>1, <1>6 DEF InStep, Fits, Capacity
<1>11. RegisteredOnce'
  BY <1>6, <1>7 DEF InStep, RegisteredOnce
<1>12. \A j \in DOMAIN notifyList' : notifyList'[j].reg \in Wanted /\ notifyList'[j].reg # node.reg
  BY <1>3, <1>6 DEF InStep, RegisteredOnce, Wanted
<1>13. Wanted' = Wanted \ {node.reg}
  <2>1. Wanted' \subseteq Wanted \ {node.reg}
    BY <1>12 DEF Wanted
  <2>2. ASSUME NEW l \in DOMAIN notifyList, l # k
        PROVE  \E j \in DOMAIN notifyList' : notifyList'[j] = notifyList[l]
    <3> DEFINE j == IF l < k THEN l ELSE l - 1
    <3>1. j \in 1..Len(notifyList) - 1 /\ l = (IF j < k THEN j ELSE j + 1)
      BY <1>3, <2>2
    <3>2. notifyList'[j] = notifyList[l]
      BY <1>4, <3>1
    <3> QED
      BY <1>5, <3>1, <3>2
  <2>3. Wanted \ {node.reg} \subseteq Wanted'
    BY <2>2 DEF Wanted
  <2> QED
    BY <2>1, <2>3
<1>14. HandlesInPlace'
  <2>1. ASSUME ~removed, NEW j \in DOMAIN notifyList', NEW i \in DOMAIN textInEx
        PROVE  notifyList'[j].handles[i] = textInEx[i]
    BY <1>6, <2>1 DEF InStep, HandlesInPlace
  <2>2. ASSUME ~removed, NEW d \in Device, \A i \in DOMAIN textInEx : textInEx[i] # d
        PROVE  devRegs'[d] = {}
    BY <1>8, <2>2 DEF InStep, HandlesInPlace
  <2> QED
    BY <1>1, <2>1, <2>2 DEF HandlesInPlace
<1>15. NotifyEverywhere'
  <2>1. \A i \in DOMAIN textInEx : Wanted \subseteq devRegs[textInEx[i]] /\ (~removed => devRegs[textInEx[i]] = Wanted)
    BY DEF InStep, NotifyEverywhere, Wanted
  <2>2. \A i \in DOMAIN textInEx : Wanted' \subseteq devRegs'[textInEx[i]]
    BY <1>3, <1>8, <1>13, <2>1
  <2>3. ASSUME ~removed, NEW i \in DOMAIN textInEx PROVE devRegs'[textInEx[i]] = Wanted'
    <3>1. node.handles[i] = textInEx[i]
      BY <1>3, <2>3 DEF InStep, HandlesInPlace
    <3>2. devRegs'[textInEx[i]] = devRegs[textInEx[i]] \ {node.reg}
      BY <1>1, <1>3, <3>1
    <3> QED
      BY <1>13, <2>1, <2>3, <3>2
  <2>4. \A i \in DOMAIN textInEx' :
          Wanted' \subseteq devRegs'[textInEx'[i]] /\ (~removed' => devRegs'[textInEx'[i]] = Wanted')
    BY <1>1, <2>2, <2>3
  <2> QED
    BY <2>4 DEF NotifyEverywhere, Wanted
<1>16. ListedOnce'
  BY <1>1 DEF InStep, ListedOnce
<1> QED
  BY <1>9, <1>10, <1>11, <1>14, <1>15, <1>16 DEF InStep

-----------------------------------------------------------------------------
(* Devices that come.                                                      *)

LEMMA GrownIs ==
  ASSUME ListTypes, ConInAssumption, NEW node \in Node, Capacity(node) <= exCount + Unit
  PROVE  /\ Grown(node) \in Node /\ Grown(node).reg = node.reg
         /\ Capacity(Grown(node)) = exCount + Unit
         /\ \A i \in 1..Capacity(node) : Grown(node).handles[i] = node.handles[i]
<1> DEFINE Handle == Device \cup {NoHandle}
           more == exCount + Unit - Capacity(node)
           blank == [i \in 1..more |-> NoHandle]
<1>1. node.handles \in Seq(Handle) /\ Capacity(node) = Len(node.handles) /\ Len(node.handles) \in Nat /\ node.reg \in Regs
  BY LenProperties DEF Node, Capacity
<1>2. more \in Nat /\ Len(node.handles) + more = exCount + Unit
  BY <1>1 DEF ListTypes, ConInAssumption
<1> HIDE DEF more
<1>3. blank \in [1..more -> Handle]
  OBVIOUS
<1>4. blank \in Seq(Handle) /\ Len(blank) = more
  BY <1>2, <1>3, MapIsSeq
<1> HIDE DEF blank
<1>5. /\ node.handles \o blank \in Seq(Handle)
      /\ Len(node.handles \o blank) = Len(node.handles) + more
      /\ \A i \in 1..Len(node.handles) + more :
           (node.handles \o blank)[i] = IF i <= Len(node.handles) THEN node.handles[i] ELSE blank[i - Len(node.handles)]
  BY <1>1, <1>4, ConcatProperties
<1>6. Grown(node) = [node EXCEPT !.handles = node.handles \o blank]
  BY DEF Grown, blank, more
<1>7. Grown(node).reg = node.reg /\ Grown(node).handles = node.handles \o blank /\ Grown(node) \in Node
  BY <1>5, <1>6 DEF Node
<1> QED
  BY <1>1, <1>2, <1>5, <1>7 DEF Capacity

LEMMA PlacedIs ==
  ASSUME NEW node \in Node, NEW spot \in 1..Capacity(node), NEW d \in Device
  PROVE  LET n == [node EXCEPT !.handles[spot] = d] IN
         /\ n \in Node /\ n.reg = node.reg /\ Capacity(n) = Capacity(node)
         /\ n.handles[spot] = d
         /\ \A i \in 1..Capacity(node) : i # spot => n.handles[i] = node.handles[i]
<1> DEFINE Handle == Device \cup {NoHandle}
           n == [node EXCEPT !.handles[spot] = d]
           placed == [node.handles EXCEPT ![spot] = d]
<1>1. node.handles \in Seq(Handle) /\ Capacity(node) = Len(node.handles) /\ node.reg \in Regs /\ d \in Handle
  BY DEF Node, Capacity
<1>2. /\ placed \in Seq(Handle) /\ Len(placed) = Len(node.handles)
      /\ \A i \in 1..Len(node.handles) : placed[i] = IF i = spot THEN d ELSE node.handles[i]
  BY <1>1, ExceptSeq
<1>3. n = [node EXCEPT !.handles = placed]
  OBVIOUS
<1> HIDE DEF placed
<1>4. n.reg = node.reg /\ n.handles = placed /\ n \in Node
  BY <1>1, <1>2, <1>3 DEF Node
<1> HIDE DEF n
<1> QED
  BY <1>1, <1>2, <1>4 DEF Capacity, n

\* A list of the same registrations, whose nodes have a place for each device
\* of the list and for one more.
Roomy(list, space) ==
  /\ list \in Seq(Node) /\ Len(list) = Len(notifyList)
  /\ space \in Nat /\ Len(textInEx) < space
  /\ \A k \in DOMAIN notifyList :
       /\ list[k].reg = notifyList[k].reg
       /\ space <= Capacity(list[k]) /\ Capacity(list[k]) <= space + Unit
       /\ \A i \in DOMAIN textInEx : list[k].handles[i] = notifyList[k].handles[i]

\* What Start leaves of the lists besides those of the extended devices.
Joined(d) ==
  /\ d \notin open /\ open' = open \cup {d} /\ removed' = removed
  /\ textIn' \in Seq(Device) /\ textInCount' \in Nat /\ Len(textIn') <= textInCount'
  /\ IsInjective(textIn') /\ ToSet(textIn') \subseteq open'
  /\ ToSet(textIn) \subseteq ToSet(textIn')

LEMMA SameEx ==
  ASSUME InStep, ConInAssumption, NEW d \in Device, Joined(d),
         UNCHANGED <<textInEx, exCount, queueCount, notifyList, devRegs>>
  PROVE  InStep'
<1>1. ListTypes'
  BY DEF InStep, ListTypes, Joined
<1>2. Fits'
  BY DEF InStep, Fits, Joined, Capacity
<1>3. RegisteredOnce' /\ HandlesInPlace' /\ NotifyEverywhere'
  BY DEF InStep, RegisteredOnce, HandlesInPlace, NotifyEverywhere, Joined
<1>4. ListedOnce'
  BY DEF InStep, ListedOnce, Joined
<1> QED
  BY <1>1, <1>2, <1>3, <1>4 DEF InStep

LEMMA JoinExKeeps ==
  ASSUME InStep, ConInAssumption, NEW d \in ExDevice, Joined(d), d \in ToSet(textIn'),
         NEW list, NEW space, Roomy(list, space), JoinEx(d, list),
         exCount' = space, queueCount' \in Nat, space <= queueCount', queueCount' <= space + Unit
  PROVE  InStep'
<1> DEFINE spot == Len(textInEx) + 1
           Placed(k) == [list[k] EXCEPT !.handles[spot] = d]
<1>1. PICK good \in 0..Len(list) :
        /\ notifyList' = [k \in DOMAIN list |-> IF k <= good THEN Placed(k) ELSE list[k]]
        /\ IF good = Len(list)
           THEN /\ textInEx' = Append(textInEx, d)
                /\ devRegs' = [devRegs EXCEPT ![d] = @ \cup {list[k].reg : k \in 1..good}]
           ELSE /\ devRegs' = [devRegs EXCEPT ![d] = @ \ {list[k].reg : k \in 1..good}]
                /\ UNCHANGED textInEx
  BY DEF JoinEx
<1>2. ListTypes /\ d \in Device
  BY DEF InStep, ConInAssumption
<1>3. /\ Len(notifyList) \in Nat /\ DOMAIN notifyList = 1..Len(notifyList)
      /\ Len(textInEx) \in Nat /\ DOMAIN textInEx = 1..Len(textInEx)
      /\ \A i \in DOMAIN textInEx : textInEx[i] \in Device /\ textInEx[i] # d
      /\ Wanted \subseteq Regs
  <2>1. \A i \in DOMAIN textInEx : textInEx[i] \in open /\ d \notin open
    BY DEF InStep, ListedOnce, ToSet, Joined
  <2> QED
    BY <1>2, <2>1, NodesAre DEF ConInAssumption
<1>4. /\ list \in Seq(Node) /\ Len(list) = Len(notifyList) /\ DOMAIN list = 1..Len(notifyList)
      /\ space \in Nat /\ Len(textInEx) < space
      /\ \A k \in 1..Len(notifyList) :
           /\ list[k] \in Node /\ list[k].reg = notifyList[k].reg
           /\ space <= Capacity(list[k]) /\ Capacity(list[k]) <= space + Unit
           /\ \A i \in DOMAIN textInEx : list[k].handles[i] = notifyList[k].handles[i]
  BY <1>3, LenProperties, ElementOfSeq DEF Roomy
<1>5. \A k \in 1..Len(notifyList) : Capacity(list[k]) \in Nat /\ spot \in 1..Capacity(list[k])
  <2> TAKE k \in 1..Len(notifyList)
  <2>1. Capacity(list[k]) \in Nat
    BY <1>4, LenProperties DEF Capacity, Node
  <2> QED
    BY <2>1, <1>3, <1>4
<1>6. \A k \in 1..Len(notifyList) :
        /\ Placed(k) \in Node /\ Placed(k).reg = list[k].reg /\ Capacity(Placed(k)) = Capacity(list[k])
        /\ Placed(k).handles[spot] = d
        /\ \A i \in 1..Capacity(list[k]) : i # spot => Placed(k).handles[i] = list[k].handles[i]
  <2> TAKE k \in 1..Len(notifyList)
  <2>1. list[k] \in Node /\ spot \in 1..Capacity(list[k]) /\ d \in Device
    BY <1>2, <1>4, <1>5
  <2> HIDE DEF spot
  <2> QED
    BY <2>1, PlacedIs
<1>7. \A k \in 1..Len(notifyList) : \A i \in DOMAIN textInEx : i \in 1..Capacity(list[k]) /\ i # spot
  BY <1>3, <1>5
<1> HIDE DEF Placed, spot
<1>8. \A k \in 1..Len(notifyList) :
        /\ notifyList'[k] \in Node /\ notifyList'[k].reg = notifyList[k].reg
        /\ space <= Capacity(notifyList'[k]) /\ Capacity(notifyList'[k]) <= space + Unit
        /\ \A i \in DOMAIN textInEx : notifyList'[k].handles[i] = notifyList[k].handles[i]
        /\ k <= good => notifyList'[k].handles[spot] = d
  <2> TAKE k \in 1..Len(notifyList)
  <2>1. notifyList'[k] = IF k <= good THEN Placed(k) ELSE list[k]
    BY <1>1, <1>4
  <2>2. CASE k <= good
    BY <2>1, <2>2, <1>4, <1>6, <1>7
  <2>3. CASE ~(k <= good)
    BY <2>1, <2>3, <1>4
  <2> QED
    BY <2>2, <2>3
<1>9. notifyList' \in Seq(Node) /\ Len(notifyList') = Len(notifyList) /\ DOMAIN notifyList' = 1..Len(notifyList)
  <2>1. notifyList' \in [1..Len(notifyList) -> Node]
    BY <1>1, <1>4, <1>8
  <2> QED
    BY <2>1, <1>3, MapIsSeq
<1>10. Wanted' = Wanted
  BY <1>3, <1>8, <1>9 DEF Wanted
<1> DEFINE taken == {list[k].reg : k \in 1..good}
<1>11. taken \subseteq Wanted /\ (good = Len(list) => Wanted \subseteq taken)
  <2>1. \A k \in 1..good : k \in DOMAIN notifyList /\ list[k].reg = notifyList[k].reg
    BY <1>3, <1>4
  <2>2. taken \subseteq Wanted
    BY <2>1 DEF Wanted
  <2>3. ASSUME good = Len(list) PROVE Wanted \subseteq taken
    <3>1. \A k \in DOMAIN notifyList : k \in 1..good /\ list[k].reg = notifyList[k].reg
      BY <1>3, <1>4, <2>3
    <3> QED
      BY <3>1 DEF Wanted
  <2> QED
    BY <2>2, <2>3
<1>12. /\ devRegs' \in [Device -> SUBSET Regs]
       /\ \A e \in Device : e # d => devRegs'[e] = devRegs[e]
       /\ devRegs'[d] \subseteq devRegs[d] \cup Wanted
       /\ good = Len(list) => Wanted \subseteq devRegs'[d]
       /\ good # Len(list) => devRegs'[d] \subseteq devRegs[d]
  <2>1. devRegs' = [devRegs EXCEPT ![d] = IF good = Len(list) THEN @ \cup taken ELSE @ \ taken]
    BY <1>1
  <2> HIDE DEF taken
  <2>2. devRegs \in [Device -> SUBSET Regs] /\ taken \subseteq Regs
    BY <1>2, <1>3, <1>11 DEF ListTypes
  <2>3. /\ \A e \in Device : e # d => devRegs'[e] = devRegs[e]
        /\ devRegs'[d] = IF good = Len(list) THEN devRegs[d] \cup taken ELSE devRegs[d] \ taken
    BY <1>2, <2>1, <2>2
  <2>4. devRegs' \in [Device -> SUBSET Regs]
    BY <1>2, <2>1, <2>2
  <2> QED
    BY <1>11, <2>3, <2>4
<1>13. RegisteredOnce'
  BY <1>3, <1>8, <1>9 DEF InStep, RegisteredOnce
<1>14. ~removed => devRegs[d] = {}
  BY <1>2, <1>3 DEF InStep, HandlesInPlace
<1>15. \A i \in DOMAIN textInEx : Wanted \subseteq devRegs[textInEx[i]] /\ (~removed => devRegs[textInEx[i]] = Wanted)
  BY DEF InStep, NotifyEverywhere, Wanted
<1>16. removed' = removed /\ open' = open \cup {d} /\ IsInjective(textIn')
       /\ ToSet(textIn') \subseteq open' /\ ToSet(textIn) \subseteq ToSet(textIn')
  BY DEF Joined
<1>17. CASE good # Len(list)
  <2>1. UNCHANGED textInEx
    BY <1>1, <1>17
  <2>2. ListTypes'
    BY <1>2, <1>4, <1>9, <1>12, <2>1 DEF ListTypes, Joined
  <2>3. Fits'
    BY <1>3, <1>4, <1>8, <1>9, <2>1 DEF Fits, Joined, Capacity
  <2>4. HandlesInPlace'
    <3>1. ASSUME ~removed, NEW e \in Device, \A i \in DOMAIN textInEx : textInEx[i] # e
          PROVE  devRegs'[e] = {}
      BY <1>2, <1>12, <1>14, <1>17, <3>1 DEF InStep, HandlesInPlace
    <3>2. ASSUME ~removed, NEW k \in DOMAIN notifyList', NEW i \in DOMAIN textInEx
          PROVE  notifyList'[k].handles[i] = textInEx[i]
      BY <1>3, <1>8, <1>9, <3>2 DEF InStep, HandlesInPlace
    <3> QED
      BY <1>16, <2>1, <3>1, <3>2 DEF HandlesInPlace
  <2>5. NotifyEverywhere'
    <3>1. \A i \in DOMAIN textInEx' :
            Wanted' \subseteq devRegs'[textInEx'[i]] /\ (~removed' => devRegs'[textInEx'[i]] = Wanted')
      BY <1>3, <1>10, <1>12, <1>15, <1>16, <2>1
    <3> QED
      BY <3>1 DEF NotifyEverywhere, Wanted
  <2>6. ListedOnce'
    BY <1>16, <2>1 DEF InStep, ListedOnce
  <2> QED
    BY <1>13, <2>2, <2>3, <2>4, <2>5, <2>6 DEF InStep
<1>18. CASE good = Len(list)
  <2>1. textInEx' = Append(textInEx, d)
    BY <1>1, <1>18
  <2>2. /\ textInEx' \in Seq(ExDevice) /\ Len(textInEx') = spot
        /\ \A i \in 1..Len(textInEx) : textInEx'[i] = textInEx[i]
        /\ textInEx'[spot] = d
    BY <1>2, <2>1, AppendProperties DEF ListTypes, spot
  <2>3. DOMAIN textInEx' = 1..spot
    BY <2>2, LenProperties
  <2>4. /\ \A i \in DOMAIN textInEx' : (i \in DOMAIN textInEx /\ textInEx'[i] = textInEx[i]) \/ (i = spot /\ textInEx'[i] = d)
        /\ \A i \in DOMAIN textInEx : i \in DOMAIN textInEx'
        /\ spot \in DOMAIN textInEx'
    BY <1>3, <2>2, <2>3 DEF spot
  <2>5. ListTypes'
    BY <1>2, <1>4, <1>9, <1>12, <2>2 DEF ListTypes, Joined
  <2>6. Fits'
    <3>1. spot <= space
      BY <1>3, <1>4 DEF spot
    <3> QED
      BY <1>8, <1>9, <2>2, <3>1 DEF Fits, Joined, Capacity
  <2>7. HandlesInPlace'
    <3>1. ASSUME ~removed, NEW e \in Device, \A i \in DOMAIN textInEx' : textInEx'[i] # e
          PROVE  devRegs'[e] = {}
      <4>1. e # d /\ \A i \in DOMAIN textInEx : textInEx[i] # e
        BY <2>2, <2>4, <3>1, <1>3
      <4> QED
        BY <1>12, <3>1, <4>1 DEF InStep, HandlesInPlace
    <3>2. ASSUME ~removed, NEW k \in DOMAIN notifyList', NEW i \in DOMAIN textInEx'
          PROVE  notifyList'[k].handles[i] = textInEx'[i]
      <4>1. k \in DOMAIN notifyList /\ k <= good
        BY <1>3, <1>4, <1>9, <1>18
      <4>2. CASE i \in DOMAIN textInEx /\ textInEx'[i] = textInEx[i]
        BY <1>3, <1>8, <3>2, <4>1, <4>2 DEF InStep, HandlesInPlace
      <4>3. CASE i = spot /\ textInEx'[i] = d
        BY <1>3, <1>8, <4>1, <4>3
      <4> QED
        BY <2>4, <4>2, <4>3
    <3> QED
      BY <1>16, <3>1, <3>2 DEF HandlesInPlace
  <2>8. NotifyEverywhere'
    <3>1. Wanted \subseteq devRegs'[d] /\ (~removed => devRegs'[d] = Wanted)
      BY <1>12, <1>14, <1>18
    <3>2. \A i \in DOMAIN textInEx' :
            Wanted' \subseteq devRegs'[textInEx'[i]] /\ (~removed' => devRegs'[textInEx'[i]] = Wanted')
      BY <1>3, <1>10, <1>12, <1>15, <1>16, <2>4, <3>1
    <3> QED
      BY <3>2 DEF NotifyEverywhere, Wanted
  <2>9. ListedOnce'
    <3>1. IsInjective(textInEx')
      BY <1>3, <2>4 DEF InStep, ListedOnce, IsInjective
    <3>2. ToSet(textInEx') \subseteq ToSet(textInEx) \cup {d}
      BY <2>4 DEF ToSet
    <3> QED
      BY <1>16, <3>1, <3>2 DEF InStep, ListedOnce
  <2> QED
    BY <1>13, <2>5, <2>6, <2>7, <2>8, <2>9 DEF InStep
<1> QED
  BY <1>17, <1>18

\* A growth that fails on its way leaves larger buffers behind.
LEMMA GrowAllKeeps ==
  ASSUME InStep, ConInAssumption, NEW d \in Device, Joined(d),
         NEW done \in 0..Len(notifyList) + 1, GrowAll(done), UNCHANGED <<textInEx, devRegs>>
  PROVE  InStep'
<1>1. ListTypes /\ exCount \in Nat /\ Unit \in Nat
  BY DEF InStep, ListTypes, ConInAssumption
<1>2. /\ Len(notifyList) \in Nat /\ DOMAIN notifyList = 1..Len(notifyList)
      /\ \A k \in DOMAIN notifyList : notifyList[k] \in Node
  BY <1>1, NodesAre
<1>3. exCount' = exCount
  BY <1>2 DEF GrowAll
<1>4. /\ queueCount' \in Nat /\ exCount <= queueCount' /\ queueCount' <= exCount + Unit
  BY <1>1 DEF GrowAll, InStep, ListTypes, Fits
<1>5. \A k \in DOMAIN notifyList :
        /\ notifyList'[k] \in Node /\ notifyList'[k].reg = notifyList[k].reg
        /\ exCount <= Capacity(notifyList'[k]) /\ Capacity(notifyList'[k]) <= exCount + Unit
        /\ \A i \in DOMAIN textInEx : notifyList'[k].handles[i] = notifyList[k].handles[i]
  <2> TAKE k \in DOMAIN notifyList
  <2>1. notifyList'[k] = IF k <= done THEN Grown(notifyList[k]) ELSE notifyList[k]
    BY DEF GrowAll
  <2>2. exCount <= Capacity(notifyList[k]) /\ Capacity(notifyList[k]) <= exCount + Unit
    BY DEF InStep, Fits
  <2>3. \A i \in DOMAIN textInEx : i \in 1..Capacity(notifyList[k])
    <3>1. Capacity(notifyList[k]) \in Nat
      BY <1>2, LenProperties DEF Capacity, Node
    <3>2. DOMAIN textInEx = 1..Len(textInEx) /\ Len(textInEx) \in Nat /\ Len(textInEx) <= exCount
      BY <1>1, NodesAre DEF InStep, Fits
    <3> QED
      BY <1>1, <2>2, <3>1, <3>2
  <2>4. CASE k <= done
    <3>1. /\ Grown(notifyList[k]) \in Node /\ Grown(notifyList[k]).reg = notifyList[k].reg
          /\ Capacity(Grown(notifyList[k])) = exCount + Unit
          /\ \A i \in 1..Capacity(notifyList[k]) : Grown(notifyList[k]).handles[i] = notifyList[k].handles[i]
      BY <1>1, <1>2, <2>2, GrownIs
    <3>2. notifyList'[k] = Grown(notifyList[k]) /\ exCount <= exCount + Unit /\ exCount + Unit <= exCount + Unit
      BY <1>1, <2>1, <2>4
    <3> QED
      BY <2>3, <3>1, <3>2
  <2>5. CASE ~(k <= done)
    BY <1>2, <2>1, <2>2, <2>5
  <2> QED
    BY <2>4, <2>5
<1>6. notifyList' \in Seq(Node) /\ DOMAIN notifyList' = DOMAIN notifyList
  <2>1. notifyList' \in [1..Len(notifyList) -> Node]
    BY <1>2, <1>5 DEF GrowAll
  <2> QED
    BY <2>1, <1>2, MapIsSeq
<1>7. ListTypes'
  BY <1>1, <1>3, <1>4, <1>6 DEF ListTypes, Joined
<1>8. Fits'
  BY <1>3, <1>4, <1>5, <1>6 DEF InStep, Fits, Joined, Capacity
<1>9. RegisteredOnce'
  BY <1>5, <1>6 DEF InStep, RegisteredOnce
<1>10. HandlesInPlace'
  BY <1>5, <1>6 DEF InStep, HandlesInPlace, Joined
<1>11. NotifyEverywhere'
  <2>1. Wanted' = Wanted
    BY <1>5, <1>6 DEF Wanted
  <2>2. \A i \in DOMAIN textInEx : Wanted \subseteq devRegs[textInEx[i]] /\ (~removed => devRegs[textInEx[i]] = Wanted)
    BY DEF InStep, NotifyEverywhere, Wanted
  <2>3. \A i \in DOMAIN textInEx' :
          Wanted' \subseteq devRegs'[textInEx'[i]] /\ (~removed' => devRegs'[textInEx'[i]] = Wanted')
    BY <2>1, <2>2 DEF Joined
  <2> QED
    BY <2>3 DEF NotifyEverywhere, Wanted
<1>12. ListedOnce'
  BY DEF InStep, ListedOnce, Joined
<1> QED
  BY <1>7, <1>8, <1>9, <1>10, <1>11, <1>12 DEF InStep

LEMMA AddedIsListed ==
  ASSUME InStep, ConInAssumption, NEW d \in Device, d \notin open, open' = open \cup {d}, removed' = removed,
         TextInAddDevice(d)
  PROVE  Joined(d) /\ d \in ToSet(textIn')
<1>1. /\ textIn \in Seq(Device) /\ Len(textIn) \in Nat /\ DOMAIN textIn = 1..Len(textIn)
      /\ textInCount \in Nat /\ Len(textIn) <= textInCount /\ Unit \in Nat \ {0}
      /\ IsInjective(textIn) /\ ToSet(textIn) \subseteq open
  BY LenProperties DEF InStep, ListTypes, Fits, ListedOnce, ConInAssumption
<1>2. /\ textIn' \in Seq(Device) /\ Len(textIn') = Len(textIn) + 1
      /\ \A i \in 1..Len(textIn) : textIn'[i] = textIn[i]
      /\ textIn'[Len(textIn) + 1] = d
  BY <1>1, AppendProperties DEF TextInAddDevice
<1>3. DOMAIN textIn' = 1..Len(textIn) + 1
  BY <1>2, LenProperties
<1>4. /\ \A i \in DOMAIN textIn' :
           (i \in DOMAIN textIn /\ textIn'[i] = textIn[i]) \/ (i = Len(textIn) + 1 /\ textIn'[i] = d)
      /\ \A i \in DOMAIN textIn : i \in DOMAIN textIn' /\ textIn'[i] = textIn[i]
      /\ Len(textIn) + 1 \in DOMAIN textIn'
  BY <1>1, <1>2, <1>3
<1>5. textInCount' \in Nat /\ Len(textIn') <= textInCount'
  BY <1>1, <1>2 DEF TextInAddDevice
<1>6. \A i \in DOMAIN textIn : textIn[i] # d
  BY <1>1 DEF ToSet
<1>7. IsInjective(textIn')
  BY <1>1, <1>4, <1>6 DEF IsInjective
<1>8. ToSet(textIn') \subseteq ToSet(textIn) \cup {d} /\ ToSet(textIn) \subseteq ToSet(textIn') /\ d \in ToSet(textIn')
  BY <1>2, <1>4 DEF ToSet
<1> QED
  BY <1>1, <1>2, <1>5, <1>7, <1>8 DEF Joined

LEMMA ExAddDeviceKeeps ==
  ASSUME InStep, ToggleTypes, ConInAssumption, NEW d \in ExDevice, Joined(d), d \in ToSet(textIn'), ExAddDevice(d)
  PROVE  /\ InStep' /\ queueCount <= queueCount'
         /\ devToggle' \in [Device -> Toggle] /\ torn' \in BOOLEAN
<1>1. ListTypes /\ d \in Device /\ exCount \in Nat /\ queueCount \in Nat /\ Unit \in Nat \ {0}
  BY DEF InStep, ListTypes, ConInAssumption
<1>2. /\ Len(notifyList) \in Nat /\ DOMAIN notifyList = 1..Len(notifyList) /\ notifyList \in Seq(Node)
      /\ Len(textInEx) \in Nat /\ DOMAIN textInEx = 1..Len(textInEx)
      /\ \A k \in DOMAIN notifyList : notifyList[k] \in Node
  BY <1>1, NodesAre DEF ListTypes
<1>3. /\ Len(textInEx) <= exCount /\ exCount <= queueCount /\ queueCount <= exCount + Unit
      /\ \A k \in DOMAIN notifyList :
           exCount <= Capacity(notifyList[k]) /\ Capacity(notifyList[k]) <= exCount + Unit
  BY DEF InStep, Fits
<1>4. ASSUME NEW list, JoinEx(d, list) PROVE devToggle' \in [Device -> Toggle] /\ torn' \in BOOLEAN
  <2>1. ((SetOn({d}, physical) /\ UNCHANGED torn) \/ UNCHANGED devToggle) /\ torn' \in BOOLEAN
    BY <1>4 DEF JoinEx, ToggleTypes
  <2> QED
    BY <2>1, SetOnTypes DEF ToggleTypes
<1>5. CASE ~Full
  <2>1. JoinEx(d, notifyList) /\ UNCHANGED <<exCount, queueCount>>
    BY <1>5 DEF ExAddDevice
  <2>2. Roomy(notifyList, exCount)
    BY <1>1, <1>2, <1>3, <1>5 DEF Roomy, Full
  <2>3. InStep'
    BY <1>1, <1>3, <2>1, <2>2, JoinExKeeps
  <2> QED
    BY <1>1, <1>4, <2>1, <2>3
<1>6. CASE Full
  <2>1. CASE \E done \in 0..Len(notifyList) + 2 - 1 : GrowAll(done) /\ UNCHANGED <<textInEx, devRegs, devToggle, torn>>
    <3>1. PICK done \in 0..Len(notifyList) + 1 : GrowAll(done) /\ UNCHANGED <<textInEx, devRegs, devToggle, torn>>
      BY <1>2, <2>1
    <3>2. InStep'
      BY <1>1, <3>1, GrowAllKeeps
    <3>3. queueCount <= queueCount'
      BY <1>1, <1>3, <3>1 DEF GrowAll
    <3> QED
      BY <3>1, <3>2, <3>3 DEF ToggleTypes
  <2>2. CASE /\ JoinEx(d, [k \in DOMAIN notifyList |-> Grown(notifyList[k])])
             /\ queueCount' = exCount + Unit
             /\ exCount' = exCount + Unit
    <3> DEFINE list == [k \in DOMAIN notifyList |-> Grown(notifyList[k])]
               space == exCount + Unit
    <3>1. space \in Nat /\ Len(textInEx) < space /\ space <= space + Unit /\ queueCount <= space
      BY <1>1, <1>2, <1>3
    <3>2. \A k \in DOMAIN notifyList :
            /\ list[k] \in Node /\ list[k].reg = notifyList[k].reg /\ Capacity(list[k]) = space
            /\ \A i \in DOMAIN textInEx : list[k].handles[i] = notifyList[k].handles[i]
      <4> TAKE k \in DOMAIN notifyList
      <4>1. Capacity(notifyList[k]) \in Nat
        BY <1>2, LenProperties DEF Capacity, Node
      <4>2. \A i \in DOMAIN textInEx : i \in 1..Capacity(notifyList[k])
        BY <1>1, <1>2, <1>3, <4>1
      <4>3. list[k] = Grown(notifyList[k])
        OBVIOUS
      <4> QED
        BY <1>1, <1>2, <1>3, <4>2, <4>3, GrownIs
    <3>3. list \in Seq(Node) /\ Len(list) = Len(notifyList)
      <4>1. list \in [1..Len(notifyList) -> Node]
        BY <1>2, <3>2
      <4> HIDE DEF list
      <4> QED
        BY <1>2, <4>1, MapIsSeq
    <3> HIDE DEF list, space
    <3>4. Roomy(list, space)
      BY <3>1, <3>2, <3>3 DEF Roomy
    <3>5. JoinEx(d, list) /\ exCount' = space /\ queueCount' = space
      BY <2>2 DEF list, space
    <3>6. InStep'
      BY <3>1, <3>4, <3>5, JoinExKeeps
    <3> QED
      BY <1>4, <3>1, <3>5, <3>6
  <2> QED
    BY <1>6, <2>1, <2>2 DEF ExAddDevice
<1> QED
  BY <1>5, <1>6

LEMMA StartKeeps ==
  ASSUME IInv, ConInAssumption, NEW d \in Device, Start(d)
  PROVE  IInv'
<1>1. InStep /\ KeyTypes /\ ToggleTypes /\ QueueFits
  BY DEF IInv
<1>2. /\ d \notin open /\ open' = open \cup {d}
      /\ \/ /\ Len(textIn) >= textInCount
            /\ UNCHANGED <<textIn, textInCount, textInEx, exCount, queueCount, notifyList, devRegs, devToggle, torn>>
         \/ /\ TextInAddDevice(d)
            /\ IF d \in ExDevice
               THEN ExAddDevice(d)
               ELSE UNCHANGED <<textInEx, exCount, queueCount, notifyList, devRegs, devToggle, torn>>
      /\ UNCHANGED <<removed, physical, exported, setting, pending>>
      /\ UNCHANGED keys
  BY DEF Start
<1>3. queueCount \in Nat
  BY <1>1 DEF InStep, ListTypes
<1>4. /\ InStep' /\ queueCount <= queueCount'
      /\ devToggle' \in [Device -> Toggle] /\ torn' \in BOOLEAN
  <2>1. CASE UNCHANGED <<textIn, textInCount, textInEx, exCount, queueCount, notifyList, devRegs, devToggle, torn>>
    <3>1. Joined(d)
      BY <1>1, <1>2, <2>1 DEF Joined, InStep, ListTypes, Fits, ListedOnce
    <3> QED
      BY <1>1, <1>3, <2>1, <3>1, SameEx DEF ToggleTypes
  <2>2. CASE TextInAddDevice(d) /\ d \in ExDevice /\ ExAddDevice(d)
    <3>1. Joined(d) /\ d \in ToSet(textIn')
      BY <1>1, <1>2, <2>2, AddedIsListed
    <3> QED
      BY <1>1, <2>2, <3>1, ExAddDeviceKeeps
  <2>3. CASE /\ TextInAddDevice(d)
             /\ UNCHANGED <<textInEx, exCount, queueCount, notifyList, devRegs, devToggle, torn>>
    <3>1. Joined(d)
      BY <1>1, <1>2, <2>3, AddedIsListed
    <3> QED
      BY <1>1, <1>3, <2>3, <3>1, SameEx DEF ToggleTypes
  <2> QED
    BY <1>2, <2>1, <2>2, <2>3
<1>5. KeyTypes'
  BY <1>1, <1>2 DEF KeyTypes, keys
<1>6. ToggleTypes'
  BY <1>1, <1>2, <1>4 DEF ToggleTypes
<1>7. QueueFits'
  <2>1. keyQueue' = keyQueue /\ Len(keyQueue) \in Nat /\ queueCount' \in Nat
    BY <1>1, <1>2, <1>4, LenProperties DEF keys, KeyTypes, InStep, ListTypes
  <2> QED
    BY <1>1, <1>3, <1>4, <2>1 DEF QueueFits
<1> QED
  BY <1>4, <1>5, <1>6, <1>7 DEF IInv

-----------------------------------------------------------------------------
(* All steps together.                                                     *)

LEMMA InitHolds ==
  ASSUME Init, ConInAssumption
  PROVE  IInv
<1> DEFINE blank == [i \in 1..Unit |-> NoHandle]
           first == [reg |-> SyncReg, handles |-> blank]
<1>1. /\ textIn = <<>> /\ textInCount = Unit /\ textInEx = <<>> /\ exCount = Unit
      /\ keyQueue = <<>> /\ queueCount = Unit /\ notifyList = <<first>>
      /\ open = {} /\ devRegs = [d \in Device |-> {}] /\ removed = FALSE
  BY DEF Init
<1>2. Unit \in Nat /\ blank \in [1..Unit -> Device \cup {NoHandle}]
  BY DEF ConInAssumption
<1> HIDE DEF blank
<1>3. blank \in Seq(Device \cup {NoHandle}) /\ Len(blank) = Unit
  BY <1>2, MapIsSeq
<1>4. first \in Node /\ first.handles = blank
  BY <1>3 DEF Node, Regs
<1> HIDE DEF first
<1>5. notifyList \in Seq(Node) /\ DOMAIN notifyList = {1} /\ notifyList[1] = first
  BY <1>1, <1>4
<1>6. Len(textIn) = 0 /\ Len(textInEx) = 0 /\ DOMAIN textIn = {} /\ DOMAIN textInEx = {}
  BY <1>1
<1>7. ListTypes
  <2>1. textIn \in Seq(Device) /\ textInEx \in Seq(ExDevice)
    BY <1>1
  <2>2. devRegs \in [Device -> SUBSET Regs]
    BY <1>1
  <2>3. textInCount \in Nat /\ exCount \in Nat /\ queueCount \in Nat /\ open \subseteq Device /\ removed \in BOOLEAN
    BY <1>1, <1>2
  <2> QED
    BY <1>5, <2>1, <2>2, <2>3 DEF ListTypes
<1>8. Fits
  BY <1>1, <1>2, <1>3, <1>4, <1>5, <1>6 DEF Fits, Capacity
<1>9. RegisteredOnce /\ HandlesInPlace /\ NotifyEverywhere
  BY <1>1, <1>5, <1>6 DEF RegisteredOnce, HandlesInPlace, NotifyEverywhere
<1>10. ListedOnce
  BY <1>1, <1>6 DEF ListedOnce, IsInjective, ToSet
<1>11. KeyTypes
  <2>1. 0 \in 0..KeyBound
    BY DEF ConInAssumption
  <2>2. keyQueue \in Seq(Key) /\ devKeys \in [Device -> Seq(Key)]
    BY DEF Init
  <2>3. /\ made \in [Device -> 0..KeyBound] /\ lastRead \in [Device -> 0..KeyBound]
        /\ cleared \in [Device -> 0..KeyBound] /\ resetMark \in [Device -> 0..KeyBound]
    BY <2>1 DEF Init
  <2> QED
    BY <2>2, <2>3 DEF Init, KeyTypes
<1>12. ToggleTypes
  <2>1. \A d \in Device : <<>> \in Seq(Toggle)
    OBVIOUS
  <2> QED
    BY <2>1, CalmIs DEF Init, ToggleTypes, Toggle
<1>13. QueueFits
  BY <1>1 DEF QueueFits
<1> QED
  BY <1>7, <1>8, <1>9, <1>10, <1>11, <1>12, <1>13 DEF IInv, InStep

\* Steps of keys and toggles leave the lists alone.
LEMMA InStepStays ==
  ASSUME InStep, UNCHANGED <<lists, devRegs>>
  PROVE  InStep'
<1>1. UNCHANGED <<textIn, textInCount, textInEx, exCount, queueCount, notifyList, open, removed, devRegs>>
  BY DEF lists
<1> QED
  BY <1>1 DEF InStep, ListTypes, Fits, Capacity, RegisteredOnce, HandlesInPlace, NotifyEverywhere, ListedOnce

LEMMA StepKeeps ==
  ASSUME IInv, ConInAssumption, [Next]_vars
  PROVE  IInv'
<1> USE DEF IInv
<1>1. ASSUME NEW d \in Device, Press(d) PROVE IInv'
  <2>1. UNCHANGED <<lists, devRegs>> /\ UNCHANGED toggles /\ UNCHANGED <<setting, pending>>
    BY <1>1 DEF Press
  <2> QED
    BY <1>1, <2>1, PressKeeps, InStepStays DEF KeysGood, ToggleTypes, toggles
<1>2. ASSUME \/ \E d \in Device : PressToggle(d) \/ ToggleStateSyncKeyNotify(d)
             \/ \E value \in Toggle, export \in BOOLEAN : SetState(value, export)
             \/ SetNext \/ SetDone
      PROVE  IInv'
  <2>1. ToggleTypes'
    BY <1>2, ToggleActions
  <2>2. UNCHANGED <<lists, devRegs>>
    BY <1>2 DEF PressToggle, ToggleStateSyncKeyNotify, SetState, SetNext, SetDone
  <2>3. /\ UNCHANGED <<devKeys, made, partialKeys, lastRead, cleared, resetMark, signalled>>
        /\ keyQueue' = keyQueue \/ keyQueue' = <<>>
    BY <1>2 DEF PressToggle, ToggleStateSyncKeyNotify, SetState, SetNext, SetDone, keys
  <2>4. keyQueue' \in Seq(Key) /\ QueueFits'
    <3>1. keyQueue \in Seq(Key) /\ <<>> \in Seq(Key) /\ queueCount' = queueCount
      BY <2>2 DEF KeyTypes, lists
    <3>2. QueueFits
      OBVIOUS
    <3>3. CASE keyQueue' = keyQueue
      BY <3>1, <3>2, <3>3 DEF QueueFits
    <3>4. CASE keyQueue' = <<>>
      BY <3>1, <3>4 DEF QueueFits
    <3> QED
      BY <2>3, <3>3, <3>4
  <2>5. KeyTypes'
    BY <2>3, <2>4 DEF KeyTypes
  <2> QED
    BY <2>1, <2>2, <2>4, <2>5, InStepStays
<1>3. ASSUME Reset \/ ResetEx PROVE IInv'
  <2>1. textIn \in Seq(Device) /\ textInEx \in Seq(Device)
    BY SeqMonotonic DEF InStep, ListTypes, ConInAssumption
  <2>2. PICK list \in Seq(Device) : ResetDevices(list)
    BY <1>3, <2>1 DEF Reset, ResetEx
  <2>3. UNCHANGED <<lists, devRegs>>
    BY <2>2 DEF ResetDevices
  <2> QED
    BY <2>2, <2>3, ResetDevicesKeeps, InStepStays DEF KeysGood
<1>4. ASSUME ReadKeyStroke \/ ReadKeyStrokeEx \/ WaitForKey PROVE IInv'
  <2>1. KeysGood'
    BY <1>4, ReadKeyStrokeKeeps, ReadKeyStrokeExKeeps, WaitForKeyKeeps DEF KeysGood
  <2>2. UNCHANGED <<lists, devRegs>> /\ UNCHANGED toggles /\ UNCHANGED <<setting, pending>>
    BY <1>4 DEF ReadKeyStroke, ReadKeyStrokeEx, WaitForKey
  <2> QED
    BY <2>1, <2>2, InStepStays DEF KeysGood, ToggleTypes, toggles
<1>5. ASSUME InStep', UNCHANGED toggles, UNCHANGED keys, UNCHANGED <<setting, pending, queueCount>> PROVE IInv'
  BY <1>5 DEF KeyTypes, ToggleTypes, QueueFits, toggles, keys
<1>6. ASSUME NEW reg \in Reg, RegisterKeyNotify(reg) PROVE IInv'
  <2>1. UNCHANGED toggles /\ UNCHANGED keys /\ UNCHANGED <<setting, pending, queueCount>>
    BY <1>6 DEF RegisterKeyNotify
  <2> QED
    BY <1>5, <1>6, <2>1, RegisterKeeps
<1>7. ASSUME NEW k \in 2..Len(notifyList), UnregisterKeyNotify(k) PROVE IInv'
  <2>1. UNCHANGED toggles /\ UNCHANGED keys /\ UNCHANGED <<setting, pending, queueCount>>
    BY <1>7 DEF UnregisterKeyNotify
  <2> QED
    BY <1>5, <1>7, <2>1, UnregisterKeeps
<1>8. ASSUME NEW d \in Device, Stop(d) PROVE IInv'
  <2>1. UNCHANGED toggles /\ UNCHANGED keys /\ UNCHANGED <<setting, pending, queueCount>>
    BY <1>8 DEF Stop
  <2> QED
    BY <1>5, <1>8, <2>1, StopKeeps
<1>9. CASE UNCHANGED vars
  <2>1. UNCHANGED <<lists, devRegs>> /\ UNCHANGED toggles /\ UNCHANGED keys /\ UNCHANGED <<setting, pending, queueCount>>
    BY <1>9 DEF vars, lists
  <2> QED
    BY <1>5, <2>1, InStepStays
<1> QED
  BY <1>1, <1>2, <1>3, <1>4, <1>6, <1>7, <1>8, <1>9, StartKeeps DEF Next

LEMMA IInvHoldsTheLists ==
  ASSUME IInv
  PROVE  ListsInStep
<1>1. BuffersSuffice
  <2>1. \A k \in DOMAIN notifyList : Capacity(notifyList[k]) \in Nat
    BY NodesAre, LenProperties DEF IInv, InStep, Capacity, Node
  <2>2. Len(textInEx) \in Nat /\ exCount \in Nat /\ queueCount \in Nat
    BY NodesAre DEF IInv, InStep, ListTypes
  <2> QED
    BY <2>1, <2>2 DEF IInv, InStep, Fits, QueueFits, BuffersSuffice
<1>2. TypeOK
  BY DEF IInv, InStep, ListTypes, KeyTypes, ToggleTypes, Settings, TypeOK
<1> QED
  BY <1>1, <1>2 DEF IInv, InStep, ListsInStep

\* No list, queue or array of handles of the console splitter's input is written
\* behind its end, a registration is with every listed device, and nothing is
\* listed twice or without being open, whatever growths, registrations and starts
\* have failed (ConSplitter.c:1959-2048, 2060-2083, 3992-4131).
THEOREM ListsStayInStep == Spec => []ListsInStep
<1>1. Init => IInv
  BY ConInAssumption, InitHolds
<1>2. IInv /\ [Next]_vars => IInv'
  BY ConInAssumption, StepKeeps
<1>3. IInv => ListsInStep
  BY IInvHoldsTheLists
<1> QED
  BY <1>1, <1>2, <1>3, PTL DEF Spec

-----------------------------------------------------------------------------
(* What is read, signalled and lit: the invariants.                        *)

Ascending(queue) ==
  \A i, j \in DOMAIN queue : (i < j /\ queue[i].dev = queue[j].dev) => queue[i].n < queue[j].n

\* What the devices and the splitter hold, for a queue, the keys in the devices
\* and the keys last read.
HeldIsRight(held, read) ==
  \A d \in Device :
    /\ Ascending(held[d])
    /\ \A key \in ToSet(held[d]) :
         key.dev = d /\ read[d] < key.n /\ resetMark[d] < key.n /\ key.n <= made[d]
    /\ read[d] <= made[d] /\ resetMark[d] <= made[d]

QueueIsRight(queue, held, read) ==
  /\ Ascending(queue)
  /\ \A key \in ToSet(queue) :
       /\ read[key.dev] < key.n /\ key.n <= made[key.dev]
       /\ \A later \in ToSet(held[key.dev]) : key.n < later.n
       /\ IF setting.kind = "reset" THEN key.n <= cleared[key.dev] ELSE resetMark[key.dev] < key.n

NoneLost(queue, held, read) ==
  \A d \in Device, n \in 1..KeyBound :
    (n <= made[d] /\ read[d] < n /\ cleared[d] < n /\ Real([dev |-> d, n |-> n])) =>
      [dev |-> d, n |-> n] \in ToSet(queue) \cup ToSet(held[d])

KeysRight(queue, held, read) ==
  HeldIsRight(held, read) /\ QueueIsRight(queue, held, read) /\ NoneLost(queue, held, read)

\* A device shows a toggle state, or its own change of it is still to be told.
Shows(d, value) == devToggle[d] = value \/ pending[d] = <<devToggle[d]>>

SyncFirst == 1 \in DOMAIN notifyList /\ notifyList[1].reg = SyncReg

SettingIsRight ==
  /\ setting.kind = "none" <=> Idle
  /\ setting.kind = "reset" => ~setting.raced
  /\ setting.kind = "set" => ~setting.failed

\* The devices that a SetState or a Reset has gone over show its state, unless
\* it was disturbed.
LampsAreRight ==
  /\ (Idle /\ ~torn) => \A i \in DOMAIN textInEx : Shows(textInEx[i], physical)
  /\ (setting.kind = "set" /\ ~setting.raced) =>
       \A i \in DOMAIN textInEx : i < setting.at => Shows(textInEx[i], setting.value)
  /\ (setting.kind = "reset" /\ ~setting.failed) =>
       \A i \in DOMAIN textInEx : i < setting.at => Shows(textInEx[i], physical)

TogglesRight == SyncFirst /\ SettingIsRight /\ LampsAreRight

-----------------------------------------------------------------------------
(* Keys that leave the front of a queue.                                   *)

LEMMA InSet ==
  ASSUME NEW S, NEW q \in Seq(S)
  PROVE  /\ Len(q) \in Nat /\ DOMAIN q = 1..Len(q)
         /\ \A i \in DOMAIN q : q[i] \in ToSet(q) /\ q[i] \in S
         /\ \A e \in ToSet(q) : e \in S /\ \E i \in DOMAIN q : e = q[i]
  BY LenProperties, ElementOfSeq DEF ToSet

\* What is left behind a place is in order, behind the key at that place, and
\* only the keys up to there are gone.
LEMMA BehindIs ==
  ASSUME NEW q \in Seq(Key), Ascending(q), NEW i \in DOMAIN q
  PROVE  /\ After(q, i) \in Seq(Key) /\ Ascending(After(q, i))
         /\ ToSet(After(q, i)) \subseteq ToSet(q)
         /\ \A e \in ToSet(After(q, i)) : e.dev = q[i].dev => q[i].n < e.n
         /\ \A e \in ToSet(q) : e \in ToSet(After(q, i)) \/ \E j \in 1..i : e = q[j]
<1> DEFINE r == After(q, i)
<1>1. Len(q) \in Nat /\ DOMAIN q = 1..Len(q) /\ i \in 1..Len(q)
  BY LenProperties
<1>2. /\ r \in Seq(Key) /\ Len(r) = Len(q) - i
      /\ \A j \in 1..Len(q) - i : r[j] = q[j + i]
  <2>1. i + 1 \in Int /\ Len(q) \in Int /\ \A j \in i + 1..Len(q) : q[j] \in Key
    BY <1>1, ElementOfSeq
  <2>2. /\ r \in Seq(Key) /\ Len(r) = (IF i + 1 <= Len(q) THEN Len(q) - (i + 1) + 1 ELSE 0)
        /\ \A j \in 1..Len(q) - (i + 1) + 1 : r[j] = q[i + 1 + j - 1]
    BY <2>1, SubSeqProperties DEF After
  <2>3. Len(q) - (i + 1) + 1 = Len(q) - i /\ \A j \in 1..Len(q) - i : i + 1 + j - 1 = j + i
    BY <1>1
  <2> HIDE DEF r
  <2>4. Len(r) = Len(q) - i
    BY <2>2, <1>1
  <2> QED
    BY <2>2, <2>3, <2>4
<1> HIDE DEF r
<1>3. DOMAIN r = 1..Len(q) - i
  BY <1>1, <1>2, LenProperties
<1>4. \A j \in DOMAIN r : j \in Nat /\ j + i \in DOMAIN q /\ i < j + i /\ r[j] = q[j + i]
  BY <1>1, <1>2, <1>3
<1>5. \A j, k \in DOMAIN r : j < k => j + i < k + i
  BY <1>1, <1>4
<1>6. Ascending(r)
  BY <1>4, <1>5 DEF Ascending
<1>7. ToSet(r) \subseteq ToSet(q)
  BY <1>4 DEF ToSet
<1>8. ASSUME NEW e \in ToSet(r), e.dev = q[i].dev PROVE q[i].n < e.n
  <2>1. PICK j \in DOMAIN r : e = r[j]
    BY DEF ToSet
  <2> QED
    BY <1>4, <1>8, <2>1 DEF Ascending
<1>9. ASSUME NEW e \in ToSet(q), ~ \E j \in 1..i : e = q[j] PROVE e \in ToSet(r)
  <2>1. PICK k \in 1..Len(q) : e = q[k]
    BY <1>1 DEF ToSet
  <2>2. k - i \in 1..Len(q) - i /\ k - i + i = k
    BY <1>1, <1>9, <2>1
  <2>3. r[k - i] = e
    BY <1>4, <1>3, <2>1, <2>2
  <2> QED
    BY <1>3, <2>2, <2>3 DEF ToSet
<1> QED
  BY <1>2, <1>6, <1>7, <1>8, <1>9 DEF r

LEMMA TailIsBehind ==
  ASSUME NEW q \in Seq(Key), q # <<>>
  PROVE  Tail(q) = After(q, 1) /\ Head(q) = q[1] /\ 1 \in DOMAIN q
<1>1. Len(q) \in Nat \ {0} /\ DOMAIN q = 1..Len(q)
  BY EmptySeq, LenProperties
<1>2. Tail(q) = SubSeq(q, 2, Len(q))
  BY TailIsSubSeq
<1> QED
  BY <1>1, <1>2 DEF After

\* The first real key of the splitter's queue is delivered: those before it are
\* only partial keys.
LEMMA DeliverFirst ==
  ASSUME KeyTypes, NEW queue \in Seq(Key), NEW held \in [Device -> Seq(Key)], NEW read \in [Device -> 0..KeyBound],
         ConInAssumption,
         KeysRight(queue, held, read), NEW f \in DOMAIN queue, \A j \in 1..f : j = f \/ ~Real(queue[j])
  PROVE  KeysRight(After(queue, f), held, [read EXCEPT ![queue[f].dev] = queue[f].n])
<1> DEFINE rest == After(queue, f)
           now == [read EXCEPT ![queue[f].dev] = queue[f].n]
<1>1. Ascending(queue)
  BY DEF KeysRight, QueueIsRight
<1>2. /\ rest \in Seq(Key) /\ Ascending(rest) /\ ToSet(rest) \subseteq ToSet(queue)
      /\ \A e \in ToSet(rest) : e.dev = queue[f].dev => queue[f].n < e.n
      /\ \A e \in ToSet(queue) : e \in ToSet(rest) \/ \E j \in 1..f : e = queue[j]
  BY <1>1, BehindIs
<1> HIDE DEF rest
<1>3. queue[f] \in Key /\ queue[f] \in ToSet(queue)
  BY InSet
<1> DEFINE d0 == queue[f].dev
           n0 == queue[f].n
<1>4. d0 \in Device /\ n0 \in Nat
  BY <1>3 DEF Key
<1>5. \A d \in Device : now[d] = IF d = d0 THEN n0 ELSE read[d]
  BY <1>4
<1>6. /\ read[d0] < n0 /\ n0 <= made[d0]
      /\ \A later \in ToSet(held[d0]) : n0 < later.n
  BY <1>3 DEF KeysRight, QueueIsRight
<1> HIDE DEF now, d0, n0
<1>7. HeldIsRight(held, now)
  BY <1>5, <1>6 DEF KeysRight, HeldIsRight
<1>8. QueueIsRight(rest, held, now)
  <2> SUFFICES ASSUME NEW key \in ToSet(rest)
               PROVE  /\ now[key.dev] < key.n /\ key.n <= made[key.dev]
                      /\ \A later \in ToSet(held[key.dev]) : key.n < later.n
                      /\ IF setting.kind = "reset" THEN key.n <= cleared[key.dev] ELSE resetMark[key.dev] < key.n
    BY <1>2 DEF QueueIsRight
  <2>0. \A e \in ToSet(queue) : e \in Key
    BY InSet
  <2>1. key \in ToSet(queue) /\ key.dev \in Device
    BY <1>2, <2>0 DEF Key
  <2>2. now[key.dev] < key.n
    BY <1>2, <1>5, <2>1 DEF KeysRight, QueueIsRight, d0, n0
  <2> QED
    BY <2>1, <2>2 DEF KeysRight, QueueIsRight
<1>9. NoneLost(rest, held, now)
  <2> SUFFICES ASSUME NEW d \in Device, NEW n \in 1..KeyBound,
                      n <= made[d], now[d] < n, cleared[d] < n, Real([dev |-> d, n |-> n])
               PROVE  [dev |-> d, n |-> n] \in ToSet(rest) \cup ToSet(held[d])
    BY DEF NoneLost
  <2> DEFINE key == [dev |-> d, n |-> n]
  <2>1. read[d] < n
    <3>1. read[d] \in Nat /\ n \in Nat
      BY DEF ConInAssumption
    <3> QED
      BY <3>1, <1>4, <1>5, <1>6 DEF n0
  <2>2. key \in ToSet(queue) \cup ToSet(held[d])
    BY <2>1 DEF KeysRight, NoneLost
  <2>3. ASSUME NEW j \in 1..f, key = queue[j] PROVE FALSE
    <3>1. queue[f] = key
      BY <2>3
    <3>2. d0 = d /\ n0 = n
      BY <3>1 DEF d0, n0
    <3> QED
      BY <3>2, <1>4, <1>5
  <2> QED
    BY <1>2, <2>2, <2>3
<1> QED
  BY <1>7, <1>8, <1>9 DEF KeysRight, rest, now, d0, n0

KeysAreRight == KeysRight(keyQueue, devKeys, lastRead)

LEMMA PressKeepsRight ==
  ASSUME KeysGood, ConInAssumption, KeysAreRight, NEW d \in Device, Press(d)
  PROVE  KeysAreRight'
<1> DEFINE key == [dev |-> d, n |-> made[d] + 1]
<1>1. /\ UNCHANGED <<keyQueue, lastRead, cleared, resetMark, setting>>
      /\ made' = [made EXCEPT ![d] = @ + 1] /\ made[d] < KeyBound
      /\ devKeys' = [devKeys EXCEPT ![d] = Append(@, key)]
      /\ partialKeys \subseteq partialKeys'
  BY DEF Press
<1>2. /\ \A e \in Device : made[e] \in Nat /\ lastRead[e] \in Nat /\ resetMark[e] \in Nat /\ cleared[e] \in Nat
      /\ \A e \in Device : devKeys[e] \in Seq(Key)
      /\ made \in [Device -> 0..KeyBound] /\ devKeys \in [Device -> Seq(Key)] /\ keyQueue \in Seq(Key)
  BY DEF KeysGood, KeyTypes, ConInAssumption
<1>3. /\ \A e \in Device : e # d => made'[e] = made[e] /\ devKeys'[e] = devKeys[e]
      /\ made'[d] = made[d] + 1
      /\ devKeys'[d] = Append(devKeys[d], key)
  BY <1>1, <1>2
<1>4. key \in Key /\ key.dev = d /\ key.n = made[d] + 1
  BY <1>1, <1>2 DEF Key, ConInAssumption
<1> HIDE DEF key
<1>5. /\ devKeys'[d] \in Seq(Key) /\ Len(devKeys'[d]) = Len(devKeys[d]) + 1
      /\ \A j \in 1..Len(devKeys[d]) : devKeys'[d][j] = devKeys[d][j]
      /\ devKeys'[d][Len(devKeys[d]) + 1] = key
  BY <1>2, <1>3, <1>4, AppendProperties
<1>6. DOMAIN devKeys[d] = 1..Len(devKeys[d]) /\ Len(devKeys[d]) \in Nat /\ DOMAIN devKeys'[d] = 1..Len(devKeys[d]) + 1
  BY <1>2, <1>5, LenProperties
<1>7. /\ \A j \in DOMAIN devKeys'[d] :
           (j \in DOMAIN devKeys[d] /\ devKeys'[d][j] = devKeys[d][j])
           \/ (j = Len(devKeys[d]) + 1 /\ devKeys'[d][j] = key)
      /\ \A j \in DOMAIN devKeys[d] : j \in DOMAIN devKeys'[d] /\ devKeys'[d][j] = devKeys[d][j]
      /\ Len(devKeys[d]) + 1 \in DOMAIN devKeys'[d]
  BY <1>5, <1>6
<1>8. ToSet(devKeys'[d]) = ToSet(devKeys[d]) \cup {key}
  BY <1>5, <1>7 DEF ToSet
<1>9. /\ HeldIsRight(devKeys, lastRead) /\ QueueIsRight(keyQueue, devKeys, lastRead)
      /\ NoneLost(keyQueue, devKeys, lastRead)
  BY DEF KeysAreRight, KeysRight
<1>10. Ascending(devKeys'[d])
  <2> SUFFICES ASSUME NEW i \in DOMAIN devKeys'[d], NEW j \in DOMAIN devKeys'[d], i < j,
                      devKeys'[d][i].dev = devKeys'[d][j].dev
               PROVE  devKeys'[d][i].n < devKeys'[d][j].n
    BY DEF Ascending
  <2>1. i \in DOMAIN devKeys[d] /\ devKeys'[d][i] = devKeys[d][i]
    BY <1>6, <1>7
  <2>2. CASE j \in DOMAIN devKeys[d] /\ devKeys'[d][j] = devKeys[d][j]
    BY <1>9, <2>1, <2>2 DEF HeldIsRight, Ascending
  <2>3. CASE devKeys'[d][j] = key
    <3>1. devKeys[d][i] \in ToSet(devKeys[d]) /\ devKeys[d][i] \in Key
      BY <1>2, <2>1, InSet
    <3>2. devKeys[d][i].n <= made[d] /\ devKeys[d][i].n \in Nat
      BY <1>9, <3>1 DEF HeldIsRight, Key
    <3> QED
      BY <1>2, <1>4, <2>1, <2>3, <3>2
  <2> QED
    BY <1>7, <2>2, <2>3
<1>11. HeldIsRight(devKeys, lastRead)'
  <2> SUFFICES ASSUME NEW e \in Device
               PROVE  /\ Ascending(devKeys'[e])
                      /\ \A k \in ToSet(devKeys'[e]) :
                           k.dev = e /\ lastRead[e] < k.n /\ resetMark[e] < k.n /\ k.n <= made'[e]
                      /\ lastRead[e] <= made'[e] /\ resetMark[e] <= made'[e]
    BY <1>1 DEF HeldIsRight
  <2>1. CASE e # d
    BY <1>3, <1>9, <2>1 DEF HeldIsRight
  <2>2. CASE e = d
    <3>1. lastRead[d] <= made[d] /\ resetMark[d] <= made[d]
      BY <1>9 DEF HeldIsRight
    <3>2. lastRead[d] < made[d] + 1 /\ resetMark[d] < made[d] + 1 /\ made[d] + 1 <= made'[d]
      BY <1>2, <1>3, <3>1
    <3>3. \A k \in ToSet(devKeys[d]) :
            k.dev = d /\ lastRead[d] < k.n /\ resetMark[d] < k.n /\ k.n <= made'[d]
      <4> TAKE k \in ToSet(devKeys[d])
      <4>1. k.n \in Nat
        <5>1. k \in Key
          BY <1>2, InSet
        <5> QED
          BY <5>1 DEF Key
      <4>2. k.dev = d /\ lastRead[d] < k.n /\ resetMark[d] < k.n /\ k.n <= made[d]
        BY <1>9 DEF HeldIsRight
      <4> QED
        BY <1>2, <1>3, <4>1, <4>2
    <3>4. lastRead[d] <= made'[d] /\ resetMark[d] <= made'[d]
      BY <1>2, <1>3, <3>1
    <3> QED
      BY <1>4, <1>8, <1>10, <2>2, <3>2, <3>3, <3>4
  <2> QED
    BY <2>1, <2>2
<1>12. QueueIsRight(keyQueue, devKeys, lastRead)'
  <2> SUFFICES ASSUME NEW k \in ToSet(keyQueue)
               PROVE  /\ lastRead[k.dev] < k.n /\ k.n <= made'[k.dev]
                      /\ \A later \in ToSet(devKeys'[k.dev]) : k.n < later.n
                      /\ IF setting.kind = "reset" THEN k.n <= cleared[k.dev] ELSE resetMark[k.dev] < k.n
    BY <1>1, <1>9 DEF QueueIsRight
  <2>1. k \in Key
    BY <1>2, InSet
  <2>2. k.dev \in Device /\ k.n \in Nat
    BY <2>1 DEF Key
  <2>3. /\ lastRead[k.dev] < k.n /\ k.n <= made[k.dev]
        /\ \A later \in ToSet(devKeys[k.dev]) : k.n < later.n
        /\ IF setting.kind = "reset" THEN k.n <= cleared[k.dev] ELSE resetMark[k.dev] < k.n
    BY <1>9 DEF QueueIsRight
  <2>4. CASE k.dev = d
    <3>1. k.n <= made[d] /\ made[d] \in Nat /\ made'[d] = made[d] + 1 /\ key.n = made[d] + 1
      BY <1>2, <1>3, <1>4, <2>3, <2>4
    <3>2. k.n <= made'[d] /\ k.n < key.n
      BY <2>2, <3>1
    <3>3. \A later \in ToSet(devKeys'[d]) : k.n < later.n
      BY <1>8, <2>3, <2>4, <3>2
    <3> QED
      BY <2>3, <2>4, <3>2, <3>3
  <2>5. CASE k.dev # d
    BY <1>3, <2>2, <2>3, <2>5
  <2> QED
    BY <2>4, <2>5
<1>13. NoneLost(keyQueue, devKeys, lastRead)'
  <2> SUFFICES ASSUME NEW e \in Device, NEW n \in 1..KeyBound,
                      n <= made'[e], lastRead[e] < n, cleared[e] < n, Real([dev |-> e, n |-> n])'
               PROVE  [dev |-> e, n |-> n] \in ToSet(keyQueue) \cup ToSet(devKeys'[e])
    BY <1>1 DEF NoneLost
  <2>1. Real([dev |-> e, n |-> n])
    BY <1>1 DEF Real
  <2>2. CASE n <= made[e]
    BY <1>3, <1>8, <1>9, <2>1, <2>2 DEF NoneLost
  <2>3. CASE ~(n <= made[e])
    <3>1. e = d /\ n = made[d] + 1
      BY <1>2, <1>3, <2>3
    <3> QED
      BY <1>8, <3>1 DEF key
  <2> QED
    BY <2>2, <2>3
<1> QED
  BY <1>11, <1>12, <1>13 DEF KeysAreRight, KeysRight

\* A keystroke read from the splitter's queue, or from the first device that has
\* one; the devices in front of it lose partial keys only.
LEMMA ReadKeyStrokeKeepsRight ==
  ASSUME InStep, KeysGood, ConInAssumption, KeysAreRight, ReadKeyStroke
  PROVE  KeysAreRight'
<1> DEFINE queued == RealAt(keyQueue)
           holders == {i \in DOMAIN textIn : HasKey(textIn[i])}
           last == IF holders = {} THEN Len(textIn) ELSE First(holders)
           emptied == {textIn[i] : i \in 1..last}
           from == {d \in emptied : HasKey(d)}
<1>1. UNCHANGED <<made, cleared, resetMark, partialKeys, setting>>
  BY DEF ReadKeyStroke
<1>2. /\ keyQueue \in Seq(Key) /\ devKeys \in [Device -> Seq(Key)] /\ lastRead \in [Device -> 0..KeyBound] /\ KeyTypes
      /\ KeysRight(keyQueue, devKeys, lastRead)
  BY DEF KeysGood, KeyTypes, KeysAreRight
<1>3. ASSUME NEW queue, NEW held, NEW read, KeysRight(queue, held, read),
             keyQueue' = queue, devKeys' = held, lastRead' = read
      PROVE  KeysAreRight'
  BY <1>1, <1>3 DEF KeysAreRight, KeysRight, HeldIsRight, QueueIsRight, NoneLost, Ascending, Real
<1>4. CASE queued # {}
  <2> DEFINE f == First(queued)
  <2>1. /\ lastRead' = [lastRead EXCEPT ![keyQueue[f].dev] = keyQueue[f].n]
        /\ keyQueue' = After(keyQueue, f) /\ devKeys' = devKeys
    BY <1>4 DEF ReadKeyStroke, Deliver
  <2>2. f \in queued /\ \A j \in queued : f <= j
    BY <1>2, <1>4, RealAtIs, FirstIs
  <2>3. f \in DOMAIN keyQueue /\ DOMAIN keyQueue = 1..Len(keyQueue) /\ Len(keyQueue) \in Nat
    BY <1>2, <2>2, LenProperties DEF RealAt
  <2>4. \A j \in 1..f : j = f \/ ~Real(keyQueue[j])
    <3> SUFFICES ASSUME NEW j \in 1..f, Real(keyQueue[j]) PROVE j = f
      OBVIOUS
    <3>1. j \in DOMAIN keyQueue
      BY <2>3
    <3>2. j \in queued
      BY <3>1 DEF RealAt
    <3> QED
      BY <2>2, <2>3, <3>2
  <2> HIDE DEF f, queued
  <2>5. KeysRight(After(keyQueue, f), devKeys, [lastRead EXCEPT ![keyQueue[f].dev] = keyQueue[f].n])
    BY <1>2, <2>3, <2>4, DeliverFirst
  <2> QED
    BY <1>3, <2>1, <2>5
<1>5. CASE queued = {}
  <2>1. /\ keyQueue' = <<>>
        /\ devKeys' = [d \in Device |->
             IF d \in from THEN After(devKeys[d], First(RealAt(devKeys[d])))
             ELSE IF d \in emptied THEN <<>> ELSE devKeys[d]]
        /\ IF from = {} THEN UNCHANGED lastRead
           ELSE \E d \in from : Deliver(devKeys[d][First(RealAt(devKeys[d]))])
    BY <1>5 DEF ReadKeyStroke
  <2>2. /\ textIn \in Seq(Device) /\ Len(textIn) \in Nat /\ DOMAIN textIn = 1..Len(textIn)
        /\ \A i \in DOMAIN textIn : textIn[i] \in Device
    BY LenProperties, ElementOfSeq DEF InStep, ListTypes
  <2>3. holders # {} => First(holders) \in holders /\ \A j \in holders : First(holders) <= j
    <3>1. holders \in SUBSET Nat
      BY <2>2
    <3> HIDE DEF holders
    <3> QED
      BY <3>1, FirstIs
  <2>4. last \in 0..Len(textIn)
    <3>1. CASE holders = {}
      BY <2>2, <3>1
    <3>2. CASE holders # {}
      <4>1. First(holders) \in 1..Len(textIn)
        BY <2>2, <2>3, <3>2
      <4> QED
        BY <2>2, <3>2, <4>1
    <3> QED
      BY <3>1, <3>2
  <2>5. emptied \subseteq Device
    <3> HIDE DEF last
    <3>1. \A i \in 1..last : textIn[i] \in Device
      BY <2>2, <2>4
    <3> QED
      BY <3>1
  <2>6. ASSUME NEW d \in from PROVE holders # {} /\ d = textIn[First(holders)]
    <3>1. PICK i \in 1..last : d = textIn[i] /\ HasKey(d)
      OBVIOUS
    <3>2. i \in DOMAIN textIn
      BY <2>2, <2>4, <3>1
    <3>3. i \in holders
      BY <3>1, <3>2
    <3>4. First(holders) <= i /\ last = First(holders) /\ First(holders) \in Nat
      BY <2>2, <2>3, <3>3
    <3> HIDE DEF holders, last
    <3>5. i = First(holders)
      BY <2>2, <3>2, <3>4
    <3> QED
      BY <3>1, <3>3, <3>5
  <2> DEFINE spot(d) == First(RealAt(devKeys[d]))
             got(d) == devKeys[d][spot(d)]
  <2>7. ASSUME NEW d \in from
        PROVE  /\ d \in Device /\ devKeys[d] \in Seq(Key) /\ Ascending(devKeys[d])
               /\ spot(d) \in DOMAIN devKeys[d] /\ got(d) \in ToSet(devKeys[d])
               /\ got(d) \in Key /\ got(d).dev = d
               /\ \A j \in 1..spot(d) : j = spot(d) \/ ~Real(devKeys[d][j])
    <3>1. d \in Device /\ devKeys[d] \in Seq(Key) /\ RealAt(devKeys[d]) # {}
      BY <1>2, <2>5, <2>7, HolderHasKey
    <3>2. spot(d) \in RealAt(devKeys[d]) /\ \A j \in RealAt(devKeys[d]) : spot(d) <= j
      BY <3>1, RealAtIs, FirstIs
    <3> HIDE DEF spot
    <3>3. /\ spot(d) \in DOMAIN devKeys[d]
          /\ DOMAIN devKeys[d] = 1..Len(devKeys[d]) /\ Len(devKeys[d]) \in Nat
      BY <3>1, <3>2, LenProperties DEF RealAt
    <3>4. got(d) \in ToSet(devKeys[d]) /\ got(d) \in Key
      BY <3>1, <3>3, InSet
    <3>5. got(d).dev = d /\ Ascending(devKeys[d])
      BY <1>2, <3>1, <3>4 DEF KeysRight, HeldIsRight
    <3>6. \A j \in 1..spot(d) : j = spot(d) \/ ~Real(devKeys[d][j])
      <4> SUFFICES ASSUME NEW j \in 1..spot(d), Real(devKeys[d][j]) PROVE j = spot(d)
        OBVIOUS
      <4>1. j \in DOMAIN devKeys[d]
        BY <3>3
      <4>2. j \in RealAt(devKeys[d])
        BY <4>1 DEF RealAt
      <4> QED
        BY <3>2, <3>3, <4>2
    <3> QED
      BY <3>1, <3>3, <3>4, <3>5, <3>6
  <2> HIDE DEF spot, got, holders, last, emptied
  <2>8. /\ \A d \in Device \ from : lastRead'[d] = lastRead[d]
        /\ \A d \in from : lastRead'[d] = got(d).n
    <3>1. CASE from = {}
      BY <2>1, <3>1
    <3>2. CASE from # {}
      <4>1. PICK d \in from : Deliver(got(d))
        BY <2>1, <3>2 DEF got, spot
      <4>2. \A e \in from : e = d
        BY <2>6
      <4>3. lastRead' = [lastRead EXCEPT ![d] = got(d).n]
        BY <2>7, <4>1 DEF Deliver
      <4> HIDE DEF from
      <4> QED
        BY <1>2, <2>7, <4>2, <4>3
    <3> QED
      BY <3>1, <3>2
  <2>9. \A d \in Device : devKeys'[d] = IF d \in from THEN After(devKeys[d], spot(d))
                                        ELSE IF d \in emptied THEN <<>> ELSE devKeys[d]
    BY <2>1 DEF spot
  <2>10. ASSUME NEW d \in from
         PROVE  /\ devKeys'[d] \in Seq(Key) /\ Ascending(devKeys'[d])
                /\ ToSet(devKeys'[d]) \subseteq ToSet(devKeys[d])
                /\ \A e \in ToSet(devKeys'[d]) : e.dev = d => got(d).n < e.n
                /\ \A e \in ToSet(devKeys[d]) : Real(e) => e \in ToSet(devKeys'[d]) \/ e = got(d)
    <3>1. devKeys'[d] = After(devKeys[d], spot(d))
      BY <2>7, <2>9, <2>10
    <3>2. /\ devKeys'[d] \in Seq(Key) /\ Ascending(devKeys'[d])
          /\ ToSet(devKeys'[d]) \subseteq ToSet(devKeys[d])
          /\ \A e \in ToSet(devKeys'[d]) : e.dev = d => got(d).n < e.n
          /\ \A e \in ToSet(devKeys[d]) : e \in ToSet(devKeys'[d]) \/ \E j \in 1..spot(d) : e = devKeys[d][j]
      <4> DEFINE q == devKeys[d]
                 i == spot(d)
                 r == devKeys'[d]
      <4>1. q \in Seq(Key) /\ Ascending(q) /\ i \in DOMAIN q /\ q[i] = got(d) /\ got(d).dev = d
        BY <2>7, <2>10 DEF got
      <4>2. r = After(q, i)
        BY <3>1
      <4> HIDE DEF q, i, r
      <4>3. /\ r \in Seq(Key) /\ Ascending(r) /\ ToSet(r) \subseteq ToSet(q)
            /\ \A e \in ToSet(r) : e.dev = d => got(d).n < e.n
            /\ \A e \in ToSet(q) : e \in ToSet(r) \/ \E j \in 1..i : e = q[j]
        BY <4>1, <4>2, BehindIs
      <4> QED
        BY <4>3 DEF q, i, r
    <3>3. ASSUME NEW e \in ToSet(devKeys[d]), Real(e)
          PROVE  e \in ToSet(devKeys'[d]) \/ e = got(d)
      <4> SUFFICES ASSUME NEW j \in 1..spot(d), e = devKeys[d][j] PROVE e = got(d)
        BY <3>2
      <4>1. j = spot(d) \/ ~Real(devKeys[d][j])
        BY <2>7, <2>10
      <4>2. j = spot(d)
        BY <3>3, <4>1
      <4> QED
        BY <4>2 DEF got
    <3> QED
      BY <3>2, <3>3
  <2>11. /\ ToSet(<<>>) = {} /\ Ascending(<<>>)
    BY DEF ToSet, Ascending
  <2>12. HeldIsRight(devKeys, lastRead)'
    <3> SUFFICES ASSUME NEW d \in Device
                 PROVE  /\ Ascending(devKeys'[d])
                        /\ \A key \in ToSet(devKeys'[d]) :
                             key.dev = d /\ lastRead'[d] < key.n /\ resetMark[d] < key.n /\ key.n <= made[d]
                        /\ lastRead'[d] <= made[d] /\ resetMark[d] <= made[d]
      BY <1>1 DEF HeldIsRight
    <3>1. /\ Ascending(devKeys[d])
          /\ \A key \in ToSet(devKeys[d]) :
               key.dev = d /\ lastRead[d] < key.n /\ resetMark[d] < key.n /\ key.n <= made[d]
          /\ lastRead[d] <= made[d] /\ resetMark[d] <= made[d]
      BY <1>2 DEF KeysRight, HeldIsRight
    <3> HIDE DEF from
    <3>2. CASE d \in from
      BY <2>7, <2>8, <2>10, <3>1, <3>2
    <3>3. CASE d \notin from /\ d \in emptied
      BY <2>8, <2>9, <2>11, <3>1, <3>3
    <3>4. CASE d \notin from /\ d \notin emptied
      BY <2>8, <2>9, <3>1, <3>4
    <3> QED
      BY <3>2, <3>3, <3>4
  <2>13. QueueIsRight(keyQueue, devKeys, lastRead)'
    BY <2>1, <2>11 DEF QueueIsRight
  <2>14. NoneLost(keyQueue, devKeys, lastRead)'
    <3> SUFFICES ASSUME NEW d \in Device, NEW n \in 1..KeyBound,
                        n <= made[d], lastRead'[d] < n, cleared[d] < n, Real([dev |-> d, n |-> n])
                 PROVE  [dev |-> d, n |-> n] \in ToSet(keyQueue') \cup ToSet(devKeys'[d])
      BY <1>1 DEF NoneLost, Real
    <3> DEFINE key == [dev |-> d, n |-> n]
    <3>1. lastRead[d] < n
      <4>1. CASE d \in from
        <5>1. lastRead[d] < got(d).n /\ lastRead'[d] = got(d).n
          BY <1>2, <2>7, <2>8, <4>1 DEF KeysRight, HeldIsRight
        <5>2. lastRead[d] \in Nat /\ got(d).n \in Nat /\ n \in Nat
          BY <1>2, <2>7, <4>1 DEF ConInAssumption, Key
        <5> QED
          BY <5>1, <5>2
      <4>2. CASE d \notin from
        BY <2>8, <4>2
      <4> QED
        BY <4>1, <4>2
    <3>2. key \in ToSet(keyQueue) \cup ToSet(devKeys[d])
      BY <1>2, <3>1 DEF KeysRight, NoneLost
    <3>3. key \notin ToSet(keyQueue)
      BY <1>5 DEF RealAt, ToSet
    <3>4. key \in ToSet(devKeys[d])
      BY <3>2, <3>3
    <3>5. HasKey(d)
      BY <3>4 DEF HasKey, ToSet
    <3>6. CASE d \in from
      <4>1. key \in ToSet(devKeys'[d]) \/ key = got(d)
        BY <2>10, <3>4, <3>6
      <4>2. key # got(d)
        <5>1. lastRead'[d] = got(d).n /\ key.n = n /\ n \in Nat
          BY <2>8, <3>6
        <5> QED
          BY <5>1
      <4> QED
        BY <4>1, <4>2
    <3>7. CASE d \notin from
      <4>1. d \notin emptied
        BY <3>5, <3>7
      <4> QED
        BY <2>9, <3>4, <3>7, <4>1
    <3> QED
      BY <3>6, <3>7
  <2> QED
    BY <2>12, <2>13, <2>14 DEF KeysAreRight, KeysRight
<1> QED
  BY <1>4, <1>5

\* An enumeration in order meets every place once.
LEMMA InOrderIs ==
  ASSUME NEW S \in SUBSET Nat, IsFiniteSet(S), NEW order \in InOrder(S)
  PROVE  /\ order \in [1..Cardinality(S) -> S]
         /\ \A m, n \in 1..Cardinality(S) : order[m] = order[n] => m = n
         /\ \A i \in S : \E n \in 1..Cardinality(S) : order[n] = i
<1>1. /\ Cardinality(S) \in Nat /\ order \in [1..Cardinality(S) -> S]
      /\ \A m, n \in 1..Cardinality(S) : m < n => order[m] < order[n]
  BY FS_CardinalityType DEF InOrder
<1>2. \A m, n \in 1..Cardinality(S) : order[m] = order[n] => m = n
  <2> SUFFICES ASSUME NEW m \in 1..Cardinality(S), NEW n \in 1..Cardinality(S), order[m] = order[n], m # n
               PROVE  FALSE
    OBVIOUS
  <2>1. order[m] \in Nat /\ order[n] \in Nat
    BY <1>1
  <2>2. m < n \/ n < m
    BY <1>1
  <2> QED
    BY <1>1, <2>1, <2>2
<1>3. order \in Injection(1..Cardinality(S), S)
  BY <1>1, <1>2 DEF Injection, IsInjective
<1>4. Cardinality(1..Cardinality(S)) = Cardinality(S)
  BY <1>1, FiniteUpTo
<1>5. order \in Surjection(1..Cardinality(S), S)
  BY <1>3, <1>4, FS_Injection
<1> QED
  BY <1>1, <1>2, <1>5 DEF Surjection

\* The keys that go to the queue are of different devices, and each was its
\* device's first; a partial one that is dropped is no real one.
LEMMA ReadKeyStrokeExKeepsRight ==
  ASSUME InStep, KeysGood, ConInAssumption, KeysAreRight, ReadKeyStrokeEx
  PROVE  KeysAreRight'
<1>1. PICK asked, kept, order, items : Asks(asked, kept, order, items)
  BY KeysAsked, Zenon
<1>2. /\ asked \subseteq DOMAIN textInEx /\ kept \subseteq asked /\ order \in InOrder(kept) /\ items \in Seq(Key)
      /\ keyQueue # <<>> => asked = {}
      /\ \A i \in asked : /\ textInEx[i] \in Device
                          /\ devKeys[textInEx[i]] \in Seq(Key) /\ devKeys[textInEx[i]] # <<>>
      /\ devKeys' = [d \in Device |->
           IF \E i \in asked : textInEx[i] = d THEN Tail(devKeys[d]) ELSE devKeys[d]]
      /\ IsFiniteSet(kept) /\ Len(items) = Cardinality(kept)
  BY <1>1, Zenon DEF Asks
<1>3. /\ \A i \in asked \ kept : ~Real(Head(devKeys[textInEx[i]]))
      /\ \A n \in 1..Len(items) : items[n] = Head(devKeys[textInEx[order[n]]])
      /\ IF keyQueue \o items = <<>> THEN UNCHANGED <<keyQueue, lastRead>>
         ELSE Deliver(Head(keyQueue \o items)) /\ keyQueue' = Tail(keyQueue \o items)
  BY <1>1, Zenon DEF Asks
<1> DEFINE queue == keyQueue \o items
           head(i) == Head(devKeys[textInEx[i]])
<1>4. /\ UNCHANGED <<made, cleared, resetMark, partialKeys, setting>> /\ setting.kind # "reset"
      /\ keyQueue \in Seq(Key) /\ devKeys \in [Device -> Seq(Key)] /\ lastRead \in [Device -> 0..KeyBound]
      /\ HeldIsRight(devKeys, lastRead) /\ NoneLost(keyQueue, devKeys, lastRead)
  BY DEF ReadKeyStrokeEx, Idle, Calm, KeysGood, KeyTypes, KeysAreRight, KeysRight
<1>5. \A d \in Device : devKeys'[d] = IF \E i \in asked : textInEx[i] = d THEN Tail(devKeys[d]) ELSE devKeys[d]
  BY <1>2
<1>6. ASSUME NEW i \in asked, NEW d \in Device, d = textInEx[i]
      PROVE  /\ devKeys'[d] \in Seq(Key) /\ Ascending(devKeys'[d])
             /\ ToSet(devKeys'[d]) \subseteq ToSet(devKeys[d])
             /\ head(i) \in ToSet(devKeys[d]) /\ head(i) \in Key /\ head(i).dev = d
             /\ \A e \in ToSet(devKeys'[d]) : e.dev = d => head(i).n < e.n
             /\ \A e \in ToSet(devKeys[d]) : e \in ToSet(devKeys'[d]) \/ e = head(i)
  <2> DEFINE held == devKeys[d]
  <2>1. held \in Seq(Key) /\ held # <<>> /\ devKeys'[d] = Tail(held) /\ head(i) = Head(held)
    BY <1>2, <1>5, <1>6
  <2>2. Ascending(held) /\ \A key \in ToSet(held) : key.dev = d
    BY <1>4 DEF HeldIsRight
  <2> HIDE DEF held, head
  <2>3. devKeys'[d] = After(held, 1) /\ head(i) = held[1] /\ 1 \in DOMAIN held
    BY <2>1, TailIsBehind
  <2>4. held[1] \in ToSet(held) /\ held[1] \in Key
    BY <2>1, <2>3, InSet
  <2>5. /\ After(held, 1) \in Seq(Key) /\ Ascending(After(held, 1))
        /\ ToSet(After(held, 1)) \subseteq ToSet(held)
        /\ \A e \in ToSet(After(held, 1)) : e.dev = held[1].dev => held[1].n < e.n
        /\ \A e \in ToSet(held) : e \in ToSet(After(held, 1)) \/ \E j \in 1..1 : e = held[j]
    BY <2>1, <2>2, <2>3, BehindIs
  <2>6. \A j \in 1..1 : j = 1
    OBVIOUS
  <2> QED
    BY <2>2, <2>3, <2>4, <2>5, <2>6 DEF held
<1>7. HeldIsRight(devKeys', lastRead)
  <2> SUFFICES ASSUME NEW d \in Device
               PROVE  /\ Ascending(devKeys'[d])
                      /\ \A key \in ToSet(devKeys'[d]) :
                           key.dev = d /\ lastRead[d] < key.n /\ resetMark[d] < key.n /\ key.n <= made[d]
                      /\ lastRead[d] <= made[d] /\ resetMark[d] <= made[d]
    BY DEF HeldIsRight
  <2>1. CASE \E i \in asked : textInEx[i] = d
    <3>1. Ascending(devKeys'[d]) /\ ToSet(devKeys'[d]) \subseteq ToSet(devKeys[d])
      BY <1>6, <2>1
    <3> QED
      BY <1>4, <3>1 DEF HeldIsRight
  <2>2. CASE ~ \E i \in asked : textInEx[i] = d
    BY <1>4, <1>5, <2>2 DEF HeldIsRight
  <2> QED
    BY <2>1, <2>2
<1>8. devKeys' \in [Device -> Seq(Key)]
  BY <1>2, <1>4, <1>5, <1>6
<1>9. ASSUME keyQueue # <<>> PROVE KeysRight(queue, devKeys', lastRead)
  <2>1. asked = {} /\ kept = {} /\ Len(items) = 0
    BY <1>2, <1>9, FS_EmptySet
  <2>2. items = <<>>
    BY <2>1, EmptySeq
  <2>3. queue = keyQueue
    BY <1>4, <2>2, ConcatEmptySeq
  <2>4. devKeys' = devKeys
    BY <1>4, <1>5, <1>8, <2>1
  <2> QED
    BY <2>3, <2>4 DEF KeysAreRight
<1>10. ASSUME keyQueue = <<>> PROVE KeysRight(queue, devKeys', lastRead)
  <2>1. queue = items
    BY <1>2, <1>10, ConcatEmptySeq
  <2>2. textInEx \in Seq(ExDevice) /\ IsInjective(textInEx) /\ DOMAIN textInEx = 1..Len(textInEx)
    BY LenProperties DEF InStep, ListTypes, ListedOnce
  <2>3. kept \in SUBSET Nat /\ Len(items) \in Nat /\ DOMAIN items = 1..Len(items)
    BY <1>2, <2>2, LenProperties
  <2>4. /\ \A n \in 1..Len(items) : order[n] \in kept
        /\ \A m, n \in 1..Len(items) : order[m] = order[n] => m = n
        /\ \A i \in kept : \E n \in 1..Len(items) : order[n] = i
    <3>1. Cardinality(kept) = Len(items) /\ IsFiniteSet(kept) /\ order \in InOrder(kept)
      BY <1>2
    <3>2. /\ order \in [1..Cardinality(kept) -> kept]
          /\ \A m, n \in 1..Cardinality(kept) : order[m] = order[n] => m = n
          /\ \A i \in kept : \E n \in 1..Cardinality(kept) : order[n] = i
      BY <2>3, <3>1, InOrderIs
    <3> QED
      BY <3>1, <3>2
  <2>5. \A n \in 1..Len(items) : items[n] = head(order[n]) /\ order[n] \in asked /\ items[n].dev = textInEx[order[n]]
    BY <1>2, <1>3, <1>6, <2>4
  <2> HIDE DEF queue, head
  <2>6. Ascending(items)
    <3>1. ASSUME NEW m \in DOMAIN items, NEW n \in DOMAIN items, items[m].dev = items[n].dev PROVE m = n
      BY <1>2, <2>2, <2>3, <2>4, <2>5, <3>1 DEF IsInjective
    <3>2. ASSUME NEW m \in DOMAIN items, NEW n \in DOMAIN items, m < n PROVE m # n
      BY <2>3, <3>2
    <3> QED
      BY <3>1, <3>2 DEF Ascending
  <2>7. QueueIsRight(items, devKeys', lastRead)
    <3> SUFFICES ASSUME NEW key \in ToSet(items)
                 PROVE  /\ lastRead[key.dev] < key.n /\ key.n <= made[key.dev]
                        /\ \A later \in ToSet(devKeys'[key.dev]) : key.n < later.n
                        /\ resetMark[key.dev] < key.n
      BY <1>4, <2>6 DEF QueueIsRight
    <3>1. PICK n \in 1..Len(items) : key = items[n]
      BY <2>3 DEF ToSet
    <3> DEFINE i == order[n]
    <3>2. i \in asked /\ key = head(i) /\ key.dev = textInEx[i] /\ textInEx[i] \in Device
      BY <1>2, <2>5, <3>1
    <3> HIDE DEF i
    <3>3. /\ key \in ToSet(devKeys[key.dev])
          /\ \A e \in ToSet(devKeys'[key.dev]) : e.dev = key.dev => key.n < e.n
      BY <1>6, <3>2
    <3>4. \A e \in ToSet(devKeys'[key.dev]) : e.dev = key.dev
      BY <1>7, <3>2 DEF HeldIsRight
    <3> QED
      BY <1>4, <3>2, <3>3, <3>4 DEF HeldIsRight
  <2>8. NoneLost(items, devKeys', lastRead)
    <3> SUFFICES ASSUME NEW d \in Device, NEW n \in 1..KeyBound,
                        n <= made[d], lastRead[d] < n, cleared[d] < n, Real([dev |-> d, n |-> n])
                 PROVE  [dev |-> d, n |-> n] \in ToSet(items) \cup ToSet(devKeys'[d])
      BY DEF NoneLost
    <3> DEFINE key == [dev |-> d, n |-> n]
    <3>1. key \in ToSet(keyQueue) \cup ToSet(devKeys[d])
      BY <1>4 DEF NoneLost
    <3>2. key \in ToSet(devKeys[d])
      BY <1>10, <3>1 DEF ToSet
    <3> HIDE DEF key
    <3>3. CASE \E i \in asked : textInEx[i] = d
      <4>1. PICK i \in asked : textInEx[i] = d
        BY <3>3
      <4>2. key \in ToSet(devKeys'[d]) \/ key = head(i)
        BY <1>6, <3>2, <4>1
      <4>3. CASE key = head(i)
        <5>1. i \in kept
          BY <1>3, <4>1, <4>3 DEF key, head
        <5>2. PICK m \in 1..Len(items) : order[m] = i
          BY <2>4, <5>1
        <5>3. items[m] = key
          BY <2>5, <4>3, <5>2
        <5> QED
          BY <2>3, <5>3 DEF ToSet, key
      <4> QED
        BY <4>2, <4>3 DEF key
    <3>4. CASE ~ \E i \in asked : textInEx[i] = d
      BY <1>5, <3>2, <3>4 DEF key
    <3> QED
      BY <3>3, <3>4
  <2> QED
    BY <1>7, <2>1, <2>7, <2>8 DEF KeysRight
<1>11. KeysRight(queue, devKeys', lastRead)
  BY <1>9, <1>10
<1>12. ASSUME NEW read, keyQueue' \in Seq(Key), KeysRight(keyQueue', devKeys', read), lastRead' = read
       PROVE  KeysAreRight'
  BY <1>4, <1>12 DEF KeysAreRight, KeysRight, HeldIsRight, QueueIsRight, NoneLost, Ascending, Real
<1>13. queue \in Seq(Key) /\ (queue = <<>> => keyQueue = <<>>)
  <2>1. queue \in Seq(Key) /\ Len(queue) = Len(keyQueue) + Len(items)
    BY <1>2, <1>4, ConcatProperties
  <2>2. Len(keyQueue) \in Nat /\ Len(items) \in Nat
    BY <1>2, <1>4, LenProperties
  <2> HIDE DEF queue
  <2>3. queue = <<>> => Len(keyQueue) = 0
    BY <2>1, <2>2, EmptySeq
  <2> QED
    BY <1>4, <2>1, <2>3, EmptySeq
<1>14. IF queue = <<>> THEN UNCHANGED <<keyQueue, lastRead>>
       ELSE Deliver(Head(queue)) /\ keyQueue' = Tail(queue)
  BY <1>3
<1> HIDE DEF queue
<1>15. CASE queue = <<>>
  BY <1>4, <1>11, <1>12, <1>13, <1>14, <1>15
<1>16. CASE queue # <<>>
  <2>1. Tail(queue) = After(queue, 1) /\ Head(queue) = queue[1] /\ 1 \in DOMAIN queue
    BY <1>13, <1>16, TailIsBehind
  <2>2. \A j \in 1..1 : j = 1 \/ ~Real(queue[j])
    OBVIOUS
  <2>3. KeyTypes
    BY DEF KeysGood
  <2>4. KeysRight(After(queue, 1), devKeys', [lastRead EXCEPT ![queue[1].dev] = queue[1].n])
    BY <1>4, <1>8, <1>11, <1>13, <2>1, <2>2, <2>3, DeliverFirst
  <2>5. keyQueue' = After(queue, 1) /\ lastRead' = [lastRead EXCEPT ![queue[1].dev] = queue[1].n]
    BY <1>14, <1>16, <2>1 DEF Deliver
  <2>6. After(queue, 1) \in Seq(Key)
    BY <1>13, <1>16, <2>1, HeadTailProperties
  <2> QED
    BY <1>12, <2>4, <2>5, <2>6
<1> QED
  BY <1>15, <1>16

\* What is left when all devices have answered is either in the splitter's queue,
\* which goes next, or was made since.
LEMMA ResetDevicesKeepsRight ==
  ASSUME KeysGood, ConInAssumption, KeysAreRight, NEW list \in Seq(Device), ResetDevices(list)
  PROVE  KeysAreRight'
<1>1. PICK done \in SUBSET ToSet(list) :
       /\ devKeys' = [d \in Device |-> IF d \in done THEN <<>> ELSE devKeys[d]]
       /\ cleared' = [d \in Device |-> Max({cleared[d]}
            \cup (IF d \in done THEN {made[d]} ELSE {})
            \cup (IF done = ToSet(list) THEN {key.n : key \in {k \in ToSet(keyQueue) : k.dev = d}} ELSE {}))]
       /\ IF done = ToSet(list)
          THEN /\ setting' = [Calm EXCEPT !.kind = "reset"]
               /\ resetMark' = [d \in Device |-> IF d \in done THEN made[d] ELSE resetMark[d]]
          ELSE UNCHANGED <<setting, resetMark>>
  BY DEF ResetDevices
<1>2. UNCHANGED <<keyQueue, made, partialKeys, lastRead>> /\ setting.kind = "none"
  BY DEF ResetDevices, Idle, Calm
<1>3. /\ HeldIsRight(devKeys, lastRead) /\ QueueIsRight(keyQueue, devKeys, lastRead)
      /\ NoneLost(keyQueue, devKeys, lastRead)
      /\ \A key \in ToSet(keyQueue) : key \in Key
  <2>1. keyQueue \in Seq(Key)
    BY DEF KeysGood, KeyTypes
  <2> QED
    BY <2>1, InSet DEF KeysAreRight, KeysRight
<1>4. \A d \in Device : made[d] \in 0..KeyBound /\ cleared[d] \in 0..KeyBound
  BY DEF KeysGood, KeyTypes
<1>5. ASSUME NEW d \in Device
      PROVE  /\ cleared'[d] \in Nat /\ cleared[d] <= cleared'[d] /\ (d \in done => made[d] <= cleared'[d])
             /\ done = ToSet(list) => \A key \in ToSet(keyQueue) : key.dev = d => key.n <= cleared'[d]
  <2> DEFINE queued == {key.n : key \in {k \in ToSet(keyQueue) : k.dev = d}}
             marks == {cleared[d]} \cup (IF d \in done THEN {made[d]} ELSE {})
                      \cup (IF done = ToSet(list) THEN queued ELSE {})
  <2>1. \A key \in ToSet(keyQueue) : key.n \in 0..KeyBound
    BY <1>3 DEF Key
  <2>2. queued \subseteq 0..KeyBound /\ \A key \in ToSet(keyQueue) : key.dev = d => key.n \in queued
    BY <2>1
  <2>3. cleared'[d] = Max(marks)
    BY <1>1
  <2> HIDE DEF queued
  <2>4. marks \in SUBSET (0..KeyBound) /\ cleared[d] \in marks /\ (d \in done => made[d] \in marks)
        /\ (done = ToSet(list) => queued \subseteq marks)
    BY <1>4, <2>2
  <2> HIDE DEF marks
  <2>5. marks # {} /\ KeyBound \in Nat
    BY <2>4 DEF ConInAssumption
  <2>6. Max(marks) \in marks /\ \A j \in marks : j <= Max(marks)
    BY <2>4, <2>5, MaxIs
  <2> QED
    BY <2>2, <2>3, <2>4, <2>6
<1>6. HeldIsRight(devKeys, lastRead)'
  <2>1. ToSet(<<>>) = {} /\ Ascending(<<>>)
    BY DEF ToSet, Ascending
  <2> SUFFICES ASSUME NEW d \in Device
               PROVE  /\ Ascending(devKeys'[d])
                      /\ \A key \in ToSet(devKeys'[d]) :
                           key.dev = d /\ lastRead[d] < key.n /\ resetMark'[d] < key.n /\ key.n <= made[d]
                      /\ lastRead[d] <= made[d] /\ resetMark'[d] <= made[d]
    BY <1>2 DEF HeldIsRight
  <2>2. CASE d \in done
    <3>1. devKeys'[d] = <<>> /\ resetMark'[d] \in {made[d], resetMark[d]} /\ made[d] <= made[d]
      BY <1>1, <1>4, <2>2
    <3> QED
      BY <1>3, <2>1, <3>1 DEF HeldIsRight
  <2>3. CASE d \notin done
    BY <1>1, <1>3, <2>3 DEF HeldIsRight
  <2> QED
    BY <2>2, <2>3
<1>7. QueueIsRight(keyQueue, devKeys, lastRead)'
  <2> SUFFICES ASSUME NEW key \in ToSet(keyQueue)
               PROVE  /\ lastRead[key.dev] < key.n /\ key.n <= made[key.dev]
                      /\ \A later \in ToSet(devKeys'[key.dev]) : key.n < later.n
                      /\ IF setting'.kind = "reset" THEN key.n <= cleared'[key.dev] ELSE resetMark'[key.dev] < key.n
    BY <1>2, <1>3 DEF QueueIsRight, Ascending
  <2>1. key.dev \in Device
    BY <1>3 DEF Key
  <2>2. /\ lastRead[key.dev] < key.n /\ key.n <= made[key.dev]
        /\ \A later \in ToSet(devKeys[key.dev]) : key.n < later.n
        /\ resetMark[key.dev] < key.n
    BY <1>2, <1>3 DEF QueueIsRight
  <2>3. \A later \in ToSet(devKeys'[key.dev]) : later \in ToSet(devKeys[key.dev])
    BY <1>1, <2>1 DEF ToSet
  <2>4. CASE done = ToSet(list)
    <3>1. setting'.kind = "reset"
      BY <1>1, <2>4 DEF Calm
    <3> QED
      BY <1>5, <2>1, <2>2, <2>3, <2>4, <3>1
  <2>5. CASE done # ToSet(list)
    BY <1>1, <1>2, <2>2, <2>3, <2>5
  <2> QED
    BY <2>4, <2>5
<1>8. NoneLost(keyQueue, devKeys, lastRead)'
  <2> SUFFICES ASSUME NEW d \in Device, NEW n \in 1..KeyBound,
                      n <= made[d], lastRead[d] < n, cleared'[d] < n, Real([dev |-> d, n |-> n])
               PROVE  [dev |-> d, n |-> n] \in ToSet(keyQueue) \cup ToSet(devKeys'[d])
    BY <1>2 DEF NoneLost, Real
  <2>1. cleared[d] < n /\ d \notin done
    <3>1. cleared[d] \in Nat /\ n \in Nat /\ made[d] \in Nat
      BY <1>4
    <3>2. cleared'[d] \in Nat /\ cleared[d] <= cleared'[d] /\ (d \in done => made[d] <= cleared'[d])
      BY <1>5
    <3> QED
      BY <3>1, <3>2
  <2> QED
    BY <1>1, <1>3, <2>1 DEF NoneLost
<1> QED
  BY <1>6, <1>7, <1>8 DEF KeysAreRight, KeysRight

\* A Reset that ends takes its queue with it; no other step of the toggle states
\* begins or ends one.
LEMMA OthersKeepRight ==
  ASSUME KeysGood, ConInAssumption, KeysAreRight,
         UNCHANGED <<devKeys, made, partialKeys, lastRead, cleared, resetMark>>,
         \/ keyQueue' = keyQueue /\ ((setting'.kind = "reset") <=> (setting.kind = "reset"))
         \/ keyQueue' = <<>> /\ setting.kind = "reset"
  PROVE  KeysAreRight'
<1>1. /\ HeldIsRight(devKeys, lastRead) /\ QueueIsRight(keyQueue, devKeys, lastRead)
      /\ NoneLost(keyQueue, devKeys, lastRead)
  BY DEF KeysAreRight, KeysRight
<1>2. HeldIsRight(devKeys, lastRead)'
  BY <1>1 DEF HeldIsRight, Ascending
<1>3. CASE keyQueue' = keyQueue /\ ((setting'.kind = "reset") <=> (setting.kind = "reset"))
  BY <1>1, <1>2, <1>3 DEF KeysAreRight, KeysRight, QueueIsRight, NoneLost, Ascending, Real
<1>4. CASE keyQueue' = <<>> /\ setting.kind = "reset"
  <2>1. keyQueue' = <<>> /\ setting.kind = "reset"
    BY <1>4
  <2>2. QueueIsRight(keyQueue, devKeys, lastRead)'
    BY <2>1 DEF QueueIsRight, Ascending, ToSet
  <2>3. NoneLost(keyQueue, devKeys, lastRead)'
    <3> SUFFICES ASSUME NEW d \in Device, NEW n \in 1..KeyBound,
                        n <= made[d], lastRead[d] < n, cleared[d] < n, Real([dev |-> d, n |-> n])
                 PROVE  [dev |-> d, n |-> n] \in ToSet(devKeys[d])
      BY DEF NoneLost, Real
    <3> DEFINE key == [dev |-> d, n |-> n]
    <3>1. key \in ToSet(keyQueue) \cup ToSet(devKeys[d])
      BY <1>1 DEF NoneLost
    <3>2. key \notin ToSet(keyQueue)
      <4>1. key \in ToSet(keyQueue) => key.n <= cleared[key.dev]
        BY <1>1, <2>1 DEF QueueIsRight
      <4>2. key.n = n /\ key.dev = d /\ cleared[d] \in Nat /\ n \in Nat
        BY DEF KeysGood, KeyTypes
      <4> HIDE DEF key
      <4> QED
        BY <4>1, <4>2
    <3> QED
      BY <3>1, <3>2
  <2> QED
    BY <1>2, <2>2, <2>3 DEF KeysAreRight, KeysRight
<1> QED
  BY <1>3, <1>4

-----------------------------------------------------------------------------
(* The lamps.                                                              *)

\* A step after which a device that showed a state shows it still.
Steady(d) ==
  \A value \in Toggle : Shows(d, value) => (devToggle'[d] = value \/ pending'[d] = <<devToggle'[d]>>)

LEMMA LampsStay ==
  ASSUME ToggleTypes, TogglesRight, SyncFirst', UNCHANGED <<textInEx, physical, setting, torn>>,
         \A i \in DOMAIN textInEx : Steady(textInEx[i])
  PROVE  TogglesRight'
<1>1. physical \in Toggle /\ setting.value \in Toggle
  BY DEF ToggleTypes, Settings
<1>2. \A i \in DOMAIN textInEx : Shows(textInEx[i], physical) => Shows(textInEx[i], physical)'
  BY <1>1 DEF Steady, Shows
<1>3. \A i \in DOMAIN textInEx : Shows(textInEx[i], setting.value) => Shows(textInEx[i], setting.value)'
  BY <1>1 DEF Steady, Shows
<1>4. SettingIsRight'
  BY DEF TogglesRight, SettingIsRight, Idle
<1>5. LampsAreRight'
  BY <1>2, <1>3 DEF TogglesRight, LampsAreRight, Idle
<1> QED
  BY <1>4, <1>5 DEF TogglesRight

\* A listed device has the splitter's function registered, and will tell.
LEMMA PressToggleKeepsLamps ==
  ASSUME InStep, ToggleTypes, ConInAssumption, TogglesRight, NEW d \in Device, PressToggle(d)
  PROVE  TogglesRight'
<1>1. /\ devToggle' = [devToggle EXCEPT ![d] = 1 - @]
      /\ pending' = [pending EXCEPT ![d] = IF SyncReg \in devRegs[d] THEN <<1 - devToggle[d]>> ELSE @]
      /\ UNCHANGED <<textInEx, notifyList, physical, setting, torn>>
  BY DEF PressToggle, lists
<1>2. devToggle \in [Device -> Toggle] /\ pending \in [Device -> Seq(Toggle)]
  BY DEF ToggleTypes
<1>3. SyncFirst'
  BY <1>1 DEF TogglesRight, SyncFirst
<1>4. ASSUME NEW i \in DOMAIN textInEx PROVE Steady(textInEx[i])
  <2>1. textInEx[i] \in Device /\ SyncReg \in devRegs[textInEx[i]]
    <3>1. textInEx[i] \in Device
      BY NodesAre DEF InStep, ConInAssumption
    <3>2. SyncReg \in {notifyList[k].reg : k \in DOMAIN notifyList}
      BY DEF TogglesRight, SyncFirst
    <3> QED
      BY <3>1, <3>2 DEF InStep, NotifyEverywhere
  <2>2. CASE textInEx[i] = d
    <3>1. pending'[d] = <<1 - devToggle[d]>> /\ devToggle'[d] = 1 - devToggle[d]
      BY <1>1, <1>2, <2>1, <2>2
    <3> QED
      BY <2>2, <3>1 DEF Steady
  <2>3. CASE textInEx[i] # d
    BY <1>1, <1>2, <2>1, <2>3 DEF Steady, Shows
  <2> QED
    BY <2>2, <2>3
<1> QED
  BY <1>1, <1>3, <1>4, LampsStay

\* What a notification leaves: nothing new, or every listed device with the
\* state, or a device that has refused it; and the call it came in is told.
LEMMA SyncKeepsLamps ==
  ASSUME InStep, ToggleTypes, ConInAssumption, TogglesRight, NEW d \in Device, ToggleStateSyncKeyNotify(d)
  PROVE  TogglesRight'
<1>1. /\ pending[d] # <<>> /\ pending' = [pending EXCEPT ![d] = <<>>] /\ physical' = Head(pending[d])
      /\ UNCHANGED <<textInEx, notifyList>>
  BY DEF ToggleStateSyncKeyNotify, lists
<1>2. PICK taking \in SUBSET ToSet(textInEx) :
        LET refused == taking # ToSet(textInEx) IN
        IF physical' = physical
        THEN taking = {} /\ Interrupts(FALSE) /\ UNCHANGED <<devToggle, torn>>
        ELSE SetOn(taking, physical') /\ torn' = refused /\ Interrupts(refused)
  BY DEF ToggleStateSyncKeyNotify
<1>3. \A i \in DOMAIN textInEx : textInEx[i] \in Device /\ textInEx[i] \in ToSet(textInEx)
  BY NodesAre DEF InStep, ConInAssumption, ToSet
<1>4. setting \in Settings /\ devToggle \in [Device -> Toggle] /\ pending \in [Device -> Seq(Toggle)]
  BY DEF ToggleTypes
<1>5. PICK refused \in BOOLEAN :
        /\ Interrupts(refused)
        /\ \/ physical' = physical /\ UNCHANGED <<devToggle, torn>> /\ ~refused
           \/ /\ torn' = refused
              /\ ~refused => \A i \in DOMAIN textInEx : devToggle'[textInEx[i]] = physical'
  <2>1. CASE physical' = physical
    BY <1>2, <2>1, Zenon
  <2>2. CASE physical' # physical
    <3> DEFINE refused == taking # ToSet(textInEx)
    <3>1. refused \in BOOLEAN /\ Interrupts(refused) /\ torn' = refused /\ SetOn(taking, physical')
      BY <1>2, <2>2, Zenon
    <3>2. ~refused => \A i \in DOMAIN textInEx : devToggle'[textInEx[i]] = physical'
      BY <1>3, <3>1 DEF SetOn
    <3> HIDE DEF refused
    <3> QED
      BY <3>1, <3>2, Zenon
  <2> QED
    BY <2>1, <2>2
<1>6. /\ setting.kind = "none" => setting' = setting
      /\ setting.kind = "set" => setting' = [setting EXCEPT !.raced = TRUE]
      /\ setting.kind = "reset" => setting' = [setting EXCEPT !.failed = @ \/ refused]
  BY <1>4, <1>5 DEF Interrupts
<1>7. \/ setting.kind = "none" /\ setting' = setting
      \/ setting.kind = "set" /\ setting'.kind = "set" /\ setting'.raced = TRUE /\ setting'.failed = setting.failed
      \/ /\ setting.kind = "reset" /\ setting'.kind = "reset" /\ setting'.raced = setting.raced
         /\ setting'.at = setting.at /\ (~setting'.failed => ~setting.failed /\ ~refused)
  <2>1. setting.kind \in {"none", "set", "reset"}
    BY <1>4 DEF Settings
  <2>2. CASE setting.kind = "none"
    BY <1>6, <2>2
  <2>3. CASE setting.kind = "set"
    BY <1>4, <1>6, <2>3 DEF Settings
  <2>4. CASE setting.kind = "reset"
    <3>1. setting' = [setting EXCEPT !.failed = setting.failed \/ refused]
      BY <1>6, <2>4
    <3>2. setting'.failed = (setting.failed \/ refused)
      BY <1>4, <3>1, Zenon DEF Settings
    <3>3. ~setting'.failed => ~setting.failed /\ ~refused
      BY <3>2, Zenon
    <3> QED
      BY <1>4, <2>4, <3>1, <3>3 DEF Settings
  <2> QED
    BY <2>1, <2>2, <2>3, <2>4
<1>8. SettingIsRight'
  BY <1>7 DEF TogglesRight, SettingIsRight, Idle, Calm
<1>9. ASSUME ~refused, NEW i \in DOMAIN textInEx, physical' = physical => Shows(textInEx[i], physical)
      PROVE  Shows(textInEx[i], physical)'
  <2> DEFINE e == textInEx[i]
  <2> SUFFICES devToggle'[e] = physical' \/ pending'[e] = <<devToggle'[e]>>
    BY <1>1 DEF Shows
  <2>1. CASE devToggle'[e] = physical'
    BY <2>1
  <2>2. CASE physical' = physical /\ devToggle' = devToggle
    <3>1. devToggle[e] = physical \/ pending[e] = <<devToggle[e]>>
      BY <1>9, <2>2 DEF Shows
    <3>2. CASE e # d
      BY <1>1, <1>3, <1>4, <2>2, <3>1, <3>2
    <3>3. CASE e = d
      BY <1>1, <2>2, <3>1, <3>3
    <3> QED
      BY <3>2, <3>3
  <2> QED
    BY <1>5, <1>9, <2>1, <2>2
<1>10. ASSUME setting'.kind = "none", ~torn', NEW i \in DOMAIN textInEx
       PROVE  Shows(textInEx[i], physical)'
  <2>1. Idle
    BY <1>7, <1>10 DEF TogglesRight, SettingIsRight
  <2>2. CASE physical' = physical /\ UNCHANGED <<devToggle, torn>> /\ ~refused
    BY <1>9, <1>10, <2>1, <2>2 DEF TogglesRight, LampsAreRight
  <2>3. CASE torn' = refused /\ (~refused => \A j \in DOMAIN textInEx : devToggle'[textInEx[j]] = physical')
    <3>1. ~refused
      BY <1>10, <2>3, Zenon
    <3> QED
      BY <1>1, <2>3, <3>1 DEF Shows
  <2> QED
    BY <1>5, <2>2, <2>3
<1>11. LampsAreRight'
  <2>1. setting'.kind = "set" => setting'.raced = TRUE
    BY <1>7
  <2>2. ASSUME setting'.kind = "reset", ~setting'.failed, NEW i \in DOMAIN textInEx, i < setting'.at
        PROVE  Shows(textInEx[i], physical)'
    BY <1>7, <1>9, <2>2 DEF TogglesRight, LampsAreRight
  <2>3. Idle' => setting'.kind = "none"
    BY DEF Idle, Calm
  <2> QED
    BY <1>1, <1>10, <2>1, <2>2, <2>3 DEF LampsAreRight
<1> QED
  BY <1>1, <1>8, <1>11 DEF TogglesRight, SyncFirst

\* SetState begins; each device in turn takes the state or refuses it.
LEMMA SetStateKeepsLamps ==
  ASSUME InStep, ToggleTypes, ConInAssumption, TogglesRight,
         \/ \E value \in Toggle, export \in BOOLEAN : SetState(value, export)
         \/ SetNext \/ SetDone
  PROVE  TogglesRight'
<1>1. setting \in Settings /\ UNCHANGED <<textInEx, notifyList, pending>>
  BY DEF ToggleTypes, SetState, SetNext, SetDone, lists
<1>2. SyncFirst'
  BY <1>1 DEF TogglesRight, SyncFirst
<1>3. ASSUME NEW value \in Toggle, NEW export \in BOOLEAN, SetState(value, export) PROVE TogglesRight'
  <2>1. setting' = [Calm EXCEPT !.kind = "set", !.value = value, !.export = export]
    BY <1>3 DEF SetState
  <2>2. setting'.kind = "set" /\ setting'.at = 1 /\ ~setting'.failed
    BY <2>1 DEF Calm
  <2>3. setting' # Calm
    BY <2>2 DEF Calm
  <2>4. SettingIsRight'
    BY <2>2, <2>3 DEF SettingIsRight, Idle
  <2>5. LampsAreRight'
    <3>1. \A i \in DOMAIN textInEx : ~(i < 1)
      BY NodesAre DEF InStep
    <3> QED
      BY <1>1, <2>2, <2>3, <3>1 DEF LampsAreRight, Idle
  <2> QED
    BY <1>2, <2>4, <2>5 DEF TogglesRight
<1>4. ASSUME SetNext PROVE TogglesRight'
  <2>1. /\ ~Idle /\ setting.at \in DOMAIN textInEx /\ physical' = physical
        /\ \/ /\ SetOn({textInEx[setting.at]}, Passed)
              /\ setting' = [setting EXCEPT !.at = @ + 1]
              /\ UNCHANGED torn
           \/ setting.kind = "set" /\ setting' = Calm /\ torn' = TRUE /\ UNCHANGED devToggle
           \/ /\ setting.kind = "reset"
              /\ setting' = [setting EXCEPT !.at = @ + 1, !.failed = TRUE]
    BY <1>4 DEF SetNext
  <2>2. setting.kind \in {"set", "reset"} /\ setting.at \in Nat
    BY <1>1, <2>1 DEF TogglesRight, SettingIsRight, Settings
  <2>3. CASE setting.kind = "set" /\ setting' = Calm /\ torn' = TRUE
    BY <1>2, <2>3 DEF TogglesRight, SettingIsRight, LampsAreRight, Idle, Calm
  <2>4. CASE setting.kind = "reset" /\ setting' = [setting EXCEPT !.at = @ + 1, !.failed = TRUE]
    <3>1. setting'.kind = "reset" /\ setting'.raced = setting.raced /\ setting'.failed = TRUE
      BY <1>1, <2>4 DEF Settings
    <3> QED
      BY <1>2, <2>4, <3>1 DEF TogglesRight, SettingIsRight, LampsAreRight, Idle, Calm
  <2>5. CASE /\ SetOn({textInEx[setting.at]}, Passed)
             /\ setting' = [setting EXCEPT !.at = @ + 1]
    <3>1. /\ setting'.kind = setting.kind /\ setting'.at = setting.at + 1 /\ setting'.value = setting.value
          /\ setting'.raced = setting.raced /\ setting'.failed = setting.failed
      BY <1>1, <2>5 DEF Settings
    <3>2. SettingIsRight'
      BY <2>2, <3>1 DEF TogglesRight, SettingIsRight, Idle, Calm
    <3>3. ASSUME NEW i \in DOMAIN textInEx, i < setting.at + 1, i < setting.at => Shows(textInEx[i], Passed)
          PROVE  devToggle'[textInEx[i]] = Passed \/ pending'[textInEx[i]] = <<devToggle'[textInEx[i]]>>
      <4>1. textInEx[i] \in Device /\ i \in Nat
        BY NodesAre DEF InStep, ConInAssumption
      <4>2. devToggle'[textInEx[i]] = IF textInEx[i] = textInEx[setting.at] THEN Passed ELSE devToggle[textInEx[i]]
        BY <2>5, <4>1 DEF SetOn
      <4>3. i = setting.at \/ i < setting.at
        BY <2>2, <3>3, <4>1
      <4> QED
        BY <1>1, <3>3, <4>2, <4>3 DEF Shows
    <3>4. CASE setting.kind = "set"
      <4>1. Passed = setting.value
        BY <3>4 DEF Passed
      <4>2. ~setting.raced => \A i \in DOMAIN textInEx : i < setting.at + 1 => Shows(textInEx[i], setting.value)'
        BY <1>1, <3>1, <3>3, <3>4, <4>1 DEF TogglesRight, LampsAreRight, Shows
      <4> QED
        BY <1>1, <1>2, <3>1, <3>2, <3>4, <4>2 DEF TogglesRight, LampsAreRight, Idle, Calm
    <3>5. CASE setting.kind = "reset"
      <4>1. Passed = physical
        BY <3>5 DEF Passed
      <4>2. ~setting.failed => \A i \in DOMAIN textInEx : i < setting.at + 1 => Shows(textInEx[i], physical)'
        BY <1>1, <2>1, <3>1, <3>3, <3>5, <4>1 DEF TogglesRight, LampsAreRight, Shows
      <4> QED
        BY <1>1, <1>2, <3>1, <3>2, <3>5, <4>2 DEF TogglesRight, LampsAreRight, Idle, Calm
    <3> QED
      BY <2>2, <3>4, <3>5
  <2> QED
    BY <2>1, <2>3, <2>4, <2>5
<1>5. ASSUME SetDone PROVE TogglesRight'
  <2>1. /\ ~Idle /\ setting.at = Len(textInEx) + 1 /\ setting' = Calm
        /\ torn' = (setting.raced \/ setting.failed) /\ UNCHANGED devToggle
        /\ \/ setting.kind = "set" /\ physical' = setting.value
           \/ setting.kind = "reset" /\ physical' = physical
    BY <1>5 DEF SetDone
  <2>2. ~torn' => ~setting.raced /\ ~setting.failed
    BY <2>1, Zenon
  <2>3. \A i \in DOMAIN textInEx : i < setting.at
    BY <2>1, NodesAre DEF InStep
  <2>4. ASSUME ~torn', NEW i \in DOMAIN textInEx PROVE Shows(textInEx[i], physical)'
    <3>1. Shows(textInEx[i], physical')
      BY <2>1, <2>2, <2>3, <2>4 DEF TogglesRight, LampsAreRight
    <3> QED
      BY <1>1, <2>1, <3>1 DEF Shows
  <2>5. SettingIsRight' /\ LampsAreRight'
    BY <1>1, <2>1, <2>4 DEF SettingIsRight, LampsAreRight, Idle, Calm
  <2> QED
    BY <1>2, <2>5 DEF TogglesRight
<1> QED
  BY <1>3, <1>4, <1>5

LEMMA ResetKeepsLamps ==
  ASSUME InStep, ToggleTypes, TogglesRight, NEW list, ResetDevices(list)
  PROVE  TogglesRight'
<1>1. Idle /\ UNCHANGED <<textInEx, notifyList, pending>>
  BY DEF ResetDevices, lists
<1>2. SyncFirst'
  BY <1>1 DEF TogglesRight, SyncFirst
<1>3. \/ setting' = [Calm EXCEPT !.kind = "reset"]
      \/ setting' = setting /\ torn' = TRUE
  BY DEF ResetDevices
<1>4. CASE setting' = [Calm EXCEPT !.kind = "reset"]
  <2>1. setting'.kind = "reset" /\ setting'.at = 1 /\ ~setting'.raced /\ setting' # Calm
    BY <1>4 DEF Calm
  <2>2. \A i \in DOMAIN textInEx : ~(i < 1)
    BY NodesAre DEF InStep
  <2>3. SettingIsRight' /\ LampsAreRight'
    BY <1>1, <2>1, <2>2 DEF SettingIsRight, LampsAreRight, Idle
  <2> QED
    BY <1>2, <2>3 DEF TogglesRight
<1>5. CASE setting' = setting /\ torn' = TRUE
  <2>1. SettingIsRight' /\ LampsAreRight'
    BY <1>1, <1>5 DEF TogglesRight, SettingIsRight, LampsAreRight, Idle, Calm
  <2> QED
    BY <1>2, <2>1 DEF TogglesRight
<1> QED
  BY <1>3, <1>4, <1>5

\* A step of a caller that ends with nothing under way.
LEMMA IdleLamps ==
  ASSUME TogglesRight, Idle, setting' = setting, SyncFirst',
         ~torn' => \A i \in DOMAIN textInEx' : Shows(textInEx[i], physical)'
  PROVE  TogglesRight'
<1>1. SettingIsRight'
  BY DEF TogglesRight, SettingIsRight, Idle
<1>2. LampsAreRight'
  BY DEF LampsAreRight, Idle, Calm
<1> QED
  BY <1>1, <1>2 DEF TogglesRight

LEMMA StopKeepsLamps ==
  ASSUME InStep, TogglesRight, NEW d \in Device, Stop(d)
  PROVE  TogglesRight'
<1>1. /\ Idle /\ textInEx' = Without(textInEx, d)
      /\ UNCHANGED <<notifyList, physical, torn, devToggle, pending, setting>>
  BY DEF Stop, TextInExDeleteDevice, toggles
<1>2. textInEx \in Seq(ExDevice) /\ IsInjective(textInEx)
  BY DEF InStep, ListTypes, ListedOnce
<1>3. textInEx' \in Seq(ExDevice) /\ \A e : e \in ToSet(textInEx') => e \in ToSet(textInEx)
  BY <1>1, <1>2, WithoutIs
<1>4. ASSUME ~torn, NEW i \in DOMAIN textInEx' PROVE Shows(textInEx[i], physical)'
  <2>1. textInEx'[i] \in ToSet(textInEx)
    BY <1>3, InSet DEF ToSet
  <2>2. PICK j \in DOMAIN textInEx : textInEx'[i] = textInEx[j]
    BY <2>1 DEF ToSet
  <2>3. Shows(textInEx[j], physical)
    BY <1>1, <1>4 DEF TogglesRight, LampsAreRight
  <2> QED
    BY <1>1, <2>2, <2>3 DEF Shows
<1>5. SyncFirst'
  BY <1>1 DEF TogglesRight, SyncFirst
<1> QED
  BY <1>1, <1>4, <1>5, IdleLamps

LEMMA RegistersKeepLamps ==
  ASSUME InStep, TogglesRight,
         \/ \E reg \in Reg : RegisterKeyNotify(reg)
         \/ \E k \in 2..Len(notifyList) : UnregisterKeyNotify(k)
  PROVE  TogglesRight'
<1>1. Idle /\ UNCHANGED <<textInEx, physical, torn, devToggle, pending, setting>>
  BY DEF RegisterKeyNotify, UnregisterKeyNotify, toggles
<1>2. /\ notifyList \in Seq(Node) /\ Len(notifyList) \in Nat /\ DOMAIN notifyList = 1..Len(notifyList)
      /\ 1 \in 1..Len(notifyList) /\ notifyList[1].reg = SyncReg
  BY NodesAre DEF InStep, ListTypes, TogglesRight, SyncFirst
<1>3. SyncFirst'
  <2>1. ASSUME NEW reg \in Reg, RegisterKeyNotify(reg) PROVE SyncFirst'
    <3>1. notifyList' = notifyList \/ \E node : notifyList' = Append(notifyList, node)
      BY <2>1 DEF RegisterKeyNotify
    <3>2. ASSUME NEW node, notifyList' = Append(notifyList, node) PROVE SyncFirst'
      <4>1. DOMAIN notifyList' = 1..Len(notifyList) + 1 /\ \A j \in 1..Len(notifyList) : notifyList'[j] = notifyList[j]
        BY <1>2, <3>2
      <4> QED
        BY <1>2, <4>1 DEF SyncFirst
    <3> QED
      BY <1>2, <3>1, <3>2 DEF SyncFirst
  <2>2. ASSUME NEW k \in 2..Len(notifyList), UnregisterKeyNotify(k) PROVE SyncFirst'
    <3>1. notifyList' = RemoveAt(notifyList, k) /\ k \in 1..Len(notifyList) /\ 1 < k /\ 1 \in 1..Len(notifyList) - 1
      BY <1>2, <2>2 DEF UnregisterKeyNotify
    <3>2. /\ notifyList' \in Seq(Node) /\ Len(notifyList') = Len(notifyList) - 1
          /\ \A j \in 1..Len(notifyList) - 1 : notifyList'[j] = IF j < k THEN notifyList[j] ELSE notifyList[j + 1]
      BY <1>2, <3>1, RemoveAtIs
    <3>3. DOMAIN notifyList' = 1..Len(notifyList) - 1
      BY <3>2, LenProperties
    <3> QED
      BY <1>2, <3>1, <3>2, <3>3 DEF SyncFirst
  <2> QED
    BY <2>1, <2>2
<1>4. ASSUME ~torn, NEW i \in DOMAIN textInEx PROVE Shows(textInEx[i], physical)'
  <2>1. Shows(textInEx[i], physical)
    BY <1>1, <1>4 DEF TogglesRight, LampsAreRight
  <2> QED
    BY <1>1, <2>1 DEF Shows
<1> QED
  BY <1>1, <1>3, <1>4, IdleLamps

\* The new device takes the state, or has refused it.
LEMMA JoinExKeepsLamps ==
  ASSUME InStep, ToggleTypes, ConInAssumption, TogglesRight, Idle, NEW d \in ExDevice, NEW list \in Seq(Node),
         1 \in DOMAIN list, list[1].reg = SyncReg, JoinEx(d, list), UNCHANGED <<physical, pending, setting>>
  PROVE  TogglesRight'
<1> DEFINE spot == Len(textInEx) + 1
<1>1. PICK good \in 0..Len(list) :
        /\ notifyList' = [k \in DOMAIN list |-> IF k <= good THEN [list[k] EXCEPT !.handles[spot] = d] ELSE list[k]]
        /\ \/ /\ textInEx' = Append(textInEx, d)
              /\ \/ SetOn({d}, physical) /\ UNCHANGED torn
                 \/ torn' = TRUE /\ UNCHANGED devToggle
           \/ UNCHANGED <<textInEx, devToggle, torn>>
  BY DEF JoinEx
<1>2. list[1] \in Node
  BY ElementOfSeq, LenProperties
<1>3. \A p : [list[1] EXCEPT !.handles[p] = d].reg = list[1].reg
  BY <1>2 DEF Node
<1>4. SyncFirst'
  BY <1>1, <1>3 DEF SyncFirst
<1>5. /\ textInEx \in Seq(Device) /\ Len(textInEx) \in Nat /\ DOMAIN textInEx = 1..Len(textInEx)
      /\ \A i \in DOMAIN textInEx : textInEx[i] \in Device
      /\ d \in Device
  <2>1. textInEx \in Seq(Device)
    BY SeqMonotonic DEF InStep, ListTypes, ConInAssumption
  <2> QED
    BY <2>1, NodesAre DEF InStep, ConInAssumption
<1>6. ~torn => \A i \in DOMAIN textInEx : devToggle[textInEx[i]] = physical \/ pending[textInEx[i]] = <<devToggle[textInEx[i]]>>
  BY DEF TogglesRight, LampsAreRight, Shows
<1>7. ASSUME ~torn', NEW i \in DOMAIN textInEx' PROVE Shows(textInEx[i], physical)'
  <2>1. CASE UNCHANGED <<textInEx, devToggle, torn>>
    BY <1>6, <1>7, <2>1 DEF Shows
  <2>2. CASE textInEx' = Append(textInEx, d) /\ SetOn({d}, physical) /\ UNCHANGED torn
    <3>1. \/ i \in DOMAIN textInEx /\ textInEx'[i] = textInEx[i]
          \/ textInEx'[i] = d
      BY <1>5, <2>2, AppendProperties, LenProperties
    <3>2. textInEx'[i] \in Device
      BY <1>5, <3>1
    <3>3. devToggle'[textInEx'[i]] = IF textInEx'[i] = d THEN physical ELSE devToggle[textInEx'[i]]
      BY <2>2, <3>2 DEF SetOn
    <3> QED
      BY <1>6, <1>7, <2>2, <3>1, <3>3 DEF Shows
  <2> QED
    BY <1>1, <1>7, <2>1, <2>2
<1> QED
  BY <1>4, <1>7, IdleLamps

LEMMA StartKeepsLamps ==
  ASSUME InStep, ToggleTypes, ConInAssumption, TogglesRight, NEW d \in Device, Start(d)
  PROVE  TogglesRight'
<1>1. /\ Idle /\ UNCHANGED <<physical, pending, setting>>
      /\ \/ UNCHANGED <<textInEx, notifyList, devToggle, torn>>
         \/ d \in ExDevice /\ ExAddDevice(d)
  BY DEF Start
<1>2. /\ notifyList \in Seq(Node) /\ Len(notifyList) \in Nat /\ DOMAIN notifyList = 1..Len(notifyList)
      /\ 1 \in DOMAIN notifyList /\ notifyList[1].reg = SyncReg /\ notifyList[1] \in Node
  BY NodesAre DEF InStep, ListTypes, TogglesRight, SyncFirst
<1>3. Grown(notifyList[1]).reg = SyncReg
  BY <1>2 DEF Grown, Node
<1>4. ASSUME UNCHANGED <<textInEx, devToggle, torn>>, SyncFirst' PROVE TogglesRight'
  <2>1. ASSUME ~torn', NEW i \in DOMAIN textInEx' PROVE Shows(textInEx[i], physical)'
    BY <1>1, <1>4, <2>1 DEF TogglesRight, LampsAreRight, Shows
  <2> QED
    BY <1>1, <1>4, <2>1, IdleLamps
<1>5. CASE UNCHANGED <<textInEx, notifyList, devToggle, torn>>
  <2>1. SyncFirst'
    BY <1>2, <1>5 DEF SyncFirst
  <2> QED
    BY <1>4, <1>5, <2>1
<1>6. CASE d \in ExDevice /\ ExAddDevice(d)
  <2> DEFINE grown == [k \in DOMAIN notifyList |-> Grown(notifyList[k])]
  <2>1. \/ JoinEx(d, notifyList)
        \/ \E done \in 0..Len(notifyList) + 1 : GrowAll(done) /\ UNCHANGED <<textInEx, devToggle, torn>>
        \/ JoinEx(d, grown)
    <3>1. Len(notifyList) + 2 - 1 = Len(notifyList) + 1
      BY <1>2
    <3> QED
      BY <1>6, <3>1 DEF ExAddDevice
  <2>2. CASE JoinEx(d, notifyList)
    BY <1>1, <1>2, <1>6, <2>2, JoinExKeepsLamps
  <2>3. ASSUME NEW done \in 0..Len(notifyList) + 1, GrowAll(done), UNCHANGED <<textInEx, devToggle, torn>>
        PROVE  TogglesRight'
    <3>1. notifyList'[1] \in {notifyList[1], Grown(notifyList[1])} /\ 1 \in DOMAIN notifyList'
      BY <1>2, <2>3 DEF GrowAll
    <3>2. SyncFirst'
      BY <1>2, <1>3, <3>1 DEF SyncFirst
    <3> QED
      BY <1>4, <2>3, <3>2
  <2>4. CASE JoinEx(d, grown)
    <3>1. \A k \in DOMAIN notifyList : Grown(notifyList[k]) \in Node
      <4>1. \A k \in DOMAIN notifyList : notifyList[k] \in Node /\ Capacity(notifyList[k]) <= exCount + Unit
        BY NodesAre DEF InStep, Fits
      <4> QED
        BY <4>1, GrownIs DEF InStep
    <3>2. grown \in Seq(Node) /\ 1 \in DOMAIN grown /\ grown[1].reg = SyncReg
      BY <1>2, <1>3, <3>1, MapIsSeq
    <3> HIDE DEF grown
    <3> QED
      BY <1>1, <1>6, <2>4, <3>2, JoinExKeepsLamps
  <2> QED
    BY <2>1, <2>2, <2>3, <2>4
<1> QED
  BY <1>1, <1>5, <1>6

-----------------------------------------------------------------------------
(* What is read, signalled and lit: every step.                            *)

InputInv == IInv /\ KeysAreRight /\ TogglesRight /\ SignalIsHonest

\* A new partial key is none that a device has had before.
LEMMA PressKeepsSignal ==
  ASSUME KeysGood, ConInAssumption, KeysAreRight, SignalIsHonest, InStep, NEW d \in Device, Press(d)
  PROVE  SignalIsHonest'
<1> DEFINE key == [dev |-> d, n |-> made[d] + 1]
<1>1. /\ UNCHANGED <<textIn, removed, signalled>>
      /\ devKeys' = [devKeys EXCEPT ![d] = Append(@, key)]
      /\ partialKeys' \subseteq partialKeys \cup {key}
  BY DEF Press, lists
<1>2. devKeys \in [Device -> Seq(Key)] /\ made \in [Device -> 0..KeyBound]
  BY DEF KeysGood, KeyTypes
<1>3. ASSUME NEW e \in Device, HasKey(e) PROVE HasKey(e)'
  <2>1. PICK i \in DOMAIN devKeys[e] : Real(devKeys[e][i])
    BY <1>3 DEF HasKey
  <2>2. devKeys[e] \in Seq(Key)
    BY <1>2
  <2>3. devKeys[e][i] \in ToSet(devKeys[e]) /\ devKeys[e][i] \in Key
    BY <2>1, <2>2, InSet
  <2>4. devKeys[e][i].dev = e /\ devKeys[e][i].n <= made[e]
    BY <2>3 DEF KeysAreRight, KeysRight, HeldIsRight
  <2>5. devKeys[e][i] # key
    <3>1. made[d] \in Nat /\ key.dev = d /\ key.n = made[d] + 1
      BY <1>2
    <3> HIDE DEF key
    <3> QED
      BY <2>4, <3>1
  <2> HIDE DEF key
  <2>6. devKeys[e][i] \notin partialKeys'
    BY <1>1, <2>1, <2>5 DEF Real
  <2>7. i \in DOMAIN devKeys'[e] /\ devKeys'[e][i] = devKeys[e][i]
    <3>1. CASE e = d
      <4>1. devKeys'[d] = Append(devKeys[d], key) /\ DOMAIN devKeys[d] = 1..Len(devKeys[d]) /\ Len(devKeys[d]) \in Nat
        BY <1>1, <1>2, <2>2, <3>1, LenProperties
      <4> QED
        BY <2>1, <3>1, <4>1
    <3>2. CASE e # d
      BY <1>1, <1>2, <2>1, <3>2
    <3> QED
      BY <3>1, <3>2
  <2> QED
    BY <2>6, <2>7 DEF HasKey, Real
<1>4. \A i \in DOMAIN textIn : textIn[i] \in Device
  BY ElementOfSeq, LenProperties DEF InStep, ListTypes
<1> QED
  BY <1>1, <1>3, <1>4 DEF SignalIsHonest

\* Nothing else makes a key that was there partial, or takes one away that the
\* signal was set for.
LEMMA OthersKeepSignal ==
  ASSUME SignalIsHonest, UNCHANGED <<devKeys, partialKeys>>,
         signalled' => signalled \/ \E i \in DOMAIN textIn : HasKey(textIn[i]),
         \/ removed'
         \/ removed' = removed /\ \A i \in DOMAIN textIn : i \in DOMAIN textIn' /\ textIn'[i] = textIn[i]
  PROVE  SignalIsHonest'
  BY DEF SignalIsHonest, HasKey, Real

LEMMA InputInvInit ==
  ASSUME Init, ConInAssumption
  PROVE  InputInv
<1>1. IInv
  BY InitHolds
<1>2. /\ notifyList = <<[reg |-> SyncReg, handles |-> [i \in 1..Unit |-> NoHandle]]>>
      /\ textInEx = <<>> /\ keyQueue = <<>> /\ setting = Calm /\ signalled = FALSE
      /\ \A d \in Device : /\ devKeys[d] = <<>>
                           /\ made[d] = 0 /\ lastRead[d] = 0 /\ cleared[d] = 0 /\ resetMark[d] = 0
  BY DEF Init
<1>3. ToSet(<<>>) = {} /\ Ascending(<<>>)
  BY DEF ToSet, Ascending
<1>4. KeysAreRight
  BY <1>2, <1>3 DEF KeysAreRight, KeysRight, HeldIsRight, QueueIsRight, NoneLost
<1>5. TogglesRight
  BY <1>2 DEF TogglesRight, SyncFirst, SettingIsRight, LampsAreRight, Idle, Calm
<1>6. SignalIsHonest
  BY <1>2 DEF SignalIsHonest
<1> QED
  BY <1>1, <1>4, <1>5, <1>6 DEF InputInv

\* None of the steps of the toggle states begins a Reset; the one that ends it
\* empties the queue.
LEMMA ResetsBeginAndEnd ==
  ASSUME setting \in Settings,
         \/ \E d \in Device : PressToggle(d) \/ ToggleStateSyncKeyNotify(d)
         \/ \E value \in Toggle, export \in BOOLEAN : SetState(value, export)
         \/ SetNext \/ SetDone
  PROVE  \/ keyQueue' = keyQueue /\ ((setting'.kind = "reset") <=> (setting.kind = "reset"))
         \/ keyQueue' = <<>> /\ setting.kind = "reset"
<1>1. ASSUME NEW d \in Device, PressToggle(d) PROVE keyQueue' = keyQueue /\ setting' = setting
  BY <1>1 DEF PressToggle, keys
<1>2. ASSUME NEW d \in Device, ToggleStateSyncKeyNotify(d) PROVE keyQueue' = keyQueue /\ setting'.kind = setting.kind
  <2>1. \E refused : Interrupts(refused)
    BY <1>2, Zenon DEF ToggleStateSyncKeyNotify
  <2>2. setting'.kind = setting.kind
    BY <2>1 DEF Interrupts, Settings
  <2> QED
    BY <1>2, <2>2 DEF ToggleStateSyncKeyNotify, keys
<1>3. ASSUME NEW value \in Toggle, NEW export \in BOOLEAN, SetState(value, export)
      PROVE  keyQueue' = keyQueue /\ setting.kind = "none" /\ setting'.kind = "set"
  BY <1>3 DEF SetState, Idle, Calm, keys
<1>4. ASSUME SetNext
      PROVE  keyQueue' = keyQueue /\ (setting'.kind = setting.kind \/ (setting.kind = "set" /\ setting'.kind = "none"))
  <2>1. UNCHANGED keys
    BY <1>4 DEF SetNext
  <2>2. \/ setting' = [setting EXCEPT !.at = @ + 1]
        \/ setting.kind = "set" /\ setting' = Calm
        \/ setting' = [setting EXCEPT !.at = @ + 1, !.failed = TRUE]
    BY <1>4 DEF SetNext
  <2>3. CASE setting' = [setting EXCEPT !.at = @ + 1]
    BY <2>1, <2>3 DEF Settings, keys
  <2>4. CASE setting.kind = "set" /\ setting' = Calm
    BY <2>1, <2>4 DEF Calm, keys
  <2>5. CASE setting' = [setting EXCEPT !.at = @ + 1, !.failed = TRUE]
    BY <2>1, <2>5 DEF Settings, keys
  <2> QED
    BY <2>2, <2>3, <2>4, <2>5
<1>5. ASSUME SetDone
      PROVE  \/ keyQueue' = keyQueue /\ setting.kind = "set" /\ setting'.kind = "none"
             \/ keyQueue' = <<>> /\ setting.kind = "reset"
  BY <1>5 DEF SetDone, Calm
<1> QED
  BY <1>1, <1>2, <1>3, <1>4, <1>5

LEMMA InputStepKeeps ==
  ASSUME InputInv, ConInAssumption, [Next]_vars
  PROVE  InputInv'
<1>1. IInv' /\ IInv /\ KeysAreRight /\ TogglesRight /\ SignalIsHonest
  BY StepKeeps DEF InputInv
<1>2. InStep /\ KeyTypes /\ ToggleTypes /\ KeysGood
  BY <1>1 DEF IInv, KeysGood
<1> DEFINE Goal == KeysAreRight' /\ TogglesRight' /\ SignalIsHonest'
<1>3. ASSUME UNCHANGED <<lists, toggles, setting, pending>> PROVE TogglesRight'
  <2>1. UNCHANGED <<textInEx, notifyList, physical, torn, devToggle>>
    BY <1>3 DEF lists, toggles
  <2>2. SyncFirst' /\ \A i \in DOMAIN textInEx : Steady(textInEx[i])
    BY <1>1, <1>3, <2>1 DEF TogglesRight, SyncFirst, Steady, Shows
  <2> QED
    BY <1>1, <1>2, <1>3, <2>1, <2>2, LampsStay
<1>4. ASSUME UNCHANGED <<keys, setting>> PROVE KeysAreRight'
  <2>1. UNCHANGED <<devKeys, made, partialKeys, lastRead, cleared, resetMark, keyQueue>>
    BY <1>4 DEF keys
  <2> QED
    BY <1>1, <1>2, <1>4, <2>1, OthersKeepRight
<1>5. ASSUME NEW d \in Device, Press(d) PROVE Goal
  <2>1. UNCHANGED <<lists, toggles, setting, pending>>
    BY <1>5 DEF Press
  <2> QED
    BY <1>1, <1>2, <1>3, <1>5, <2>1, PressKeepsRight, PressKeepsSignal
<1>6. ASSUME \/ \E d \in Device : PressToggle(d) \/ ToggleStateSyncKeyNotify(d)
             \/ \E value \in Toggle, export \in BOOLEAN : SetState(value, export)
             \/ SetNext \/ SetDone
      PROVE  Goal
  <2>1. TogglesRight'
    BY <1>1, <1>2, <1>6, PressToggleKeepsLamps, SyncKeepsLamps, SetStateKeepsLamps
  <2>2. /\ UNCHANGED <<devKeys, made, partialKeys, lastRead, cleared, resetMark, signalled, textIn, removed>>
    BY <1>6 DEF PressToggle, ToggleStateSyncKeyNotify, SetState, SetNext, SetDone, keys, lists
  <2>3. \/ keyQueue' = keyQueue /\ ((setting'.kind = "reset") <=> (setting.kind = "reset"))
        \/ keyQueue' = <<>> /\ setting.kind = "reset"
    BY <1>2, <1>6, ResetsBeginAndEnd DEF ToggleTypes
  <2> QED
    BY <1>1, <1>2, <2>1, <2>2, <2>3, OthersKeepRight, OthersKeepSignal
<1>7. ASSUME Reset \/ ResetEx PROVE Goal
  <2>1. textIn \in Seq(Device) /\ textInEx \in Seq(Device)
    BY <1>2, SeqMonotonic DEF InStep, ListTypes, ConInAssumption
  <2>2. PICK list \in Seq(Device) : ResetDevices(list)
    BY <1>7, <2>1 DEF Reset, ResetEx
  <2>3. SignalIsHonest'
    BY <2>2 DEF ResetDevices, SignalIsHonest
  <2> QED
    BY <1>1, <1>2, <2>2, <2>3, ResetDevicesKeepsRight, ResetKeepsLamps
<1>8. ASSUME ReadKeyStroke \/ ReadKeyStrokeEx PROVE Goal
  <2>1. UNCHANGED <<lists, toggles, setting, pending>> /\ signalled' = FALSE
    BY <1>8 DEF ReadKeyStroke, ReadKeyStrokeEx
  <2>2. SignalIsHonest'
    BY <2>1 DEF SignalIsHonest
  <2> QED
    BY <1>1, <1>2, <1>3, <1>8, <2>1, <2>2, ReadKeyStrokeKeepsRight, ReadKeyStrokeExKeepsRight
<1>9. ASSUME WaitForKey PROVE Goal
  <2>1. /\ UNCHANGED <<lists, toggles, setting, pending>>
        /\ UNCHANGED <<keyQueue, devKeys, made, partialKeys, lastRead, cleared, resetMark>>
        /\ signalled' = (signalled \/ \E i \in DOMAIN textIn : HasKey(textIn[i]))
    BY <1>9 DEF WaitForKey
  <2>2. UNCHANGED <<textIn, removed>>
    BY <2>1 DEF lists
  <2>3. signalled' => signalled \/ \E i \in DOMAIN textIn : HasKey(textIn[i])
    BY <2>1, Zenon
  <2>4. SignalIsHonest'
    BY <1>1, <2>1, <2>2, <2>3, OthersKeepSignal
  <2>5. KeysAreRight'
    BY <1>1, <1>2, <2>1, OthersKeepRight
  <2> QED
    BY <1>3, <2>1, <2>4, <2>5
<1>10. ASSUME NEW d \in Device, Start(d) PROVE Goal
  <2>1. UNCHANGED <<keys, setting>> /\ removed' = removed
    BY <1>10 DEF Start
  <2>2. textIn' = textIn \/ textIn' = Append(textIn, d)
    BY <1>10 DEF Start, TextInAddDevice
  <2>3. \A i \in DOMAIN textIn : i \in DOMAIN textIn' /\ textIn'[i] = textIn[i]
    <3>1. textIn \in Seq(Device)
      BY <1>2 DEF InStep, ListTypes
    <3> QED
      BY <2>2, <3>1, AppendProperties, LenProperties
  <2>4. SignalIsHonest'
    BY <1>1, <2>1, <2>3, OthersKeepSignal DEF keys
  <2> QED
    BY <1>1, <1>2, <1>4, <1>10, <2>1, <2>4, StartKeepsLamps
<1>11. ASSUME NEW d \in Device, Stop(d) PROVE Goal
  <2>1. UNCHANGED <<keys, setting>> /\ removed' = TRUE
    BY <1>11 DEF Stop
  <2>2. SignalIsHonest'
    BY <2>1 DEF SignalIsHonest
  <2> QED
    BY <1>1, <1>2, <1>4, <1>11, <2>1, <2>2, StopKeepsLamps
<1>12. ASSUME \/ \E reg \in Reg : RegisterKeyNotify(reg)
              \/ \E k \in 2..Len(notifyList) : UnregisterKeyNotify(k)
       PROVE  Goal
  <2>1. UNCHANGED <<keys, setting, textIn, removed>>
    BY <1>12 DEF RegisterKeyNotify, UnregisterKeyNotify
  <2>2. SignalIsHonest'
    BY <1>1, <2>1, OthersKeepSignal DEF keys
  <2> QED
    BY <1>1, <1>2, <1>4, <1>12, <2>1, <2>2, RegistersKeepLamps
<1>13. ASSUME UNCHANGED vars PROVE Goal
  <2>1. UNCHANGED <<lists, toggles, setting, pending>> /\ UNCHANGED <<keys, setting, textIn, removed>>
    BY <1>13 DEF vars, lists
  <2>2. SignalIsHonest'
    BY <1>1, <2>1, OthersKeepSignal DEF keys
  <2> QED
    BY <1>1, <1>3, <1>4, <2>1, <2>2
<1> HIDE DEF Goal
<1>14. Goal
  BY <1>5, <1>6, <1>7, <1>8, <1>9, <1>10, <1>11, <1>12, <1>13 DEF Next
<1> QED
  BY <1>1, <1>14 DEF Goal, InputInv

LEMMA InputInvAgrees ==
  ASSUME InputInv, ConInAssumption
  PROVE  InputAgrees
<1>1. InStep /\ KeyTypes /\ ToggleTypes /\ KeysAreRight /\ TogglesRight /\ SignalIsHonest
  BY DEF InputInv, IInv
<1>2. TogglesAgree
  <2> SUFFICES ASSUME Idle, ~torn, \A d \in Device : pending[d] = <<>>, NEW i \in DOMAIN textInEx
               PROVE  devToggle[textInEx[i]] = physical
    BY DEF TogglesAgree
  <2>1. textInEx[i] \in Device
    BY <1>1, NodesAre DEF InStep, ConInAssumption
  <2>2. devToggle[textInEx[i]] = physical \/ pending[textInEx[i]] = <<devToggle[textInEx[i]]>>
    BY <1>1 DEF TogglesRight, LampsAreRight, Shows
  <2>3. <<devToggle[textInEx[i]]>> # <<>>
    OBVIOUS
  <2> QED
    BY <2>1, <2>2, <2>3
<1>3. KeysInOrder
  <2> SUFFICES ASSUME NEW d \in Device
               PROVE  /\ \A i, j \in Queued(d) : i < j => keyQueue[i].n < keyQueue[j].n
                      /\ \A i, j \in DOMAIN devKeys[d] : i < j => devKeys[d][i].n < devKeys[d][j].n
                      /\ \A i \in Queued(d), j \in DOMAIN devKeys[d] : keyQueue[i].n < devKeys[d][j].n
                      /\ \A n \in Waiting(d) : n > lastRead[d] /\ (Idle => n > resetMark[d])
                      /\ \A n \in 1..made[d] :
                           (n > lastRead[d] /\ n > cleared[d] /\ Real([dev |-> d, n |-> n])) => n \in Waiting(d)
    BY DEF KeysInOrder
  <2>1. /\ keyQueue \in Seq(Key) /\ devKeys[d] \in Seq(Key) /\ lastRead[d] \in Nat /\ resetMark[d] \in Nat
        /\ cleared[d] \in Nat /\ made[d] \in 0..KeyBound
    BY <1>1 DEF KeyTypes
  <2>2. /\ \A i \in DOMAIN keyQueue : keyQueue[i] \in ToSet(keyQueue) /\ keyQueue[i] \in Key
        /\ \A i \in DOMAIN devKeys[d] : devKeys[d][i] \in ToSet(devKeys[d]) /\ devKeys[d][i] \in Key
        /\ \A e \in ToSet(keyQueue) : \E i \in DOMAIN keyQueue : e = keyQueue[i]
    BY <2>1, InSet
  <2>3. HeldIsRight(devKeys, lastRead) /\ QueueIsRight(keyQueue, devKeys, lastRead) /\ NoneLost(keyQueue, devKeys, lastRead)
    BY <1>1 DEF KeysAreRight, KeysRight
  <2>4. \A i, j \in Queued(d) : i < j => keyQueue[i].n < keyQueue[j].n
    BY <2>3 DEF QueueIsRight, Ascending, Queued
  <2>5. \A i, j \in DOMAIN devKeys[d] : i < j => devKeys[d][i].n < devKeys[d][j].n
    BY <2>2, <2>3 DEF HeldIsRight, Ascending
  <2>6. \A i \in Queued(d), j \in DOMAIN devKeys[d] : keyQueue[i].n < devKeys[d][j].n
    BY <2>2, <2>3 DEF QueueIsRight, Queued
  <2>7. ASSUME NEW n \in Waiting(d) PROVE n > lastRead[d] /\ (Idle => n > resetMark[d])
    <3>1. CASE \E i \in Queued(d) : n = keyQueue[i].n
      <4>1. PICK i \in DOMAIN keyQueue : keyQueue[i].dev = d /\ n = keyQueue[i].n
        BY <3>1 DEF Queued
      <4>2. keyQueue[i] \in ToSet(keyQueue) /\ n \in Nat
        BY <2>2, <4>1 DEF Key
      <4>3. lastRead[d] < n /\ (setting.kind # "reset" => resetMark[d] < n)
        BY <2>3, <4>1, <4>2 DEF QueueIsRight
      <4> QED
        BY <2>1, <4>2, <4>3 DEF Idle, Calm
    <3>2. CASE \E key \in ToSet(devKeys[d]) : n = key.n
      <4>1. PICK key \in ToSet(devKeys[d]) : n = key.n
        BY <3>2
      <4>2. key \in Key
        BY <2>1, InSet
      <4>3. n \in Nat /\ lastRead[d] < n /\ resetMark[d] < n
        BY <2>3, <4>1, <4>2 DEF HeldIsRight, Key
      <4> QED
        BY <2>1, <4>3
    <3> QED
      BY <2>7, <3>1, <3>2 DEF Waiting
  <2>8. ASSUME NEW n \in 1..made[d], n > lastRead[d], n > cleared[d], Real([dev |-> d, n |-> n])
        PROVE  n \in Waiting(d)
    <3> DEFINE key == [dev |-> d, n |-> n]
    <3>1. n \in 1..KeyBound /\ n <= made[d] /\ lastRead[d] < n /\ cleared[d] < n
      BY <2>1, <2>8 DEF ConInAssumption
    <3>2. key \in ToSet(keyQueue) \cup ToSet(devKeys[d])
      BY <2>3, <2>8, <3>1 DEF NoneLost
    <3>3. key.dev = d /\ key.n = n
      OBVIOUS
    <3> HIDE DEF key
    <3>4. CASE key \in ToSet(keyQueue)
      <4>1. PICK i \in DOMAIN keyQueue : key = keyQueue[i]
        BY <2>2, <3>4
      <4> QED
        BY <3>3, <4>1 DEF Waiting, Queued
    <3>5. CASE key \in ToSet(devKeys[d])
      BY <3>3, <3>5 DEF Waiting
    <3> QED
      BY <3>2, <3>4, <3>5
  <2> QED
    BY <2>4, <2>5, <2>6, <2>7, <2>8
<1> QED
  BY <1>1, <1>2, <1>3 DEF InputAgrees

\* Every listed keyboard shows the splitter's toggle state once all is quiet,
\* unless a device refused it; every keystroke is read once, in order, and none
\* is lost but to a reset; and the event is only left signalled while there is a
\* key, whatever devices come, go and refuse, for any number of them
\* (ConSplitter.c:3437-3492, 3520-3676, 3810-3962).
THEOREM InputIsRight == Spec => []InputAgrees
<1>1. Init => InputInv
  BY ConInAssumption, InputInvInit
<1>2. InputInv /\ [Next]_vars => InputInv'
  BY ConInAssumption, InputStepKeeps
<1>3. InputInv => InputAgrees
  BY ConInAssumption, InputInvAgrees
<1> QED
  BY <1>1, <1>2, <1>3, PTL DEF Spec

-----------------------------------------------------------------------------
(* The pointers.                                                           *)

PointerTypes ==
  /\ pointers \in [Kinds -> Seq(Pointer)] /\ room \in [Kinds -> Nat]
  /\ due \in [Kinds -> BOOLEAN] /\ left \in [Kinds -> BOOLEAN]
  /\ managed \subseteq Pointer
  /\ travel \in [Of("simple") -> Int] /\ moved \in [Of("simple") -> Int]
  /\ shown \in [Of("simple") -> Int] /\ readings \in [Of("simple") -> Nat]
  /\ place \in [Of("absolute") -> Nat \cup {NoTouch}]

\* A touch screen is touched in its own range.
PlacesInRange ==
  \A p \in Of("absolute") : place[p] # NoTouch => place[p] \in Lowest[p]..Highest[p]

PointersInv == PointerTypes /\ PlacesInRange /\ PointersAgree

\* What a division by a number loses.
LEMMA DivIs ==
  ASSUME NEW c \in Nat, NEW b \in Nat, b > 0
  PROVE  c \div b \in Int /\ b * (c \div b) <= c /\ c <= b * (c \div b) + b - 1
<1>1. c = b * (c \div b) + (c % b)
  BY SMTT(30)
<1>2. 0 <= c % b /\ c % b < b
  BY SMTT(30)
<1>3. c \div b \in Int /\ c % b \in Int
  BY SMTT(30)
<1>4. b * (c \div b) \in Int
  BY <1>3
<1> QED
  BY <1>1, <1>2, <1>3, <1>4

\* A division towards zero is less than one divisor off.
LEMMA TowardsZero ==
  ASSUME NEW a \in Int, NEW b \in Nat \ {0}
  PROVE  /\ Quotient(a, b) \in Int
         /\ a - b * Quotient(a, b) <= b - 1 /\ b * Quotient(a, b) - a <= b - 1
<1>1. b \in Nat /\ b > 0
  OBVIOUS
<1>2. CASE a >= 0
  <2> DEFINE q == a \div b
  <2>1. a \in Nat /\ Quotient(a, b) = q
    BY <1>2 DEF Quotient
  <2>2. q \in Int /\ b * q <= a /\ a <= b * q + b - 1
    BY <1>1, <2>1, DivIs
  <2> HIDE DEF q
  <2>3. b * q \in Int
    BY <2>2
  <2> QED
    BY <1>1, <2>1, <2>2, <2>3
<1>3. CASE ~(a >= 0)
  <2> DEFINE q == (-a) \div b
  <2>1. -a \in Nat /\ Quotient(a, b) = -q
    BY <1>3 DEF Quotient
  <2>2. q \in Int /\ b * q <= -a /\ -a <= b * q + b - 1
    BY <1>1, <2>1, DivIs
  <2> HIDE DEF q
  <2>3. b * (-q) = -(b * q) /\ b * q \in Int
    BY <2>2
  <2> QED
    BY <1>1, <2>1, <2>2, <2>3
<1> QED
  BY <1>2, <1>3

\* What one more reading of t shows is less than a step of the device off, too.
LEMMA OneMoreReading ==
  ASSUME NEW v \in Nat, NEW res \in Nat \ {0}, NEW m \in Int, NEW t \in Int, NEW s \in Int, NEW n \in Nat,
         v * (m - t) - res * s <= (res - 1) * n, -(v * (m - t) - res * s) <= (res - 1) * n
  PROVE  LET more == s + Quotient(t * v, res) IN
         /\ v * (m - 0) - res * more <= (res - 1) * (n + 1)
         /\ -(v * (m - 0) - res * more) <= (res - 1) * (n + 1)
<1> DEFINE q == Quotient(t * v, res)
           a == t * v
<1>1. a \in Int
  OBVIOUS
<1>2. q \in Int /\ a - res * q <= res - 1 /\ res * q - a <= res - 1
  <2>1. Quotient(a, res) \in Int /\ a - res * Quotient(a, res) <= res - 1 /\ res * Quotient(a, res) - a <= res - 1
    <3> HIDE DEF a
    <3> QED
      BY <1>1, TowardsZero
  <2> QED
    BY <2>1
<1> HIDE DEF q
<1>3. v * (m - t) = v * m - a
  OBVIOUS
<1>4. res * (s + q) = res * s + res * q
  BY <1>2
<1>5. (res - 1) * (n + 1) = (res - 1) * n + (res - 1)
  OBVIOUS
<1>6. v * (m - 0) = v * m
  OBVIOUS
<1> DEFINE x == v * m
           y == res * s
           z == res * q
           w == (res - 1) * n
<1>7. x \in Int /\ y \in Int /\ z \in Int /\ w \in Int /\ res \in Int
  BY <1>2
<1>8. x - a - y <= w /\ -(x - a - y) <= w /\ a - z <= res - 1 /\ z - a <= res - 1
  BY <1>2, <1>3
<1> HIDE DEF x, y, z, w, a
<1>9. x - (y + z) <= w + (res - 1) /\ -(x - (y + z)) <= w + (res - 1)
  BY <1>1, <1>7, <1>8
<1> QED
  BY <1>4, <1>5, <1>6, <1>9 DEF x, y, z, w, q

\* A place of a range that starts at zero, in the splitter's range.
LEMMA PlaceInRange ==
  ASSUME NEW a \in Nat, NEW h \in Nat, NEW v \in Nat, h > 0, a <= h
  PROVE  (a * v) \div h \in 0..v
<1> DEFINE c == a * v
           q == c \div h
<1>1. c \in Nat /\ c <= h * v
  OBVIOUS
<1>2. q \in Int /\ h * q <= c /\ c <= h * q + h - 1
  <2> HIDE DEF c
  <2> QED
    BY <1>1, DivIs
<1> HIDE DEF q, c
<1>3. h * q \in Int /\ h * v \in Int
  BY <1>2
<1>4. ~(q <= -1)
  <2> SUFFICES ASSUME q <= -1 PROVE FALSE
    OBVIOUS
  <2>1. h * (q + 1) <= 0
    BY <1>2
  <2>2. h * (q + 1) = h * q + h
    BY <1>2
  <2> QED
    BY <1>1, <1>2, <1>3, <2>1, <2>2
<1>5. ~(q >= v + 1)
  <2> SUFFICES ASSUME q >= v + 1 PROVE FALSE
    OBVIOUS
  <2>1. h * (q - (v + 1)) >= 0
    BY <1>2
  <2>2. h * (q - (v + 1)) = h * q - h * v - h
    BY <1>2
  <2> QED
    BY <1>1, <1>2, <1>3, <2>1, <2>2
<1>6. q \in 0..v
  BY <1>2, <1>4, <1>5
<1> QED
  BY <1>6 DEF q, c

LEMMA AppendedIs ==
  ASSUME NEW S, NEW q \in Seq(S), IsInjective(q), NEW d \in S, d \notin ToSet(q)
  PROVE  /\ Append(q, d) \in Seq(S) /\ Len(Append(q, d)) = Len(q) + 1
         /\ IsInjective(Append(q, d))
         /\ \A e : e \in ToSet(Append(q, d)) <=> e \in ToSet(q) \/ e = d
<1> DEFINE r == Append(q, d)
           n == Len(q)
<1>1. n \in Nat /\ DOMAIN q = 1..n
  OBVIOUS
<1>2. /\ r \in Seq(S) /\ Len(r) = n + 1 /\ DOMAIN r = 1..n + 1
      /\ r[n + 1] = d /\ \A j \in 1..n : r[j] = q[j]
  BY <1>1
<1>3. \A j \in 1..n : q[j] # d
  BY <1>1 DEF ToSet
<1> HIDE DEF r, n
<1>4. \A j \in 1..n + 1 : j \in 1..n \/ j = n + 1
  BY <1>1
<1>5. IsInjective(r)
  <2> SUFFICES ASSUME NEW a \in 1..n + 1, NEW b \in 1..n + 1, r[a] = r[b]
               PROVE  a = b
    BY <1>2 DEF IsInjective
  <2>1. CASE a \in 1..n /\ b \in 1..n
    BY <1>1, <1>2, <2>1 DEF IsInjective
  <2>2. CASE a = n + 1 \/ b = n + 1
    BY <1>2, <1>3, <1>4, <2>2
  <2> QED
    BY <1>4, <2>1, <2>2
<1>6. ASSUME NEW e PROVE e \in ToSet(r) <=> e \in ToSet(q) \/ e = d
  <2>1. e \in ToSet(r) => \E j \in 1..n + 1 : e = r[j]
    BY <1>2 DEF ToSet
  <2>2. e \in ToSet(q) <=> \E j \in 1..n : e = q[j]
    BY <1>1 DEF ToSet
  <2>3. \A j \in 1..n + 1 : r[j] \in ToSet(r)
    BY <1>2 DEF ToSet
  <2>4. n + 1 \in 1..n + 1 /\ \A j \in 1..n : j \in 1..n + 1
    BY <1>1
  <2> QED
    BY <1>2, <1>4, <2>1, <2>2, <2>3, <2>4
<1> QED
  BY <1>2, <1>5, <1>6 DEF r, n

LEMMA PointersInitHolds ==
  ASSUME PointersAssumption, PointersInit
  PROVE  PointersInv
<1>1. PointerTypes
  <2>1. pointers \in [Kinds -> Seq(Pointer)]
    <3> DEFINE none == <<>>
    <3>1. none \in Seq(Pointer)
      OBVIOUS
    <3>2. pointers = [k \in Kinds |-> none]
      BY Zenon DEF PointersInit
    <3> HIDE DEF none
    <3> QED
      BY <3>1, <3>2
  <2>2. room \in [Kinds -> Nat]
    BY DEF PointersAssumption, PointersInit
  <2>3. due \in [Kinds -> BOOLEAN] /\ left \in [Kinds -> BOOLEAN] /\ managed \subseteq Pointer
    BY DEF PointersInit
  <2>4. /\ travel \in [Of("simple") -> Int] /\ moved \in [Of("simple") -> Int]
        /\ shown \in [Of("simple") -> Int] /\ readings \in [Of("simple") -> Nat]
    <3>1. /\ travel = [p \in Of("simple") |-> 0] /\ moved = [p \in Of("simple") |-> 0]
          /\ shown = [p \in Of("simple") |-> 0] /\ readings = [p \in Of("simple") |-> 0]
      BY Zenon DEF PointersInit
    <3> QED
      BY <3>1
  <2>5. place \in [Of("absolute") -> Nat \cup {NoTouch}]
    BY DEF PointersInit
  <2> QED
    BY <2>1, <2>2, <2>3, <2>4, <2>5 DEF PointerTypes
<1>2. PlacesInRange
  BY DEF PointersInit, PlacesInRange, NoTouch
<1>3. ListsMatch
  <2> DEFINE none == <<>>
  <2>1. IsInjective(none) /\ ToSet(none) = {} /\ Len(none) = 0
    BY DEF IsInjective, ToSet
  <2>2. \A k \in Kinds : pointers[k] = none /\ room[k] = PointerUnit
    BY DEF PointersInit
  <2> HIDE DEF none
  <2>3. 0 <= PointerUnit
    BY DEF PointersAssumption
  <2> QED
    BY <2>1, <2>2, <2>3 DEF ListsMatch
<1>4. DueIsHonest
  BY DEF PointersInit, DueIsHonest
<1>5. MovementShown
  <2> SUFFICES ASSUME NEW p \in Of("simple"), Resolution[p] # 0
               PROVE  LET res == Resolution[p]
                          off == VirtualResolution * (moved[p] - travel[p]) - res * shown[p] IN
                      off <= (res - 1) * readings[p] /\ -off <= (res - 1) * readings[p]
    BY DEF MovementShown
  <2>1. moved[p] = 0 /\ travel[p] = 0 /\ shown[p] = 0 /\ readings[p] = 0
    BY DEF PointersInit
  <2>2. Resolution[p] \in Nat /\ VirtualResolution \in Nat
    BY DEF PointersAssumption
  <2> QED
    BY <2>1, <2>2
<1>6. TouchInRange
  BY DEF PointersInit, TouchInRange
<1> QED
  BY <1>1, <1>2, <1>3, <1>4, <1>5, <1>6 DEF PointersInv, PointersAgree

\* Only a device that moves or is touched has input that it did not have before.
LEMMA MoveKeeps ==
  ASSUME PointersAssumption, PointersInv, NEW p \in Pointer, Move(p)
  PROVE  PointersInv'
<1>1. PICK by \in {-1, 1} :
        /\ travel[p] + by # 0
        /\ travel' = [travel EXCEPT ![p] = @ + by]
        /\ moved' = [moved EXCEPT ![p] = @ + by]
  BY DEF Move
<1>2. /\ p \in Of("simple")
      /\ UNCHANGED <<pointers, room, due, managed, place, pointed, shown, readings, left>>
  BY DEF Move, Of
<1>3. PointerTypes
  BY DEF PointersInv
<1>4. PointerTypes'
  BY <1>1, <1>2, <1>3 DEF PointerTypes
<1>5. PlacesInRange' /\ ListsMatch' /\ TouchInRange'
  BY <1>2 DEF PointersInv, PointersAgree, PlacesInRange, ListsMatch, TouchInRange
<1>6. \A q : HasInput(q) => HasInput(q)'
  <2> SUFFICES ASSUME NEW q, HasInput(q) PROVE HasInput(q)'
    OBVIOUS
  <2>1. CASE q = p
    BY <1>1, <1>2, <1>3, <2>1 DEF HasInput, Of, PointerTypes
  <2>2. CASE q # p
    BY <1>1, <1>2, <1>3, <2>2 DEF HasInput, PointerTypes
  <2> QED
    BY <2>1, <2>2
<1>7. DueIsHonest'
  BY <1>2, <1>6 DEF PointersInv, PointersAgree, DueIsHonest
<1>8. MovementShown'
  <2>1. ASSUME NEW q \in Of("simple") PROVE moved'[q] - travel'[q] = moved[q] - travel[q]
    BY <1>1, <1>2, <1>3 DEF PointerTypes
  <2> QED
    BY <1>2, <2>1 DEF PointersInv, PointersAgree, MovementShown
<1> QED
  BY <1>4, <1>5, <1>7, <1>8 DEF PointersInv, PointersAgree

LEMMA TouchKeeps ==
  ASSUME PointersAssumption, PointersInv, NEW p \in Pointer, Touch(p)
  PROVE  PointersInv'
<1>1. PICK at \in Lowest[p]..Highest[p] : place' = [place EXCEPT ![p] = at]
  BY DEF Touch
<1>2. /\ p \in Of("absolute")
      /\ UNCHANGED <<pointers, room, due, managed, travel, pointed, moved, shown, readings, left>>
  BY DEF Touch, Of
<1>3. PointerTypes
  BY DEF PointersInv
<1>4. at \in Nat /\ at # NoTouch
  BY <1>2 DEF PointersAssumption, NoTouch
<1>5. PointerTypes'
  BY <1>1, <1>2, <1>3, <1>4 DEF PointerTypes
<1>6. PlacesInRange'
  BY <1>1, <1>2, <1>3 DEF PointersInv, PlacesInRange, PointerTypes
<1>7. ListsMatch' /\ TouchInRange' /\ MovementShown'
  BY <1>2 DEF PointersInv, PointersAgree, ListsMatch, TouchInRange, MovementShown
<1>8. \A q : HasInput(q) => HasInput(q)'
  <2> SUFFICES ASSUME NEW q, HasInput(q) PROVE HasInput(q)'
    OBVIOUS
  <2>1. CASE q = p
    BY <1>1, <1>2, <1>3, <1>4, <2>1 DEF HasInput, Of, PointerTypes
  <2>2. CASE q # p
    BY <1>1, <1>2, <1>3, <2>2 DEF HasInput, PointerTypes
  <2> QED
    BY <2>1, <2>2
<1>9. DueIsHonest'
  BY <1>2, <1>8 DEF PointersInv, PointersAgree, DueIsHonest
<1> QED
  BY <1>5, <1>6, <1>7, <1>9 DEF PointersInv, PointersAgree

\* A device that joins was not managed, and so not in the list.
LEMMA AddToKeeps ==
  ASSUME PointersAssumption, PointersInv, NEW k \in Kinds, NEW p \in Pointer, AddTo(k, p)
  PROVE  PointersInv'
<1>1. /\ p \in Of(k) \ managed /\ managed' = managed \cup {p}
      /\ UNCHANGED <<due, travel, place, pointed, moved, shown, readings, left>>
  BY DEF AddTo
<1>2. PointerTypes /\ ListsMatch
  BY DEF PointersInv, PointersAgree
<1>3. /\ pointers[k] \in Seq(Pointer) /\ IsInjective(pointers[k]) /\ Len(pointers[k]) \in Nat
      /\ ToSet(pointers[k]) \subseteq Of(k) \cap managed /\ Len(pointers[k]) <= room[k] /\ room[k] \in Nat
  BY <1>2 DEF PointerTypes, ListsMatch
<1>4. PlacesInRange' /\ MovementShown' /\ TouchInRange'
  BY <1>1 DEF PointersInv, PointersAgree, PlacesInRange, MovementShown, TouchInRange
<1>5. \A q : HasInput(q)' = HasInput(q)
  BY <1>1 DEF HasInput
<1>6. CASE UNCHANGED <<pointers, room>>
  <2>1. PointerTypes'
    BY <1>1, <1>2, <1>6 DEF PointerTypes
  <2>2. ListsMatch' /\ DueIsHonest'
    BY <1>1, <1>5, <1>6 DEF PointersInv, PointersAgree, ListsMatch, DueIsHonest
  <2> QED
    BY <1>4, <2>1, <2>2 DEF PointersInv, PointersAgree
<1>7. CASE /\ pointers' = [pointers EXCEPT ![k] = Append(@, p)]
           /\ room' = IF Len(pointers[k]) >= room[k] THEN [room EXCEPT ![k] = @ + PointerUnit] ELSE room
  <2> DEFINE q == Append(pointers[k], p)
  <2>1. /\ q \in Seq(Pointer) /\ Len(q) = Len(pointers[k]) + 1 /\ IsInjective(q)
        /\ \A e : e \in ToSet(q) <=> e \in ToSet(pointers[k]) \/ e = p
    BY <1>1, <1>3, AppendedIs
  <2> HIDE DEF q
  <2>2. \A j \in Kinds : pointers'[j] = IF j = k THEN q ELSE pointers[j]
    BY <1>2, <1>7 DEF PointerTypes, q
  <2>3. PointerUnit \in Nat /\ PointerUnit > 0
    BY DEF PointersAssumption
  <2>4. room' \in [Kinds -> Nat]
    BY <1>2, <1>7, <2>3 DEF PointerTypes
  <2>5. pointers' \in [Kinds -> Seq(Pointer)]
    BY <1>2, <1>7, <2>1 DEF PointerTypes, q
  <2>6. PointerTypes'
    BY <1>1, <1>2, <2>4, <2>5 DEF PointerTypes
  <2>7. Len(q) <= room'[k] /\ \A j \in Kinds \ {k} : room'[j] = room[j]
    BY <1>2, <1>3, <1>7, <2>1, <2>3 DEF PointerTypes
  <2>8. ListsMatch'
    <3> SUFFICES ASSUME NEW j \in Kinds
                 PROVE  /\ IsInjective(pointers'[j]) /\ ToSet(pointers'[j]) \subseteq Of(j) \cap managed'
                        /\ Len(pointers'[j]) <= room'[j]
      BY DEF ListsMatch, Of
    <3>1. CASE j = k
      BY <1>1, <1>3, <2>1, <2>2, <2>7, <3>1
    <3>2. CASE j # k
      BY <1>1, <1>2, <2>2, <2>7, <3>2 DEF ListsMatch
    <3> QED
      BY <3>1, <3>2
  <2>9. DueIsHonest'
    <3> SUFFICES ASSUME NEW j \in Kinds, due[j], ~left[j]
                 PROVE  \E i \in DOMAIN pointers'[j] : HasInput(pointers'[j][i])
      BY <1>1, <1>5 DEF DueIsHonest
    <3>1. PICK i \in DOMAIN pointers[j] : HasInput(pointers[j][i])
      BY DEF PointersInv, PointersAgree, DueIsHonest
    <3>2. CASE j # k
      BY <2>2, <3>1, <3>2
    <3>3. CASE j = k
      <4>1. i \in DOMAIN q /\ q[i] = pointers[k][i]
        BY <1>3, <3>1, <3>3 DEF q
      <4> QED
        BY <2>2, <3>1, <3>3, <4>1
    <3> QED
      BY <3>2, <3>3
  <2> QED
    BY <1>4, <2>6, <2>8, <2>9 DEF PointersInv, PointersAgree
<1> QED
  BY <1>6, <1>7 DEF AddTo

LEMMA DeleteFromKeeps ==
  ASSUME PointersAssumption, PointersInv, NEW k \in Kinds, NEW p \in Pointer, DeleteFrom(k, p)
  PROVE  PointersInv'
<1>1. /\ p \in Of(k) \cap managed /\ managed' = managed \ {p}
      /\ left' = [left EXCEPT ![k] = TRUE]
      /\ UNCHANGED <<room, due, travel, place, pointed, moved, shown, readings>>
  BY DEF DeleteFrom
<1>2. PointerTypes /\ ListsMatch
  BY DEF PointersInv, PointersAgree
<1>3. /\ pointers[k] \in Seq(Pointer) /\ IsInjective(pointers[k]) /\ Len(pointers[k]) \in Nat
      /\ ToSet(pointers[k]) \subseteq Of(k) \cap managed /\ Len(pointers[k]) <= room[k] /\ room[k] \in Nat
  BY <1>2 DEF PointerTypes, ListsMatch
<1>4. PlacesInRange' /\ MovementShown' /\ TouchInRange'
  BY <1>1 DEF PointersInv, PointersAgree, PlacesInRange, MovementShown, TouchInRange
<1>5. \A q : HasInput(q)' = HasInput(q)
  BY <1>1 DEF HasInput
<1>6. PICK q \in Seq(Pointer) :
        /\ \A j \in Kinds : pointers'[j] = IF j = k THEN q ELSE pointers[j]
        /\ pointers' \in [Kinds -> Seq(Pointer)]
        /\ Len(q) <= Len(pointers[k]) /\ IsInjective(q)
        /\ \A e : e \in ToSet(q) <=> e \in ToSet(pointers[k]) /\ e # p
  <2>1. CASE p \notin ToSet(pointers[k]) /\ UNCHANGED pointers
    <3>1. /\ \A j \in Kinds : pointers'[j] = IF j = k THEN pointers[k] ELSE pointers[j]
          /\ pointers' \in [Kinds -> Seq(Pointer)]
      BY <1>2, <2>1 DEF PointerTypes
    <3>2. Len(pointers[k]) <= Len(pointers[k])
      BY <1>3
    <3> QED
      BY <1>3, <2>1, <3>1, <3>2
  <2>2. ASSUME NEW i \in DOMAIN pointers[k], pointers[k][i] = p,
               pointers' = [pointers EXCEPT ![k] = RemoveAt(@, i)]
        PROVE  \E q \in Seq(Pointer) :
                 /\ \A j \in Kinds : pointers'[j] = IF j = k THEN q ELSE pointers[j]
                 /\ pointers' \in [Kinds -> Seq(Pointer)]
                 /\ Len(q) <= Len(pointers[k]) /\ IsInjective(q)
                 /\ \A e : e \in ToSet(q) <=> e \in ToSet(pointers[k]) /\ e # p
    <3> DEFINE r == RemoveAt(pointers[k], i)
    <3>1. i \in 1..Len(pointers[k])
      BY <1>3
    <3>2. /\ r \in Seq(Pointer) /\ Len(r) <= Len(pointers[k]) /\ IsInjective(r)
          /\ \A e : e \in ToSet(r) <=> e \in ToSet(pointers[k]) /\ e # p
      BY <1>3, <2>2, <3>1, RemovedIs
    <3>3. /\ \A j \in Kinds : pointers'[j] = IF j = k THEN r ELSE pointers[j]
          /\ pointers' \in [Kinds -> Seq(Pointer)]
      <4>1. pointers' = [pointers EXCEPT ![k] = r]
        BY <2>2
      <4> HIDE DEF r
      <4> QED
        BY <1>2, <3>2, <4>1 DEF PointerTypes
    <3> HIDE DEF r
    <3> QED
      BY <3>2, <3>3
  <2>3. \/ p \notin ToSet(pointers[k]) /\ UNCHANGED pointers
        \/ \E i \in DOMAIN pointers[k] :
             pointers[k][i] = p /\ pointers' = [pointers EXCEPT ![k] = RemoveAt(@, i)]
    BY DEF DeleteFrom
  <2> QED
    BY <2>1, <2>2, <2>3
<1>7. left' \in [Kinds -> BOOLEAN] /\ \A j \in Kinds : left'[j] = IF j = k THEN TRUE ELSE left[j]
  BY <1>1, <1>2 DEF PointerTypes
<1>8. PointerTypes'
  BY <1>1, <1>2, <1>6, <1>7 DEF PointerTypes
<1>9. ListsMatch'
  <2> SUFFICES ASSUME NEW j \in Kinds
               PROVE  /\ IsInjective(pointers'[j]) /\ ToSet(pointers'[j]) \subseteq Of(j) \cap managed'
                      /\ Len(pointers'[j]) <= room'[j]
    BY DEF ListsMatch, Of
  <2>1. CASE j = k
    <3>1. Len(q) \in Nat
      OBVIOUS
    <3>2. ToSet(q) \subseteq Of(k) \cap managed'
      BY <1>1, <1>3, <1>6
    <3>3. Len(q) <= room[k]
      BY <1>3, <1>6, <3>1
    <3> QED
      BY <1>1, <1>6, <2>1, <3>2, <3>3
  <2>2. CASE j # k
    <3>1. pointers'[j] = pointers[j] /\ room'[j] = room[j]
      BY <1>1, <1>6, <2>2
    <3>2. p \notin Of(j)
      BY <1>1, <2>2 DEF Of
    <3> QED
      BY <1>1, <1>2, <3>1, <3>2 DEF ListsMatch
  <2> QED
    BY <2>1, <2>2
<1>10. DueIsHonest'
  <2> SUFFICES ASSUME NEW j \in Kinds, due[j], ~left'[j]
               PROVE  \E i \in DOMAIN pointers'[j] : HasInput(pointers'[j][i])
    BY <1>1, <1>5 DEF DueIsHonest
  <2>1. j # k /\ ~left[j]
    BY <1>7
  <2> QED
    BY <1>6, <2>1 DEF PointersInv, PointersAgree, DueIsHonest
<1> QED
  BY <1>4, <1>8, <1>9, <1>10 DEF PointersInv, PointersAgree

\* Once the splitter was asked nothing is due: devices may lose what they had.
LEMMA AskedIs ==
  ASSUME PointerTypes, DueIsHonest, NEW k \in Kinds, Asked(k), UNCHANGED pointers,
         \A q \in Pointer \ Of(k) : HasInput(q)' = HasInput(q),
         \A j \in Kinds : ToSet(pointers[j]) \subseteq Of(j)
  PROVE  due' \in [Kinds -> BOOLEAN] /\ left' \in [Kinds -> BOOLEAN] /\ DueIsHonest'
<1>1. /\ due' \in [Kinds -> BOOLEAN] /\ left' \in [Kinds -> BOOLEAN]
      /\ \A j \in Kinds : due'[j] = IF j = k THEN FALSE ELSE due[j]
      /\ \A j \in Kinds : left'[j] = IF j = k THEN FALSE ELSE left[j]
  BY DEF Asked, PointerTypes
<1>2. DueIsHonest'
  <2> SUFFICES ASSUME NEW j \in Kinds, due'[j], ~left'[j]
               PROVE  \E i \in DOMAIN pointers[j] : HasInput(pointers[j][i])'
    BY DEF DueIsHonest
  <2>1. j # k /\ due[j] /\ ~left[j]
    BY <1>1
  <2>2. PICK i \in DOMAIN pointers[j] : HasInput(pointers[j][i])
    BY <2>1 DEF DueIsHonest
  <2>3. pointers[j][i] \in ToSet(pointers[j])
    BY DEF ToSet
  <2>4. pointers[j][i] \in Pointer \ Of(k)
    BY <2>1, <2>3 DEF Of
  <2> QED
    BY <2>2, <2>4
<1> QED
  BY <1>1, <1>2

LEMMA ListedAreOf ==
  ASSUME ListsMatch
  PROVE  \A j \in Kinds : ToSet(pointers[j]) \subseteq Of(j)
  BY DEF ListsMatch

LEMMA ResetSimpleKeeps ==
  ASSUME PointersAssumption, PointersInv, ResetSimplePointers
  PROVE  PointersInv'
<1>1. PICK done \in Answering("simple") :
        /\ travel' = [p \in Of("simple") |-> IF p \in done THEN 0 ELSE travel[p]]
        /\ moved' = [p \in Of("simple") |-> IF p \in done THEN moved[p] - travel[p] ELSE moved[p]]
  BY DEF ResetSimplePointers
<1>2. Asked("simple") /\ UNCHANGED <<pointers, room, managed, place, pointed, shown, readings>>
  BY DEF ResetSimplePointers
<1>3. PointerTypes /\ ListsMatch /\ DueIsHonest /\ PlacesInRange /\ TouchInRange /\ MovementShown
  BY DEF PointersInv, PointersAgree
<1>4. "simple" \in Kinds
  BY DEF Kinds
<1>5. \A q \in Pointer \ Of("simple") : HasInput(q)' = HasInput(q)
  BY <1>2 DEF HasInput, Of
<1>6. due' \in [Kinds -> BOOLEAN] /\ left' \in [Kinds -> BOOLEAN] /\ DueIsHonest'
  BY <1>2, <1>3, <1>4, <1>5, AskedIs, ListedAreOf
<1>7. PointerTypes'
  BY <1>1, <1>2, <1>3, <1>6 DEF PointerTypes
<1>8. PlacesInRange' /\ ListsMatch' /\ TouchInRange'
  BY <1>2, <1>3 DEF PlacesInRange, ListsMatch, TouchInRange
<1>9. MovementShown'
  <2>1. ASSUME NEW q \in Of("simple") PROVE moved'[q] - travel'[q] = moved[q] - travel[q]
    BY <1>1, <1>3 DEF PointerTypes
  <2> QED
    BY <1>2, <1>3, <2>1 DEF MovementShown
<1> QED
  BY <1>6, <1>7, <1>8, <1>9 DEF PointersInv, PointersAgree

LEMMA ResetAbsoluteKeeps ==
  ASSUME PointersAssumption, PointersInv, ResetAbsolutePointers
  PROVE  PointersInv'
<1>1. PICK done \in Answering("absolute") :
        place' = [p \in Of("absolute") |-> IF p \in done THEN NoTouch ELSE place[p]]
  BY DEF ResetAbsolutePointers
<1>2. Asked("absolute") /\ UNCHANGED <<pointers, room, managed, travel, pointed, moved, shown, readings>>
  BY DEF ResetAbsolutePointers
<1>3. PointerTypes /\ ListsMatch /\ DueIsHonest /\ PlacesInRange /\ TouchInRange /\ MovementShown
  BY DEF PointersInv, PointersAgree
<1>4. "absolute" \in Kinds
  BY DEF Kinds
<1>5. \A q \in Pointer \ Of("absolute") : HasInput(q)' = HasInput(q)
  BY <1>2 DEF HasInput, Of, PointersAssumption, Kinds
<1>6. due' \in [Kinds -> BOOLEAN] /\ left' \in [Kinds -> BOOLEAN] /\ DueIsHonest'
  BY <1>2, <1>3, <1>4, <1>5, AskedIs, ListedAreOf
<1>7. PointerTypes'
  BY <1>1, <1>2, <1>3, <1>6 DEF PointerTypes
<1>8. ListsMatch' /\ TouchInRange' /\ MovementShown'
  BY <1>2, <1>3 DEF ListsMatch, TouchInRange, MovementShown
<1>9. PlacesInRange'
  BY <1>1, <1>3 DEF PlacesInRange
<1> QED
  BY <1>6, <1>7, <1>8, <1>9 DEF PointersInv, PointersAgree

\* What was taken from a mouse was shown but for less than a step of it.
LEMMA GetSimpleKeeps ==
  ASSUME PointersAssumption, PointersInv, GetSimpleState
  PROVE  PointersInv'
<1>1. PICK answering \in Answering("simple") :
        LET ready == {p \in answering : HasInput(p)} IN
        /\ travel' = [p \in Of("simple") |-> IF p \in ready THEN 0 ELSE travel[p]]
        /\ shown' = [p \in Of("simple") |-> IF p \in ready THEN shown[p] + Scaled(p) ELSE shown[p]]
        /\ readings' = [p \in Of("simple") |-> IF p \in ready THEN readings[p] + 1 ELSE readings[p]]
        /\ pointed' = [kind |-> "simple", status |-> Status("simple", answering, ready), at |-> Movement(ready)]
  BY DEF GetSimpleState
<1> DEFINE ready == {p \in answering : HasInput(p)}
<1>2. /\ travel' = [p \in Of("simple") |-> IF p \in ready THEN 0 ELSE travel[p]]
      /\ shown' = [p \in Of("simple") |-> IF p \in ready THEN shown[p] + Scaled(p) ELSE shown[p]]
      /\ readings' = [p \in Of("simple") |-> IF p \in ready THEN readings[p] + 1 ELSE readings[p]]
      /\ pointed'.kind = "simple"
  BY <1>1
<1> HIDE DEF ready
<1>3. Asked("simple") /\ UNCHANGED <<pointers, room, managed, place, moved>>
  BY DEF GetSimpleState
<1>4. PointerTypes /\ ListsMatch /\ DueIsHonest /\ PlacesInRange /\ MovementShown
  BY DEF PointersInv, PointersAgree
<1>5. "simple" \in Kinds
  BY DEF Kinds
<1>6. \A q \in Pointer \ Of("simple") : HasInput(q)' = HasInput(q)
  BY <1>3 DEF HasInput, Of
<1>7. due' \in [Kinds -> BOOLEAN] /\ left' \in [Kinds -> BOOLEAN] /\ DueIsHonest'
  BY <1>3, <1>4, <1>5, <1>6, AskedIs, ListedAreOf
<1>8. ASSUME NEW p \in Of("simple")
      PROVE  /\ Resolution[p] \in Nat /\ VirtualResolution \in Nat
             /\ travel[p] \in Int /\ shown[p] \in Int /\ moved[p] \in Int /\ readings[p] \in Nat
  BY <1>4 DEF PointersAssumption, PointerTypes
<1>9. ASSUME NEW p \in Of("simple") PROVE Scaled(p) \in Int
  <2>1. CASE Resolution[p] = 0
    BY <2>1 DEF Scaled
  <2>2. CASE Resolution[p] # 0
    <3>1. travel[p] * VirtualResolution \in Int /\ Resolution[p] \in Nat \ {0}
      BY <1>8, <2>2
    <3> QED
      BY <2>2, <3>1, TowardsZero DEF Scaled
  <2> QED
    BY <2>1, <2>2
<1>10. PointerTypes'
  <2>1. travel' \in [Of("simple") -> Int]
    BY <1>2, <1>8
  <2>2. shown' \in [Of("simple") -> Int]
    BY <1>2, <1>8, <1>9
  <2>3. readings' \in [Of("simple") -> Nat]
    BY <1>2, <1>8
  <2> QED
    BY <1>3, <1>4, <1>7, <2>1, <2>2, <2>3 DEF PointerTypes
<1>11. PlacesInRange' /\ ListsMatch' /\ TouchInRange'
  BY <1>2, <1>3, <1>4 DEF PlacesInRange, ListsMatch, TouchInRange
<1>12. MovementShown'
  <2> SUFFICES ASSUME NEW p \in Of("simple"), Resolution[p] # 0
               PROVE  LET res == Resolution[p]
                          off == VirtualResolution * (moved[p] - travel'[p]) - res * shown'[p] IN
                      off <= (res - 1) * readings'[p] /\ -off <= (res - 1) * readings'[p]
    BY <1>3 DEF MovementShown
  <2>1. LET res == Resolution[p]
            off == VirtualResolution * (moved[p] - travel[p]) - res * shown[p] IN
        off <= (res - 1) * readings[p] /\ -off <= (res - 1) * readings[p]
    BY <1>4 DEF MovementShown
  <2>2. CASE p \in ready
    <3>1. /\ travel'[p] = 0 /\ readings'[p] = readings[p] + 1
          /\ shown'[p] = shown[p] + Quotient(travel[p] * VirtualResolution, Resolution[p])
      BY <1>2, <2>2 DEF Scaled
    <3>2. Resolution[p] \in Nat \ {0}
      BY <1>8
    <3> QED
      BY <1>8, <2>1, <3>1, <3>2, OneMoreReading
  <2>3. CASE p \notin ready
    BY <1>2, <2>1, <2>3
  <2> QED
    BY <2>2, <2>3
<1> QED
  BY <1>7, <1>10, <1>11, <1>12 DEF PointersInv, PointersAgree

LEMMA GetAbsoluteKeeps ==
  ASSUME PointersAssumption, PointersInv, GetAbsoluteState
  PROVE  PointersInv'
<1>1. PICK answering \in Answering("absolute") :
        LET ready == {p \in answering : HasInput(p)}
            list == pointers["absolute"]
            known == {i \in DOMAIN list : list[i] \in ready /\ Highest[list[i]] # 0} IN
        /\ place' = [p \in Of("absolute") |-> IF p \in ready THEN NoTouch ELSE place[p]]
        /\ pointed' = [kind |-> "absolute", status |-> Status("absolute", answering, ready),
                       at |-> IF known = {} THEN 0 ELSE Place(list[Max(known)])]
  BY DEF GetAbsoluteState
<1> DEFINE ready == {p \in answering : HasInput(p)}
           list == pointers["absolute"]
           known == {i \in DOMAIN list : list[i] \in ready /\ Highest[list[i]] # 0}
<1>2. /\ place' = [p \in Of("absolute") |-> IF p \in ready THEN NoTouch ELSE place[p]]
      /\ pointed'.at = IF known = {} THEN 0 ELSE Place(list[Max(known)])
  BY <1>1
<1>3. Asked("absolute") /\ UNCHANGED <<pointers, room, managed, travel, moved, shown, readings>>
  BY DEF GetAbsoluteState
<1>4. PointerTypes /\ ListsMatch /\ DueIsHonest /\ PlacesInRange /\ MovementShown
  BY DEF PointersInv, PointersAgree
<1>5. "absolute" \in Kinds
  BY DEF Kinds
<1>6. \A q \in Pointer \ Of("absolute") : HasInput(q)' = HasInput(q)
  BY <1>3 DEF HasInput, Of, PointersAssumption, Kinds
<1>7. due' \in [Kinds -> BOOLEAN] /\ left' \in [Kinds -> BOOLEAN] /\ DueIsHonest'
  BY <1>3, <1>4, <1>5, <1>6, AskedIs, ListedAreOf
<1>8. ListsMatch' /\ MovementShown'
  BY <1>3, <1>4 DEF ListsMatch, MovementShown
<1>9. PlacesInRange' /\ place' \in [Of("absolute") -> Nat \cup {NoTouch}]
  <2> HIDE DEF ready
  <2> QED
    BY <1>2, <1>4 DEF PlacesInRange, PointerTypes
<1>10. PointerTypes'
  BY <1>3, <1>4, <1>7, <1>9 DEF PointerTypes
<1>11. TouchInRange'
  <2> SUFFICES ASSUME \A p \in Of("absolute") : Lowest[p] = 0
               PROVE  pointed'.at \in 0..VirtualMax
    BY DEF TouchInRange
  <2>1. VirtualMax \in Nat
    BY DEF PointersAssumption
  <2>2. CASE known = {}
    BY <1>2, <2>1, <2>2
  <2>3. CASE known # {}
    <3>1. list \in Seq(Pointer) /\ Len(list) \in Nat /\ DOMAIN list = 1..Len(list)
      BY <1>4, <1>5 DEF PointerTypes
    <3>2. known \in SUBSET (0..Len(list))
      BY <3>1
    <3>3. Max(known) \in known
      BY <2>3, <3>1, <3>2, MaxIs
    <3> DEFINE p == list[Max(known)]
    <3>4. p \in ready /\ Highest[p] # 0 /\ p \in ToSet(list)
      BY <3>3 DEF ToSet
    <3>5. p \in Of("absolute")
      BY <1>4, <1>5, <3>4 DEF ListsMatch
    <3>6. Lowest[p] = 0 /\ Highest[p] \in Nat /\ place[p] # NoTouch
      BY <3>4, <3>5 DEF PointersAssumption, HasInput, Of
    <3>7. place[p] \in 0..Highest[p]
      BY <1>4, <3>5, <3>6 DEF PlacesInRange
    <3>8. pointed'.at = Place(p)
      BY <1>2, <2>3
    <3> HIDE DEF p
    <3>9. Place(p) = (place[p] * VirtualMax) \div Highest[p]
      BY <3>6 DEF Place
    <3>10. place[p] \in Nat /\ Highest[p] > 0 /\ place[p] <= Highest[p]
      BY <3>4, <3>6, <3>7
    <3> QED
      BY <2>1, <3>6, <3>8, <3>9, <3>10, PlaceInRange
  <2> QED
    BY <2>2, <2>3
<1> QED
  BY <1>7, <1>8, <1>9, <1>10, <1>11 DEF PointersInv, PointersAgree

LEMMA WaitForInputKeeps ==
  ASSUME PointersInv, NEW k \in Kinds, WaitForInputOf(k)
  PROVE  PointersInv'
<1>1. /\ due' = [due EXCEPT ![k] = @ \/ \E i \in DOMAIN pointers[k] : HasInput(pointers[k][i])]
      /\ UNCHANGED <<pointers, room, managed, travel, place, pointed, moved, shown, readings, left>>
  BY DEF WaitForInputOf
<1>2. PointerTypes /\ DueIsHonest
  BY DEF PointersInv, PointersAgree
<1> DEFINE has == \E i \in DOMAIN pointers[k] : HasInput(pointers[k][i])
<1>3. \/ due' = due
      \/ has /\ due' = [due EXCEPT ![k] = TRUE]
  <2>1. CASE has
    BY <1>1, <2>1
  <2>2. CASE ~has
    <3>1. due[k] \in BOOLEAN
      BY <1>2 DEF PointerTypes
    <3>2. due' = [due EXCEPT ![k] = @]
      BY <1>1, <2>2, <3>1
    <3> QED
      BY <1>2, <3>2 DEF PointerTypes
  <2> QED
    BY <2>1, <2>2
<1>4. PointerTypes'
  BY <1>1, <1>2, <1>3 DEF PointerTypes
<1>5. \A q : HasInput(q)' = HasInput(q)
  BY <1>1 DEF HasInput
<1>6. DueIsHonest'
  BY <1>1, <1>2, <1>3, <1>5 DEF DueIsHonest, PointerTypes
<1>7. PlacesInRange' /\ ListsMatch' /\ MovementShown' /\ TouchInRange'
  BY <1>1 DEF PointersInv, PointersAgree, PlacesInRange, ListsMatch, MovementShown, TouchInRange
<1> QED
  BY <1>4, <1>6, <1>7 DEF PointersInv, PointersAgree

-----------------------------------------------------------------------------
\* The splitter's mouse and touch screen tell of its devices what they did: the
\* lists hold managed devices once and inside their buffers, a signal is about
\* something, mice are followed to less than one of their steps for each
\* reading, and touches lie in the range (lines 2107-2234, 4159-4540).
THEOREM PointersTellTheTruth == PointersSpec => []PointersAgree
<1> USE PointersAssumption
<1>1. PointersInit => PointersInv
  BY PointersInitHolds
<1>2. PointersInv /\ [PointersNext]_pvars => PointersInv'
  <2> SUFFICES ASSUME PointersInv, [PointersNext]_pvars
               PROVE  PointersInv'
    OBVIOUS
  <2>1. "simple" \in Kinds /\ "absolute" \in Kinds
    BY DEF Kinds
  <2>2. CASE SimpleNext
    BY <2>1, <2>2, MoveKeeps, AddToKeeps, DeleteFromKeeps, ResetSimpleKeeps, WaitForInputKeeps, GetSimpleKeeps
       DEF SimpleNext, StartSimplePointer, StopSimplePointer, WaitForSimpleInput
  <2>3. CASE AbsoluteNext
    BY <2>1, <2>3, TouchKeeps, AddToKeeps, DeleteFromKeeps, ResetAbsoluteKeeps, WaitForInputKeeps, GetAbsoluteKeeps
       DEF AbsoluteNext, StartAbsolutePointer, StopAbsolutePointer, WaitForAbsoluteInput
  <2>4. CASE UNCHANGED pvars
    BY <2>4 DEF pvars, PointersInv, PointerTypes, PlacesInRange, PointersAgree, ListsMatch, DueIsHonest,
       HasInput, MovementShown, TouchInRange
  <2> QED
    BY <2>2, <2>3, <2>4 DEF PointersNext
<1>3. PointersInv => PointersAgree
  BY DEF PointersInv
<1> QED
  BY <1>1, <1>2, <1>3, PTL DEF PointersSpec
=============================================================================
