---------------------------- MODULE KeypadProofs ----------------------------
(***************************************************************************)
(* The parts of the keypad: that the ring of KeyQueue implements the       *)
(* bounded queue of KeyFifo, for every number of slots MaxCount >= 2 and   *)
(* every set of keys; that KeypadDevice reports every press, on every      *)
(* board and for all times and distances of the polls; and that Start and  *)
(* Stop of KeypadBinding leave nothing behind.                             *)
(***************************************************************************)
EXTENDS KeyQueue, KeypadDevice, KeypadBinding, SequenceTheorems, TLAPS

-----------------------------------------------------------------------------
(* The ring.  The arithmetic of the indices is settled once, in lemmas     *)
(* about Contents; what the steps need beyond the types is that the slots  *)
(* between head and tail hold keys, so that a pop returns one.             *)

USE QueueAssumption

-----------------------------------------------------------------------------
\* The ring successor is an increment that wraps to 0 after the last slot.
LEMMA SuccCases ==
  ASSUME NEW i \in Slots
  PROVE  /\ Succ(i) = IF i = MaxCount - 1 THEN 0 ELSE i + 1
         /\ Succ(i) \in Slots
  BY DEF Succ, Slots

LEMMA SizeFacts ==
  ASSUME NEW h \in Slots, NEW t \in Slots
  PROVE  /\ SizeOf(h, t) \in 0 .. MaxCount - 1
         /\ h = t <=> SizeOf(h, t) = 0
         /\ Succ(t) = h <=> SizeOf(h, t) = MaxCount - 1
  BY SuccCases DEF SizeOf, Slots

LEMMA SlotFacts ==
  ASSUME NEW h \in Slots, NEW t \in Slots
  PROVE  /\ \A i \in 1 .. MaxCount : SlotAt(h, i) \in Slots
         /\ \A i \in 1 .. MaxCount - 1 : SlotAt(Succ(h), i) = SlotAt(h, i + 1)
         /\ SlotAt(h, 1) = h
         /\ SlotAt(h, SizeOf(h, t) + 1) = t
         /\ \A i \in 1 .. SizeOf(h, t) : SlotAt(h, i) # t
  BY SuccCases DEF SizeOf, SlotAt, Slots

\* The contents of a ring whose occupied slots hold keys are a sequence of
\* keys.
LEMMA ContentsType ==
  ASSUME NEW b, NEW h \in Slots, NEW t \in Slots,
         \A i \in 1 .. SizeOf(h, t) : b[SlotAt(h, i)] \in Keys
  PROVE  /\ Contents(b, h, t) \in Seq(Keys)
         /\ Len(Contents(b, h, t)) = SizeOf(h, t)
         /\ \A i \in 1 .. SizeOf(h, t) : Contents(b, h, t)[i] = b[SlotAt(h, i)]
<1>1. SizeOf(h, t) \in Nat
  BY SizeFacts
<1>2. Contents(b, h, t) \in [1 .. SizeOf(h, t) -> Keys]
  BY DEF Contents
<1>3. Contents(b, h, t) \in Seq(Keys)
  BY <1>1, <1>2, SeqDef
<1> QED
  BY <1>1, <1>2, <1>3, LenProperties DEF Contents

\* Advancing the head removes the oldest key.
LEMMA AdvanceHead ==
  ASSUME NEW b, NEW h \in Slots, NEW t \in Slots, h # t,
         \A i \in 1 .. SizeOf(h, t) : b[SlotAt(h, i)] \in Keys
  PROVE  /\ \A i \in 1 .. SizeOf(Succ(h), t) : b[SlotAt(Succ(h), i)] \in Keys
         /\ SizeOf(Succ(h), t) = SizeOf(h, t) - 1
         /\ Contents(b, h, t) # <<>>
         /\ Head(Contents(b, h, t)) = b[h]
         /\ Contents(b, Succ(h), t) = Tail(Contents(b, h, t))
<1> DEFINE n == SizeOf(h, t)
           c == Contents(b, h, t)
           d == Contents(b, Succ(h), t)
<1>1. Succ(h) \in Slots /\ SizeOf(Succ(h), t) = n - 1 /\ n \in 1 .. MaxCount - 1
  BY SuccCases, SizeFacts DEF SizeOf, Slots
<1>2. \A i \in 1 .. n - 1 : i + 1 \in 1 .. n /\ SlotAt(Succ(h), i) = SlotAt(h, i + 1)
  BY <1>1, SlotFacts
<1>3. \A i \in 1 .. n - 1 : b[SlotAt(Succ(h), i)] \in Keys
  BY <1>2
<1>4. /\ c \in Seq(Keys) /\ Len(c) = n
      /\ \A i \in 1 .. n : c[i] = b[SlotAt(h, i)]
  BY ContentsType
<1>5. /\ d \in Seq(Keys) /\ Len(d) = n - 1
      /\ \A i \in 1 .. n - 1 : d[i] = b[SlotAt(Succ(h), i)]
  <2>1. \A i \in 1 .. SizeOf(Succ(h), t) : b[SlotAt(Succ(h), i)] \in Keys
    BY <1>1, <1>3
  <2> DEFINE s == Succ(h)
  <2>2. s \in Slots /\ \A i \in 1 .. SizeOf(s, t) : b[SlotAt(s, i)] \in Keys
    BY <1>1, <2>1
  <2> HIDE DEF s
  <2>3. /\ Contents(b, s, t) \in Seq(Keys)
        /\ Len(Contents(b, s, t)) = SizeOf(s, t)
        /\ \A i \in 1 .. SizeOf(s, t) : Contents(b, s, t)[i] = b[SlotAt(s, i)]
    BY <2>2, ContentsType
  <2> USE DEF s
  <2> QED
    BY <1>1, <2>3
<1>6. c # <<>> /\ Head(c) = b[h]
  <2>1. SlotAt(h, 1) = h
    BY SlotFacts
  <2> HIDE DEF c, n
  <2>2. Len(c) # 0 /\ 1 \in 1 .. n
    BY <1>1, <1>4
  <2> QED
    BY <1>4, <2>1, <2>2, EmptySeq
<1>7. /\ Tail(c) \in Seq(Keys) /\ Len(Tail(c)) = n - 1
      /\ \A i \in 1 .. n - 1 : Tail(c)[i] = c[i + 1]
  BY <1>4, <1>6, HeadTailProperties
<1>8. \A i \in 1 .. n - 1 : d[i] = Tail(c)[i]
  BY <1>2, <1>4, <1>5, <1>7
<1>9. d = Tail(c)
  BY <1>5, <1>7, <1>8, SeqEqual
<1> QED
  BY <1>1, <1>3, <1>6, <1>9

\* Writing the slot at the tail of a ring that is not full, and advancing the
\* tail, appends a key.
LEMMA AdvanceTail ==
  ASSUME NEW b \in [Slots -> Keys \cup {NoKey}], NEW k \in Keys,
         NEW h \in Slots, NEW t \in Slots, Succ(t) # h,
         \A i \in 1 .. SizeOf(h, t) : b[SlotAt(h, i)] \in Keys
  PROVE  LET w == [b EXCEPT ![t] = k]
         IN  /\ \A i \in 1 .. SizeOf(h, Succ(t)) : w[SlotAt(h, i)] \in Keys
             /\ Contents(w, h, Succ(t)) = Append(Contents(b, h, t), k)
<1> DEFINE n == SizeOf(h, t)
           w == [b EXCEPT ![t] = k]
           c == Contents(b, h, t)
           d == Contents(w, h, Succ(t))
<1>1. Succ(t) \in Slots /\ SizeOf(h, Succ(t)) = n + 1 /\ n \in 0 .. MaxCount - 2
  <2>1. /\ Succ(t) = IF t = MaxCount - 1 THEN 0 ELSE t + 1
        /\ Succ(t) \in Slots
    BY SuccCases
  <2> QED
    BY <2>1 DEF SizeOf, Slots
<1>2. \A i \in 1 .. n : SlotAt(h, i) \in Slots /\ SlotAt(h, i) # t
  BY <1>1, SlotFacts
<1>3. \A i \in 1 .. n : w[SlotAt(h, i)] = b[SlotAt(h, i)]
  BY <1>2
<1>4. SlotAt(h, n + 1) = t /\ w[t] = k
  BY SlotFacts
<1>5. \A i \in 1 .. n + 1 : w[SlotAt(h, i)] = IF i = n + 1 THEN k ELSE b[SlotAt(h, i)]
  <2> HIDE DEF n, w
  <2> QED
    BY <1>1, <1>3, <1>4
<1>6. \A i \in 1 .. n + 1 : w[SlotAt(h, i)] \in Keys
  BY <1>1, <1>5
<1>7. /\ c \in Seq(Keys) /\ Len(c) = n
      /\ \A i \in 1 .. n : c[i] = b[SlotAt(h, i)]
  BY ContentsType
<1>8. /\ d \in Seq(Keys) /\ Len(d) = n + 1
      /\ \A i \in 1 .. n + 1 : d[i] = w[SlotAt(h, i)]
  <2>1. \A i \in 1 .. SizeOf(h, Succ(t)) : w[SlotAt(h, i)] \in Keys
    BY <1>1, <1>6
  <2> HIDE DEF w
  <2>2. /\ d \in Seq(Keys) /\ Len(d) = SizeOf(h, Succ(t))
        /\ \A i \in 1 .. SizeOf(h, Succ(t)) : d[i] = w[SlotAt(h, i)]
    BY <1>1, <2>1, ContentsType, SMTT(30)
  <2> QED
    BY <1>1, <2>2
<1>9. /\ Append(c, k) \in Seq(Keys) /\ Len(Append(c, k)) = n + 1
      /\ \A i \in 1 .. n : Append(c, k)[i] = c[i]
      /\ Append(c, k)[n + 1] = k
  BY <1>7, AppendProperties
<1>10. \A i \in 1 .. n + 1 : d[i] = Append(c, k)[i]
  <2> HIDE DEF n, w, c, d
  <2> QED
    BY <1>1, <1>5, <1>7, <1>8, <1>9
<1>11. d = Append(c, k)
  BY <1>8, <1>9, <1>10, SeqEqual
<1> QED
  BY <1>1, <1>6, <1>11

-----------------------------------------------------------------------------
\* The inductive invariant: types, and no unwritten slot between the indices.
IInv == TypeOK /\ OccupiedSlotsHoldKeys

LEMMA InitIInv == Init => IInv /\ QueuedKeys = <<>>
  BY DEF Init, IInv, TypeOK, OccupiedSlotsHoldKeys, QueuedKeys, Contents, SizeOf, Slots

\* A pop keeps the invariant and is a pop of the abstract queue.
LEMMA PopStep ==
  ASSUME IInv, PopEfikeyBufHead
  PROVE  IInv' /\ Fifo!Pop
<1>1. /\ head \in Slots /\ tail \in Slots /\ head # tail
      /\ head' = Succ(head) /\ tail' = tail /\ buffer' = buffer
      /\ keyData' = buffer[head]
      /\ \A i \in 1 .. SizeOf(head, tail) : buffer[SlotAt(head, i)] \in Keys
  BY DEF IInv, TypeOK, OccupiedSlotsHoldKeys, PopEfikeyBufHead, IsEfikeyBufEmpty
<1>2. TypeOK'
  BY <1>1, SuccCases DEF IInv, TypeOK
<1>3. OccupiedSlotsHoldKeys'
  BY <1>1, AdvanceHead DEF OccupiedSlotsHoldKeys
<1>4. Fifo!Pop
  BY <1>1, AdvanceHead DEF Fifo!Pop, QueuedKeys
<1> QED
  BY <1>2, <1>3, <1>4 DEF IInv

\* A push keeps the invariant and is a push of the abstract queue: on a full
\* ring the head advances first, which drops the oldest key.
LEMMA PushStep ==
  ASSUME IInv, NEW k \in Keys, PushEfikeyBufTail(k)
  PROVE  IInv' /\ Fifo!Push(k)
<1> DEFINE c == Contents(buffer, head', tail)
<1>1. /\ head \in Slots /\ tail \in Slots
      /\ buffer \in [Slots -> Keys \cup {NoKey}]
      /\ \A i \in 1 .. SizeOf(head, tail) : buffer[SlotAt(head, i)] \in Keys
  BY DEF IInv, TypeOK, OccupiedSlotsHoldKeys
<1>2. /\ Len(QueuedKeys) = SizeOf(head, tail)
      /\ SizeOf(head, tail) \in 0 .. MaxCount - 1
      /\ IsFull <=> Len(QueuedKeys) >= MaxCount - 1
  <2>1. Len(QueuedKeys) = SizeOf(head, tail)
    BY <1>1, ContentsType DEF QueuedKeys
  <2>2. /\ SizeOf(head, tail) \in 0 .. MaxCount - 1
        /\ IsFull <=> SizeOf(head, tail) = MaxCount - 1
    BY <1>1, SizeFacts DEF IsFull
  <2> QED
    BY <2>1, <2>2
<1>3. /\ head' \in Slots /\ Succ(tail) # head'
      /\ \A i \in 1 .. SizeOf(head', tail) : buffer[SlotAt(head', i)] \in Keys
      /\ c = IF IsFull THEN Tail(QueuedKeys) ELSE QueuedKeys
  <2>1. CASE IsFull
    <3>1. head' = Succ(head) /\ head = Succ(tail) /\ head # tail
      BY <1>1, <2>1, SuccCases DEF PushEfikeyBufTail, IsFull, Slots
    <3>2. Succ(head) # head /\ Succ(head) \in Slots
      BY <1>1, SuccCases DEF Slots
    <3> QED
      BY <1>1, <2>1, <3>1, <3>2, AdvanceHead DEF QueuedKeys
  <2>2. CASE ~IsFull
    BY <1>1, <2>2 DEF PushEfikeyBufTail, IsFull, QueuedKeys
  <2> QED
    BY <2>1, <2>2
<1>4. /\ tail' = Succ(tail) /\ Succ(tail) \in Slots
      /\ buffer' = [buffer EXCEPT ![tail] = k]
      /\ keyData' = keyData
  BY <1>1, SuccCases DEF PushEfikeyBufTail
<1>5. /\ \A i \in 1 .. SizeOf(head', tail') : buffer'[SlotAt(head', i)] \in Keys
      /\ Contents(buffer', head', tail') = Append(c, k)
  <2> DEFINE w == [buffer EXCEPT ![tail] = k]
  <2>1. /\ \A i \in 1 .. SizeOf(head', Succ(tail)) : w[SlotAt(head', i)] \in Keys
        /\ Contents(w, head', Succ(tail)) = Append(c, k)
    BY <1>1, <1>3, AdvanceTail
  <2>2. tail' = Succ(tail) /\ buffer' = w
    BY <1>4
  <2> HIDE DEF c, w
  <2> QED
    BY <2>1, <2>2
<1>6. IInv'
  BY <1>1, <1>3, <1>4, <1>5 DEF IInv, TypeOK, OccupiedSlotsHoldKeys
<1>7. Fifo!Push(k)
  BY <1>2, <1>3, <1>4, <1>5 DEF Fifo!Push, Fifo!PushTail, QueuedKeys
<1> QED
  BY <1>6, <1>7

\* A reset keeps the invariant and clears the abstract queue.
LEMMA ResetStep ==
  ASSUME IInv, ResetQueue
  PROVE  IInv' /\ Fifo!Clear
  BY DEF IInv, TypeOK, OccupiedSlotsHoldKeys, ResetQueue, Slots, SizeOf,
         Fifo!Clear, QueuedKeys, Contents

LEMMA StutterStep ==
  ASSUME IInv, UNCHANGED vars
  PROVE  IInv' /\ UNCHANGED Fifo!fifoVars
  BY DEF IInv, TypeOK, OccupiedSlotsHoldKeys, vars, QueuedKeys, Fifo!fifoVars

LEMMA NextStep ==
  ASSUME IInv, [Next]_vars
  PROVE  IInv' /\ [Fifo!Next]_(Fifo!fifoVars)
  BY PopStep, PushStep, ResetStep, StutterStep DEF Next, Fifo!Next

-----------------------------------------------------------------------------
\* The indices of the ring never leave it (EFI_KEY_QUEUE.Head and .Tail).
THEOREM TypeCorrect == Spec => []TypeOK
<1>1. IInv /\ [Next]_vars => IInv'
  BY NextStep
<1> QED
  BY InitIInv, <1>1, PTL DEF Spec, IInv

\* A pop never returns a slot that no push has written.
THEOREM PopsReturnPushedKeys == Spec => []OccupiedSlotsHoldKeys
<1>1. IInv /\ [Next]_vars => IInv'
  BY NextStep
<1> QED
  BY InitIInv, <1>1, PTL DEF Spec, IInv

\* The ring buffer implements the bounded drop-oldest queue, for every size.
THEOREM RingImplementsFifo == Spec => ImplementsFifo
<1>1. Init => IInv /\ Fifo!Init
  BY InitIInv DEF Init, Fifo!Init
<1>2. IInv /\ [Next]_vars => IInv' /\ [Fifo!Next]_(Fifo!fifoVars)
  BY NextStep
<1> QED
  BY <1>1, <1>2, PTL DEF Spec, ImplementsFifo, Fifo!Spec

\* Each function of the ring is the queue operation of its name: a push on a
\* full ring drops the oldest key and no other, for every ring size.
THEOREM RingOperationsMatch == Spec => OperationsMatchFifo
<1> DEFINE Match == /\ PopEfikeyBufHead => Fifo!Pop
                    /\ \A k \in Keys : PushEfikeyBufTail(k) => Fifo!Push(k)
                    /\ ResetQueue => Fifo!Clear
<1>1. IInv => Match
  BY PopStep, PushStep, ResetStep
<1>2. IInv /\ [Next]_vars => IInv'
  BY NextStep
<1> HIDE DEF Match
<1>3. Spec => [][Match]_vars
  BY InitIInv, <1>1, <1>2, PTL DEF Spec
<1> QED
  BY <1>3 DEF OperationsMatchFifo, Match

-----------------------------------------------------------------------------
(* The keypad device.                                                      *)

\* What a key's context says of the press: nothing was reported before it was
\* long; then there was a report, unless the key is held with the dial; the key
\* that repeats has its time counted from the last report.
PressOf(k) ==
  /\ key[k].state = "RELEASED" => ~key[k].longpress /\ ~key[k].repeat
  /\ key[k].state = "LONGPRESS_RELEASE" => ~key[k].longpress /\ ~key[k].repeat
  /\ key[k].state = "PRESSED" /\ ~key[k].longpress => reports[k] = 0 /\ ~key[k].repeat
  /\ key[k].state = "PRESSED" /\ key[k].repeat => since[k] = AtMost(key[k].time, RepeatTime)

\* The dial never repeats.
DialPress == ~key["Dial"].repeat /\ reports["Dial"] <= 1

CharacterKeys == {"Back", "Windows", "Dial"}
EarlyKeys == {"Power", "VolumeUp", "VolumeDown"}

LongIsReported ==
  \A k \in Valid \cap (EarlyKeys \cup {"Dial"}) :
    key[k].state = "PRESSED" /\ key[k].longpress => reports[k] > 0 \/ k \in combo

\* The bits of scan codes are the keys' own; the bit that the others share is
\* the dial's until the first of them is read.
BitsAreKeys ==
  /\ scanBits = down \cap HasScanCode
  /\ pos <= 4 => (charBit <=> "Dial" \in down)

\* A poll has no combination until it comes to its last key.
ChordIsLast == pos # 0 => chord = Nothing /\ KeyList[pos] \in Valid

DeviceInv ==
  /\ DeviceTypeOK /\ \A k \in Valid : PressOf(k)
  /\ DialPress /\ LongIsReported /\ BitsAreKeys /\ ChordIsLast /\ ComboMatchesKeys

LEMMA KeyListIs ==
  /\ Len(KeyList) = 7 /\ KeyList \in Seq(KeyNames)
  /\ KeyList[1] = "Power" /\ KeyList[2] = "VolumeUp" /\ KeyList[3] = "VolumeDown"
  /\ KeyList[4] = "Back" /\ KeyList[5] = "Windows" /\ KeyList[6] = "Home" /\ KeyList[7] = "Dial"
  BY DEF KeyList, KeyNames

\* The least of some places.
LEMMA LeastPlace ==
  ASSUME NEW places \in SUBSET (1..7), places # {}
  PROVE  \E j \in places : \A l \in places : j <= l
<1>1. PICK n \in places : TRUE
  OBVIOUS
<1> QED
  BY <1>1

LEMMA PlaceFromIs ==
  ASSUME DeviceAssumption, NEW i \in 1..8
  PROVE  /\ i = 8 => PlaceFrom(i) = 0
         /\ i # 8 => /\ PlaceFrom(i) \in i..7 /\ KeyList[PlaceFrom(i)] \in Valid
<1> DEFINE places == {j \in i .. 7 : KeyList[j] \in Valid}
<1>1. PlaceFrom(i) = IF places = {} THEN 0 ELSE CHOOSE j \in places : \A l \in places : j <= l
  BY KeyListIs DEF PlaceFrom
<1>2. CASE i = 8
  BY <1>1, <1>2
<1>3. CASE i # 8
  <2>1. 7 \in places /\ places \in SUBSET (1..7)
    BY <1>3, KeyListIs DEF DeviceAssumption
  <2>2. \E j \in places : \A l \in places : j <= l
    BY <2>1, LeastPlace
  <2> QED
    BY <1>1, <2>1, <2>2, <1>3
<1> QED
  BY <1>2, <1>3

Contexts == [time : 0 .. LongTime, state : {"RELEASED", "PRESSED", "LONGPRESS_RELEASE"},
             repeat : BOOLEAN, longpress : BOOLEAN]

\* The context of the key that is read, with its time brought up to date.
Current(k) == [key[k] EXCEPT !.time = AtMost(key[k].time + delta, LongTime)]

LEMMA AtMostIs ==
  ASSUME NEW n \in Nat, NEW bound \in Nat
  PROVE  /\ AtMost(n, bound) \in 0..bound /\ AtMost(n, bound) <= n
         /\ n <= bound => AtMost(n, bound) = n
         /\ bound <= n => AtMost(n, bound) = bound
  BY DEF AtMost

\* One key is read: its context and what is known of its press follow from its
\* state and its line, and nothing else is touched.
LEMMA ReadKeyIs ==
  ASSUME DeviceAssumption, DeviceInv, NEW pressed \in BOOLEAN, ReadKey(pressed)
  PROVE  \E k \in Valid, new \in Contexts :
           /\ k = KeyList[pos] /\ pos \in 1..7
           /\ key' = [key EXCEPT ![k] = new] /\ key'[k] = new
           /\ out' \in {Nothing, k} \cup Combos
           /\ \/ /\ key[k].state = "RELEASED" /\ out' = Nothing
                 /\ ~new.longpress /\ ~new.repeat
                 /\ pressed => new.state = "PRESSED"
                 /\ ~pressed => new.state = "RELEASED"
              \/ /\ key[k].state = "PRESSED" /\ pressed /\ Repeats(Current(k))
                 /\ out' = k /\ new = [Current(k) EXCEPT !.time = 0]
              \/ /\ key[k].state = "PRESSED" /\ pressed /\ ~Repeats(Current(k)) /\ ~key[k].longpress
                 /\ \/ k = "Dial" /\ out' = DialReport /\ new = [Current(k) EXCEPT !.longpress = TRUE]
                    \/ /\ k # "Dial" /\ charBit' /\ out' = Nothing
                       /\ new = [Current(k) EXCEPT !.longpress = TRUE]
                    \/ /\ k # "Dial" /\ ~charBit' /\ out' = k
                       /\ new = [Current(k) EXCEPT !.longpress = TRUE, !.repeat = TRUE, !.time = 0]
              \/ /\ key[k].state = "PRESSED" /\ pressed
                 /\ out' = Nothing /\ new = Current(k)
              \/ /\ key[k].state = "PRESSED" /\ ~pressed /\ ~key[k].longpress
                 /\ out' = k /\ new = [Current(k) EXCEPT !.state = "LONGPRESS_RELEASE"]
              \/ /\ key[k].state = "PRESSED" /\ ~pressed /\ key[k].longpress /\ out' = Nothing
                 /\ new = Released \/ new = Current(k)
              \/ /\ key[k].state = "LONGPRESS_RELEASE" /\ out' = Nothing /\ new = Released
<1> DEFINE k == KeyList[pos]
           c == Current(k)
<1>1. pos \in 1..7 /\ k \in Valid
  BY KeyListIs DEF DeviceInv, DeviceTypeOK, ChordIsLast, ReadKey
<1>2. key[k] \in Contexts /\ delta \in Nat /\ LongTime \in Nat /\ 0 \in 0..LongTime
  BY <1>1 DEF DeviceInv, DeviceTypeOK, Contexts, DeviceAssumption
<1>3. AtMost(key[k].time + delta, LongTime) \in 0..LongTime
  <2>1. key[k].time \in 0..LongTime
    BY <1>2 DEF Contexts
  <2>2. key[k].time + delta \in Nat
    BY <2>1, <1>2
  <2> QED
    BY <2>2, <1>2, AtMostIs
<1>4. /\ c \in Contexts /\ c.state = key[k].state /\ c.repeat = key[k].repeat /\ c.longpress = key[k].longpress
      /\ c.time = AtMost(key[k].time + delta, LongTime)
  BY <1>2, <1>3 DEF Current, Contexts
<1>5. FromReleased(k, c, pressed) \/ FromPressed(k, c, pressed) \/ FromReported(k, c)
  BY DEF ReadKey, Current
<1>6. ASSUME NEW new \in Contexts, key' = [key EXCEPT ![k] = new] PROVE key'[k] = new
  BY <1>1, <1>6 DEF DeviceInv, DeviceTypeOK
<1>7. Released \in Contexts
  BY <1>2 DEF Released, Contexts
<1>8. key[k].state \in {"RELEASED", "LONGPRESS_RELEASE"} => ~key[k].longpress /\ ~key[k].repeat
  BY <1>1 DEF DeviceInv, PressOf
<1>9. DialReport \in Combos
  BY DEF DialReport, Combos
<1> HIDE DEF k, c
<1>10. CASE FromReleased(k, c, pressed)
  <2> DEFINE new == IF pressed THEN [c EXCEPT !.time = 0, !.state = "PRESSED"] ELSE c
  <2>1. key' = [key EXCEPT ![k] = new] /\ out' = Nothing /\ key[k].state = "RELEASED"
    BY <1>10, <1>4 DEF FromReleased, Become
  <2>2. /\ new \in Contexts /\ ~new.longpress /\ ~new.repeat
        /\ pressed => new.state = "PRESSED"
        /\ ~pressed => new.state = "RELEASED"
    <3>1. ~c.longpress /\ ~c.repeat /\ c.state = "RELEASED"
      BY <1>4, <1>8, <2>1
    <3>2. CASE pressed
      <4>1. [c EXCEPT !.time = 0] \in Contexts
        BY <1>4, <1>2 DEF Contexts
      <4> DEFINE fresh == [c EXCEPT !.time = 0]
      <4>2. ~fresh.longpress /\ ~fresh.repeat
        BY <3>1, <1>4 DEF Contexts
      <4>3. new = [fresh EXCEPT !.state = "PRESSED"]
        BY <3>2
      <4> HIDE DEF fresh
      <4> QED
        BY <4>1, <4>2, <4>3, <3>2 DEF fresh, Contexts
    <3>3. CASE ~pressed
      BY <3>1, <3>3, <1>4
    <3> QED
      BY <3>2, <3>3
  <2>3. key'[k] = new
    BY <2>1, <2>2, <1>6
  <2> QED
    BY <2>1, <2>2, <2>3, <1>1 DEF k
<1>11. CASE FromPressed(k, c, pressed) /\ pressed
  <2>1. key[k].state = "PRESSED" /\ StayPressed(k, c)
    BY <1>11, <1>4 DEF FromPressed
  <2>2. CASE Repeats(c) /\ Become(k, [c EXCEPT !.time = 0], k)
    <3>1. [c EXCEPT !.time = 0] \in Contexts
      BY <1>4, <1>2 DEF Contexts
    <3>2. key'[k] = [c EXCEPT !.time = 0]
      BY <3>1, <2>2, <1>6 DEF Become
    <3> QED
      BY <1>1, <1>11, <2>1, <2>2, <3>1, <3>2 DEF Become, k, c
  <2>3. CASE BecomesLong(c) /\ k = "Dial" /\ Become(k, [c EXCEPT !.longpress = TRUE], DialReport)
    <3>1. [c EXCEPT !.longpress = TRUE] \in Contexts
      BY <1>4 DEF Contexts
    <3>2. key'[k] = [c EXCEPT !.longpress = TRUE]
      BY <3>1, <2>3, <1>6 DEF Become
    <3>3. ~Repeats(c) /\ ~key[k].longpress
      BY <2>3, <1>4 DEF BecomesLong
    <3> QED
      BY <1>1, <1>11, <1>9, <2>1, <2>3, <3>1, <3>2, <3>3 DEF Become, k, c
  <2>4. CASE BecomesLong(c) /\ k # "Dial" /\ charBit' /\ Become(k, [c EXCEPT !.longpress = TRUE], Nothing)
    <3>1. [c EXCEPT !.longpress = TRUE] \in Contexts
      BY <1>4 DEF Contexts
    <3>2. key'[k] = [c EXCEPT !.longpress = TRUE]
      BY <3>1, <2>4, <1>6 DEF Become
    <3>3. ~Repeats(c) /\ ~key[k].longpress
      BY <2>4, <1>4 DEF BecomesLong
    <3> QED
      BY <1>1, <1>11, <2>1, <2>4, <3>1, <3>2, <3>3 DEF Become, k, c
  <2>5. CASE /\ BecomesLong(c) /\ k # "Dial" /\ ~charBit'
             /\ Become(k, [c EXCEPT !.longpress = TRUE, !.repeat = TRUE, !.time = 0], k)
    <3>1. [c EXCEPT !.longpress = TRUE, !.repeat = TRUE, !.time = 0] \in Contexts
      <4> DEFINE long == [c EXCEPT !.longpress = TRUE]
                 held == [long EXCEPT !.repeat = TRUE]
      <4>1. long \in Contexts
        BY <1>4 DEF Contexts
      <4> HIDE DEF long
      <4>2. held \in Contexts
        BY <4>1 DEF Contexts
      <4> HIDE DEF held
      <4>3. [held EXCEPT !.time = 0] \in Contexts
        BY <4>2, <1>2 DEF Contexts
      <4> QED
        BY <4>3 DEF held, long
    <3>2. key'[k] = [c EXCEPT !.longpress = TRUE, !.repeat = TRUE, !.time = 0]
      BY <3>1, <2>5, <1>6 DEF Become
    <3>3. ~Repeats(c) /\ ~key[k].longpress
      BY <2>5, <1>4 DEF BecomesLong
    <3> QED
      BY <1>1, <1>11, <2>1, <2>5, <3>1, <3>2, <3>3 DEF Become, k, c
  <2>6. CASE Become(k, c, Nothing)
    <3>1. key'[k] = c
      BY <1>4, <2>6, <1>6 DEF Become
    <3> QED
      BY <1>1, <1>4, <1>11, <2>1, <2>6, <3>1 DEF Become, k, c
  <2> QED
    BY <2>1, <2>2, <2>3, <2>4, <2>5, <2>6 DEF StayPressed, DialBit
<1>12. CASE FromPressed(k, c, pressed) /\ ~pressed
  <2>1. key[k].state = "PRESSED" /\ EndPress(k, c)
    BY <1>12, <1>4 DEF FromPressed
  <2>2. CASE ~c.longpress
    <3>1. [c EXCEPT !.state = "LONGPRESS_RELEASE"] \in Contexts
      BY <1>4 DEF Contexts
    <3>2. key'[k] = [c EXCEPT !.state = "LONGPRESS_RELEASE"]
      BY <3>1, <2>1, <2>2, <1>6 DEF EndPress, Become
    <3> QED
      BY <1>1, <1>4, <1>12, <2>1, <2>2, <3>1, <3>2 DEF EndPress, Become, k, c
  <2>3. CASE c.longpress
    <3>1. PICK new \in {Released, c} : Become(k, new, Nothing)
      BY <2>1, <2>3 DEF EndPress
    <3>2. new \in Contexts /\ key'[k] = new
      BY <3>1, <1>4, <1>6, <1>7 DEF Become
    <3> QED
      BY <1>1, <1>4, <1>12, <2>1, <2>3, <3>1, <3>2 DEF Become, k, c
  <2> QED
    BY <2>2, <2>3, <1>4 DEF Contexts
<1>13. CASE FromReported(k, c)
  <2>1. key'[k] = Released
    BY <1>13, <1>6, <1>7 DEF FromReported, Become
  <2> QED
    BY <1>1, <1>4, <1>7, <1>13, <2>1 DEF FromReported, Become, k
<1> QED
  BY <1>5, <1>10, <1>11, <1>12, <1>13 DEF k, c

\* What one reading does to the fields of a context.
Reading(k, new, pressed) ==
  \/ /\ key[k].state = "RELEASED" /\ out' = Nothing /\ ~new.longpress /\ ~new.repeat
     /\ new.state = IF pressed THEN "PRESSED" ELSE "RELEASED"
  \/ /\ key[k].state = "PRESSED" /\ pressed /\ key[k].repeat /\ out' = k
     /\ RepeatTime <= AtMost(key[k].time + delta, LongTime)
     /\ new.state = "PRESSED" /\ new.time = 0 /\ new.repeat /\ (new.longpress <=> key[k].longpress)
  \/ /\ key[k].state = "PRESSED" /\ pressed /\ ~key[k].longpress
     /\ new.state = "PRESSED" /\ new.longpress
     /\ \/ k = "Dial" /\ out' = DialReport /\ (new.repeat <=> key[k].repeat)
        \/ k # "Dial" /\ charBit' /\ out' = Nothing /\ (new.repeat <=> key[k].repeat)
        \/ k # "Dial" /\ ~charBit' /\ out' = k /\ new.repeat /\ new.time = 0
  \/ /\ key[k].state = "PRESSED" /\ out' = Nothing
     /\ pressed \/ key[k].longpress
     /\ new.state = "PRESSED" /\ new.time = AtMost(key[k].time + delta, LongTime)
     /\ (new.repeat <=> key[k].repeat) /\ (new.longpress <=> key[k].longpress)
  \/ /\ key[k].state = "PRESSED" /\ ~pressed /\ ~key[k].longpress
     /\ out' = k /\ new.state = "LONGPRESS_RELEASE" /\ (new.repeat <=> key[k].repeat) /\ ~new.longpress
  \/ /\ key[k].state = "PRESSED" /\ ~pressed /\ key[k].longpress /\ out' = Nothing
     /\ new.state = "RELEASED" /\ ~new.repeat /\ ~new.longpress
  \/ /\ key[k].state = "LONGPRESS_RELEASE" /\ out' = Nothing
     /\ new.state = "RELEASED" /\ ~new.repeat /\ ~new.longpress

LEMMA ReadingIs ==
  ASSUME DeviceAssumption, DeviceInv, NEW pressed \in BOOLEAN, ReadKey(pressed)
  PROVE  \E k \in Valid, new \in Contexts :
           /\ k = KeyList[pos] /\ pos \in 1..7
           /\ key' = [key EXCEPT ![k] = new] /\ out' \in {Nothing, k} \cup Combos
           /\ Reading(k, new, pressed)
<1>1. PICK k \in Valid, new \in Contexts :
           /\ k = KeyList[pos] /\ pos \in 1..7
           /\ key' = [key EXCEPT ![k] = new] /\ key'[k] = new
           /\ out' \in {Nothing, k} \cup Combos
           /\ \/ /\ key[k].state = "RELEASED" /\ out' = Nothing
                 /\ ~new.longpress /\ ~new.repeat
                 /\ pressed => new.state = "PRESSED"
                 /\ ~pressed => new.state = "RELEASED"
              \/ /\ key[k].state = "PRESSED" /\ pressed /\ Repeats(Current(k))
                 /\ out' = k /\ new = [Current(k) EXCEPT !.time = 0]
              \/ /\ key[k].state = "PRESSED" /\ pressed /\ ~Repeats(Current(k)) /\ ~key[k].longpress
                 /\ \/ k = "Dial" /\ out' = DialReport /\ new = [Current(k) EXCEPT !.longpress = TRUE]
                    \/ /\ k # "Dial" /\ charBit' /\ out' = Nothing
                       /\ new = [Current(k) EXCEPT !.longpress = TRUE]
                    \/ /\ k # "Dial" /\ ~charBit' /\ out' = k
                       /\ new = [Current(k) EXCEPT !.longpress = TRUE, !.repeat = TRUE, !.time = 0]
              \/ /\ key[k].state = "PRESSED" /\ pressed
                 /\ out' = Nothing /\ new = Current(k)
              \/ /\ key[k].state = "PRESSED" /\ ~pressed /\ ~key[k].longpress
                 /\ out' = k /\ new = [Current(k) EXCEPT !.state = "LONGPRESS_RELEASE"]
              \/ /\ key[k].state = "PRESSED" /\ ~pressed /\ key[k].longpress /\ out' = Nothing
                 /\ new = Released \/ new = Current(k)
              \/ /\ key[k].state = "LONGPRESS_RELEASE" /\ out' = Nothing /\ new = Released
  BY ReadKeyIs
<1> SUFFICES Reading(k, new, pressed)
  BY <1>1
<1>2. key[k] \in Contexts
  BY DEF DeviceInv, DeviceTypeOK, Contexts
<1>3. /\ DOMAIN Current(k) = {"time", "state", "repeat", "longpress"}
      /\ Current(k).state = key[k].state /\ (Current(k).repeat <=> key[k].repeat)
      /\ (Current(k).longpress <=> key[k].longpress)
      /\ Current(k).time = AtMost(key[k].time + delta, LongTime)
  BY <1>2 DEF Current, Contexts
<1>4. ASSUME NEW c, DOMAIN c = {"time", "state", "repeat", "longpress"}
      PROVE  /\ LET now == [c EXCEPT !.time = 0] IN
                /\ now.time = 0 /\ now.state = c.state /\ (now.repeat <=> c.repeat) /\ (now.longpress <=> c.longpress)
             /\ LET now == [c EXCEPT !.longpress = TRUE] IN
                now.state = c.state /\ (now.repeat <=> c.repeat) /\ now.longpress
             /\ LET now == [c EXCEPT !.longpress = TRUE, !.repeat = TRUE, !.time = 0] IN
                now.time = 0 /\ now.state = c.state /\ now.repeat /\ now.longpress
             /\ LET now == [c EXCEPT !.state = "LONGPRESS_RELEASE"] IN
                now.state = "LONGPRESS_RELEASE" /\ (now.repeat <=> c.repeat) /\ (now.longpress <=> c.longpress)
  BY <1>4
<1>5. /\ key[k].longpress \in BOOLEAN /\ key[k].repeat \in BOOLEAN
      /\ new.longpress \in BOOLEAN /\ new.repeat \in BOOLEAN
  BY <1>1, <1>2 DEF Contexts
<1>6. CASE key[k].state = "RELEASED"
  BY <1>5, <1>1, <1>6 DEF Reading
<1>7. CASE key[k].state = "LONGPRESS_RELEASE"
  BY <1>5, <1>1, <1>7 DEF Reading, Released
<1>8. CASE key[k].state = "PRESSED" /\ ~pressed
  <2>1. CASE new = Current(k) /\ key[k].longpress /\ out' = Nothing
    BY <1>5, <1>3, <1>8, <2>1 DEF Reading
  <2>2. CASE new = Released /\ key[k].longpress /\ out' = Nothing
    BY <1>5, <1>8, <2>2 DEF Reading, Released
  <2>3. CASE ~key[k].longpress /\ out' = k /\ new = [Current(k) EXCEPT !.state = "LONGPRESS_RELEASE"]
    <3>1. new.state = "LONGPRESS_RELEASE" /\ (new.repeat <=> key[k].repeat) /\ ~new.longpress
      BY <1>3, <1>4, <2>3
    <3> QED
      BY <1>5, <1>8, <2>3, <3>1 DEF Reading
  <2> QED
    BY <1>1, <1>8, <2>1, <2>2, <2>3
<1>9. CASE key[k].state = "PRESSED" /\ pressed
  <2>1. CASE Repeats(Current(k)) /\ out' = k /\ new = [Current(k) EXCEPT !.time = 0]
    <3>1. new.time = 0 /\ new.state = "PRESSED" /\ (new.repeat <=> key[k].repeat) /\ (new.longpress <=> key[k].longpress)
      BY <1>3, <1>4, <1>9, <2>1
    <3>2. key[k].repeat /\ RepeatTime <= AtMost(key[k].time + delta, LongTime)
      BY <1>3, <2>1 DEF Repeats
    <3> QED
      BY <1>5, <1>9, <2>1, <3>1, <3>2 DEF Reading
  <2>2. CASE ~key[k].longpress /\ k = "Dial" /\ out' = DialReport /\ new = [Current(k) EXCEPT !.longpress = TRUE]
    <3>1. new.state = "PRESSED" /\ (new.repeat <=> key[k].repeat) /\ new.longpress
      BY <1>3, <1>4, <1>9, <2>2
    <3> QED
      BY <1>5, <1>9, <2>2, <3>1 DEF Reading
  <2>3. CASE ~key[k].longpress /\ k # "Dial" /\ charBit' /\ out' = Nothing /\ new = [Current(k) EXCEPT !.longpress = TRUE]
    <3>1. new.state = "PRESSED" /\ (new.repeat <=> key[k].repeat) /\ new.longpress
      BY <1>3, <1>4, <1>9, <2>3
    <3> QED
      BY <1>5, <1>9, <2>3, <3>1 DEF Reading
  <2>4. CASE /\ ~key[k].longpress /\ k # "Dial" /\ ~charBit' /\ out' = k
             /\ new = [Current(k) EXCEPT !.longpress = TRUE, !.repeat = TRUE, !.time = 0]
    <3>1. new.state = "PRESSED" /\ new.repeat /\ new.longpress /\ new.time = 0
      BY <1>3, <1>4, <1>9, <2>4
    <3> QED
      BY <1>5, <1>9, <2>4, <3>1 DEF Reading
  <2>5. CASE out' = Nothing /\ new = Current(k)
    BY <1>5, <1>3, <1>9, <2>5 DEF Reading
  <2> QED
    BY <1>1, <1>5, <1>9, <2>1, <2>2, <2>3, <2>4, <2>5
<1> QED
  BY <1>2, <1>6, <1>7, <1>8, <1>9 DEF Contexts

LEMMA NamesAreNot ==
  ASSUME DeviceAssumption, NEW k \in Valid
  PROVE  k # Nothing /\ k \notin Combos /\ Nothing \notin Combos
  BY DEF DeviceAssumption, KeyNames, Nothing, Combos

\* The bits, and what is down, after a reading.
LEMMA BitsAfterReading ==
  ASSUME DeviceAssumption, DeviceInv, NEW pressed \in BOOLEAN, ReadKey(pressed)
  PROVE  LET k == KeyList[pos] IN
         /\ down' = IF pressed THEN down \cup {k} ELSE down \ {k}
         /\ scanBits' = down' \cap HasScanCode
         /\ charBit' = IF k \in HasScanCode THEN charBit ELSE pressed
  BY DEF ReadKey, Remember, KeySetState, DeviceInv, BitsAreKeys

\* The dial's bit is seen by the keys that are read before the character keys.
LEMMA EarlyKeysSeeTheDial ==
  ASSUME DeviceAssumption, DeviceInv, NEW pressed \in BOOLEAN, ReadKey(pressed),
         KeyList[pos] \in EarlyKeys, pos \in 1..7
  PROVE  charBit' <=> "Dial" \in down'
<1>1. pos <= 4 /\ KeyList[pos] \in HasScanCode /\ KeyList[pos] # "Dial"
  BY KeyListIs DEF EarlyKeys, HasScanCode
<1> QED
  BY <1>1, BitsAfterReading DEF DeviceInv, BitsAreKeys

LEMMA ReadKeyKeepsTypes ==
  ASSUME DeviceAssumption, DeviceInv, NEW pressed \in BOOLEAN, ReadKey(pressed)
  PROVE  DeviceTypeOK'
<1>1. PICK k \in Valid, new \in Contexts :
           /\ k = KeyList[pos] /\ pos \in 1..7
           /\ key' = [key EXCEPT ![k] = new] /\ out' \in {Nothing, k} \cup Combos
           /\ Reading(k, new, pressed)
  BY ReadingIs
<1>2. pos' \in 0..Len(KeyList)
  BY <1>1, PlaceFromIs, KeyListIs DEF ReadKey
<1>3. key' \in [Valid -> Contexts]
  BY <1>1 DEF DeviceInv, DeviceTypeOK, Contexts
<1>4. /\ scanBits' \subseteq Valid \cap HasScanCode /\ charBit' \in BOOLEAN
      /\ down' \subseteq Valid
  BY <1>1, BitsAfterReading DEF DeviceInv, DeviceTypeOK
<1>5. combo' \subseteq Valid
  BY DEF ReadKey, Remember, DeviceInv, DeviceTypeOK
<1>6. reports' \in [Valid -> 0..2]
  <2>1. reports \in [Valid -> 0..2] /\ reports[k] \in 0..2
    BY DEF DeviceInv, DeviceTypeOK
  <2>2. AtMost(reports[k] + 1, 2) \in 0..2
    BY <2>1 DEF AtMost
  <2> DEFINE n == IF key[k].state = "RELEASED" THEN 0
                  ELSE IF out' = Nothing THEN reports[k] ELSE AtMost(reports[k] + 1, 2)
  <2>3. reports' = [reports EXCEPT ![k] = n]
    BY <1>1 DEF ReadKey, Remember
  <2>4. n \in 0..2
    BY <2>1, <2>2
  <2> HIDE DEF n
  <2> QED
    BY <2>1, <2>3, <2>4
<1>7. since' \in [Valid -> 0..RepeatTime]
  <2>1. /\ RepeatTime \in Nat /\ delta \in Nat /\ 0 \in 0..RepeatTime
        /\ since \in [Valid -> 0..RepeatTime] /\ since[k] \in 0..RepeatTime
    BY DEF DeviceAssumption, DeviceInv, DeviceTypeOK
  <2>2. AtMost(since[k] + delta, RepeatTime) \in 0..RepeatTime
    BY <2>1 DEF AtMost
  <2> DEFINE n == IF out' # Nothing THEN 0 ELSE AtMost(since[k] + delta, RepeatTime)
  <2>3. since' = [since EXCEPT ![k] = n]
    BY <1>1 DEF ReadKey, Remember
  <2>4. n \in 0..RepeatTime
    BY <2>1, <2>2
  <2> HIDE DEF n
  <2> QED
    BY <2>1, <2>3, <2>4
<1>8. out' \in Valid \cup Combos \cup {Nothing} /\ chord' \in Combos \cup {Nothing} /\ delta' \in Deltas \cup {0}
  BY <1>1 DEF ReadKey, Remember, DeviceInv, DeviceTypeOK
<1> QED
  BY <1>2, <1>3, <1>4, <1>5, <1>6, <1>7, <1>8 DEF DeviceTypeOK, Contexts

LEMMA ReadKeyKeepsPresses ==
  ASSUME DeviceAssumption, DeviceInv, NEW pressed \in BOOLEAN, ReadKey(pressed)
  PROVE  /\ \A k \in Valid : PressOf(k)'
         /\ DialPress' /\ LongIsReported'
         /\ NoPressIsLost /\ RepeatsArePaced
<1>1. PICK k \in Valid, new \in Contexts :
           /\ k = KeyList[pos] /\ pos \in 1..7
           /\ key' = [key EXCEPT ![k] = new] /\ out' \in {Nothing, k} \cup Combos
           /\ Reading(k, new, pressed)
  BY ReadingIs
<1>2. /\ key'[k] = new /\ \A j \in Valid \ {k} : key'[j] = key[j]
      /\ key[k] \in Contexts
  BY <1>1 DEF DeviceInv, DeviceTypeOK, Contexts
<1>3. /\ reports'[k] = IF key[k].state = "RELEASED" THEN 0
                       ELSE IF out' = Nothing THEN reports[k] ELSE AtMost(reports[k] + 1, 2)
      /\ \A j \in Valid \ {k} : reports'[j] = reports[j]
      /\ since'[k] = IF out' # Nothing THEN 0 ELSE AtMost(since[k] + delta, RepeatTime)
      /\ \A j \in Valid \ {k} : since'[j] = since[j]
  BY <1>1 DEF ReadKey, Remember, DeviceInv, DeviceTypeOK
<1>4. /\ reports[k] \in 0..2 /\ since[k] \in 0..RepeatTime
      /\ RepeatTime \in Nat /\ LongTime \in Nat /\ delta \in Nat /\ RepeatTime <= LongTime
  BY DEF DeviceInv, DeviceTypeOK, DeviceAssumption
<1>5. k # Nothing /\ Nothing \notin Combos /\ DialReport \in Combos
  BY NamesAreNot DEF DialReport, Combos
<1>6. PressOf(k)
  BY DEF DeviceInv
<1>7. PressOf(k)'
  <2>1. CASE key[k].repeat /\ new.state = "PRESSED" /\ new.time = AtMost(key[k].time + delta, LongTime) /\ out' = Nothing /\ key[k].state = "PRESSED"
    <3>1. since[k] = AtMost(key[k].time, RepeatTime) /\ key[k].time \in 0..LongTime
      BY <1>6, <2>1, <1>2 DEF PressOf, Contexts
    <3>2. AtMost(since[k] + delta, RepeatTime) = AtMost(AtMost(key[k].time + delta, LongTime), RepeatTime)
      BY <3>1, <1>4 DEF AtMost
    <3>3. new.longpress = key[k].longpress /\ key[k].longpress
      BY <1>1, <1>5, <1>6, <2>1 DEF Reading, PressOf
    <3> QED
      BY <3>2, <3>3, <2>1, <1>2, <1>3 DEF PressOf
  <2>2. CASE new.state = "PRESSED" /\ new.repeat /\ new.time = 0 /\ out' = k
    <3>1. AtMost(0, RepeatTime) = 0 /\ since'[k] = 0
      BY <2>2, <1>3, <1>4, <1>5 DEF AtMost
    <3>2. new.longpress
      BY <1>1, <1>5, <1>6, <2>2 DEF Reading, PressOf
    <3> QED
      BY <3>1, <3>2, <2>2, <1>2 DEF PressOf
  <2>3. CASE new.state = "RELEASED" \/ new.state = "LONGPRESS_RELEASE"
    BY <2>3, <1>1, <1>2, <1>6 DEF Reading, PressOf
  <2>4. CASE new.state = "PRESSED" /\ ~new.repeat
    BY <2>4, <1>1, <1>2, <1>3, <1>5, <1>6 DEF Reading, PressOf
  <2> QED
    BY <1>1, <1>5, <1>6, <2>1, <2>2, <2>3, <2>4 DEF Reading, PressOf, Contexts
<1>8. \A j \in Valid : PressOf(j)'
  BY <1>2, <1>3, <1>7 DEF DeviceInv, PressOf
<1>9. DialPress'
  BY <1>1, <1>2, <1>3, <1>4, <1>5, <1>6 DEF DialPress, DeviceInv, DeviceAssumption, Reading, PressOf, AtMost
<1>10. ASSUME k \in EarlyKeys, new.state = "PRESSED", charBit' PROVE k \in combo' \/ ~pressed
  <2>1. "Dial" \in down'
    BY <1>1, <1>10, EarlyKeysSeeTheDial
  <2>2. pressed => k \in down'
    BY <1>1, BitsAfterReading
  <2> QED
    BY <2>1, <2>2, <1>1, <1>2, <1>10 DEF ReadKey, Remember
<1>11. \A j \in Valid : j \in combo /\ key'[j].state = "PRESSED" => j \in combo'
  BY DEF ReadKey, Remember
<1>12. LongIsReported'
  <2>1. ASSUME k \in EarlyKeys \cup {"Dial"}, new.state = "PRESSED", new.longpress
        PROVE  reports'[k] > 0 \/ k \in combo'
    <3>1. CASE key[k].longpress /\ key[k].state = "PRESSED"
      <4>1. reports[k] > 0 \/ k \in combo
        BY <3>1, <2>1 DEF DeviceInv, LongIsReported
      <4>2. reports[k] > 0 => reports'[k] > 0
        BY <3>1, <1>3, <1>4 DEF AtMost
      <4> QED
        BY <4>1, <4>2, <1>2, <1>11, <2>1
    <3>2. CASE out' # Nothing /\ key[k].state # "RELEASED"
      BY <3>2, <1>3, <1>4 DEF AtMost
    <3>3. CASE ~key[k].longpress /\ key[k].state = "PRESSED" /\ out' = Nothing
      <4>1. charBit' /\ k # "Dial" /\ pressed
        BY <3>3, <2>1, <1>1, <1>5 DEF Reading
      <4> QED
        BY <4>1, <1>10, <2>1
    <3> QED
      BY <3>1, <3>2, <3>3, <1>1, <2>1 DEF Reading
  <2> QED
    BY <2>1, <1>2, <1>3, <1>11 DEF DeviceInv, LongIsReported
<1>13. NoPressIsLost
  <2>1. ASSUME NEW j \in Valid \ {"Back", "Windows", "Home"}, PressEnds(j), j \notin combo
        PROVE  reports'[j] > 0
    <3>1. j = k /\ key[k].state = "PRESSED" /\ new.state # "PRESSED"
      BY <2>1, <1>2 DEF PressEnds
    <3>2. j \in EarlyKeys \cup {"Dial"}
      BY <2>1 DEF EarlyKeys, DeviceAssumption, KeyNames
    <3>3. CASE key[k].longpress
      <4>1. reports[k] > 0
        BY <3>1, <3>2, <3>3, <2>1 DEF DeviceInv, LongIsReported
      <4> QED
        BY <4>1, <3>1, <3>3, <1>3, <1>4 DEF AtMost
    <3>4. CASE ~key[k].longpress
      <4>1. out' # Nothing
        BY <3>1, <3>4, <1>1, <1>5 DEF Reading
      <4> QED
        BY <4>1, <3>1, <1>3, <1>4 DEF AtMost
    <3> QED
      BY <3>3, <3>4
  <2> QED
    BY <2>1 DEF NoPressIsLost
<1>14. RepeatsArePaced
  <2>1. ASSUME reports'[k] > reports[k], reports[k] > 0
        PROVE  since[k] + delta >= RepeatTime
    <3>1. out' # Nothing /\ key[k].state = "PRESSED"
      BY <2>1, <1>1, <1>3, <1>4 DEF Reading
    <3>2. key[k].longpress
      BY <3>1, <2>1, <1>4, <1>6, <1>2 DEF PressOf, Contexts
    <3>3. key[k].repeat /\ RepeatTime <= AtMost(key[k].time + delta, LongTime)
      BY <3>1, <3>2, <1>1 DEF Reading
    <3>4. since[k] = AtMost(key[k].time, RepeatTime) /\ key[k].time \in 0..LongTime
      BY <3>1, <3>3, <1>6, <1>2 DEF PressOf, Contexts
    <3> QED
      BY <3>3, <3>4, <1>4 DEF AtMost
  <2>2. ASSUME NEW j \in Valid, reports'[j] > reports[j], reports[j] > 0
        PROVE  since[j] + delta >= RepeatTime
    <3>1. j = k
      <4>1. reports[j] \in 0..2
        BY DEF DeviceInv, DeviceTypeOK
      <4> QED
        BY <4>1, <2>2, <1>3
    <3> QED
      BY <3>1, <2>1, <2>2
  <2> QED
    BY <2>2 DEF RepeatsArePaced
<1> QED
  BY <1>8, <1>9, <1>12, <1>13, <1>14

LEMMA ReadKeyKeepsBits ==
  ASSUME DeviceAssumption, DeviceInv, NEW pressed \in BOOLEAN, ReadKey(pressed)
  PROVE  BitsAreKeys' /\ ChordIsLast' /\ ComboMatchesKeys'
<1>1. PICK k \in Valid, new \in Contexts :
           /\ k = KeyList[pos] /\ pos \in 1..7
           /\ key' = [key EXCEPT ![k] = new] /\ out' \in {Nothing, k} \cup Combos
           /\ Reading(k, new, pressed)
  BY ReadingIs
<1>2. /\ pos = 7 => pos' = 0
      /\ pos # 7 => pos' \in (pos + 1)..7 /\ KeyList[pos'] \in Valid
  BY <1>1, PlaceFromIs DEF ReadKey
<1>3. /\ down' = IF pressed THEN down \cup {k} ELSE down \ {k}
      /\ scanBits' = down' \cap HasScanCode
      /\ charBit' = IF k \in HasScanCode THEN charBit ELSE pressed
  BY <1>1, BitsAfterReading
<1>4. k = "Dial" <=> pos = 7
  BY <1>1, KeyListIs
<1>5. chord = Nothing /\ chord' = IF out' \in Combos THEN out' ELSE Nothing
  BY <1>1 DEF DeviceInv, ChordIsLast, ReadKey, Remember
<1>6. out' \in Combos => k = "Dial" /\ out' = DialReport
  BY <1>1, NamesAreNot DEF Reading
<1>7. BitsAreKeys'
  <2>1. CASE pos = 7
    BY <2>1, <1>2, <1>3, <1>4 DEF BitsAreKeys, HasScanCode
  <2>2. CASE pos # 7 /\ pos' <= 4
    <3>1. pos <= 3 /\ k \in HasScanCode /\ k # "Dial"
      BY <2>2, <1>1, <1>2, KeyListIs DEF HasScanCode
    <3> QED
      BY <3>1, <1>1, <1>3 DEF BitsAreKeys, DeviceInv
  <2> QED
    BY <2>1, <2>2, <1>3 DEF BitsAreKeys
<1>8. ChordIsLast'
  BY <1>2, <1>4, <1>5, <1>6 DEF ChordIsLast
<1>9. ComboMatchesKeys'
  <2>1. CASE out' \in Combos
    BY <2>1, <1>3, <1>5, <1>6 DEF ComboMatchesKeys, DialReport, HasScanCode
  <2>2. CASE out' \notin Combos
    BY <2>2, <1>5 DEF ComboMatchesKeys, Nothing
  <2> QED
    BY <2>1, <2>2
<1> QED
  BY <1>7, <1>8, <1>9

LEMMA BeginScanKeeps ==
  ASSUME DeviceAssumption, DeviceInv, NEW d \in Deltas, BeginScan(d)
  PROVE  DeviceInv' /\ NoPressIsLost /\ RepeatsArePaced
<1>1. pos' \in 1..7 /\ KeyList[pos'] \in Valid
  BY PlaceFromIs DEF BeginScan
<1>2. UNCHANGED <<key, scanBits, charBit, down, reports, since, combo, out>> /\ delta' = d /\ chord' = Nothing /\ pos = 0
  BY DEF BeginScan
<1>3. DeviceTypeOK'
  <2>1. DeviceTypeOK
    BY DEF DeviceInv
  <2>2. pos' \in 0..Len(KeyList) /\ delta' \in Deltas \cup {0} /\ chord' \in Combos \cup {Nothing}
    BY <1>1, <1>2, KeyListIs
  <2> QED
    BY <2>1, <2>2, <1>2 DEF DeviceTypeOK
<1>4. (\A k \in Valid : PressOf(k)') /\ DialPress' /\ LongIsReported'
  BY <1>2 DEF DeviceInv, PressOf, DialPress, LongIsReported
<1>5. BitsAreKeys' /\ ChordIsLast' /\ ComboMatchesKeys'
  BY <1>1, <1>2 DEF DeviceInv, BitsAreKeys, ChordIsLast, ComboMatchesKeys, Nothing
<1>6. NoPressIsLost /\ RepeatsArePaced
  <2>1. \A k \in Valid : reports[k] \in 0..2
    BY DEF DeviceInv, DeviceTypeOK
  <2> QED
    BY <2>1, <1>2 DEF NoPressIsLost, PressEnds, RepeatsArePaced
<1> QED
  BY <1>3, <1>4, <1>5, <1>6 DEF DeviceInv

LEMMA ResetKeeps ==
  ASSUME DeviceAssumption, DeviceInv, Reset
  PROVE  DeviceInv' /\ NoPressIsLost /\ RepeatsArePaced
<1>1. /\ \A k \in Valid : key'[k] = Released /\ reports'[k] = 0
      /\ UNCHANGED <<pos, delta, scanBits, charBit, down, since, chord>> /\ pos = 0
      /\ combo' = {} /\ out' = Nothing
  BY DEF Reset
<1>2. DeviceTypeOK'
  <2>1. Released \in Contexts
    BY DEF DeviceAssumption, Released, Contexts
  <2> QED
    BY <2>1 DEF Reset, DeviceInv, DeviceTypeOK, Contexts
<1>3. (\A k \in Valid : PressOf(k)') /\ DialPress' /\ LongIsReported'
  BY <1>1 DEF DeviceAssumption, PressOf, DialPress, LongIsReported, Released
<1>4. BitsAreKeys' /\ ChordIsLast' /\ ComboMatchesKeys'
  BY <1>1 DEF DeviceInv, BitsAreKeys, ChordIsLast, ComboMatchesKeys
<1>5. NoPressIsLost /\ RepeatsArePaced
  <2>1. \A k \in Valid : reports[k] \in 0..2
    BY DEF DeviceInv, DeviceTypeOK
  <2> QED
    BY <2>1, <1>1 DEF NoPressIsLost, PressEnds, RepeatsArePaced
<1> QED
  BY <1>2, <1>3, <1>4, <1>5 DEF DeviceInv

LEMMA DeviceInitHolds ==
  ASSUME DeviceAssumption, DeviceInit
  PROVE  DeviceInv
<1>1. \A k \in Valid : key[k] = Released /\ reports[k] = 0
  BY DEF DeviceInit
<1>2. DeviceTypeOK
  <2>1. Released \in Contexts
    BY DEF DeviceAssumption, Released, Contexts
  <2> QED
    <3>1. key \in [Valid -> Contexts] /\ reports \in [Valid -> 0..2] /\ since \in [Valid -> 0..RepeatTime]
      BY <2>1 DEF DeviceAssumption, DeviceInit
    <3>2. pos \in 0..Len(KeyList) /\ delta \in Deltas \cup {0}
      BY KeyListIs DEF DeviceInit
    <3>3. charBit \in BOOLEAN
      BY Zenon DEF DeviceInit
    <3> QED
      BY <3>1, <3>2, <3>3 DEF DeviceTypeOK, Contexts, DeviceInit
<1>3. (\A k \in Valid : PressOf(k)) /\ DialPress /\ LongIsReported
  BY <1>1 DEF DeviceAssumption, PressOf, DialPress, LongIsReported, Released
<1>4. BitsAreKeys /\ ChordIsLast /\ ComboMatchesKeys
  BY DEF DeviceInit, BitsAreKeys, ChordIsLast, ComboMatchesKeys, Nothing
<1> QED
  BY <1>2, <1>3, <1>4 DEF DeviceInv

LEMMA DeviceStepKeeps ==
  ASSUME DeviceAssumption, DeviceInv, DeviceNext
  PROVE  DeviceInv' /\ NoPressIsLost /\ RepeatsArePaced
<1>1. CASE \E d \in Deltas : BeginScan(d)
  BY <1>1, BeginScanKeeps
<1>2. ASSUME NEW pressed \in BOOLEAN, ReadKey(pressed) PROVE DeviceInv' /\ NoPressIsLost /\ RepeatsArePaced
  BY <1>2, ReadKeyKeepsTypes, ReadKeyKeepsPresses, ReadKeyKeepsBits DEF DeviceInv
<1>3. CASE Reset
  BY <1>3, ResetKeeps
<1> QED
  BY <1>1, <1>2, <1>3 DEF DeviceNext

\* Every press is reported, the dial's once and a held key's at its pace, and a
\* combination only for the keys that are down, on every board and whatever the
\* distances of the polls (LibKeyUpdateKeyStatus, KeypadDeviceImplGetKeys).
THEOREM EveryPressIsReported == DeviceSpec => PressesReported
<1>1. DeviceInit => DeviceInv
  BY DeviceAssumption, DeviceInitHolds
<1>2. DeviceInv /\ [DeviceNext]_deviceVars => DeviceInv'
  <2>1. CASE DeviceNext
    BY <2>1, DeviceAssumption, DeviceStepKeeps
  <2>2. CASE UNCHANGED deviceVars
    BY <2>2 DEF deviceVars, DeviceInv, DeviceTypeOK, PressOf, DialPress, LongIsReported, BitsAreKeys, ChordIsLast,
                ComboMatchesKeys
  <2> QED
    BY <2>1, <2>2
<1>3. DeviceInv => DialReportsOnce
  BY DEF DeviceInv, DialPress, DialReportsOnce
<1>4. ASSUME DeviceInv, DeviceInv', [DeviceNext]_deviceVars
      PROVE  [NoPressIsLost /\ RepeatsArePaced /\ DeviceTypeOK' /\ ComboMatchesKeys' /\ DialReportsOnce']_deviceVars
  <2>1. DeviceTypeOK' /\ ComboMatchesKeys' /\ DialReportsOnce'
    BY <1>4, <1>3 DEF DeviceInv, DialPress, DialReportsOnce
  <2> QED
    BY <2>1, <1>4, DeviceAssumption, DeviceStepKeeps
<1> QED
  BY <1>1, <1>2, <1>4, PTL DEF DeviceSpec, PressesReported

-----------------------------------------------------------------------------
(* The driver binding.                                                     *)

Events == {"WaitForKey", "WaitForKeyEx", "TimerEvent", "KeyNotifyProcessEvent"}
Starting ==
  {"alloc", "createWait", "createWaitEx", "createTimer", "setTimer", "createNotify", "reset", "install"}
Exiting ==
  {"exitWait", "exitTimer", "exitWaitEx", "exitNotify", "exitList", "exitFree", "exitProtocol"}
Stopping ==
  {"stopTimer", "stopUninstall", "stopProtocol", "stopWait", "stopWaitEx", "stopNotify", "stopList", "stopFree"}

BindingTypes ==
  /\ pc \in {"idle", "wild"} \cup Starting \cup Exiting \cup Stopping
  /\ pool \subseteq {"dev", "names", "node"}
  /\ field \subseteq Events /\ live \subseteq Events /\ queued \subseteq live
  /\ opened \in BOOLEAN /\ armed \in BOOLEAN /\ installed \in BOOLEAN

\* Only the error exit closes an event without clearing its field, and only an
\* allocated device has fields.
FieldsAreEvents ==
  /\ live \subseteq field /\ (pc \notin Exiting => field = live)
  /\ "dev" \notin pool => field = {}
  /\ pc \in (Starting \ {"alloc"}) \cup Stopping => "dev" \in pool
  /\ armed \/ pc = "setTimer" => "TimerEvent" \in live

\* Which events are closed, place by place.
ClosedSoFar ==
  /\ pc \in Exiting \ {"exitWait"} => "WaitForKey" \notin live
  /\ pc \in Exiting \ {"exitWait", "exitTimer"} => "TimerEvent" \notin live
  /\ pc \in Exiting \ {"exitWait", "exitTimer", "exitWaitEx"} => "WaitForKeyEx" \notin live
  /\ pc \in {"exitList", "exitFree", "exitProtocol"} => "KeyNotifyProcessEvent" \notin live
  /\ pc \in Stopping \ {"stopTimer"} => "TimerEvent" \notin live
  /\ pc \in {"stopWaitEx", "stopNotify", "stopList", "stopFree"} => "WaitForKey" \notin live
  /\ pc \in {"stopNotify", "stopList", "stopFree"} => "WaitForKeyEx" \notin live
  /\ pc \in {"stopList", "stopFree"} => "KeyNotifyProcessEvent" \notin live

\* Users are there only while the protocols are, and so is the event of their keys.
UsersAreServed ==
  /\ pc \in {"reset", "install"} \/ installed => "KeyNotifyProcessEvent" \in live
  /\ pc \in {"stopTimer", "stopUninstall"} => installed
  /\ installed => opened /\ pc \in {"idle", "stopTimer", "stopUninstall"}
  /\ "node" \in pool => installed \/ pc \in {"stopProtocol", "stopWait", "stopWaitEx", "stopNotify", "stopList"}

ReleasedSoFar ==
  /\ pc \in {"stopWait", "stopWaitEx", "stopNotify", "stopList", "stopFree"} => ~opened
  /\ pc \in Starting => opened
  /\ pc = "exitProtocol" => pool = {}
  /\ pc = "alloc" => pool = {}
  /\ NoLeak

BindingInv == BindingTypes /\ FieldsAreEvents /\ ClosedSoFar /\ UsersAreServed /\ ReleasedSoFar

LEMMA BindingInitHolds == BindingInit => BindingInv
  BY DEF BindingInit, BindingInv, BindingTypes, FieldsAreEvents, ClosedSoFar, UsersAreServed, ReleasedSoFar, NoLeak,
         Events, Starting, Exiting, Stopping

LEMMA StartKeeps ==
  ASSUME BindingInv, KeypadControllerDriverStart
  PROVE  BindingInv'
  BY DEF KeypadControllerDriverStart, Proceed, BindingInv, BindingTypes, FieldsAreEvents, ClosedSoFar, UsersAreServed, ReleasedSoFar, NoLeak,
         Events, Starting, Exiting, Stopping

LEMMA AllocateKeeps ==
  ASSUME BindingInv, AllocateDevice
  PROVE  BindingInv'
  BY DEF AllocateDevice, Proceed, BindingInv, BindingTypes, FieldsAreEvents, ClosedSoFar, UsersAreServed, ReleasedSoFar, NoLeak,
         Events, Starting, Exiting, Stopping

LEMMA SetTimerKeeps ==
  ASSUME BindingInv, SetTimer
  PROVE  BindingInv'
<1>1. CASE pc' = "createNotify" /\ armed' = TRUE
  BY <1>1 DEF SetTimer, Proceed, BindingInv, BindingTypes, FieldsAreEvents, ClosedSoFar, UsersAreServed, ReleasedSoFar, NoLeak,
           Events, Starting, Exiting, Stopping
<1>2. CASE pc' = "exitWait" /\ UNCHANGED armed
  BY <1>2 DEF SetTimer, Proceed, BindingInv, BindingTypes, FieldsAreEvents, ClosedSoFar, UsersAreServed, ReleasedSoFar, NoLeak,
           Events, Starting, Exiting, Stopping
<1> QED
  BY <1>1, <1>2 DEF SetTimer, Proceed

LEMMA ResetDeviceKeeps ==
  ASSUME BindingInv, ResetDevice
  PROVE  BindingInv'
  BY DEF ResetDevice, Proceed, BindingInv, BindingTypes, FieldsAreEvents, ClosedSoFar, UsersAreServed, ReleasedSoFar, NoLeak,
         Events, Starting, Exiting, Stopping

LEMMA InstallKeeps ==
  ASSUME BindingInv, Install
  PROVE  BindingInv'
<1>1. CASE pc' = "idle" /\ installed' = TRUE
  BY <1>1 DEF Install, Proceed, BindingInv, BindingTypes, FieldsAreEvents, ClosedSoFar, UsersAreServed, ReleasedSoFar, NoLeak,
           Events, Starting, Exiting, Stopping
<1>2. CASE pc' = "exitWait" /\ UNCHANGED installed
  BY <1>2 DEF Install, Proceed, BindingInv, BindingTypes, FieldsAreEvents, ClosedSoFar, UsersAreServed, ReleasedSoFar, NoLeak,
           Events, Starting, Exiting, Stopping
<1> QED
  BY <1>1, <1>2 DEF Install, Proceed

LEMMA StopKeeps ==
  ASSUME BindingInv, KeypadControllerDriverStop
  PROVE  BindingInv'
  BY DEF KeypadControllerDriverStop, Proceed, BindingInv, BindingTypes, FieldsAreEvents, ClosedSoFar, UsersAreServed, ReleasedSoFar, NoLeak,
         Events, Starting, Exiting, Stopping

LEMMA UninstallKeeps ==
  ASSUME BindingInv, Uninstall
  PROVE  BindingInv'
<1>1. CASE pc' = "stopProtocol" /\ installed' = FALSE
  BY <1>1 DEF Uninstall, Proceed, BindingInv, BindingTypes, FieldsAreEvents, ClosedSoFar, UsersAreServed, ReleasedSoFar, NoLeak,
           Events, Starting, Exiting, Stopping
<1>2. CASE pc' = "idle" /\ UNCHANGED installed
  BY <1>2 DEF Uninstall, Proceed, BindingInv, BindingTypes, FieldsAreEvents, ClosedSoFar, UsersAreServed, ReleasedSoFar, NoLeak,
           Events, Starting, Exiting, Stopping
<1> QED
  BY <1>1, <1>2 DEF Uninstall, Proceed

LEMMA RegisterKeeps ==
  ASSUME BindingInv, Register
  PROVE  BindingInv'
  BY DEF Register, Proceed, BindingInv, BindingTypes, FieldsAreEvents, ClosedSoFar, UsersAreServed, ReleasedSoFar, NoLeak,
         Events, Starting, Exiting, Stopping

LEMMA UnregisterKeeps ==
  ASSUME BindingInv, Unregister
  PROVE  BindingInv'
  BY DEF Unregister, Proceed, BindingInv, BindingTypes, FieldsAreEvents, ClosedSoFar, UsersAreServed, ReleasedSoFar, NoLeak,
         Events, Starting, Exiting, Stopping

LEMMA TickKeeps ==
  ASSUME BindingInv, Tick
  PROVE  BindingInv'
  BY DEF Tick, Proceed, BindingInv, BindingTypes, FieldsAreEvents, ClosedSoFar, UsersAreServed, ReleasedSoFar, NoLeak,
         Events, Starting, Exiting, Stopping

LEMMA TimerHandlerKeeps ==
  ASSUME BindingInv, RunTimerHandler
  PROVE  BindingInv'
  BY DEF RunTimerHandler, Proceed, BindingInv, BindingTypes, FieldsAreEvents, ClosedSoFar, UsersAreServed, ReleasedSoFar, NoLeak,
         Events, Starting, Exiting, Stopping

LEMMA NotifyHandlerKeeps ==
  ASSUME BindingInv, RunNotifyHandler
  PROVE  BindingInv'
  BY DEF RunNotifyHandler, Proceed, BindingInv, BindingTypes, FieldsAreEvents, ClosedSoFar, UsersAreServed, ReleasedSoFar, NoLeak,
         Events, Starting, Exiting, Stopping

LEMMA CreateWaitKeeps ==
  ASSUME BindingInv, Create("createWait", "WaitForKey", "createWaitEx")
  PROVE  BindingInv'
  BY DEF Create, Proceed, BindingInv, BindingTypes, FieldsAreEvents, ClosedSoFar, UsersAreServed, ReleasedSoFar, NoLeak,
         Events, Starting, Exiting, Stopping

LEMMA CreateWaitExKeeps ==
  ASSUME BindingInv, Create("createWaitEx", "WaitForKeyEx", "createTimer")
  PROVE  BindingInv'
  BY DEF Create, Proceed, BindingInv, BindingTypes, FieldsAreEvents, ClosedSoFar, UsersAreServed, ReleasedSoFar, NoLeak,
         Events, Starting, Exiting, Stopping

LEMMA CreateTimerKeeps ==
  ASSUME BindingInv, Create("createTimer", "TimerEvent", "setTimer")
  PROVE  BindingInv'
  BY DEF Create, Proceed, BindingInv, BindingTypes, FieldsAreEvents, ClosedSoFar, UsersAreServed, ReleasedSoFar, NoLeak,
         Events, Starting, Exiting, Stopping

LEMMA CreateNotifyKeeps ==
  ASSUME BindingInv, Create("createNotify", "KeyNotifyProcessEvent", "reset")
  PROVE  BindingInv'
  BY DEF Create, Proceed, BindingInv, BindingTypes, FieldsAreEvents, ClosedSoFar, UsersAreServed, ReleasedSoFar, NoLeak,
         Events, Starting, Exiting, Stopping

LEMMA ExitWaitKeeps ==
  ASSUME BindingInv, ExitClose("exitWait", "WaitForKey", "exitTimer")
  PROVE  BindingInv'
  BY DEF ExitClose, Close, Proceed, BindingInv, BindingTypes, FieldsAreEvents, ClosedSoFar, UsersAreServed, ReleasedSoFar, NoLeak,
         Events, Starting, Exiting, Stopping

LEMMA ExitTimerKeeps ==
  ASSUME BindingInv, ExitClose("exitTimer", "TimerEvent", "exitWaitEx")
  PROVE  BindingInv'
  BY DEF ExitClose, Close, Proceed, BindingInv, BindingTypes, FieldsAreEvents, ClosedSoFar, UsersAreServed, ReleasedSoFar, NoLeak,
         Events, Starting, Exiting, Stopping

LEMMA ExitWaitExKeeps ==
  ASSUME BindingInv, ExitClose("exitWaitEx", "WaitForKeyEx", "exitNotify")
  PROVE  BindingInv'
  BY DEF ExitClose, Close, Proceed, BindingInv, BindingTypes, FieldsAreEvents, ClosedSoFar, UsersAreServed, ReleasedSoFar, NoLeak,
         Events, Starting, Exiting, Stopping

LEMMA ExitNotifyKeeps ==
  ASSUME BindingInv, ExitClose("exitNotify", "KeyNotifyProcessEvent", "exitList")
  PROVE  BindingInv'
  BY DEF ExitClose, Close, Proceed, BindingInv, BindingTypes, FieldsAreEvents, ClosedSoFar, UsersAreServed, ReleasedSoFar, NoLeak,
         Events, Starting, Exiting, Stopping

LEMMA StopTimerKeeps ==
  ASSUME BindingInv, StopClose("stopTimer", "TimerEvent", "stopUninstall")
  PROVE  BindingInv'
  BY DEF StopClose, Close, Proceed, BindingInv, BindingTypes, FieldsAreEvents, ClosedSoFar, UsersAreServed, ReleasedSoFar, NoLeak,
         Events, Starting, Exiting, Stopping

LEMMA StopWaitKeeps ==
  ASSUME BindingInv, StopClose("stopWait", "WaitForKey", "stopWaitEx")
  PROVE  BindingInv'
  BY DEF StopClose, Close, Proceed, BindingInv, BindingTypes, FieldsAreEvents, ClosedSoFar, UsersAreServed, ReleasedSoFar, NoLeak,
         Events, Starting, Exiting, Stopping

LEMMA StopWaitExKeeps ==
  ASSUME BindingInv, StopClose("stopWaitEx", "WaitForKeyEx", "stopNotify")
  PROVE  BindingInv'
  BY DEF StopClose, Close, Proceed, BindingInv, BindingTypes, FieldsAreEvents, ClosedSoFar, UsersAreServed, ReleasedSoFar, NoLeak,
         Events, Starting, Exiting, Stopping

LEMMA StopNotifyKeeps ==
  ASSUME BindingInv, StopClose("stopNotify", "KeyNotifyProcessEvent", "stopList")
  PROVE  BindingInv'
  BY DEF StopClose, Close, Proceed, BindingInv, BindingTypes, FieldsAreEvents, ClosedSoFar, UsersAreServed, ReleasedSoFar, NoLeak,
         Events, Starting, Exiting, Stopping

LEMMA ExitListKeeps ==
  ASSUME BindingInv, FreeNotifyList("exitList", "exitFree")
  PROVE  BindingInv'
  BY DEF FreeNotifyList, Proceed, BindingInv, BindingTypes, FieldsAreEvents, ClosedSoFar, UsersAreServed, ReleasedSoFar, NoLeak,
         Events, Starting, Exiting, Stopping

LEMMA StopListKeeps ==
  ASSUME BindingInv, FreeNotifyList("stopList", "stopFree")
  PROVE  BindingInv'
  BY DEF FreeNotifyList, Proceed, BindingInv, BindingTypes, FieldsAreEvents, ClosedSoFar, UsersAreServed, ReleasedSoFar, NoLeak,
         Events, Starting, Exiting, Stopping

LEMMA ExitFreeKeeps ==
  ASSUME BindingInv, FreeDevice("exitFree", "exitProtocol")
  PROVE  BindingInv'
  BY DEF FreeDevice, Proceed, BindingInv, BindingTypes, FieldsAreEvents, ClosedSoFar, UsersAreServed, ReleasedSoFar, NoLeak,
         Events, Starting, Exiting, Stopping

LEMMA StopFreeKeeps ==
  ASSUME BindingInv, FreeDevice("stopFree", "idle")
  PROVE  BindingInv'
  BY DEF FreeDevice, Proceed, BindingInv, BindingTypes, FieldsAreEvents, ClosedSoFar, UsersAreServed, ReleasedSoFar, NoLeak,
         Events, Starting, Exiting, Stopping

LEMMA ExitProtocolKeeps ==
  ASSUME BindingInv, CloseProtocol("exitProtocol", "idle")
  PROVE  BindingInv'
  BY DEF CloseProtocol, Proceed, BindingInv, BindingTypes, FieldsAreEvents, ClosedSoFar, UsersAreServed, ReleasedSoFar, NoLeak,
         Events, Starting, Exiting, Stopping

LEMMA StopProtocolKeeps ==
  ASSUME BindingInv, CloseProtocol("stopProtocol", "stopWait")
  PROVE  BindingInv'
  BY DEF CloseProtocol, Proceed, BindingInv, BindingTypes, FieldsAreEvents, ClosedSoFar, UsersAreServed, ReleasedSoFar, NoLeak,
         Events, Starting, Exiting, Stopping

LEMMA BindingStepKeeps ==
  ASSUME BindingInv, BindingNext
  PROVE  BindingInv'
<1>1. CASE \/ KeypadControllerDriverStart \/ AllocateDevice \/ CreateEvents \/ SetTimer \/ ResetDevice \/ Install
  BY <1>1, StartKeeps, AllocateKeeps, CreateWaitKeeps, CreateWaitExKeeps, CreateTimerKeeps, CreateNotifyKeeps,
     SetTimerKeeps, ResetDeviceKeeps, InstallKeeps DEF CreateEvents
<1>2. CASE ErrorExit
  BY <1>2, ExitWaitKeeps, ExitTimerKeeps, ExitWaitExKeeps, ExitNotifyKeeps, ExitListKeeps, ExitFreeKeeps,
     ExitProtocolKeeps DEF ErrorExit, ExitCloses
<1>3. CASE KeypadControllerDriverStop \/ StopRest
  BY <1>3, StopKeeps, StopTimerKeeps, StopWaitKeeps, StopWaitExKeeps, StopNotifyKeeps, UninstallKeeps,
     StopProtocolKeeps, StopListKeeps, StopFreeKeeps DEF StopRest, StopCloses
<1>4. CASE Register \/ Unregister \/ Tick \/ RunTimerHandler \/ RunNotifyHandler
  BY <1>4, RegisterKeeps, UnregisterKeeps, TickKeeps, TimerHandlerKeeps, NotifyHandlerKeeps
<1> QED
  BY <1>1, <1>2, <1>3, <1>4 DEF BindingNext

\* Whichever step of Start fails, and however often Stop is refused and tried
\* again, no handler outlives its device, nothing is left behind and no event is
\* closed twice (KeypadControllerDriverStart, KeypadControllerDriverStop).
THEOREM NothingEverDangles == BindingSpec => []NothingDangles
<1>1. BindingInv /\ UNCHANGED bindingVars => BindingInv'
  BY DEF bindingVars, BindingInv, BindingTypes, FieldsAreEvents, ClosedSoFar, UsersAreServed, ReleasedSoFar, NoLeak
<1>2. BindingInv => NothingDangles
  BY DEF BindingInv, BindingTypes, FieldsAreEvents, ReleasedSoFar, NothingDangles, HandlersHaveTheirDevice,
         ClosesLiveEvents, Exiting
<1> QED
  BY <1>1, <1>2, BindingInitHolds, BindingStepKeeps, PTL DEF BindingSpec
=============================================================================
