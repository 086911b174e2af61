------------------------------ MODULE I2CDxeProofs ------------------------------
(***************************************************************************)
(* That the result of a transfer tells what went over the bus, for writes  *)
(* and reads of any length, any number of attempts, and whatever the       *)
(* controller and the device do.                                           *)
(***************************************************************************)
EXTENDS I2CDxe, SequenceTheorems, TLAPS

USE DEF Num

-----------------------------------------------------------------------------
(* The inductive invariant.                                                *)

\* What the driver writes to the controller: addresses and bytes.
ToWrite == Address(FALSE)
ToRead == Address(TRUE)
PlainByte(n) == <<"byte", n>>
LastByte(n) == <<"last", n>>

Writes == {Empty, Stop, ToWrite, ToRead} \cup ({"byte", "last"} \X Nat)
Entries == Writes \cup ({"out"} \X Nat) \cup ({"in"} \X Nat \X Nat)

Devs == [msg : 0 .. 2, rem : 0 .. 2, pos : Nat \cup {-1}, cnt : Nat, ret : {ERROR, 0, 1, 2},
         needFlush : BOOLEAN, flushCnt : Nat]
Controllers == [wr : Writes, rd : Nat, bus : {"idle", "write", "read", "stopping"},
                err : BOOLEAN, irq : BOOLEAN, got : Nat]

\* The messages of the call that is under way.
Messages ==
  /\ Num \in {1, 2}
  /\ msgs[1].read = FALSE /\ msgs[1].len \in Nat \ {0}
  /\ Num = 2 => msgs[1].len = 1 /\ msgs[2].read = TRUE /\ msgs[2].len \in Nat \ {0}

Types ==
  /\ dev \in Devs /\ hw \in Controllers
  /\ timeout \in BOOLEAN /\ enabled \in BOOLEAN
  /\ place \in {"idle", "begin", "notbusy", "setup", "address", "addressed", "wait", "recover", "judge", "end"}
  /\ place # "idle" => Messages
  /\ retry \in 0 .. Retries
  /\ ret \in {ERROR, ERR_NOT_READY, ERR_TIMED_OUT, 0, 1, 2}
  /\ wire \in Seq(Entries)
  /\ mishaps \subseteq {"nack", "busy", "slow", "race"}

\* The driver has a message from Setup to Collect.
Under == place \in {"address", "addressed", "wait"}

\* When the driver has a message and the interrupt can come; a byte is only
\* written to a bus that takes it, and a transfer begins on a free bus.
Places ==
  /\ enabled <=> place \notin {"idle", "begin"}
  /\ dev.msg # NULL <=> Under
  /\ Under => dev.msg + dev.rem = Num + 1 /\ dev.rem >= 1
  /\ hw.err => hw.irq
  /\ hw.wr[1] \in {"byte", "last"} => hw.bus = "write"
  /\ place \in {"setup", "address"} => hw.bus = "idle" /\ hw.wr \in {Empty, Stop} /\ ~hw.irq

\* The first message is sent: an interrupt with bytes left comes from the
\* error or finds the bus active, and one byte of an earlier read is flushed at most.
FirstMessage ==
  Under /\ place # "address" /\ dev.msg = 1 =>
    /\ hw.bus # "read" /\ hw.wr # Stop /\ hw.wr # ToRead
    /\ hw.rd = 0 \/ dev.flushCnt = 0
    /\ hw.wr[1] = "last" \/ hw.bus = "stopping" => dev.cnt = 0
    /\ hw.irq /\ ~hw.err /\ dev.cnt > 0 => hw.bus = "write"

\* The i-th entry of the log of a transfer without mishaps.
Item(i) ==
  IF i = 1 THEN ToWrite
  ELSE IF Num = 1 \/ i = 2 THEN <<"out", i - 1>>
  ELSE IF i = 3 THEN ToRead
  ELSE <<"in", i - 3, i - 3>>
Items == IF Num = 1 THEN 1 + msgs[1].len ELSE 3 + msgs[2].len
InOrder == Len(wire) <= Items /\ \A i \in 1 .. Len(wire) : wire[i] = Item(i)

\* Neither has the wait given up, nor the handler interrupted the direct call.
Undisturbed == mishaps \cap {"slow", "race"} = {}

\* The phases of an undisturbed transfer.
Started ==
  /\ dev.msg = 1 /\ dev.rem = Num /\ dev.pos = -1 /\ dev.ret = Num /\ dev.cnt = msgs[1].len
  /\ ~dev.needFlush /\ dev.flushCnt = 0

Addressing ==
  /\ Started
  /\ \/ hw.wr = ToWrite /\ hw.bus = "idle" /\ ~hw.irq /\ Len(wire) = 0
     \/ hw.wr = Empty /\ hw.bus = "write" /\ hw.irq /\ Len(wire) = 1

Over == hw.bus \in {"stopping", "idle"}

\* dev.pos bytes are written; the last of them, or the address, is still to be
\* taken or was taken, and the interrupt says so.
Writing ==
  /\ dev.msg = 1 /\ dev.pos \in 0 .. msgs[1].len /\ dev.cnt = msgs[1].len - dev.pos
  /\ dev.cnt = 0 => Num = 1
  /\ hw.rd = 0 /\ ~dev.needFlush
  /\ \/ /\ hw.wr = IF dev.pos = 0 THEN ToWrite
                   ELSE IF Num = 1 /\ dev.cnt = 0 THEN LastByte(dev.pos) ELSE PlainByte(dev.pos)
        /\ ~hw.irq /\ Len(wire) = dev.pos
     \/ /\ hw.wr = Empty /\ hw.irq /\ Len(wire) = dev.pos + 1
        /\ IF dev.cnt = 0 THEN Over ELSE hw.bus = "write"

\* The number of the register is written, the second address is next.
Turning ==
  /\ dev.msg = 2 /\ dev.pos = -1 /\ dev.cnt = msgs[2].len /\ ~dev.needFlush
  /\ hw.rd = 0 /\ hw.bus = "write"
  /\ \/ hw.wr = PlainByte(1) /\ ~hw.irq /\ Len(wire) = 1
     \/ hw.wr = Empty /\ hw.irq /\ Len(wire) = 2

TurnedAround ==
  /\ dev.msg = 2 /\ dev.pos = 0 /\ dev.cnt = msgs[2].len /\ ~dev.needFlush
  /\ hw.rd = 0 /\ hw.bus = "write" /\ hw.wr = ToRead /\ ~hw.irq /\ Len(wire) = 2

\* The stop is asked for one byte ahead, or, for a single byte, behind it.
Asked == dev.pos >= 1 /\ dev.pos >= msgs[2].len - 1

\* dev.pos bytes are stored, and one more may have arrived.
Reading ==
  /\ dev.msg = 2 /\ dev.pos \in 0 .. msgs[2].len /\ dev.cnt = msgs[2].len - dev.pos
  /\ Len(wire) = 3 + dev.pos
  /\ dev.needFlush <=> msgs[2].len = 1 /\ dev.pos = 1
  /\ dev.cnt = 0 => msgs[2].len = 1
  /\ hw.got = dev.pos + (IF hw.rd = 0 THEN 0 ELSE 1)
  /\ hw.rd # 0 => hw.rd = hw.got /\ hw.irq
  /\ IF hw.rd # 0 /\ Asked THEN hw.wr = Empty /\ Over
     ELSE hw.bus = "read" /\ hw.wr = IF Asked THEN Stop ELSE Empty

\* All bytes are moved, and the handler has seen it.
Complete ==
  /\ dev.cnt = 0 /\ dev.pos >= 0 /\ dev.msg = Num /\ ~dev.needFlush
  /\ hw.rd = 0 /\ Over /\ hw.wr \in {Empty, Stop} /\ ~hw.irq
  /\ ~timeout /\ Len(wire) = Items

Phases == Writing \/ Turning \/ TurnedAround \/ Reading \/ Complete
Progress ==
  /\ dev.ret = Num /\ ~hw.err
  /\ place = "addressed" => Addressing
  /\ place = "wait" => Phases

\* The device has refused something: the error is still to be seen or was.
Failing ==
  /\ "nack" \in mishaps
  /\ hw.bus = "idle" /\ hw.wr = Empty
  /\ \/ hw.irq /\ hw.err
     \/ ~hw.irq /\ dev.ret = ERROR /\ place = "wait"

UnderWay ==
  /\ place = "address" => Started /\ wire = <<>>
  /\ place \in {"addressed", "wait"} /\ Undisturbed => InOrder /\ (Progress \/ Failing)
  /\ place \in {"addressed", "wait"} /\ mishaps \subseteq {"busy"} => Progress

\* Afterwards: the error of an attempt was caused in it.
Judged ==
  /\ place = "recover" => "slow" \in mishaps
  /\ place = "judge" /\ Undisturbed =>
       \/ ret = Num /\ ~timeout /\ Done /\ hw.wr \in {Empty, Stop}
       \/ ret = ERROR /\ "nack" \in mishaps
  /\ place = "end" =>
       /\ ret = Num /\ Undisturbed => Done /\ hw.wr \in {Empty, Stop}
       /\ mishaps = {} => ret = Num

IInv == Types /\ Places /\ FirstMessage /\ UnderWay /\ Judged

-----------------------------------------------------------------------------
(* Lemmas about what is written to the controller and about the log.       *)

\* A write is told by its first component.
LEMMA Kinds ==
  /\ \A w \in Writes :
       /\ w[1] \in {"empty", "stop", "addrW", "addrR", "byte", "last"}
       /\ w = Empty <=> w[1] = "empty"
       /\ w = Stop <=> w[1] = "stop"
       /\ w = ToWrite <=> w[1] = "addrW"
       /\ w = ToRead <=> w[1] = "addrR"
       /\ w[1] = "byte" => w[2] \in Nat /\ w = PlainByte(w[2])
       /\ w[1] = "last" => w[2] \in Nat /\ w = LastByte(w[2])
  /\ {Empty, Stop, ToWrite, ToRead} \subseteq Writes
  /\ \A n \in Nat : /\ PlainByte(n) \in Writes /\ PlainByte(n)[1] = "byte" /\ PlainByte(n)[2] = n
                    /\ LastByte(n) \in Writes /\ LastByte(n)[1] = "last" /\ LastByte(n)[2] = n
  /\ Writes \subseteq Entries
  /\ \A n, m \in Nat : <<"out", n>> \in Entries /\ <<"in", n, m>> \in Entries
BY DEF Writes, Entries, Empty, Stop, ToWrite, ToRead, Address, PlainByte, LastByte

\* The entries of the log, for a write and for a read.
LEMMA Lengths ==
  ASSUME Messages
  PROVE  /\ Num \in {1, 2} /\ msgs[1].len \in Nat \ {0}
         /\ Num = 2 => msgs[1].len = 1 /\ msgs[2].len \in Nat \ {0}
BY DEF Messages

LEMMA ItemCount ==
  ASSUME Messages
  PROVE  /\ Num = 1 => Items = 1 + msgs[1].len /\ Items \in Nat
         /\ Num = 2 => Items = 3 + msgs[2].len /\ Items \in Nat
BY DEF Messages, Items

LEMMA FirstItems ==
  ASSUME Messages
  PROVE  Item(1) = ToWrite /\ (Num = 2 => Item(2) = <<"out", 1>> /\ Item(3) = ToRead)
BY DEF Messages, Item

LEMMA ItemOut ==
  ASSUME Messages, Num = 1, NEW i \in Nat \ {0}
  PROVE  Item(i + 1) = <<"out", i>>
BY DEF Item

LEMMA ItemIn ==
  ASSUME Messages, Num = 2, NEW i \in Nat \ {0}
  PROVE  Item(i + 3) = <<"in", i, i>>
BY DEF Item

-----------------------------------------------------------------------------
(* Lemmas about the log.                                                   *)

LEMMA LogGrows ==
  ASSUME Types, NEW e \in Entries, wire' = Append(wire, e), msgs' = msgs
  PROVE  /\ wire' \in Seq(Entries) /\ Len(wire') = Len(wire) + 1
         /\ Messages /\ InOrder /\ Len(wire) < Items /\ e = Item(Len(wire) + 1) => InOrder'
<1>1. wire' \in Seq(Entries) /\ Len(wire') = Len(wire) + 1
  BY DEF Types
<1>2. wire'[Len(wire) + 1] = e /\ \A i \in 1 .. Len(wire) : wire'[i] = wire[i]
  BY DEF Types
<1>3. Len(wire) \in Nat
  BY DEF Types
<1>4. Items' = Items /\ \A i \in Nat : Item(i)' = Item(i)
  BY DEF Items, Item
<1>5. ASSUME Messages, InOrder, Len(wire) < Items, e = Item(Len(wire) + 1)
      PROVE  InOrder'
  <2>1. Len(wire') <= Items'
    <3>1. Items \in Nat
      BY <1>5 DEF Items, Messages
    <3> QED
      BY <1>1, <1>3, <1>4, <1>5, <3>1
  <2>2. ASSUME NEW i \in 1 .. Len(wire')
        PROVE  wire'[i] = Item(i)'
    BY <1>1, <1>2, <1>3, <1>4, <1>5 DEF InOrder
  <2> QED
    BY <2>1, <2>2 DEF InOrder
<1> QED
  BY <1>1, <1>5

LEMMA LogStays ==
  ASSUME InOrder, wire' = wire, msgs' = msgs
  PROVE  InOrder'
  BY DEF InOrder, Items, Item

\* A message behind its address.
LEMMA Headed ==
  ASSUME NEW S, NEW a \in S, NEW b \in Seq(S)
  PROVE  /\ <<a>> \o b \in Seq(S) /\ Len(<<a>> \o b) = Len(b) + 1
         /\ (<<a>> \o b)[1] = a
         /\ \A i \in 1 .. Len(b) : (<<a>> \o b)[i + 1] = b[i]
<1>1. <<a>> \in Seq(S) /\ Len(<<a>>) = 1 /\ <<a>>[1] = a
  OBVIOUS
<1> QED
  BY <1>1, ConcatProperties

\* What a call puts on the bus, entry by entry.
LEMMA ExpectedItems ==
  ASSUME Messages
  PROVE  /\ Expected \in Seq(Entries) /\ Len(Expected) = Items
         /\ \A i \in 1 .. Items : Expected[i] = Item(i)
<1> DEFINE B(m) == [i \in 1 .. m.len |-> IF m.read THEN <<"in", i, i>> ELSE <<"out", i>>]
           A(m) == Address(m.read)
           L(m) == <<A(m)>> \o B(m)
<1>1. /\ A(msgs[1]) = ToWrite /\ A(msgs[1]) \in Entries
      /\ Num = 2 => A(msgs[2]) = ToRead /\ A(msgs[2]) \in Entries
  BY Kinds DEF Messages, ToWrite, ToRead, Address
<1>2. /\ msgs[1].len \in Nat /\ B(msgs[1]) \in [1 .. msgs[1].len -> Entries]
      /\ \A i \in 1 .. msgs[1].len : B(msgs[1])[i] = <<"out", i>>
  BY Kinds DEF Messages
<1>3. Num = 2 => /\ msgs[2].len \in Nat /\ B(msgs[2]) \in [1 .. msgs[2].len -> Entries]
                 /\ \A i \in 1 .. msgs[2].len : B(msgs[2])[i] = <<"in", i, i>>
  BY Kinds DEF Messages
<1>4. Expected = IF Num = 1 THEN L(msgs[1]) ELSE L(msgs[1]) \o L(msgs[2])
  BY DEF Expected, MessageLog
<1> HIDE DEF A, B
<1>5. /\ L(msgs[1]) \in Seq(Entries) /\ Len(L(msgs[1])) = msgs[1].len + 1
      /\ L(msgs[1])[1] = ToWrite
      /\ \A i \in 1 .. msgs[1].len : L(msgs[1])[i + 1] = <<"out", i>>
  <2>1. PICK a, b : a = A(msgs[1]) /\ b = B(msgs[1])
    OBVIOUS
  <2>2. a \in Entries /\ b \in [1 .. msgs[1].len -> Entries] /\ msgs[1].len \in Nat
        /\ L(msgs[1]) = <<a>> \o b
    BY <1>1, <1>2, <2>1
  <2>3. b \in Seq(Entries) /\ Len(b) = msgs[1].len
    BY <2>2
  <2>4. /\ <<a>> \o b \in Seq(Entries) /\ Len(<<a>> \o b) = Len(b) + 1
        /\ (<<a>> \o b)[1] = a
        /\ \A i \in 1 .. Len(b) : (<<a>> \o b)[i + 1] = b[i]
    BY <2>2, <2>3, Headed
  <2> QED
    BY <1>1, <1>2, <2>1, <2>2, <2>3, <2>4
<1>6. Num = 2 =>
        /\ L(msgs[2]) \in Seq(Entries) /\ Len(L(msgs[2])) = msgs[2].len + 1
        /\ L(msgs[2])[1] = ToRead
        /\ \A i \in 1 .. msgs[2].len : L(msgs[2])[i + 1] = <<"in", i, i>>
  <2>1. PICK a, b : a = A(msgs[2]) /\ b = B(msgs[2])
    OBVIOUS
  <2> SUFFICES ASSUME Num = 2
               PROVE  /\ L(msgs[2]) \in Seq(Entries) /\ Len(L(msgs[2])) = msgs[2].len + 1
                      /\ L(msgs[2])[1] = ToRead
                      /\ \A i \in 1 .. msgs[2].len : L(msgs[2])[i + 1] = <<"in", i, i>>
    OBVIOUS
  <2>2. a \in Entries /\ b \in [1 .. msgs[2].len -> Entries] /\ msgs[2].len \in Nat
        /\ L(msgs[2]) = <<a>> \o b
    BY <1>1, <1>3, <2>1
  <2>3. b \in Seq(Entries) /\ Len(b) = msgs[2].len
    <3> HIDE DEF Num
    <3> QED
      BY <2>2
  <2>4. /\ <<a>> \o b \in Seq(Entries) /\ Len(<<a>> \o b) = Len(b) + 1
        /\ (<<a>> \o b)[1] = a
        /\ \A i \in 1 .. Len(b) : (<<a>> \o b)[i + 1] = b[i]
    BY <2>2, <2>3, Headed
  <2> QED
    BY <1>1, <1>3, <2>1, <2>2, <2>3, <2>4
<1> HIDE DEF L
<1>7. CASE Num = 1
  <2>1. /\ Expected = L(msgs[1]) /\ Items = 1 + msgs[1].len
        /\ Len(Expected) = Items /\ Expected \in Seq(Entries)
    BY <1>2, <1>4, <1>5, <1>7, ItemCount
  <2>2. ASSUME NEW i \in 1 .. Items
        PROVE  Expected[i] = Item(i)
    <3>1. CASE i = 1
      BY <1>5, <2>1, <3>1, FirstItems
    <3>2. CASE i # 1
      <4>1. PICK k \in 1 .. msgs[1].len : i = k + 1
        <5>1. i - 1 \in 1 .. msgs[1].len /\ i = (i - 1) + 1
          BY <1>2, <2>1, <2>2, <3>2
        <5> QED
          BY <5>1
      <4>2. Expected[i] = <<"out", k>> /\ k \in Nat \ {0}
        BY <1>2, <1>5, <2>1, <4>1
      <4>3. Item(i) = <<"out", k>>
        BY <1>7, <4>1, <4>2, ItemOut
      <4> QED
        BY <4>2, <4>3
    <3> QED
      BY <3>1, <3>2
  <2> QED
    BY <2>1, <2>2
<1>8. CASE Num = 2
  <2>1. msgs[1].len = 1 /\ Items = 3 + msgs[2].len /\ msgs[2].len \in Nat
    BY <1>8, ItemCount, Lengths
  <2>2. PICK left, right : left = L(msgs[1]) /\ right = L(msgs[2])
    OBVIOUS
  <2>3. /\ left \in Seq(Entries) /\ Len(left) = 2
        /\ left[1] = ToWrite /\ left[2] = <<"out", 1>>
    <3>1. 1 \in 1 .. msgs[1].len
      BY <2>1
    <3>2. left[1 + 1] = <<"out", 1>>
      BY <1>5, <2>2, <3>1
    <3> QED
      BY <1>5, <2>1, <2>2, <3>2
  <2>4. /\ right \in Seq(Entries) /\ Len(right) = msgs[2].len + 1 /\ right[1] = ToRead
        /\ \A k \in 1 .. msgs[2].len : right[k + 1] = <<"in", k, k>>
    BY <1>6, <1>8, <2>2
  <2>5. Expected = left \o right
    BY <1>4, <1>8, <2>2
  <2>6. /\ Expected \in Seq(Entries) /\ Len(Expected) = 3 + msgs[2].len
        /\ \A i \in 1 .. 3 + msgs[2].len :
             Expected[i] = IF i <= 2 THEN left[i] ELSE right[i - 2]
    <3> HIDE <2>2
    <3>1. /\ Len(left) + Len(right) = 3 + msgs[2].len
      BY <2>1, <2>3, <2>4
    <3> QED
      <4>1. /\ left \o right \in Seq(Entries)
            /\ Len(left \o right) = Len(left) + Len(right)
            /\ \A i \in 1 .. Len(left) + Len(right) :
                 (left \o right)[i] = IF i <= Len(left) THEN left[i] ELSE right[i - Len(left)]
        BY <2>3, <2>4, ConcatProperties
      <4> QED
        BY <2>3, <2>5, <3>1, <4>1
  <2>7. ASSUME NEW i \in 1 .. Items
        PROVE  Expected[i] = Item(i)
    <3>1. CASE i = 1
      <4>1. Expected[1] = ToWrite
        BY <2>1, <2>3, <2>6
      <4> QED
        BY <3>1, <4>1, FirstItems
    <3>2. CASE i = 2
      <4>1. Expected[2] = <<"out", 1>>
        BY <2>1, <2>3, <2>6
      <4> QED
        BY <1>8, <3>2, <4>1, FirstItems
    <3>3. CASE i = 3
      <4>1. Expected[3] = right[1]
        BY <2>1, <2>3, <2>6
      <4> QED
        BY <1>8, <2>4, <3>3, <4>1, FirstItems
    <3>4. CASE i >= 4
      <4>1. PICK k \in 1 .. msgs[2].len : i = k + 3
        <5>1. i - 3 \in 1 .. msgs[2].len /\ i = (i - 3) + 3
          BY <2>1, <2>7, <3>4
        <5> QED
          BY <5>1
      <4>2. k \in Nat \ {0} /\ i - 2 = k + 1
        BY <2>1, <4>1
      <4>3. Expected[i] = right[k + 1]
        BY <2>1, <2>6, <4>1, <4>2
      <4>4. Item(i) = <<"in", k, k>>
        BY <1>8, <4>1, <4>2, ItemIn
      <4> QED
        BY <2>4, <4>3, <4>4
    <3> QED
      BY <2>1, <2>7, <3>1, <3>2, <3>3, <3>4
  <2> QED
    BY <2>1, <2>6, <2>7
<1> QED
  BY <1>7, <1>8 DEF Messages

LEMMA AllItemsMeansDone ==
  ASSUME Types, Messages, InOrder, Len(wire) = Items
  PROVE  Done
<1>1. wire \in Seq(Entries) /\ Expected \in Seq(Entries) /\ Len(wire) = Len(Expected)
  BY ExpectedItems DEF Types
<1>2. \A i \in 1 .. Len(wire) : wire[i] = Expected[i]
  BY ExpectedItems DEF InOrder
<1> QED
  BY <1>1, <1>2, SeqEqual DEF Done
-----------------------------------------------------------------------------
(* The controller.                                                         *)

\* What no step of the controller changes.
Others == <<dev, timeout, enabled, place, msgs, retry, ret>>

LEMMA TypesOfController ==
  ASSUME Types, UNCHANGED Others, hw' \in Controllers, wire' \in Seq(Entries),
         mishaps' \subseteq {"nack", "busy", "slow", "race"}
  PROVE  Types'
BY DEF Types, Others, Messages

LEMMA TakeAddressHolds ==
  ASSUME IInv, TakeAddress
  PROVE  IInv'
<1>1. /\ hw' \in Controllers
      /\ hw'.wr = Empty /\ hw'.irq = TRUE /\ hw'.got = 0 /\ hw'.rd = hw.rd /\ hw'.err = hw.err
      /\ hw'.bus = IF hw.wr = ToRead THEN "read" ELSE "write"
  BY Kinds DEF TakeAddress, IInv, Types, Controllers
<1>2. /\ hw.wr \in {ToWrite, ToRead} /\ hw.bus # "stopping"
      /\ wire' = Append(wire, hw.wr) /\ mishaps' = mishaps /\ UNCHANGED Others
  BY Kinds DEF TakeAddress, IInv, Types, Controllers, Others, driver
<1>3. /\ hw.wr \in Entries /\ wire' \in Seq(Entries) /\ Len(wire') = Len(wire) + 1
      /\ Messages /\ InOrder /\ Len(wire) < Items /\ hw.wr = Item(Len(wire) + 1) => InOrder'
  BY <1>2, Kinds, LogGrows DEF IInv, Types, Controllers, Others
<1>4. Types'
  BY <1>1, <1>2, <1>3, TypesOfController DEF IInv, Types
<1>5. Places'
  BY <1>1, <1>2, Kinds DEF IInv, Places, Under, Others
<1>6. FirstMessage'
  BY <1>1, <1>2, Kinds DEF IInv, FirstMessage, Under, Others
<1>7. UnderWay'
  <2>1. place # "address"
    BY <1>2, Kinds DEF IInv, Places
  <2>2. ~Failing
    BY <1>2, Kinds DEF Failing
  <2>3. ASSUME place = "addressed", Progress, InOrder
        PROVE  Progress' /\ InOrder'
    <3>1. Started /\ hw.wr = ToWrite /\ Len(wire) = 0 /\ hw'.bus = "write"
      BY <1>1, <1>2, <2>3, Kinds DEF Progress, Addressing
    <3>2. Messages
      BY <2>3 DEF IInv, Types
    <3>5. Items \in Nat /\ Items >= 1
      BY <3>2, ItemCount, Lengths
    <3>3. InOrder'
      <4>1. hw.wr = Item(1) /\ Len(wire) + 1 = 1 /\ Len(wire) < Items
        BY <3>1, <3>2, <3>5, FirstItems
      <4> QED
        BY <1>3, <2>3, <3>2, <4>1
    <3>4. Addressing'
      BY <1>1, <1>2, <1>3, <3>1 DEF Addressing, Started, Others
    <3> QED
      BY <1>1, <1>2, <2>3, <3>3, <3>4 DEF Progress, Others
  <2>4. ASSUME place = "wait", Progress, InOrder
        PROVE  Progress' /\ InOrder'
    <3>1. Messages
      BY <2>4 DEF IInv, Types
    <3>2. CASE Writing
      <4>1. dev.pos = 0 /\ hw.wr = ToWrite /\ Len(wire) = 0
        BY <1>2, <3>2, Kinds DEF Writing
      <4>2. InOrder'
        <5>1. Items \in Nat /\ Items >= 1
          BY <3>1, ItemCount, Lengths
        <5>2. hw.wr = Item(1) /\ Len(wire) + 1 = 1 /\ Len(wire) < Items
          BY <3>1, <4>1, <5>1, FirstItems
        <5> QED
          BY <1>3, <2>4, <3>1, <5>2
      <4>3. Writing'
        BY <1>1, <1>2, <1>3, <3>1, <3>2, <4>1, Kinds DEF Writing, Others, Messages
      <4> QED
        BY <1>1, <1>2, <2>4, <4>2, <4>3 DEF Progress, Phases, Others
    <3>3. CASE TurnedAround
      <4>1. hw.wr = ToRead /\ Len(wire) = 2 /\ Num = 2
        <5>1. dev.rem \in 0 .. 2 /\ dev.msg + dev.rem = Num + 1 /\ dev.rem >= 1 /\ dev.msg = 2
          BY <2>4, <3>3 DEF TurnedAround, IInv, Places, Under, Types, Devs
        <5> HIDE DEF Num
        <5>2. Num = 2
          BY <3>1, <5>1, Lengths
        <5> QED
          BY <3>3, <5>2 DEF TurnedAround
      <4>2. InOrder'
        <5>1. Items \in Nat /\ Items >= 3
          BY <3>1, <4>1, ItemCount, Lengths
        <5>2. hw.wr = Item(3) /\ Len(wire) + 1 = 3 /\ Len(wire) < Items
          BY <3>1, <4>1, <5>1, FirstItems
        <5> QED
          BY <1>3, <2>4, <3>1, <5>2
      <4>3. Reading'
        BY <1>1, <1>2, <1>3, <3>1, <3>3, <4>1 DEF TurnedAround, Reading, Asked, Others, Messages
      <4> QED
        BY <1>1, <1>2, <2>4, <4>2, <4>3 DEF Progress, Phases, Others
    <3>4. ~Turning /\ ~Reading /\ ~Complete
      BY <1>2, Kinds DEF Turning, Reading, Complete
    <3> QED
      BY <2>4, <3>2, <3>3, <3>4 DEF Progress, Phases
  <2> QED
    BY <1>2, <2>1, <2>2, <2>3, <2>4 DEF IInv, UnderWay, Undisturbed, Others
<1>8. Judged'
  BY <1>2, Kinds DEF IInv, Judged, Undisturbed, Others
<1> QED
  BY <1>4, <1>5, <1>6, <1>7, <1>8 DEF IInv

LEMMA TakeByteHolds ==
  ASSUME IInv, TakeByte
  PROVE  IInv'
<1>1. /\ hw' \in Controllers
      /\ hw'.wr = Empty /\ hw'.irq = TRUE /\ hw'.got = hw.got /\ hw'.rd = hw.rd /\ hw'.err = hw.err
      /\ hw'.bus = IF hw.wr[1] = "last" THEN "stopping" ELSE "write"
  BY Kinds DEF TakeByte, IInv, Types, Controllers
<1>2. /\ hw.wr[1] \in {"byte", "last"} /\ hw.bus = "write" /\ hw.wr \in Writes
      /\ wire' = Append(wire, <<"out", hw.wr[2]>>) /\ mishaps' = mishaps /\ UNCHANGED Others
  BY DEF TakeByte, IInv, Types, Controllers, Others, driver
<1>3. hw.wr[2] \in Nat
  BY <1>2, Kinds
<1>4. /\ wire' \in Seq(Entries) /\ Len(wire') = Len(wire) + 1
      /\ Messages /\ InOrder /\ Len(wire) < Items /\ <<"out", hw.wr[2]>> = Item(Len(wire) + 1) => InOrder'
  <2>1. PICK e : e = <<"out", hw.wr[2]>>
    OBVIOUS
  <2>2. e \in Entries /\ wire' = Append(wire, e)
    BY <1>2, <1>3, <2>1, Kinds
  <2> QED
    BY <1>2, <2>1, <2>2, LogGrows DEF IInv, Others
<1>5. Types'
  BY <1>1, <1>2, <1>4, TypesOfController DEF IInv, Types
<1>6. Places'
  BY <1>1, <1>2, Kinds DEF IInv, Places, Under, Others
<1>7. FirstMessage'
  BY <1>1, <1>2, Kinds DEF IInv, FirstMessage, Under, Others
<1>8. UnderWay'
  <2>1. place # "address"
    BY <1>2, Kinds DEF IInv, Places
  <2>2. ~Failing /\ ~Addressing
    BY <1>2, Kinds DEF Failing, Addressing
  <2>3. ASSUME place = "wait", Progress, InOrder
        PROVE  Progress' /\ InOrder'
    <3>1. Messages
      BY <2>3 DEF IInv, Types
    <3>2. CASE Writing
      <4>1. /\ dev.pos > 0 /\ dev.pos \in Nat /\ hw.wr = IF Num = 1 /\ dev.cnt = 0 THEN LastByte(dev.pos) ELSE PlainByte(dev.pos)
            /\ Len(wire) = dev.pos
        BY <1>2, <3>1, <3>2, Kinds DEF Writing, Messages
      <4>2. hw.wr[2] = dev.pos /\ (hw.wr[1] = "last" <=> dev.cnt = 0)
        BY <3>1, <3>2, <4>1, Kinds DEF Writing, Messages
      <4>3. Len(wire) < Items /\ <<"out", hw.wr[2]>> = Item(Len(wire) + 1)
        <5>1. CASE Num = 1
          <6>1. Len(wire) < Items
            BY <3>1, <3>2, <4>1, <5>1, ItemCount, Lengths DEF Writing
          <6> QED
            BY <3>1, <4>1, <4>2, <5>1, <6>1, ItemOut
        <5>2. CASE Num = 2
          <6>1. dev.pos = 1
            BY <3>1, <3>2, <4>1, <5>2 DEF Writing, Messages
          <6> QED
            BY <3>1, <4>1, <4>2, <5>2, <6>1, ItemCount, FirstItems, Lengths
        <5> QED
          BY <3>1, <5>1, <5>2 DEF Messages
      <4>4. Writing'
        BY <1>1, <1>2, <1>4, <3>2, <4>1, <4>2 DEF Writing, Over, Others
      <4> QED
        BY <1>1, <1>2, <1>4, <2>3, <3>1, <4>3, <4>4 DEF Progress, Phases, Others
    <3>3. CASE Turning
      <4>1. hw.wr = PlainByte(1) /\ Len(wire) = 1 /\ Num = 2
        BY <1>2, <2>3, <3>1, <3>3, Lengths, Kinds DEF Turning, IInv, Places, Under, Types, Devs
      <4>2. hw.wr[1] = "byte" /\ hw.wr[2] = 1
        BY <4>1, Kinds
      <4>3. Len(wire) < Items /\ <<"out", hw.wr[2]>> = Item(Len(wire) + 1)
        BY <3>1, <4>1, <4>2, ItemCount, FirstItems, Lengths
      <4>4. Turning'
        BY <1>1, <1>2, <1>4, <3>3, <4>1, <4>2 DEF Turning, Others
      <4> QED
        BY <1>1, <1>2, <1>4, <2>3, <3>1, <4>3, <4>4 DEF Progress, Phases, Others
    <3>4. ~TurnedAround /\ ~Reading /\ ~Complete
      BY <1>2, Kinds DEF TurnedAround, Reading, Complete
    <3> QED
      BY <2>3, <3>2, <3>3, <3>4 DEF Progress, Phases
  <2> QED
    BY <1>2, <2>1, <2>2, <2>3 DEF IInv, UnderWay, Undisturbed, Progress, Others
<1>9. Judged'
  BY <1>2, Kinds DEF IInv, Judged, Undisturbed, Others
<1> QED
  BY <1>5, <1>6, <1>7, <1>8, <1>9 DEF IInv

LEMMA RefuseHolds ==
  ASSUME IInv, Refuse
  PROVE  IInv'
<1>1. /\ hw' \in Controllers
      /\ hw'.wr = Empty /\ hw'.irq = TRUE /\ hw'.err = TRUE /\ hw'.bus = "idle" /\ hw'.rd = hw.rd
  BY Kinds DEF Refuse, IInv, Types, Controllers
<1>2. /\ hw.wr[1] \in {"addrW", "addrR", "byte", "last"} /\ hw.wr \in Writes
      /\ mishaps' = mishaps \cup {"nack"} /\ wire' = wire /\ UNCHANGED Others
  BY DEF Refuse, IInv, Types, Controllers, Others, driver
<1>3. hw.wr \notin {Empty, Stop}
  BY <1>2, Kinds
<1>4. Types'
  BY <1>1, <1>2, TypesOfController DEF IInv, Types
<1>5. Places'
  BY <1>1, <1>2, <1>3, Kinds DEF IInv, Places, Under, Others
<1>6. FirstMessage'
  BY <1>1, <1>2, <1>3, Kinds DEF IInv, FirstMessage, Under, Others
<1>7. UnderWay'
  <2>1. place # "address"
    BY <1>3 DEF IInv, Places
  <2>2. Failing'
    BY <1>1, <1>2 DEF Failing
  <2>3. InOrder => InOrder'
    BY <1>2, LogStays DEF Others
  <2> QED
    BY <1>2, <2>1, <2>2, <2>3 DEF IInv, UnderWay, Undisturbed, Others
<1>8. Judged'
  BY <1>2, <1>3 DEF IInv, Judged, Undisturbed, Done, Expected, MessageLog, Others
<1> QED
  BY <1>4, <1>5, <1>6, <1>7, <1>8 DEF IInv

LEMMA ReceiveHolds ==
  ASSUME IInv, Receive
  PROVE  IInv'
<1>1. /\ hw' \in Controllers
      /\ hw'.wr = Empty /\ hw'.irq = TRUE /\ hw'.got = hw.got + 1 /\ hw'.rd = hw.got + 1
      /\ hw'.err = hw.err /\ hw'.bus = IF hw.wr = Stop THEN "stopping" ELSE "read"
  <2> DEFINE g == hw.got + 1
             b == IF hw.wr = Stop THEN "stopping" ELSE "read"
  <2>1. hw \in Controllers /\ g \in Nat /\ b \in {"stopping", "read"} /\ Empty \in Writes
    BY Kinds DEF IInv, Types, Controllers
  <2>2. hw' = [hw EXCEPT !.rd = g, !.got = g, !.irq = TRUE, !.wr = Empty, !.bus = b]
    BY DEF Receive
  <2> HIDE DEF g, b
  <2>3. /\ hw' \in Controllers
        /\ hw'.wr = Empty /\ hw'.irq = TRUE /\ hw'.got = g /\ hw'.rd = g
        /\ hw'.err = hw.err /\ hw'.bus = b
    BY <2>1, <2>2 DEF Controllers
  <2> QED
    BY <2>3 DEF g, b
<1>2. /\ hw.bus = "read" /\ hw.rd = 0 /\ hw.wr \in {Empty, Stop} /\ hw.got \in Nat
      /\ wire' = wire /\ mishaps' = mishaps /\ UNCHANGED Others
  BY DEF Receive, IInv, Types, Controllers, Others, driver
<1>3. Types'
  BY <1>1, <1>2, TypesOfController DEF IInv, Types
<1>4. Places'
  BY <1>1, <1>2, Kinds DEF IInv, Places, Under, Others
<1>5. FirstMessage'
  BY <1>2 DEF IInv, FirstMessage, Places, Under, Others
<1>6. UnderWay'
  <2>1. place # "address" /\ ~Failing
    BY <1>2 DEF IInv, Places, Failing
  <2>2. ~Addressing
    BY <1>2, Kinds DEF Addressing
  <2>3. ASSUME place = "wait", Progress
        PROVE  Progress'
    <3>1. ~Writing
      BY <1>2, <2>3 DEF Writing, IInv, FirstMessage, Under
    <3>2. ~Turning /\ ~TurnedAround /\ ~Complete
      BY <1>2 DEF Turning, TurnedAround, Complete, Over
    <3>3. Reading
      BY <2>3, <3>1, <3>2 DEF Progress, Phases
    <3>4. Empty # Stop /\ hw.wr = IF Asked THEN Stop ELSE Empty
      BY <1>2, <3>3 DEF Reading, Empty, Stop
    <3>5. Asked' <=> Asked
      BY <1>2 DEF Asked, Others
    <3>6. Reading'
      BY <1>1, <1>2, <3>3, <3>4, <3>5 DEF Reading, Over, Others
    <3> QED
      BY <1>1, <1>2, <2>3, <3>6 DEF Progress, Phases, Others
  <2>4. InOrder => InOrder'
    BY <1>2, LogStays DEF Others
  <2> QED
    BY <1>2, <2>1, <2>2, <2>3, <2>4 DEF IInv, UnderWay, Undisturbed, Progress, Others
<1>7. Judged'
  BY <1>1, <1>2 DEF IInv, Judged, Undisturbed, Done, Expected, MessageLog, Others
<1> QED
  BY <1>3, <1>4, <1>5, <1>6, <1>7 DEF IInv

LEMMA StopBusHolds ==
  ASSUME IInv, StopBus
  PROVE  IInv'
<1>1. /\ hw' \in Controllers
      /\ hw'.wr = Empty /\ hw'.bus = "idle"
      /\ hw'.irq = hw.irq /\ hw'.got = hw.got /\ hw'.rd = hw.rd /\ hw'.err = hw.err
  BY Kinds DEF StopBus, IInv, Types, Controllers
<1>2. /\ hw.bus = "stopping" \/ (hw.wr = Stop /\ hw.bus # "read")
      /\ wire' = wire /\ mishaps' = mishaps /\ UNCHANGED Others
  BY DEF StopBus, Others, driver
<1>3. Types'
  BY <1>1, <1>2, TypesOfController DEF IInv, Types
<1>4. Places'
  BY <1>1, <1>2, Kinds DEF IInv, Places, Under, Others
<1>5. FirstMessage'
  BY <1>1, <1>2, Kinds DEF IInv, FirstMessage, Under, Others
<1>6. UnderWay'
  <2>1. ASSUME Failing
        PROVE  Failing'
    BY <1>1, <1>2, <2>1 DEF Failing, Others
  <2>2. ~Addressing
    BY <1>2, Kinds DEF Addressing
  <2>3. ASSUME place = "wait", Progress
        PROVE  Progress'
    <3>1. CASE Writing
      <4>1. Messages
        BY <2>3 DEF IInv, Types
      <4>2. ~(hw.wr = ToWrite) \/ dev.cnt = 0
        BY <1>2, <2>3, <3>1, Kinds DEF IInv, FirstMessage, Under, Writing
      <4>3. hw.wr = Empty /\ hw.irq /\ Len(wire) = dev.pos + 1 /\ dev.cnt = 0
        BY <1>2, <2>3, <3>1, <4>1, <4>2, Kinds DEF IInv, Places, Writing, Messages
      <4>4. Writing'
        BY <1>1, <1>2, <3>1, <4>3 DEF Writing, Over, Others
      <4> QED
        BY <1>1, <1>2, <2>3, <4>4 DEF Progress, Phases, Others
    <3>2. CASE Reading
      <4>1. hw.wr = Empty /\ Over /\ hw.rd # 0 /\ Asked
        BY <1>2, <3>2, Kinds DEF Reading
      <4>2. Asked' <=> Asked
        BY <1>2 DEF Asked, Others
      <4>3. Reading'
        BY <1>1, <1>2, <3>2, <4>1, <4>2 DEF Reading, Over, Others
      <4> QED
        BY <1>1, <1>2, <2>3, <4>3 DEF Progress, Phases, Others
    <3>3. CASE Complete
      <4>1. Complete'
        BY <1>1, <1>2, <3>3 DEF Complete, Over, Others, Items
      <4> QED
        BY <1>1, <1>2, <2>3, <4>1 DEF Progress, Phases, Others
    <3>4. ~Turning /\ ~TurnedAround
      BY <1>2, Kinds DEF Turning, TurnedAround
    <3> QED
      BY <2>3, <3>1, <3>2, <3>3, <3>4 DEF Progress, Phases
  <2>4. InOrder => InOrder'
    BY <1>2, LogStays DEF Others
  <2>5. Started => Started'
    BY <1>2 DEF Started, Others
  <2> QED
    BY <1>2, <2>1, <2>2, <2>3, <2>4, <2>5 DEF IInv, UnderWay, Undisturbed, Progress, Others
<1>7. Judged'
  BY <1>1, <1>2 DEF IInv, Judged, Undisturbed, Done, Expected, MessageLog, Others
<1> QED
  BY <1>3, <1>4, <1>5, <1>6, <1>7 DEF IInv
-----------------------------------------------------------------------------
(* The caller.                                                             *)

\* Outside of a transfer, only the judgement counts.
LEMMA OutsideHolds ==
  ASSUME Types', Places', Judged', ~Under'
  PROVE  IInv'
BY DEF IInv, FirstMessage, UnderWay, Under

LEMMA InitHolds ==
  ASSUME I2CInit
  PROVE  IInv
<1>1. Types
  <2>1. dev \in Devs
    BY DEF I2CInit, Idle, Devs, NULL, ERROR
  <2>2. hw \in Controllers
    BY Kinds DEF I2CInit, Controllers
  <2>3. wire \in Seq(Entries) /\ retry \in 0 .. Retries
    BY I2CAssumption DEF I2CInit
  <2> QED
    BY <2>1, <2>2, <2>3 DEF I2CInit, Types
<1>2. Places
  BY Kinds DEF I2CInit, Places, Under, Idle, NULL
<1>3. FirstMessage /\ UnderWay /\ Judged
  BY DEF I2CInit, FirstMessage, UnderWay, Judged, Under
<1> QED
  BY <1>1, <1>2, <1>3 DEF IInv

LEMMA CallHolds ==
  ASSUME IInv, NEW m \in Transfers, Call(m)
  PROVE  IInv'
<1>1. Messages'
  BY I2CAssumption DEF Call, Messages
<1>2. Types'
  BY <1>1, I2CAssumption DEF IInv, Types, Call
<1>3. Places' /\ Judged' /\ ~Under'
  BY DEF IInv, Places, Judged, Under, Call
<1> QED
  BY <1>2, <1>3, OutsideHolds

LEMMA BeginHolds ==
  ASSUME IInv, Begin
  PROVE  IInv'
<1>1. Types'
  BY DEF IInv, Types, Messages, Begin
<1>2. Places' /\ Judged' /\ ~Under'
  BY DEF IInv, Places, Judged, Under, Begin
<1> QED
  BY <1>1, <1>2, OutsideHolds

\* The interrupt is not pending when the caller goes on.
LEMMA NoInterrupt ==
  ASSUME IInv, CallerRuns, place \notin {"idle", "begin"}
  PROVE  ~hw.irq /\ ~hw.err
BY DEF IInv, Places, CallerRuns

LEMMA BusIsFreeHolds ==
  ASSUME IInv, BusIsFree
  PROVE  IInv'
<1>1. Types'
  BY DEF IInv, Types, Messages, BusIsFree
<1>2. hw.bus = "idle" /\ hw.wr \in {Empty, Stop} /\ ~hw.irq
  BY NoInterrupt, Kinds DEF BusIsFree, Active, IInv, Types, Controllers, Places
<1>3. Places' /\ Judged' /\ ~Under'
  BY <1>2 DEF IInv, Places, Judged, Under, BusIsFree
<1> QED
  BY <1>1, <1>3, OutsideHolds

\* msm_i2c_recover_bus_busy leaves no address and no byte to be sent.
LEMMA RecoverBus ==
  ASSUME IInv, NEW free \in BOOLEAN, msm_i2c_recover_bus_busy(free)
  PROVE  /\ hw' \in Controllers /\ hw'.irq = hw.irq /\ hw'.err = hw.err
         /\ hw'.wr[1] \in {"byte", "last"} => hw'.bus = "write"
         /\ Active /\ free => hw'.wr = Empty /\ hw'.bus = "idle"
<1>1. CASE ~Active /\ ~WriteFull
  BY <1>1 DEF msm_i2c_recover_bus_busy, IInv, Types, Places
<1>2. CASE Active \/ WriteFull
  <2> DEFINE w == IF free THEN Empty ELSE Stop
             b == IF free THEN "idle" ELSE IF hw.bus = "idle" THEN "write" ELSE hw.bus
  <2>1. hw \in Controllers /\ w \in {Empty, Stop} /\ w \in Writes /\ b \in {"idle", "write", "read", "stopping"}
    BY Kinds DEF IInv, Types, Controllers
  <2>2. hw' = [hw EXCEPT !.rd = 0, !.wr = w, !.bus = b]
    BY <1>2 DEF msm_i2c_recover_bus_busy
  <2>3. free => w = Empty /\ b = "idle"
    OBVIOUS
  <2> HIDE DEF w, b
  <2>4. hw' \in Controllers /\ hw'.irq = hw.irq /\ hw'.err = hw.err /\ hw'.wr = w /\ hw'.bus = b
    BY <2>1, <2>2 DEF Controllers
  <2> QED
    BY <2>1, <2>3, <2>4, Kinds
<1> QED
  BY <1>1, <1>2

LEMMA BusStaysBusyHolds ==
  ASSUME IInv, NEW free \in BOOLEAN, BusStaysBusy(free)
  PROVE  IInv'
<1>1. /\ hw' \in Controllers /\ hw'.irq = hw.irq /\ hw'.err = hw.err
      /\ hw'.wr[1] \in {"byte", "last"} => hw'.bus = "write"
      /\ free => hw'.wr = Empty /\ hw'.bus = "idle"
  BY RecoverBus DEF BusStaysBusy
<1>2. /\ place = "notbusy" /\ ~hw.irq /\ "busy" \in mishaps'
      /\ UNCHANGED <<dev, timeout, enabled, msgs, retry, wire>>
      /\ \/ free /\ place' = "setup" /\ ret' = ret
         \/ place' = "end" /\ ret' = ERR_NOT_READY
  BY NoInterrupt DEF BusStaysBusy
<1>3. Messages' /\ Num' \in {1, 2} /\ mishaps' \subseteq {"nack", "busy", "slow", "race"}
  BY <1>2, Lengths DEF IInv, Types, Messages, BusStaysBusy
<1>4. Types'
  BY <1>1, <1>2, <1>3 DEF IInv, Types
<1>5. Places' /\ ~Under'
  BY <1>1, <1>2 DEF IInv, Places, Under
<1>6. Judged'
  BY <1>2, <1>3 DEF Judged, ERR_NOT_READY
<1> QED
  BY <1>4, <1>5, <1>6, OutsideHolds

LEMMA SetupHolds ==
  ASSUME IInv, Setup
  PROVE  IInv'
<1>1. Messages
  BY DEF IInv, Types, Setup
<1>2. /\ place = "setup" /\ place' = "address" /\ wire' = <<>>
      /\ UNCHANGED <<timeout, hw, enabled, msgs, retry, ret, mishaps>>
      /\ hw.bus = "idle" /\ hw.wr \in {Empty, Stop} /\ ~hw.irq
  BY DEF Setup, IInv, Places
<1>3. /\ dev' \in Devs /\ dev'.msg = 1 /\ dev'.rem = Num /\ dev'.pos = -1 /\ dev'.ret = Num
      /\ dev'.cnt = msgs[1].len /\ dev'.needFlush = FALSE /\ dev'.flushCnt = 0
  <2>1. dev' = [Idle EXCEPT !.msg = 1, !.rem = Num, !.pos = -1, !.ret = Num, !.cnt = msgs[1].len]
    BY DEF Setup
  <2>2. PICK n \in {1, 2}, c \in Nat : n = Num /\ c = msgs[1].len
    BY <1>1, Lengths
  <2>3. dev' = [Idle EXCEPT !.msg = 1, !.rem = n, !.pos = -1, !.ret = n, !.cnt = c]
    BY <2>1, <2>2
  <2>4. /\ dev' \in Devs /\ dev'.msg = 1 /\ dev'.rem = n /\ dev'.pos = -1 /\ dev'.ret = n
        /\ dev'.cnt = c /\ dev'.needFlush = FALSE /\ dev'.flushCnt = 0
    <3>1. dev' = [msg |-> 1, rem |-> n, pos |-> -1, cnt |-> c, ret |-> n,
                  needFlush |-> FALSE, flushCnt |-> 0]
      BY <2>3 DEF Idle
    <3> QED
      BY <2>2, <3>1 DEF Devs
  <2> QED
    BY <2>2, <2>4
<1>4. Types'
  BY <1>2, <1>3 DEF IInv, Types, Messages
<1>5. Num \in {1, 2} /\ Num' = Num
  BY <1>1, <1>2, Lengths
<1>6. Places'
  BY <1>2, <1>3, <1>5 DEF IInv, Places, Under, NULL
<1>7. FirstMessage' /\ Judged'
  BY <1>2 DEF FirstMessage, Judged
<1>8. UnderWay'
  BY <1>2, <1>3, <1>5 DEF UnderWay, Started
<1> QED
  BY <1>4, <1>6, <1>7, <1>8 DEF IInv

\* The buffer is free and no error is pending when the first address is written.
LEMMA WriteAddressHolds ==
  ASSUME IInv, WriteAddress
  PROVE  IInv'
<1>1. Messages
  BY DEF IInv, Types, WriteAddress
<1>2. /\ place = "address" /\ hw.bus = "idle" /\ hw.wr \in {Empty, Stop} /\ ~hw.irq /\ ~hw.err
      /\ Started /\ wire = <<>>
  BY DEF WriteAddress, IInv, Places, UnderWay
<1>3. ~WriteFull
  BY <1>2 DEF WriteFull
<1>4. /\ hw' = [hw EXCEPT !.wr = ToWrite] /\ place' = "addressed"
      /\ UNCHANGED <<dev, timeout, enabled, msgs, retry, ret, wire, mishaps>>
  BY <1>1, <1>2, <1>3 DEF WriteAddress, Messages, ToWrite
<1>5. /\ hw' \in Controllers /\ hw'.wr = ToWrite /\ hw'.bus = "idle" /\ hw'.irq = hw.irq
      /\ hw'.err = hw.err /\ hw'.rd = hw.rd
  BY <1>2, <1>4, Kinds DEF IInv, Types, Controllers
<1>6. Types'
  <2>1. Messages'
    BY <1>1, <1>4 DEF Messages
  <2> QED
    BY <1>4, <1>5, <2>1 DEF IInv, Types
<1>7. Places'
  BY <1>2, <1>4, <1>5, Kinds DEF IInv, Places, Under
<1>8. FirstMessage'
  BY <1>2, <1>4, <1>5, Kinds DEF FirstMessage, Started
<1>9. UnderWay'
  <2>1. Len(wire') = 0 /\ InOrder'
    <3>1. Items \in Nat
      BY <1>1, ItemCount, Lengths
    <3>2. Items' = Items
      BY <1>4 DEF Items
    <3> QED
      BY <1>2, <1>4, <3>1, <3>2 DEF InOrder
  <2>2. Started' /\ dev'.ret = Num'
    BY <1>2, <1>4 DEF Started
  <2> QED
    BY <1>2, <1>4, <1>5, <2>1, <2>2 DEF UnderWay, Progress, Addressing
<1>10. Judged'
  BY <1>4 DEF Judged
<1> QED
  BY <1>6, <1>7, <1>8, <1>9, <1>10 DEF IInv

LEMMA CollectHolds ==
  ASSUME IInv, NEW busy \in BOOLEAN, Collect(busy)
  PROVE  IInv'
<1>1. Messages
  BY DEF IInv, Types, Collect
<1>2. /\ place = "wait" /\ ~hw.irq /\ busy = Active /\ ret' = dev.ret
      /\ place' = IF busy THEN "recover" ELSE "judge"
      /\ mishaps' = IF busy THEN mishaps \cup {"slow"} ELSE mishaps
      /\ UNCHANGED <<timeout, hw, enabled, msgs, retry, wire>>
  BY NoInterrupt DEF Collect
<1>3. dev' \in Devs /\ dev'.msg = NULL
  <2>1. dev.needFlush \in BOOLEAN
    BY DEF IInv, Types, Devs
  <2> QED
    BY <2>1 DEF Collect, Idle, Devs, NULL, ERROR
<1>4. dev.ret \in {ERROR, 0, 1, 2}
  BY DEF IInv, Types, Devs
<1>5. Types'
  BY <1>2, <1>3, <1>4 DEF IInv, Types, Messages
<1>6. Places' /\ ~Under'
  BY <1>2, <1>3 DEF IInv, Places, Under
<1>7. ASSUME ~busy, Undisturbed
      PROVE  \/ ret' = Num /\ ~timeout /\ Done /\ hw.wr \in {Empty, Stop}
             \/ ret' = ERROR /\ "nack" \in mishaps
  <2>1. hw.bus = "idle" /\ hw.wr \notin {ToWrite, ToRead} /\ hw.wr \in Writes
    BY <1>2, <1>7, Kinds DEF Active, IInv, Types, Controllers
  <2>2. hw.wr[1] \notin {"byte", "last"}
    BY <2>1 DEF IInv, Places
  <2>3. InOrder /\ (Progress \/ Failing)
    BY <1>2, <1>7 DEF IInv, UnderWay
  <2>4. CASE Progress
    <3>1. ~Turning /\ ~TurnedAround
      BY <2>1 DEF Turning, TurnedAround
    <3>2. ~Reading
      BY <1>2, <2>1 DEF Reading
    <3>3. ~Writing
      <4>1. dev.pos \in Nat => /\ PlainByte(dev.pos)[1] = "byte"
                               /\ LastByte(dev.pos)[1] = "last"
        BY Kinds
      <4>2. Writing => dev.pos \in Nat
        BY <1>1, Lengths DEF Writing
      <4> QED
        BY <1>2, <2>1, <2>2, <4>1, <4>2 DEF Writing
    <3>4. Complete /\ dev.ret = Num
      BY <1>2, <2>4, <3>1, <3>2, <3>3 DEF Progress, Phases
    <3>5. Done
      BY <1>1, <2>3, <3>4, AllItemsMeansDone DEF Complete, IInv
    <3> QED
      BY <1>2, <3>4, <3>5 DEF Complete
  <2>5. CASE Failing
    BY <1>2, <2>5 DEF Failing
  <2> QED
    BY <2>3, <2>4, <2>5
<1>8. Judged'
  <2>1. Done' = Done /\ Num' = Num
    BY <1>2 DEF Done, Expected, MessageLog
  <2> QED
    BY <1>2, <1>7, <2>1 DEF Judged, Undisturbed
<1> QED
  BY <1>5, <1>6, <1>8, OutsideHolds

LEMMA RecoverHolds ==
  ASSUME IInv, NEW free \in BOOLEAN, Recover(free)
  PROVE  IInv'
<1>1. /\ hw' \in Controllers /\ hw'.irq = hw.irq /\ hw'.err = hw.err
      /\ hw'.wr[1] \in {"byte", "last"} => hw'.bus = "write"
  BY RecoverBus DEF Recover
<1>2. /\ place = "recover" /\ place' \in {"judge", "end"} /\ "slow" \in mishaps
      /\ UNCHANGED <<dev, timeout, enabled, msgs, retry, ret, wire, mishaps>>
  BY DEF Recover, IInv, Judged
<1>3. Types'
  BY <1>1, <1>2 DEF IInv, Types, Messages
<1>4. Places' /\ ~Under'
  BY <1>1, <1>2 DEF IInv, Places, Under
<1>5. Judged'
  BY <1>2 DEF Judged, Undisturbed
<1> QED
  BY <1>3, <1>4, <1>5, OutsideHolds

LEMMA JudgeHolds ==
  ASSUME IInv, Judge
  PROVE  IInv'
<1>1. Messages /\ Num \in {1, 2}
  BY Lengths DEF IInv, Types, Judge
<1>2. /\ place = "judge" /\ place' = "end" /\ ret' = IF timeout THEN ERR_TIMED_OUT ELSE ret
      /\ UNCHANGED <<dev, timeout, enabled, msgs, retry, wire, mishaps>>
  BY DEF Judge
<1>3. /\ hw' \in Controllers /\ hw'.irq = hw.irq /\ hw'.err = hw.err
      /\ hw'.wr[1] \in {"byte", "last"} => hw'.bus = "write"
      /\ ret' >= 0 => hw' = hw
  <2>1. CASE ret' < 0
    <3>1. PICK free \in BOOLEAN : msm_i2c_recover_bus_busy(free)
      BY <2>1 DEF Judge
    <3>2. ret' \in {ERR_TIMED_OUT, ERROR, ERR_NOT_READY, 0, 1, 2}
      BY <1>2 DEF IInv, Types
    <3> QED
      BY <2>1, <3>1, <3>2, RecoverBus DEF ERROR, ERR_TIMED_OUT, ERR_NOT_READY
  <2>2. CASE ~(ret' < 0)
    BY <2>2 DEF Judge, IInv, Types, Places
  <2> QED
    BY <2>1, <2>2
<1>4. Types'
  BY <1>2, <1>3 DEF IInv, Types, Messages
<1>5. Places' /\ ~Under'
  BY <1>2, <1>3 DEF IInv, Places, Under
<1>6. Done' = Done /\ Num' = Num
  BY <1>2 DEF Done, Expected, MessageLog
<1>7. Judged'
  BY <1>1, <1>2, <1>3, <1>6 DEF IInv, Judged, Undisturbed, ERROR, ERR_TIMED_OUT
<1> QED
  BY <1>4, <1>5, <1>7, OutsideHolds

LEMMA EndHolds ==
  ASSUME IInv, End
  PROVE  IInv'
<1>1. retry' \in 0 .. Retries
  BY I2CAssumption DEF End, MayRetry, NextRetry, IInv, Types
<1>2. Types'
  BY <1>1 DEF IInv, Types, Messages, End
<1>3. Places' /\ Judged' /\ ~Under'
  BY DEF IInv, Places, Judged, Under, End
<1> QED
  BY <1>2, <1>3, OutsideHolds
-----------------------------------------------------------------------------
(* The handler's parts.                                                    *)

\* What the parts of the handler work on, and what they leave alone of it.
States == [dev : Devs, hw : Controllers, log : Seq(Entries), more : BOOLEAN]
KeepsMessage(d) == d.msg = dev.msg /\ d.rem = dev.rem /\ d.ret = dev.ret
KeepsFlush(d) == d.needFlush = dev.needFlush /\ d.flushCnt = dev.flushCnt
KeepsBus(h) == h.bus = hw.bus /\ h.err = hw.err /\ h.irq = hw.irq /\ h.got = hw.got

LEMMA MessageNumber ==
  ASSUME IInv, Under
  PROVE  /\ Messages /\ dev.msg \in {1, 2} /\ dev.rem = Num + 1 - dev.msg /\ dev.msg <= Num
         /\ dev.rem \in {1, 2}
         /\ dev.msg = 1 => ~msgs[dev.msg].read
         /\ dev.msg = 2 => msgs[dev.msg].read
<1>1. Messages
  BY DEF IInv, Types, Under
<1>2. /\ dev.msg \in 0 .. 2 /\ dev.msg # 0 /\ dev.rem \in 0 .. 2 /\ dev.rem >= 1
      /\ dev.msg + dev.rem = Num + 1
  BY DEF IInv, Types, Devs, Places, NULL
<1>3. Num \in {1, 2}
  BY <1>1, Lengths
<1>4. dev.msg \in {1, 2} /\ dev.rem = Num + 1 - dev.msg /\ dev.msg <= Num /\ dev.rem \in {1, 2}
  <2> HIDE DEF Num
  <2> QED
    BY <1>2, <1>3
<1>5. dev.msg = 1 => ~msgs[dev.msg].read
  BY <1>1 DEF Messages
<1>6. dev.msg = 2 => msgs[dev.msg].read
  BY <1>1, <1>3, <1>4 DEF Messages
<1> QED
  BY <1>1, <1>4, <1>5, <1>6

\* Filling the buffer: nothing, an address, or a byte.
LEMMA FillBuffer ==
  ASSUME IInv, Under, NEW s, s = msm_i2c_fill_write_buffer(dev, hw, wire)
  PROVE  /\ s \in States /\ s.log = wire
         /\ KeepsMessage(s.dev) /\ KeepsFlush(s.dev) /\ KeepsBus(s.hw) /\ s.hw.rd = hw.rd
         /\ dev.pos = -1 => /\ s.dev.pos = 0 /\ s.dev.cnt = dev.cnt /\ s.more
                            /\ s.hw.wr = IF dev.msg = 1 THEN ToWrite ELSE ToRead
         /\ dev.pos >= 0 /\ (dev.msg = 2 \/ dev.cnt = 0) =>
              s.dev.pos = dev.pos /\ s.dev.cnt = dev.cnt /\ s.hw.wr = hw.wr /\ ~s.more
         /\ dev.pos >= 0 /\ dev.msg = 1 /\ dev.cnt > 0 =>
              /\ s.dev.pos = dev.pos + 1 /\ s.dev.cnt = dev.cnt - 1 /\ s.more
              /\ s.hw.wr = IF dev.cnt = 1 /\ dev.rem = 1 THEN LastByte(dev.pos + 1)
                           ELSE PlainByte(dev.pos + 1)
<1>1. /\ dev \in Devs /\ hw \in Controllers /\ wire \in Seq(Entries)
      /\ dev.pos \in Nat \cup {-1} /\ dev.cnt \in Nat /\ dev.msg \in {1, 2}
  BY MessageNumber DEF IInv, Types, Devs
<1>2. CASE dev.pos = -1
  <2>1. PICK w \in Writes : w = IF dev.msg = 1 THEN ToWrite ELSE ToRead
    BY Kinds
  <2>2. Address(msgs[dev.msg].read) = w
    BY <1>1, <2>1, MessageNumber DEF ToWrite, ToRead, Address
  <2>3. PICK d, h : d = [dev EXCEPT !.pos = 0] /\ h = [hw EXCEPT !.wr = w]
    OBVIOUS
  <2>4. s = [dev |-> d, hw |-> h, log |-> wire, more |-> TRUE]
    BY <1>2, <2>2, <2>3 DEF msm_i2c_fill_write_buffer, State
  <2>5. /\ d \in Devs /\ KeepsMessage(d) /\ KeepsFlush(d) /\ d.pos = 0 /\ d.cnt = dev.cnt
        /\ h \in Controllers /\ KeepsBus(h) /\ h.rd = hw.rd /\ h.wr = w
    BY <1>1, <2>3 DEF Devs, Controllers, KeepsMessage, KeepsFlush, KeepsBus
  <2>6. s \in States /\ s.dev = d /\ s.hw = h /\ s.log = wire /\ s.more
    BY <1>1, <2>4, <2>5 DEF States
  <2> QED
    BY <1>1, <1>2, <2>1, <2>5, <2>6
<1>3. CASE dev.pos >= 0 /\ (dev.msg = 2 \/ dev.cnt = 0)
  <2>1. s = [dev |-> dev, hw |-> hw, log |-> wire, more |-> FALSE]
    BY <1>1, <1>3, MessageNumber DEF msm_i2c_fill_write_buffer, State
  <2>2. s \in States /\ s.dev = dev /\ s.hw = hw /\ s.log = wire /\ ~s.more
    BY <1>1, <2>1 DEF States
  <2> QED
    BY <1>1, <1>3, <2>2 DEF KeepsMessage, KeepsFlush, KeepsBus
<1>4. CASE dev.pos >= 0 /\ dev.msg = 1 /\ dev.cnt > 0
  <2>1. PICK p, c : p = dev.pos + 1 /\ c = dev.cnt - 1
    OBVIOUS
  <2>2. p \in Nat /\ c \in Nat
    BY <1>1, <1>4, <2>1
  <2>3. PICK w : w = NextByte(dev)
    OBVIOUS
  <2>4. w = IF dev.cnt = 1 /\ dev.rem = 1 THEN LastByte(p) ELSE PlainByte(p)
    BY <2>1, <2>3 DEF NextByte, Byte, LastByte, PlainByte
  <2>5. w \in Writes
    BY <2>2, <2>4, Kinds
  <2>6. PICK d, h : d = [dev EXCEPT !.pos = p, !.cnt = c] /\ h = [hw EXCEPT !.wr = w]
    OBVIOUS
  <2>7. s = [dev |-> d, hw |-> h, log |-> wire, more |-> TRUE]
    BY <1>1, <1>4, <2>1, <2>3, <2>6, MessageNumber DEF msm_i2c_fill_write_buffer, State
  <2>8. /\ d \in Devs /\ KeepsMessage(d) /\ KeepsFlush(d) /\ d.pos = p /\ d.cnt = c
        /\ h \in Controllers /\ KeepsBus(h) /\ h.rd = hw.rd /\ h.wr = w
    BY <1>1, <2>2, <2>5, <2>6 DEF Devs, Controllers, KeepsMessage, KeepsFlush, KeepsBus
  <2>9. s \in States /\ s.dev = d /\ s.hw = h /\ s.log = wire /\ s.more
    BY <1>1, <2>7, <2>8 DEF States
  <2> QED
    BY <1>1, <1>4, <2>1, <2>4, <2>8, <2>9
<1> QED
  BY <1>1, <1>2, <1>3, <1>4

\* Emptying the buffer: a byte of the message, or one too many.
Wanted(d) == msgs[d.msg].read /\ d.pos >= 0 /\ d.cnt > 0

LEMMA EmptyBuffer ==
  ASSUME NEW d \in Devs, NEW h \in Controllers, NEW log \in Seq(Entries), NEW more \in BOOLEAN,
         NEW s, s = msm_i2c_read_buffer(d, h, log, more)
  PROVE  /\ s \in States /\ s.more = more
         /\ s.dev.msg = d.msg /\ s.dev.rem = d.rem /\ s.dev.ret = d.ret
         /\ s.hw.bus = h.bus /\ s.hw.err = h.err /\ s.hw.irq = h.irq /\ s.hw.got = h.got
         /\ s.hw.rd = 0 /\ s.hw.wr \in {h.wr, Stop}
         /\ Wanted(d) =>
              /\ s.dev.pos = d.pos + 1 /\ s.dev.cnt = d.cnt - 1 /\ s.dev.flushCnt = d.flushCnt
              /\ s.dev.needFlush <=> SingleByte(d) \/ d.needFlush
              /\ s.hw.wr = IF StopsAhead(d) THEN Stop ELSE h.wr
              /\ s.log = Append(log, <<"in", d.pos + 1, h.rd>>)
         /\ ~Wanted(d) =>
              /\ s.dev.pos = d.pos /\ s.dev.cnt = d.cnt /\ ~s.dev.needFlush /\ s.log = log
              /\ s.dev.flushCnt = IF d.needFlush THEN d.flushCnt ELSE d.flushCnt + 1
              /\ d.flushCnt = 0 => s.hw.wr = h.wr
<1>1. CASE Wanted(d)
  <2>1. PICK p, c, e : p = d.pos + 1 /\ c = d.cnt - 1 /\ e = <<"in", p, h.rd>>
    OBVIOUS
  <2>2. PICK n, w : /\ n = (SingleByte(d) \/ d.needFlush)
                    /\ w = IF StopsAhead(d) THEN Stop ELSE h.wr
    OBVIOUS
  <2>3. p \in Nat /\ c \in Nat /\ h.rd \in Nat
    BY <1>1, <2>1 DEF Wanted, Devs, Controllers
  <2>4. e \in Entries /\ w \in Writes /\ w \in {h.wr, Stop}
    BY <2>1, <2>2, <2>3, Kinds DEF Controllers
  <2>5. n \in BOOLEAN
    BY <2>2
  <2>6. PICK x, y, z : /\ x = [d EXCEPT !.cnt = c, !.pos = p, !.needFlush = n]
                       /\ y = [h EXCEPT !.rd = 0, !.wr = w] /\ z = Append(log, e)
    OBVIOUS
  <2>7. s = [dev |-> x, hw |-> y, log |-> z, more |-> more]
    BY <1>1, <2>1, <2>2, <2>6 DEF msm_i2c_read_buffer, State, Wanted
  <2>8. /\ x \in Devs /\ x.msg = d.msg /\ x.rem = d.rem /\ x.ret = d.ret /\ x.pos = p /\ x.cnt = c
        /\ x.flushCnt = d.flushCnt /\ x.needFlush = n
    BY <2>3, <2>5, <2>6 DEF Devs
  <2>9. /\ y \in Controllers /\ y.bus = h.bus /\ y.err = h.err /\ y.irq = h.irq /\ y.got = h.got
        /\ y.rd = 0 /\ y.wr = w
    BY <2>4, <2>6 DEF Controllers
  <2>10. z \in Seq(Entries)
    BY <2>4, <2>6
  <2>11. s \in States /\ s.dev = x /\ s.hw = y /\ s.log = z /\ s.more = more
    BY <2>7, <2>8, <2>9, <2>10 DEF States
  <2> QED
    BY <1>1, <2>1, <2>2, <2>4, <2>6, <2>8, <2>9, <2>11
<1>2. CASE ~Wanted(d)
  <2>1. PICK f, w : /\ f = IF d.needFlush THEN d.flushCnt ELSE d.flushCnt + 1
                    /\ w = IF d.flushCnt % 2 = 1 THEN Stop ELSE h.wr
    OBVIOUS
  <2>2. f \in Nat /\ w \in Writes /\ w \in {h.wr, Stop} /\ (d.flushCnt = 0 => w = h.wr)
    BY <2>1, Kinds DEF Devs, Controllers
  <2>3. PICK x, y : /\ x = [d EXCEPT !.needFlush = FALSE, !.flushCnt = f]
                    /\ y = [h EXCEPT !.rd = 0, !.wr = w]
    OBVIOUS
  <2>4. s = [dev |-> x, hw |-> y, log |-> log, more |-> more]
    BY <1>2, <2>1, <2>3 DEF msm_i2c_read_buffer, State, Wanted
  <2>5. /\ x \in Devs /\ x.msg = d.msg /\ x.rem = d.rem /\ x.ret = d.ret /\ x.pos = d.pos
        /\ x.cnt = d.cnt /\ x.flushCnt = f /\ x.needFlush = FALSE
    BY <2>2, <2>3 DEF Devs
  <2>6. /\ y \in Controllers /\ y.bus = h.bus /\ y.err = h.err /\ y.irq = h.irq /\ y.got = h.got
        /\ y.rd = 0 /\ y.wr = w
    BY <2>2, <2>3 DEF Controllers
  <2>7. s \in States /\ s.dev = x /\ s.hw = y /\ s.log = log /\ s.more = more
    BY <2>4, <2>5, <2>6 DEF States
  <2> QED
    BY <1>2, <2>1, <2>2, <2>5, <2>6, <2>7
<1> QED
  BY <1>1, <1>2

\* The end of the handler: the second message, or the same.
LEMMA NextMessageIs ==
  ASSUME Messages, NEW d \in Devs, d.msg \in {1, 2}, d.msg <= Num, d.rem = Num + 1 - d.msg,
         NEW e, e = NextMessage(d)
  PROVE  /\ e \in Devs /\ e.ret = d.ret
         /\ e.needFlush = d.needFlush /\ e.flushCnt = d.flushCnt
         /\ e.msg \in {1, 2} /\ e.rem >= 1 /\ e.msg + e.rem = Num + 1
         /\ d.msg = 1 /\ Num = 2 /\ EndsMessage(d) =>
              e.msg = 2 /\ e.pos = -1 /\ e.cnt = msgs[2].len
         /\ d.msg = 2 \/ Num = 1 \/ ~EndsMessage(d) => e = d
<1>1. PICK n : n = Num
  OBVIOUS
<1>2. n \in {1, 2} /\ (n = 2 => msgs[2].len \in Nat)
  BY <1>1, Lengths
<1>3. d.rem = n + 1 - d.msg /\ d.msg <= n
  BY <1>1
<1>4. CASE d.msg = 1 /\ n = 2 /\ EndsMessage(d)
  <2>1. PICK c \in Nat : c = msgs[2].len
    BY <1>2, <1>4
  <2> HIDE DEF Num
  <2>2. d.msg = 1 /\ d.rem = 2
    BY <1>3, <1>4
  <2>3. e = [d EXCEPT !.rem = d.rem - 1, !.msg = d.msg + 1, !.pos = -1, !.cnt = msgs[d.msg + 1].len]
    BY <1>4, <2>2 DEF NextMessage
  <2>4. e = [d EXCEPT !.rem = 1, !.msg = 2, !.pos = -1, !.cnt = c]
    BY <2>1, <2>2, <2>3
  <2>5. /\ e \in Devs /\ e.ret = d.ret /\ e.needFlush = d.needFlush /\ e.flushCnt = d.flushCnt
        /\ e.msg = 2 /\ e.rem = 1 /\ e.pos = -1 /\ e.cnt = c
    <3>1. PICK x : x = [d EXCEPT !.pos = -1, !.cnt = c]
      OBVIOUS
    <3>2. /\ x \in Devs /\ x.ret = d.ret /\ x.needFlush = d.needFlush /\ x.flushCnt = d.flushCnt
          /\ x.pos = -1 /\ x.cnt = c
      BY <2>1, <3>1 DEF Devs
    <3>3. e = [x EXCEPT !.rem = 1, !.msg = 2]
      BY <2>1, <2>4, <3>1 DEF Devs
    <3>4. /\ e \in Devs /\ e.ret = x.ret /\ e.needFlush = x.needFlush /\ e.flushCnt = x.flushCnt
          /\ e.msg = 2 /\ e.rem = 1 /\ e.pos = x.pos /\ e.cnt = x.cnt
      <4>1. e = [msg |-> 2, rem |-> 1, pos |-> x.pos, cnt |-> x.cnt, ret |-> x.ret,
                 needFlush |-> x.needFlush, flushCnt |-> x.flushCnt]
        BY <3>2, <3>3 DEF Devs
      <4> QED
        BY <3>2, <4>1 DEF Devs
    <3> QED
      BY <3>2, <3>4
  <2> QED
    BY <1>1, <1>4, <2>1, <2>5
<1>5. CASE d.msg = 2 \/ n = 1 \/ ~EndsMessage(d)
  <2>1. e = d
    BY <1>2, <1>3, <1>5 DEF NextMessage
  <2> HIDE DEF Num
  <2>2. d.rem >= 1 /\ d.msg + d.rem = n + 1
    BY <1>2, <1>3
  <2> QED
    BY <1>1, <1>5, <2>1, <2>2
<1> QED
  BY <1>2, <1>4, <1>5

Filled == IF WriteFull THEN State(dev, hw, wire, TRUE)
          ELSE msm_i2c_fill_write_buffer(dev, hw, wire)
Emptied == IF hw.rd = 0 THEN Filled
           ELSE msm_i2c_read_buffer(Filled.dev, Filled.hw, Filled.log, Filled.more)

LEMMA FilledIs ==
  ASSUME IInv, Under
  PROVE  /\ Filled \in States /\ Filled.log = wire
         /\ KeepsMessage(Filled.dev) /\ KeepsFlush(Filled.dev) /\ KeepsBus(Filled.hw)
         /\ Filled.hw.rd = hw.rd
         /\ WriteFull => /\ Filled.dev.pos = dev.pos /\ Filled.dev.cnt = dev.cnt
                         /\ Filled.hw.wr = hw.wr /\ Filled.more
         /\ ~WriteFull /\ dev.pos = -1 =>
              /\ Filled.dev.pos = 0 /\ Filled.dev.cnt = dev.cnt /\ Filled.more
              /\ Filled.hw.wr = IF dev.msg = 1 THEN ToWrite ELSE ToRead
         /\ ~WriteFull /\ dev.pos >= 0 /\ (dev.msg = 2 \/ dev.cnt = 0) =>
              /\ Filled.dev.pos = dev.pos /\ Filled.dev.cnt = dev.cnt
              /\ Filled.hw.wr = hw.wr /\ ~Filled.more
         /\ ~WriteFull /\ dev.pos >= 0 /\ dev.msg = 1 /\ dev.cnt > 0 =>
              /\ Filled.dev.pos = dev.pos + 1 /\ Filled.dev.cnt = dev.cnt - 1 /\ Filled.more
              /\ Filled.hw.wr = IF dev.cnt = 1 /\ dev.rem = 1 THEN LastByte(dev.pos + 1)
                                ELSE PlainByte(dev.pos + 1)
<1>1. CASE WriteFull
  <2>1. PICK f : f = Filled
    OBVIOUS
  <2>2. f = [dev |-> dev, hw |-> hw, log |-> wire, more |-> TRUE]
    BY <1>1, <2>1 DEF Filled, State
  <2>3. f \in States /\ f.dev = dev /\ f.hw = hw /\ f.log = wire /\ f.more
    BY <2>2 DEF IInv, Types, States
  <2> QED
    BY <1>1, <2>1, <2>3 DEF KeepsMessage, KeepsFlush, KeepsBus
<1>2. CASE ~WriteFull
  <2>1. Filled = msm_i2c_fill_write_buffer(dev, hw, wire)
    BY <1>2 DEF Filled
  <2> QED
    BY <1>2, <2>1, FillBuffer
<1> QED
  BY <1>1, <1>2

LEMMA EmptiedIs ==
  ASSUME IInv, Under
  PROVE  /\ Emptied \in States /\ Emptied.more = Filled.more
         /\ KeepsMessage(Emptied.dev) /\ KeepsBus(Emptied.hw)
         /\ Emptied.hw.rd = 0 /\ Emptied.hw.wr \in {Filled.hw.wr, Stop}
         /\ hw.rd = 0 => Emptied = Filled
         /\ hw.rd # 0 /\ Wanted(Filled.dev) =>
              /\ Emptied.dev.pos = Filled.dev.pos + 1 /\ Emptied.dev.cnt = Filled.dev.cnt - 1
              /\ Emptied.dev.flushCnt = dev.flushCnt
              /\ Emptied.dev.needFlush <=> SingleByte(Filled.dev) \/ dev.needFlush
              /\ Emptied.hw.wr = IF StopsAhead(Filled.dev) THEN Stop ELSE Filled.hw.wr
              /\ Emptied.log = Append(wire, <<"in", Filled.dev.pos + 1, hw.rd>>)
         /\ hw.rd # 0 /\ ~Wanted(Filled.dev) =>
              /\ Emptied.dev.pos = Filled.dev.pos /\ Emptied.dev.cnt = Filled.dev.cnt
              /\ ~Emptied.dev.needFlush /\ Emptied.log = wire
              /\ dev.flushCnt = 0 => Emptied.hw.wr = Filled.hw.wr
<1>1. PICK f : f = Filled
  OBVIOUS
<1>2. /\ f \in States /\ f.log = wire /\ KeepsMessage(f.dev) /\ KeepsFlush(f.dev) /\ KeepsBus(f.hw)
      /\ f.hw.rd = hw.rd
  BY <1>1, FilledIs
<1>3. f.dev \in Devs /\ f.hw \in Controllers /\ f.log \in Seq(Entries) /\ f.more \in BOOLEAN
  BY <1>2 DEF States
<1>4. CASE hw.rd = 0
  BY <1>1, <1>2, <1>4 DEF Emptied
<1>5. CASE hw.rd # 0
  <2>1. PICK s : s = msm_i2c_read_buffer(f.dev, f.hw, f.log, f.more)
    OBVIOUS
  <2>2. Emptied = s
    BY <1>1, <1>5, <2>1 DEF Emptied
  <2>3. /\ s \in States /\ s.more = f.more
        /\ s.dev.msg = f.dev.msg /\ s.dev.rem = f.dev.rem /\ s.dev.ret = f.dev.ret
        /\ s.hw.bus = f.hw.bus /\ s.hw.err = f.hw.err /\ s.hw.irq = f.hw.irq
        /\ s.hw.got = f.hw.got /\ s.hw.rd = 0 /\ s.hw.wr \in {f.hw.wr, Stop}
    BY <1>3, <2>1, EmptyBuffer
  <2>4. Wanted(f.dev) =>
          /\ s.dev.pos = f.dev.pos + 1 /\ s.dev.cnt = f.dev.cnt - 1
          /\ s.dev.flushCnt = f.dev.flushCnt
          /\ s.dev.needFlush <=> SingleByte(f.dev) \/ f.dev.needFlush
          /\ s.hw.wr = IF StopsAhead(f.dev) THEN Stop ELSE f.hw.wr
          /\ s.log = Append(f.log, <<"in", f.dev.pos + 1, f.hw.rd>>)
    BY <1>3, <2>1, EmptyBuffer
  <2>5. ~Wanted(f.dev) =>
          /\ s.dev.pos = f.dev.pos /\ s.dev.cnt = f.dev.cnt /\ ~s.dev.needFlush /\ s.log = f.log
          /\ f.dev.flushCnt = 0 => s.hw.wr = f.hw.wr
    BY <1>3, <2>1, EmptyBuffer
  <2> QED
    BY <1>1, <1>2, <1>5, <2>2, <2>3, <2>4, <2>5 DEF KeepsMessage, KeepsFlush, KeepsBus
<1> QED
  BY <1>4, <1>5

\* What a run of the handler does with a message and no error.
LEMMA HandlerIs ==
  ASSUME IInv, I2CInterruptHandler, dev.msg # NULL, ~hw.err
  PROVE  /\ Under /\ place \in {"addressed", "wait"} /\ hw.irq
         /\ dev' = NextMessage(Emptied.dev) /\ wire' = Emptied.log /\ timeout' = TimeoutAfter(Emptied)
         /\ hw' \in Controllers /\ hw'.wr = Emptied.hw.wr /\ hw'.rd = 0 /\ hw'.bus = hw.bus
         /\ ~hw'.irq /\ ~hw'.err /\ hw'.got = hw.got
         /\ UNCHANGED <<enabled, place, msgs, retry, ret>>
         /\ mishaps' = IF place = "addressed" THEN mishaps \cup {"race"} ELSE mishaps
<1>1. Under /\ hw.irq /\ place # "address" /\ hw \in Controllers
  BY DEF IInv, Types, Places, I2CInterruptHandler
<1>2. PICK h : h = Emptied.hw
  OBVIOUS
<1>3. /\ dev' = NextMessage(Emptied.dev) /\ wire' = Emptied.log /\ timeout' = TimeoutAfter(Emptied)
      /\ hw' = [h EXCEPT !.irq = FALSE]
  BY <1>2 DEF I2CInterruptHandler, msm_i2c_interrupt_locked, Filled, Emptied
<1>4. h \in Controllers /\ KeepsBus(h) /\ h.rd = 0
  BY <1>1, <1>2, EmptiedIs DEF States
<1>5. /\ hw' \in Controllers /\ hw'.wr = h.wr /\ hw'.rd = 0 /\ hw'.bus = h.bus /\ hw'.irq = FALSE
      /\ hw'.err = h.err /\ hw'.got = h.got
  BY <1>3, <1>4 DEF Controllers
<1> QED
  BY <1>1, <1>2, <1>3, <1>4, <1>5 DEF I2CInterruptHandler, caller, Under, KeepsBus

-----------------------------------------------------------------------------
(* The address is out: dev.pos++, and a byte too many is flushed.          *)

\* What AdvanceFromAddress does to the driver's record, the controller and the
\* log, with p the new position.
LEMMA AdvanceIs ==
  ASSUME IInv, AdvanceFromAddress
  PROVE  \E s \in States, p \in {0, dev.pos + 1} :
           /\ dev' = NextMessage(s.dev) /\ hw' = s.hw /\ wire' = s.log
           /\ KeepsMessage(s.dev) /\ KeepsBus(s.hw)
           /\ s.hw.rd = 0 /\ s.hw.wr \in {hw.wr, Stop}
           /\ dev.msg = 1 /\ (dev.flushCnt = 0 \/ hw.rd = 0) => s.hw.wr = hw.wr
           /\ dev.msg = 1 => /\ s.dev.pos = p /\ s.dev.cnt = dev.cnt /\ s.log = wire
                             /\ ~dev.needFlush => ~s.dev.needFlush
<1>1. /\ dev \in Devs /\ hw \in Controllers /\ wire \in Seq(Entries) /\ Under
      /\ dev.pos \in Nat \cup {-1}
  BY DEF IInv, Types, Devs, Under, AdvanceFromAddress
<1>2. PICK p \in {0, dev.pos + 1} :
        LET d == [dev EXCEPT !.pos = p]
            s == IF hw.rd = 0 THEN State(d, hw, wire, TRUE)
                 ELSE msm_i2c_read_buffer(d, hw, wire, TRUE)
        IN  dev' = NextMessage(s.dev) /\ hw' = s.hw /\ wire' = s.log
  BY DEF AdvanceFromAddress
<1>3. PICK d : d = [dev EXCEPT !.pos = p]
  OBVIOUS
<1>4. /\ d \in Devs /\ KeepsMessage(d) /\ KeepsFlush(d) /\ d.pos = p /\ d.cnt = dev.cnt
  BY <1>1, <1>2, <1>3 DEF Devs, KeepsMessage, KeepsFlush
<1>5. PICK s : s = IF hw.rd = 0 THEN State(d, hw, wire, TRUE)
                   ELSE msm_i2c_read_buffer(d, hw, wire, TRUE)
  OBVIOUS
<1>6. dev' = NextMessage(s.dev) /\ hw' = s.hw /\ wire' = s.log
  BY <1>2, <1>3, <1>5
<1>7. CASE hw.rd = 0
  <2>1. s = [dev |-> d, hw |-> hw, log |-> wire, more |-> TRUE]
    BY <1>5, <1>7 DEF State
  <2>2. s \in States /\ s.dev = d /\ s.hw = hw /\ s.log = wire
    BY <1>1, <1>4, <2>1 DEF States
  <2>3. KeepsMessage(s.dev) /\ KeepsBus(s.hw) /\ (~dev.needFlush => ~s.dev.needFlush)
    BY <1>4, <2>2 DEF KeepsMessage, KeepsFlush, KeepsBus
  <2> QED
    BY <1>4, <1>6, <1>7, <2>2, <2>3
<1>8. CASE hw.rd # 0
  <2>1. PICK more \in BOOLEAN : s = msm_i2c_read_buffer(d, hw, wire, more)
    <3>1. s = msm_i2c_read_buffer(d, hw, wire, TRUE)
      BY <1>5, <1>8
    <3> QED
      BY <3>1
  <2>2. /\ s \in States
        /\ s.dev.msg = d.msg /\ s.dev.rem = d.rem /\ s.dev.ret = d.ret
        /\ s.hw.bus = hw.bus /\ s.hw.err = hw.err /\ s.hw.irq = hw.irq /\ s.hw.got = hw.got
        /\ s.hw.rd = 0 /\ s.hw.wr \in {hw.wr, Stop}
        /\ ~Wanted(d) =>
             /\ s.dev.pos = d.pos /\ s.dev.cnt = d.cnt /\ ~s.dev.needFlush /\ s.log = wire
             /\ d.flushCnt = 0 => s.hw.wr = hw.wr
    BY <1>1, <1>4, <2>1, EmptyBuffer
  <2>3. KeepsMessage(s.dev) /\ KeepsBus(s.hw)
    BY <1>4, <2>2 DEF KeepsMessage, KeepsBus
  <2>4. dev.msg = 1 => ~Wanted(d)
    BY <1>1, <1>4, MessageNumber DEF Wanted, KeepsMessage
  <2> QED
    BY <1>4, <1>6, <1>8, <2>2, <2>3, <2>4 DEF KeepsFlush
<1> QED
  BY <1>7, <1>8

\* What the end of a message leaves: the same record, or the second message.
LEMMA EndOfMessage ==
  ASSUME IInv, Under, NEW s \in States, KeepsMessage(s.dev), NEW e, e = NextMessage(s.dev)
  PROVE  /\ e \in Devs /\ e.ret = dev.ret /\ e.needFlush = s.dev.needFlush
         /\ e.flushCnt = s.dev.flushCnt
         /\ e.msg \in {1, 2} /\ e.rem >= 1 /\ e.msg + e.rem = Num + 1
         /\ dev.msg = 1 /\ Num = 2 /\ EndsMessage(s.dev) =>
              e.msg = 2 /\ e.pos = -1 /\ e.cnt = msgs[2].len
         /\ dev.msg = 2 \/ Num = 1 \/ ~EndsMessage(s.dev) => e = s.dev
<1>1. PICK d : d = s.dev
  OBVIOUS
<1>2. d \in Devs /\ d.msg = dev.msg /\ d.rem = dev.rem /\ d.ret = dev.ret
  BY <1>1 DEF States, KeepsMessage
<1>3. Messages /\ d.msg \in {1, 2} /\ d.msg <= Num /\ d.rem = Num + 1 - d.msg
  BY <1>2, MessageNumber
<1>4. e = NextMessage(d)
  BY <1>1
<1>5. /\ e \in Devs /\ e.ret = d.ret
      /\ e.needFlush = d.needFlush /\ e.flushCnt = d.flushCnt
      /\ e.msg \in {1, 2} /\ e.rem >= 1 /\ e.msg + e.rem = Num + 1
      /\ d.msg = 1 /\ Num = 2 /\ EndsMessage(d) =>
           e.msg = 2 /\ e.pos = -1 /\ e.cnt = msgs[2].len
      /\ d.msg = 2 \/ Num = 1 \/ ~EndsMessage(d) => e = d
  BY <1>2, <1>3, <1>4, NextMessageIs
<1> QED
  BY <1>1, <1>2, <1>5

LEMMA AdvanceHolds ==
  ASSUME IInv, AdvanceFromAddress
  PROVE  IInv'
<1>1. PICK s \in States, p \in {0, dev.pos + 1} :
        /\ dev' = NextMessage(s.dev) /\ hw' = s.hw /\ wire' = s.log
        /\ KeepsMessage(s.dev) /\ KeepsBus(s.hw)
        /\ s.hw.rd = 0 /\ s.hw.wr \in {hw.wr, Stop}
        /\ dev.msg = 1 /\ (dev.flushCnt = 0 \/ hw.rd = 0) => s.hw.wr = hw.wr
        /\ dev.msg = 1 => /\ s.dev.pos = p /\ s.dev.cnt = dev.cnt /\ s.log = wire
                          /\ ~dev.needFlush => ~s.dev.needFlush
  BY AdvanceIs
<1>2. /\ place = "addressed" /\ place' = "wait" /\ Under /\ Under'
      /\ UNCHANGED <<timeout, enabled, msgs, retry, ret, mishaps>> /\ Messages /\ Num' = Num
      /\ Messages' /\ Num \in {1, 2}
  BY MessageNumber, Lengths DEF AdvanceFromAddress, Under, Messages
<1>3. ~hw.irq /\ ~hw.err
  BY <1>2, NoInterrupt DEF AdvanceFromAddress
<1>4. /\ dev' \in Devs /\ dev'.ret = dev.ret /\ dev'.needFlush = s.dev.needFlush
      /\ dev'.msg \in {1, 2} /\ dev'.rem >= 1 /\ dev'.msg + dev'.rem = Num + 1
      /\ dev.msg = 1 /\ Num = 2 /\ EndsMessage(s.dev) => dev'.msg = 2
      /\ dev.msg = 2 \/ Num = 1 \/ ~EndsMessage(s.dev) => dev' = s.dev
  BY <1>1, <1>2, EndOfMessage
<1>5. /\ hw' \in Controllers /\ wire' \in Seq(Entries)
      /\ hw'.bus = hw.bus /\ ~hw'.err /\ ~hw'.irq /\ hw'.rd = 0 /\ hw'.wr \in {hw.wr, Stop}
  BY <1>1, <1>3 DEF States, KeepsBus
<1>6. Types'
  BY <1>2, <1>4, <1>5 DEF IInv, Types
<1>7. Places'
  BY <1>2, <1>4, <1>5, Kinds DEF IInv, Places, NULL
<1>8. FirstMessage'
  <2>1. SUFFICES ASSUME dev'.msg = 1
                 PROVE  /\ hw'.bus # "read" /\ hw'.wr # Stop /\ hw'.wr # ToRead
                        /\ hw'.wr[1] = "last" \/ hw'.bus = "stopping" => dev'.cnt = 0
    BY <1>5 DEF FirstMessage
  <2>2. dev.msg = 1 /\ dev' = s.dev
    BY <1>1, <1>2, <1>4, <2>1, MessageNumber DEF KeepsMessage
  <2> QED
    BY <1>1, <1>2, <1>5, <2>2 DEF IInv, FirstMessage
<1>9. ASSUME Undisturbed
      PROVE  InOrder' /\ Progress'
  <2>1. InOrder /\ Started /\ hw.wr = ToWrite /\ hw.bus = "idle" /\ Len(wire) = 0 /\ dev.ret = Num
    BY <1>2, <1>3, <1>9 DEF IInv, UnderWay, Progress, Failing, Addressing
  <2>2. p = 0 /\ dev.msg = 1 /\ dev.cnt = msgs[1].len /\ msgs[1].len \in Nat \ {0}
    BY <1>2, <2>1, Lengths DEF Started
  <2>3. /\ s.dev.pos = 0 /\ s.dev.cnt = msgs[1].len /\ ~s.dev.needFlush /\ wire' = wire
        /\ hw'.wr = ToWrite
    BY <1>1, <2>1, <2>2 DEF Started
  <2>4. dev' = s.dev /\ dev'.msg = 1
    BY <1>1, <1>4, <2>2, <2>3 DEF EndsMessage, KeepsMessage
  <2>5. Writing'
    BY <1>2, <1>5, <2>1, <2>2, <2>3, <2>4 DEF Writing
  <2> QED
    BY <1>2, <1>4, <1>5, <2>1, <2>3, <2>5, LogStays DEF Progress, Phases
<1>10. UnderWay'
  BY <1>2, <1>9 DEF UnderWay, Undisturbed
<1>11. Judged'
  BY <1>2 DEF Judged
<1> QED
  BY <1>6, <1>7, <1>8, <1>10, <1>11 DEF IInv

-----------------------------------------------------------------------------
(* The handler.                                                            *)

\* No transfer is under way: the interrupt is only acknowledged.
LEMMA HandlerWithoutMessageHolds ==
  ASSUME IInv, I2CInterruptHandler, dev.msg = NULL
  PROVE  IInv'
<1>1. /\ hw' = [hw EXCEPT !.irq = FALSE, !.err = FALSE]
      /\ UNCHANGED <<dev, timeout, wire, enabled, place, msgs, retry, ret>>
  BY DEF I2CInterruptHandler, msm_i2c_interrupt_locked, caller
<1>2. /\ hw' \in Controllers /\ hw'.wr = hw.wr /\ hw'.bus = hw.bus /\ ~hw'.irq /\ ~hw'.err
  BY <1>1 DEF IInv, Types, Controllers
<1>3. ~Under /\ ~Under' /\ mishaps' = mishaps
  BY <1>1 DEF IInv, Places, Under, I2CInterruptHandler
<1>4. Types'
  BY <1>1, <1>2, <1>3 DEF IInv, Types, Messages
<1>5. Places'
  BY <1>1, <1>2, <1>3 DEF IInv, Places
<1>6. Judged'
  BY <1>1, <1>2, <1>3 DEF IInv, Judged, Undisturbed, Done, Expected, MessageLog
<1> QED
  BY <1>3, <1>4, <1>5, <1>6, OutsideHolds

\* The device refused an address or a byte: the transfer is told.
LEMMA HandlerAtErrorHolds ==
  ASSUME IInv, I2CInterruptHandler, dev.msg # NULL, hw.err
  PROVE  IInv'
<1>1. /\ hw' = [hw EXCEPT !.irq = FALSE, !.err = FALSE] /\ dev' = [dev EXCEPT !.ret = ERROR]
      /\ timeout' = TRUE /\ UNCHANGED <<wire, enabled, place, msgs, retry, ret>>
      /\ mishaps' = IF place = "addressed" THEN mishaps \cup {"race"} ELSE mishaps
  BY DEF I2CInterruptHandler, msm_i2c_interrupt_locked, caller
<1>2. /\ hw' \in Controllers /\ hw'.wr = hw.wr /\ hw'.bus = hw.bus /\ ~hw'.irq /\ ~hw'.err
      /\ hw'.rd = hw.rd
  BY <1>1 DEF IInv, Types, Controllers
<1>3. /\ dev' \in Devs /\ dev'.msg = dev.msg /\ dev'.rem = dev.rem /\ dev'.cnt = dev.cnt
      /\ dev'.flushCnt = dev.flushCnt /\ dev'.ret = ERROR
  BY <1>1 DEF IInv, Types, Devs
<1>4. Under /\ Under' /\ place \in {"addressed", "wait"}
  BY <1>1 DEF IInv, Places, Under, I2CInterruptHandler
<1>5. Types'
  BY <1>1, <1>2, <1>3 DEF IInv, Types, Messages
<1>6. Places'
  BY <1>1, <1>2, <1>3, <1>4 DEF IInv, Places
<1>7. FirstMessage'
  BY <1>1, <1>2, <1>3, <1>4 DEF IInv, FirstMessage
<1>8. UnderWay'
  <2>1. CASE place = "addressed"
    BY <1>1, <2>1 DEF UnderWay, Undisturbed
  <2>2. CASE place = "wait"
    <3>1. ~Progress /\ mishaps' = mishaps
      BY <1>1, <2>2 DEF Progress
    <3>2. Failing => Failing'
      BY <1>1, <1>2, <1>3, <2>2, <3>1 DEF Failing
    <3>3. InOrder => InOrder'
      BY <1>1, LogStays
    <3> QED
      BY <1>1, <2>2, <3>1, <3>2, <3>3 DEF IInv, UnderWay, Undisturbed
  <2> QED
    BY <1>4, <2>1, <2>2
<1>9. Judged'
  BY <1>1, <1>4 DEF Judged
<1> QED
  BY <1>5, <1>6, <1>7, <1>8, <1>9 DEF IInv

\* What a run of the handler leaves of the driver's record.
LEMMA RecordAfterHandler ==
  ASSUME IInv, I2CInterruptHandler, dev.msg # NULL, ~hw.err
  PROVE  /\ dev' \in Devs /\ dev'.ret = dev.ret /\ dev'.needFlush = Emptied.dev.needFlush
         /\ dev'.flushCnt = Emptied.dev.flushCnt
         /\ dev'.msg \in {1, 2} /\ dev'.rem >= 1 /\ dev'.msg + dev'.rem = Num + 1
         /\ dev.msg = 1 /\ Num = 2 /\ EndsMessage(Emptied.dev) =>
              dev'.msg = 2 /\ dev'.pos = -1 /\ dev'.cnt = msgs[2].len
         /\ dev.msg = 2 \/ Num = 1 \/ ~EndsMessage(Emptied.dev) => dev' = Emptied.dev
<1>1. PICK s : s = Emptied
  OBVIOUS
<1>2. Under /\ dev' = NextMessage(s.dev)
  BY <1>1, HandlerIs
<1>3. s \in States /\ KeepsMessage(s.dev)
  BY <1>1, <1>2, EmptiedIs
<1>4. /\ dev' \in Devs /\ dev'.ret = dev.ret /\ dev'.needFlush = s.dev.needFlush
      /\ dev'.flushCnt = s.dev.flushCnt
      /\ dev'.msg \in {1, 2} /\ dev'.rem >= 1 /\ dev'.msg + dev'.rem = Num + 1
      /\ dev.msg = 1 /\ Num = 2 /\ EndsMessage(s.dev) =>
           dev'.msg = 2 /\ dev'.pos = -1 /\ dev'.cnt = msgs[2].len
      /\ dev.msg = 2 \/ Num = 1 \/ ~EndsMessage(s.dev) => dev' = s.dev
  BY <1>2, <1>3, EndOfMessage
<1> QED
  BY <1>1, <1>4

\* The end of the last message resets the timeout that an earlier transfer left.
LEMMA TimeoutReset ==
  ASSUME IInv, I2CInterruptHandler, dev.msg # NULL, ~hw.err,
         Emptied.dev.pos >= 0, Emptied.dev.cnt = 0, dev.msg = Num, ~Filled.more,
         ~Emptied.dev.needFlush
  PROVE  ~timeout'
<1>1. Under /\ timeout' = TimeoutAfter(Emptied)
  BY HandlerIs
<1>2. Num \in {1, 2} /\ dev.rem = Num + 1 - dev.msg
  BY <1>1, MessageNumber, Lengths
<1>3. PICK n : n = Num
  OBVIOUS
<1>4. dev.rem <= 1
  BY <1>2, <1>3
<1>5. Emptied.dev.rem <= 1 /\ ~Emptied.more
  BY <1>1, <1>4, EmptiedIs DEF KeepsMessage
<1> QED
  BY <1>1, <1>5 DEF TimeoutAfter, Completes, EndsMessage

LEMMA HandlerTypes ==
  ASSUME IInv, I2CInterruptHandler, dev.msg # NULL, ~hw.err
  PROVE  Types'
<1>1. /\ hw' \in Controllers /\ wire' = Emptied.log /\ timeout' = TimeoutAfter(Emptied)
      /\ UNCHANGED <<enabled, place, msgs, retry, ret>> /\ Under
      /\ mishaps' = IF place = "addressed" THEN mishaps \cup {"race"} ELSE mishaps
  BY HandlerIs
<1>2. dev' \in Devs
  BY RecordAfterHandler
<1>3. wire' \in Seq(Entries)
  <2>1. Emptied \in States
    BY <1>1, EmptiedIs
  <2> QED
    BY <1>1, <2>1 DEF States
<1>4. timeout' \in BOOLEAN
  BY <1>1 DEF TimeoutAfter, IInv, Types
<1> QED
  BY <1>1, <1>2, <1>3, <1>4 DEF IInv, Types, Messages

\* What is written to the controller by the handler.
LEMMA WrittenByHandler ==
  ASSUME IInv, I2CInterruptHandler, dev.msg # NULL, ~hw.err
  PROVE  /\ hw'.wr[1] \in {"byte", "last"} => hw.bus = "write"
         /\ dev.msg = 1 => /\ hw'.wr # Stop /\ hw'.wr # ToRead
                           /\ hw'.wr[1] = "last" => Emptied.dev.cnt = 0
                           /\ dev.cnt = 0 => Emptied.dev.cnt = 0
<1>1. /\ Under /\ place \in {"addressed", "wait"} /\ hw.irq /\ hw'.wr = Emptied.hw.wr
  BY HandlerIs
<1>2. /\ dev.msg \in {1, 2} /\ dev.pos \in Nat \cup {-1} /\ dev.cnt \in Nat /\ hw.wr \in Writes
      /\ dev.msg = 1 => ~msgs[dev.msg].read
  BY <1>1, MessageNumber DEF IInv, Types, Devs, Controllers
<1>3. /\ Filled.hw.wr[1] \in {"byte", "last"} => hw.bus = "write"
      /\ dev.msg = 1 => /\ Filled.hw.wr # Stop /\ Filled.hw.wr # ToRead
                        /\ Filled.hw.wr[1] = "last" => Filled.dev.cnt = 0
                        /\ dev.cnt = 0 => Filled.dev.cnt = 0
  <2>1. CASE WriteFull \/ (dev.pos >= 0 /\ (dev.msg = 2 \/ dev.cnt = 0))
    <3>1. Filled.hw.wr = hw.wr /\ Filled.dev.cnt = dev.cnt
      BY <1>1, <2>1, FilledIs
    <3> QED
      BY <1>1, <3>1 DEF IInv, Places, FirstMessage
  <2>2. CASE ~WriteFull /\ dev.pos = -1
    <3>1. /\ Filled.dev.cnt = dev.cnt
          /\ Filled.hw.wr = IF dev.msg = 1 THEN ToWrite ELSE ToRead
      BY <1>1, <2>2, FilledIs
    <3> QED
      BY <3>1, Kinds
  <2>3. CASE ~WriteFull /\ dev.pos >= 0 /\ dev.msg = 1 /\ dev.cnt > 0
    <3>1. /\ Filled.dev.cnt = dev.cnt - 1
          /\ Filled.hw.wr = IF dev.cnt = 1 /\ dev.rem = 1 THEN LastByte(dev.pos + 1)
                            ELSE PlainByte(dev.pos + 1)
      BY <1>1, <2>3, FilledIs
    <3>2. hw.bus = "write"
      BY <1>1, <2>3 DEF IInv, FirstMessage
    <3>3. dev.pos + 1 \in Nat
      BY <1>2, <2>3
    <3>4. /\ Filled.hw.wr \in Writes /\ Filled.hw.wr[1] \in {"byte", "last"}
          /\ Filled.hw.wr[1] = "last" => dev.cnt = 1
      BY <3>1, <3>3, Kinds
    <3> QED
      BY <1>2, <2>3, <3>1, <3>2, <3>4, Kinds
  <2> QED
    BY <1>2, <2>1, <2>2, <2>3
<1>4. Emptied.hw.wr \in {Filled.hw.wr, Stop}
  BY <1>1, EmptiedIs
<1>5. dev.msg = 1 => Emptied.hw.wr = Filled.hw.wr /\ Emptied.dev.cnt = Filled.dev.cnt
  <2>1. CASE hw.rd = 0
    BY <1>1, <2>1, EmptiedIs
  <2>2. CASE hw.rd # 0 /\ dev.msg = 1
    <3>1. dev.flushCnt = 0
      BY <1>1, <2>2 DEF IInv, FirstMessage
    <3>2. ~Wanted(Filled.dev)
      BY <1>1, <1>2, <2>2, FilledIs DEF Wanted, KeepsMessage
    <3> QED
      BY <1>1, <2>2, <3>1, <3>2, EmptiedIs
  <2> QED
    BY <2>1, <2>2
<1> QED
  BY <1>1, <1>3, <1>4, <1>5, Kinds

LEMMA HandlerPlaces ==
  ASSUME IInv, I2CInterruptHandler, dev.msg # NULL, ~hw.err
  PROVE  Places' /\ FirstMessage' /\ Judged'
<1>1. /\ Under /\ place \in {"addressed", "wait"} /\ hw'.bus = hw.bus /\ ~hw'.irq /\ ~hw'.err
      /\ hw'.rd = 0 /\ UNCHANGED <<enabled, place, msgs, retry, ret>>
  BY HandlerIs
<1>2. Under' /\ Num' = Num
  BY <1>1 DEF Under
<1>3. dev'.msg \in {1, 2} /\ dev'.rem >= 1 /\ dev'.msg + dev'.rem = Num + 1
  BY RecordAfterHandler
<1>4. Places'
  BY <1>1, <1>2, <1>3, WrittenByHandler DEF IInv, Places, NULL
<1>5. FirstMessage'
  <2>1. SUFFICES ASSUME dev'.msg = 1
                 PROVE  /\ hw'.bus # "read" /\ hw'.wr # Stop /\ hw'.wr # ToRead
                        /\ hw'.wr[1] = "last" \/ hw'.bus = "stopping" => dev'.cnt = 0
    BY <1>1 DEF FirstMessage
  <2>2. dev.msg = 1
    BY <1>1, <2>1, MessageNumber, RecordAfterHandler, EmptiedIs DEF KeepsMessage
  <2>3. dev' = Emptied.dev
    BY <1>1, <2>1, <2>2, MessageNumber, Lengths, RecordAfterHandler
  <2> QED
    BY <1>1, <2>2, <2>3, WrittenByHandler DEF IInv, FirstMessage
<1>6. Judged'
  BY <1>1 DEF Judged
<1> QED
  BY <1>4, <1>5, <1>6

\* The interrupt finds the address or a byte of the first message taken.
LEMMA WritingGoesOn ==
  ASSUME IInv, I2CInterruptHandler, dev.msg # NULL, ~hw.err, place = "wait", Writing
  PROVE  InOrder /\ wire' = wire => InOrder' /\ Phases'
<1> SUFFICES ASSUME InOrder, wire' = wire
             PROVE  InOrder' /\ Phases'
  OBVIOUS
<1>1. /\ Under /\ hw.irq /\ hw'.rd = 0 /\ hw'.bus = hw.bus /\ ~hw'.irq /\ hw'.wr = Emptied.hw.wr
      /\ UNCHANGED <<place, msgs>> /\ Num' = Num
  BY HandlerIs
<1>2. /\ dev.msg = 1 /\ dev.pos \in 0 .. msgs[1].len /\ dev.cnt = msgs[1].len - dev.pos
      /\ dev.cnt = 0 => Num = 1
      /\ ~dev.needFlush /\ hw.wr = Empty /\ Len(wire) = dev.pos + 1 /\ hw.rd = 0
      /\ IF dev.cnt = 0 THEN Over ELSE hw.bus = "write"
  BY <1>1 DEF Writing
<1>3. Messages /\ Num \in {1, 2} /\ dev.rem = Num /\ msgs[1].len \in Nat \ {0}
  <2>1. Messages /\ Num \in {1, 2} /\ msgs[1].len \in Nat \ {0}
    BY <1>1, MessageNumber, Lengths
  <2>2. dev.rem = Num + 1 - 1
    BY <1>1, <1>2, MessageNumber
  <2> HIDE DEF Num
  <2> QED
    BY <2>1, <2>2
<1>4. ~WriteFull /\ Emptied = Filled
  BY <1>1, <1>2, EmptiedIs DEF WriteFull
<1>5. ~Emptied.dev.needFlush
  BY <1>1, <1>2, <1>4, FilledIs DEF KeepsFlush
<1>6. InOrder'
  BY <1>1, LogStays
<1>7. CASE dev.cnt = 0
  <2>1. Num = 1 /\ dev.pos = msgs[1].len /\ dev.pos >= 0
    BY <1>2, <1>3, <1>7
  <2>2. /\ Emptied.dev.pos = dev.pos /\ Emptied.dev.cnt = 0 /\ Emptied.hw.wr = Empty
        /\ ~Filled.more
    BY <1>1, <1>2, <1>4, <1>7, <2>1, FilledIs
  <2>3. ~timeout'
    BY <1>2, <1>5, <2>1, <2>2, TimeoutReset
  <2>4. dev' = Emptied.dev /\ Emptied.dev.msg = 1
    BY <1>1, <1>2, <2>1, RecordAfterHandler, EmptiedIs DEF KeepsMessage
  <2>5. Len(wire) = Items
    BY <1>2, <1>3, <2>1, ItemCount
  <2>6. Items' = Items /\ Over'
    BY <1>1, <1>2, <1>7 DEF Items, Over
  <2>7. Complete'
    BY <1>1, <1>5, <2>1, <2>2, <2>3, <2>4, <2>5, <2>6 DEF Complete
  <2> QED
    BY <1>6, <2>7 DEF Phases
<1>8. CASE dev.cnt # 0
  <2>1. dev.cnt > 0 /\ dev.pos \in Nat /\ dev.pos >= 0
    BY <1>2, <1>3, <1>8
  <2>2. /\ Emptied.dev.pos = dev.pos + 1 /\ Emptied.dev.cnt = dev.cnt - 1
        /\ Emptied.hw.wr = IF dev.cnt = 1 /\ dev.rem = 1 THEN LastByte(dev.pos + 1)
                           ELSE PlainByte(dev.pos + 1)
    BY <1>1, <1>2, <1>4, <2>1, FilledIs
  <2>3. Emptied.dev.msg = 1
    BY <1>1, <1>2, EmptiedIs DEF KeepsMessage
  <2>4. CASE Num = 1
    <3>1. dev' = Emptied.dev
      BY <2>4, RecordAfterHandler
    <3>2. /\ dev'.pos \in 0 .. msgs[1].len /\ dev'.cnt = msgs[1].len - dev'.pos
          /\ dev'.pos = dev.pos + 1 /\ dev'.pos # 0 /\ dev'.cnt = dev.cnt - 1
      BY <1>2, <1>3, <2>1, <2>2, <3>1
    <3>3. hw'.wr = IF dev'.cnt = 0 THEN LastByte(dev'.pos) ELSE PlainByte(dev'.pos)
      <4>1. dev.rem = 1
        BY <1>3, <2>4
      <4>2. dev.cnt = 1 <=> dev'.cnt = 0
        BY <1>2, <1>3, <3>2
      <4>3. hw'.wr = IF dev.cnt = 1 THEN LastByte(dev.pos + 1) ELSE PlainByte(dev.pos + 1)
        BY <1>1, <2>2, <4>1
      <4> QED
        BY <3>2, <4>2, <4>3
    <3>4. Writing'
      BY <1>1, <1>2, <1>5, <2>3, <2>4, <3>1, <3>2, <3>3 DEF Writing
    <3> QED
      BY <1>6, <3>4 DEF Phases
  <2>5. CASE Num = 2
    <3>1. msgs[1].len = 1 /\ dev.pos = 0 /\ dev.cnt = 1 /\ dev.rem = 2
      BY <1>2, <1>3, <2>1, <2>5, Lengths
    <3>2. /\ Emptied.dev.pos = 1 /\ Emptied.dev.cnt = 0 /\ Emptied.hw.wr = PlainByte(1)
      BY <2>2, <3>1
    <3>3. EndsMessage(Emptied.dev)
      BY <3>2 DEF EndsMessage
    <3>4. dev'.msg = 2 /\ dev'.pos = -1 /\ dev'.cnt = msgs[2].len /\ ~dev'.needFlush
      BY <1>2, <1>5, <2>5, <3>3, RecordAfterHandler
    <3>5. Turning'
      BY <1>1, <1>2, <1>8, <3>1, <3>2, <3>4 DEF Turning
    <3> QED
      BY <1>6, <3>5 DEF Phases
  <2> QED
    BY <1>3, <2>4, <2>5
<1> QED
  BY <1>7, <1>8

\* The interrupt finds the number of the register taken: the second address.
LEMMA TurningGoesOn ==
  ASSUME IInv, I2CInterruptHandler, dev.msg # NULL, ~hw.err, place = "wait", Turning, InOrder
  PROVE  InOrder' /\ Phases'
<1>1. /\ Under /\ hw.irq /\ hw'.rd = 0 /\ hw'.bus = hw.bus /\ ~hw'.irq /\ hw'.wr = Emptied.hw.wr
      /\ wire' = Emptied.log /\ UNCHANGED <<place, msgs>> /\ Num' = Num
  BY HandlerIs
<1>2. /\ dev.msg = 2 /\ dev.pos = -1 /\ dev.cnt = msgs[2].len /\ ~dev.needFlush
      /\ hw.rd = 0 /\ hw.bus = "write" /\ hw.wr = Empty /\ Len(wire) = 2
  BY <1>1 DEF Turning
<1>3. ~WriteFull /\ Emptied = Filled
  BY <1>1, <1>2, EmptiedIs DEF WriteFull
<1>4. /\ Emptied.dev.pos = 0 /\ Emptied.dev.cnt = dev.cnt /\ Emptied.hw.wr = ToRead
      /\ ~Emptied.dev.needFlush /\ Emptied.log = wire
  BY <1>1, <1>2, <1>3, FilledIs DEF KeepsFlush
<1>5. dev' = Emptied.dev /\ Emptied.dev.msg = 2
  BY <1>1, <1>2, RecordAfterHandler, EmptiedIs DEF KeepsMessage
<1>6. TurnedAround'
  BY <1>1, <1>2, <1>4, <1>5 DEF TurnedAround
<1> QED
  BY <1>1, <1>4, <1>6, LogStays DEF Phases

\* The interrupt comes in a read: before a byte has arrived, it changes nothing;
\* a byte is stored, or flushed behind a message of one byte.
LEMMA ReadingGoesOn ==
  ASSUME IInv, I2CInterruptHandler, dev.msg # NULL, ~hw.err, place = "wait", Reading, InOrder
  PROVE  InOrder' /\ Phases'
<1>1. /\ Under /\ hw.irq /\ hw'.rd = 0 /\ hw'.bus = hw.bus /\ ~hw'.irq /\ hw'.wr = Emptied.hw.wr
      /\ wire' = Emptied.log /\ hw'.got = hw.got /\ UNCHANGED <<place, msgs>> /\ Num' = Num
  BY HandlerIs
<1>2. /\ dev.msg = 2 /\ dev.pos \in 0 .. msgs[2].len /\ dev.cnt = msgs[2].len - dev.pos
      /\ Len(wire) = 3 + dev.pos
      /\ dev.needFlush <=> msgs[2].len = 1 /\ dev.pos = 1
      /\ dev.cnt = 0 => msgs[2].len = 1
      /\ hw.got = dev.pos + (IF hw.rd = 0 THEN 0 ELSE 1)
      /\ hw.rd # 0 => hw.rd = hw.got
      /\ IF hw.rd # 0 /\ Asked THEN hw.wr = Empty /\ Over
         ELSE hw.bus = "read" /\ hw.wr = IF Asked THEN Stop ELSE Empty
  BY DEF Reading
<1>3. Messages /\ Num = 2 /\ msgs[2].len \in Nat \ {0} /\ msgs[2].read
  <2>1. Messages /\ dev.msg <= Num /\ Num \in {1, 2} /\ msgs[dev.msg].read
    BY <1>1, <1>2, MessageNumber, Lengths
  <2> HIDE DEF Num
  <2>2. Num = 2
    BY <1>2, <2>1
  <2> QED
    BY <1>2, <2>1, <2>2, Lengths
<1>4. Items = 3 + msgs[2].len /\ Items' = Items
  BY <1>1, <1>3, ItemCount DEF Items
<1>5. dev.pos \in Nat /\ dev.cnt \in Nat /\ dev.pos >= 0 /\ dev.pos # -1
  BY <1>2, <1>3
<1>6. dev' = Emptied.dev /\ Emptied.dev.msg = 2
  BY <1>1, <1>2, RecordAfterHandler, EmptiedIs DEF KeepsMessage
<1>7. CASE hw.rd = 0
  <2>1. /\ Emptied.dev.pos = dev.pos /\ Emptied.dev.cnt = dev.cnt /\ Emptied.hw.wr = hw.wr
        /\ Emptied.log = wire /\ Emptied.dev.needFlush = dev.needFlush
    BY <1>1, <1>2, <1>5, <1>7, EmptiedIs, FilledIs DEF KeepsFlush
  <2>2. Asked' <=> Asked
    BY <1>1, <1>6, <2>1 DEF Asked
  <2>3. Reading'
    BY <1>1, <1>2, <1>6, <1>7, <2>1, <2>2 DEF Reading
  <2> QED
    BY <1>1, <2>1, <2>3, LogStays DEF Phases
<1>8. CASE hw.rd # 0
  <2>1. hw.wr = Empty /\ ~WriteFull /\ hw.rd = dev.pos + 1 /\ hw.got = dev.pos + 1
    BY <1>2, <1>8 DEF WriteFull
  <2>2. /\ Filled.dev.pos = dev.pos /\ Filled.dev.cnt = dev.cnt /\ Filled.hw.wr = Empty
        /\ ~Filled.more /\ Filled.dev.msg = 2
    BY <1>1, <1>2, <1>5, <2>1, FilledIs DEF KeepsMessage
  <2>3. Wanted(Filled.dev) <=> dev.cnt > 0
    BY <1>3, <1>5, <2>2 DEF Wanted
  <2>4. CASE dev.cnt = 0
    <3>1. msgs[2].len = 1 /\ dev.pos = 1 /\ Asked
      BY <1>2, <1>3, <1>5, <2>4 DEF Asked
    <3>2. /\ Emptied.dev.pos = dev.pos /\ Emptied.dev.cnt = dev.cnt /\ ~Emptied.dev.needFlush
          /\ Emptied.log = wire /\ Emptied.hw.wr \in {Empty, Stop}
      BY <1>1, <1>5, <1>8, <2>2, <2>3, <2>4, EmptiedIs
    <3>3. ~timeout'
      BY <1>2, <1>3, <2>2, <2>4, <3>1, <3>2, TimeoutReset
    <3>4. Over'
      BY <1>1, <1>2, <1>8, <3>1 DEF Over
    <3>5. Len(wire) = Items
      BY <1>2, <1>4, <3>1
    <3>6. Complete'
      BY <1>1, <1>3, <1>4, <1>6, <2>4, <3>1, <3>2, <3>3, <3>4, <3>5 DEF Complete
    <3> QED
      BY <1>1, <3>2, <3>6, LogStays DEF Phases
  <2>5. CASE dev.cnt > 0
    <3>1. PICK e : e = <<"in", dev.pos + 1, dev.pos + 1>>
      OBVIOUS
    <3>2. dev.pos + 1 \in Nat \ {0}
      BY <1>5
    <3>3. e \in Entries
      BY <3>1, <3>2, Kinds
    <3>4. /\ Emptied.dev.pos = dev.pos + 1 /\ Emptied.dev.cnt = dev.cnt - 1
          /\ Emptied.dev.needFlush <=> SingleByte(Filled.dev) \/ dev.needFlush
          /\ Emptied.hw.wr = IF StopsAhead(Filled.dev) THEN Stop ELSE Empty
          /\ Emptied.log = Append(wire, <<"in", Filled.dev.pos + 1, hw.rd>>)
      BY <1>1, <1>8, <2>2, <2>3, <2>5, EmptiedIs
    <3>5. wire' = Append(wire, e)
      BY <1>1, <2>1, <2>2, <3>1, <3>4
    <3>6. InOrder' /\ Len(wire') = 3 + dev.pos + 1
      <4>1. Len(wire) < Items
        BY <1>2, <1>4, <1>3, <2>5
      <4>2. e = Item(Len(wire) + 1)
        <5>1. Item((dev.pos + 1) + 3) = e
          BY <1>3, <3>1, <3>2, ItemIn
        <5>2. Len(wire) + 1 = (dev.pos + 1) + 3
          BY <1>2, <1>5
        <5> QED
          BY <5>1, <5>2
      <4>3. Types /\ msgs' = msgs
        BY <1>1 DEF IInv
      <4>4. InOrder' /\ Len(wire') = Len(wire) + 1
        BY <1>3, <3>3, <3>5, <4>1, <4>2, <4>3, LogGrows
      <4> QED
        BY <1>2, <4>4
    <3>7. SingleByte(Filled.dev) <=> msgs[2].len = 1
      BY <1>2, <1>3, <1>5, <2>2, <2>5 DEF SingleByte
    <3>8. StopsAhead(Filled.dev) <=> msgs[2].len = 1 \/ dev.cnt = 2
      BY <2>2, <3>7 DEF StopsAhead
    <3>9. Emptied.dev.needFlush <=> msgs[2].len = 1
      BY <1>2, <3>4, <3>7
    <3>10. CASE dev.cnt = 1 /\ msgs[2].len # 1
      <4>1. Asked /\ dev.pos + 1 = msgs[2].len
        BY <1>2, <1>3, <1>5, <3>10 DEF Asked
      <4>2. Emptied.dev.cnt = 0 /\ ~Emptied.dev.needFlush /\ Emptied.hw.wr = Empty
        BY <3>4, <3>8, <3>9, <3>10
      <4>3. ~timeout'
        BY <1>2, <1>3, <1>5, <2>2, <3>4, <4>2, TimeoutReset
      <4>4. Over'
        BY <1>1, <1>2, <1>8, <4>1 DEF Over
      <4>5. Len(wire') = Items'
        BY <1>3, <1>4, <1>5, <3>6, <4>1
      <4>6. Complete'
        BY <1>1, <1>3, <1>5, <1>6, <3>4, <4>2, <4>3, <4>4, <4>5 DEF Complete
      <4> QED
        BY <3>6, <4>6 DEF Phases
    <3>11. CASE dev.cnt >= 2 \/ msgs[2].len = 1
      <4>1. ~Asked
        BY <1>2, <1>3, <1>5, <2>5, <3>11 DEF Asked
      <4>2. hw'.bus = "read"
        BY <1>1, <1>2, <4>1
      <4>3. /\ dev'.msg = 2 /\ dev'.pos = dev.pos + 1 /\ dev'.cnt = dev.cnt - 1
            /\ dev'.needFlush <=> msgs[2].len = 1
        BY <1>6, <3>4, <3>9
      <4>4. /\ dev'.pos \in 0 .. msgs[2].len /\ dev'.cnt = msgs[2].len - dev'.pos
            /\ dev'.needFlush <=> msgs[2].len = 1 /\ dev'.pos = 1
            /\ dev'.cnt = 0 => msgs[2].len = 1
        BY <1>2, <1>3, <1>5, <2>5, <3>11, <4>3
      <4>5. Asked' <=> msgs[2].len = 1 \/ dev.cnt = 2
        <5>1. Asked' <=> dev'.pos >= 1 /\ dev'.pos >= msgs[2].len - 1
          BY <1>1 DEF Asked
        <5>2. PICK q, l : q = dev.pos /\ l = msgs[2].len
          OBVIOUS
        <5>3. q \in Nat /\ l \in Nat /\ dev.cnt = l - q /\ dev'.pos = q + 1
          BY <1>2, <1>3, <1>5, <4>3, <5>2
        <5>4. q + 1 >= 1 /\ (q + 1 >= l - 1 <=> dev.cnt <= 2)
          BY <5>3
        <5>5. q + 1 >= l - 1 <=> l = 1 \/ dev.cnt = 2
          BY <1>5, <2>5, <3>11, <5>2, <5>3, <5>4
        <5> QED
          BY <5>1, <5>2, <5>3, <5>4, <5>5
      <4>6. hw'.wr = IF Asked' THEN Stop ELSE Empty
        BY <1>1, <3>4, <3>8, <4>5
      <4>7. hw'.got = dev'.pos /\ Len(wire') = 3 + dev'.pos
        BY <1>1, <1>5, <2>1, <3>6, <4>3
      <4>8. Reading'
        BY <1>1, <1>5, <4>2, <4>3, <4>4, <4>6, <4>7 DEF Reading
      <4> QED
        BY <3>6, <4>8 DEF Phases
    <3> QED
      BY <1>5, <2>5, <3>10, <3>11
  <2> QED
    BY <1>5, <2>4, <2>5
<1> QED
  BY <1>7, <1>8

LEMMA HandlerHolds ==
  ASSUME IInv, I2CInterruptHandler
  PROVE  IInv'
<1>1. CASE dev.msg = NULL
  BY <1>1, HandlerWithoutMessageHolds
<1>2. CASE dev.msg # NULL /\ hw.err
  BY <1>2, HandlerAtErrorHolds
<1>3. CASE dev.msg # NULL /\ ~hw.err
  <2>1. Types' /\ Places' /\ FirstMessage' /\ Judged'
    BY <1>3, HandlerTypes, HandlerPlaces
  <2>2. /\ place \in {"addressed", "wait"} /\ hw.irq /\ ~hw'.err
        /\ wire' = Emptied.log /\ UNCHANGED <<place, msgs>> /\ Num' = Num
        /\ mishaps' = IF place = "addressed" THEN mishaps \cup {"race"} ELSE mishaps
    BY <1>3, HandlerIs
  <2>3. CASE place = "addressed"
    BY <2>1, <2>2, <2>3 DEF IInv, UnderWay, Undisturbed
  <2>4. CASE place = "wait"
    <3>1. ~Failing /\ ~TurnedAround /\ ~Complete
      BY <1>3, <2>2 DEF Failing, TurnedAround, Complete
    <3>2. ASSUME Undisturbed
          PROVE  InOrder' /\ Progress'
      <4>1. InOrder /\ dev.ret = Num /\ (Writing \/ Turning \/ Reading)
        BY <2>4, <3>1, <3>2 DEF IInv, UnderWay, Progress, Phases
      <4>2. Writing => wire' = wire
        <5>1. Under
          BY <2>2 DEF Under
        <5>2. Writing => hw.rd = 0
          BY DEF Writing
        <5> QED
          BY <2>2, <5>1, <5>2, EmptiedIs, FilledIs
      <4>3. InOrder' /\ Phases'
        BY <1>3, <2>4, <4>1, <4>2, WritingGoesOn, TurningGoesOn, ReadingGoesOn
      <4>4. dev'.ret = Num'
        BY <1>3, <2>2, <4>1, RecordAfterHandler
      <4> QED
        BY <2>2, <2>4, <4>3, <4>4 DEF Progress
    <3>3. UnderWay'
      BY <2>2, <2>4, <3>2 DEF UnderWay, Undisturbed
    <3> QED
      BY <2>1, <3>3 DEF IInv
  <2> QED
    BY <2>2, <2>3, <2>4
<1> QED
  BY <1>1, <1>2, <1>3

-----------------------------------------------------------------------------
(* The theorem.                                                            *)

LEMMA StutterHolds ==
  ASSUME IInv, UNCHANGED i2cVars
  PROVE  IInv'
<1>1. Types' /\ Places' /\ FirstMessage'
  BY DEF IInv, i2cVars, Types, Messages, Places, Under, FirstMessage
<1>2. (Progress => Progress') /\ (Failing => Failing') /\ (Undisturbed' <=> Undisturbed)
      /\ (Started => Started')
  BY DEF i2cVars, Progress, Phases, Addressing, Started, Writing, Turning, TurnedAround, Reading,
         Asked, Complete, Over, Items, Failing, Undisturbed
<1>3. InOrder => InOrder'
  BY LogStays DEF i2cVars
<1>4. UnderWay'
  BY <1>2, <1>3 DEF IInv, UnderWay, i2cVars
<1>5. Judged'
  BY DEF IInv, Judged, Undisturbed, Done, Expected, MessageLog, i2cVars
<1> QED
  BY <1>1, <1>4, <1>5 DEF IInv

LEMMA ControllerHolds ==
  ASSUME IInv, Controller
  PROVE  IInv'
BY TakeAddressHolds, TakeByteHolds, RefuseHolds, ReceiveHolds, StopBusHolds DEF Controller

LEMMA TransferHolds ==
  ASSUME IInv, Transfer
  PROVE  IInv'
<1>1. CASE Begin
  BY <1>1, BeginHolds
<1>2. CASE BusIsFree
  BY <1>2, BusIsFreeHolds
<1>3. CASE Setup
  BY <1>3, SetupHolds
<1>4. CASE WriteAddress
  BY <1>4, WriteAddressHolds
<1>5. CASE AdvanceFromAddress
  BY <1>5, AdvanceHolds
<1>6. CASE Judge
  BY <1>6, JudgeHolds
<1>7. CASE End
  BY <1>7, EndHolds
<1>8. ASSUME NEW b \in BOOLEAN, BusStaysBusy(b)
      PROVE  IInv'
  BY <1>8, BusStaysBusyHolds
<1>9. ASSUME NEW b \in BOOLEAN, Collect(b)
      PROVE  IInv'
  BY <1>9, CollectHolds
<1>10. ASSUME NEW b \in BOOLEAN, Recover(b)
       PROVE  IInv'
  BY <1>10, RecoverHolds
<1> QED
  BY <1>1, <1>2, <1>3, <1>4, <1>5, <1>6, <1>7, <1>8, <1>9, <1>10 DEF Transfer

LEMMA Invariant == I2CSpec => []IInv
<1>1. I2CInit => IInv
  BY InitHolds
<1>2. IInv /\ [I2CNext]_i2cVars => IInv'
  <2> SUFFICES ASSUME IInv, [I2CNext]_i2cVars
               PROVE  IInv'
    OBVIOUS
  <2>1. ASSUME NEW m \in Transfers, Call(m)
        PROVE  IInv'
    BY <2>1, CallHolds
  <2>2. CASE Transfer
    BY <2>2, TransferHolds
  <2>3. CASE I2CInterruptHandler
    BY <2>3, HandlerHolds
  <2>4. CASE Controller
    BY <2>4, ControllerHolds
  <2>5. CASE UNCHANGED i2cVars
    BY <2>5, StutterHolds
  <2> QED
    BY <2>1, <2>2, <2>3, <2>4, <2>5 DEF I2CNext
<1> QED
  BY <1>1, <1>2, PTL DEF I2CSpec

\* The invariant explains every result.
LEMMA Explained ==
  ASSUME IInv
  PROVE  ResultExplained
<1>1. I2CTypeOK
  BY DEF IInv, Types, Devs, Controllers, I2CTypeOK
<1>2. MovesInOrder
  <2> SUFFICES ASSUME mishaps \subseteq {"busy"}, dev.msg # NULL
               PROVE  /\ Len(wire) <= Len(Expected)
                      /\ \A i \in 1 .. Len(wire) : wire[i] = Expected[i]
    BY DEF MovesInOrder
  <2>1. Under /\ Undisturbed
    BY DEF IInv, Places, Undisturbed
  <2>2. Messages
    BY <2>1, MessageNumber
  <2>3. Items \in Nat /\ Len(wire) \in Nat
    BY <2>2, ItemCount, Lengths DEF IInv, Types
  <2>4. InOrder
    <3>1. place = "address" => Len(wire) = 0
      BY DEF IInv, UnderWay
    <3> QED
      BY <2>1, <2>3, <3>1 DEF IInv, UnderWay, Under, InOrder
  <2> QED
    BY <2>2, <2>3, <2>4, ExpectedItems DEF InOrder
<1>3. TransferIsExplained /\ FailureIsExplained
  BY DEF IInv, Judged, Undisturbed, TransferIsExplained, FailureIsExplained
<1> QED
  BY <1>1, <1>2, <1>3 DEF ResultExplained

\* Whatever the controller and the device do, and however often a transfer is
\* repeated: while nothing goes wrong, the bytes of messages of any length go
\* over the bus in order, each once, and none beyond the end of a buffer;
\* success means that all were moved, unless the busy wait gave up or the
\* handler came into the unlocked call; a failure has a cause in its own attempt
\* (lines 137-270, 337-431).
THEOREM ResultTellsWhatMoved == I2CSpec => []ResultExplained
<1>1. I2CSpec => []IInv
  BY Invariant
<1>2. IInv => ResultExplained
  BY Explained
<1> QED
  BY <1>1, <1>2, PTL
=============================================================================
