----------------------------- MODULE SdCardProofs -----------------------------
(***************************************************************************)
(* That the card is brought up in order, that blocks go to their places    *)
(* and that a success is explained, for all cards, requests of any size and*)
(* any number of faults of the bus; and that the tables of partitions tell *)
(* what the modem has published, for tables of any sizes.                  *)
(***************************************************************************)
EXTENDS SdCard, Partitions, FiniteSetTheorems, WellFoundedInduction, TLAPS

USE SdAssumption

-----------------------------------------------------------------------------
(* The inductive invariant.                                                *)

Requests == [op : Ops \cup {"none", "scan"}, first : Nat, asked : Nat, done : Nat]

Types ==
  /\ card \in Cards
  /\ call \in Requests
  /\ mmc_dev \in [blksz : Nat, lba : Nat, ops : BOOLEAN]
  /\ media \in [BlockSize : Nat, LastBlock : Nat]
  /\ flags \subseteq DataErrors
  /\ result \in {"none", "SUCCESS", "DEVICE_ERROR", "BAD_BUFFER_SIZE", "INVALID_PARAMETER"}
  /\ faults \in 0 .. MaxFaults
  /\ receiving \in BOOLEAN /\ trouble \in BOOLEAN

Driven(speed) ==
  slot = [hclk |-> TRUE, mclk |-> speed, pins |-> PinsOf(SDC_INSTANCE), power |-> TRUE]

\* The clocks follow the steps of the identification, and block_read is set
\* only by its last step.
BroughtUp ==
  /\ stage \in {"identify", "select", "status"} => Driven("400KHz")
  /\ stage \in {"length", "first"} \/ mmc_dev.ops => Driven("25MHz")
  /\ stage \in {"start", "controller", "identify", "select", "status", "length", "first"} => ~mmc_dev.ops

\* From the search on the media are those of the card.
MediaAreTheCards ==
  /\ mmc_dev.ops => mmc_dev.blksz = card.mult /\ mmc_dev.lba = card.blocks
  /\ stage \in {"scan", "idle", "xfer"} \/ published =>
       mmc_dev.ops /\ media.BlockSize = mmc_dev.blksz /\ media.LastBlock = mmc_dev.lba

\* The search stays within its limit and the card; what it has found is published.
SearchIsBounded ==
  /\ stage = "scan" => call.op = "scan" /\ call.done <= ScanLimit /\ call.done <= media.LastBlock
  /\ published => stage \in {"idle", "xfer"} /\ card.mbr <= ScanLimit /\ card.mbr <= media.LastBlock

\* Where the first n blocks of the request belong.
Place(n) == {<<i, call.first + i>> : i \in {j \in 0 .. MaxSize : j < n}}

\* No request before the card is published.  While one is under way no block
\* beyond those done was moved, and no flag is left of the bus's errors.
RequestInPlace ==
  /\ stage \notin {"idle", "xfer"} => call.op \notin Ops /\ result = "none"
  /\ stage = "xfer" => /\ call.op \in Ops
                       /\ moved \subseteq Place(call.done)
                       /\ call.done > 0 => flags = {}
  /\ call.op # "scan" => call.done <= call.asked
  /\ call.op \in Ops => /\ call.asked <= MaxSize
                        /\ Place(call.done) \subseteq moved /\ moved \subseteq Place(call.done + 1)

IInv ==
  /\ Types /\ BroughtUp /\ MediaAreTheCards /\ SearchIsBounded /\ RequestInPlace
  /\ SuccessIsExplained

-----------------------------------------------------------------------------
(* What a block may leave behind.                                          *)

\* A block that goes well has its data moved and no flag set; one that does not
\* go well while no flag was set met an error.
Sound(o) ==
  /\ o.flags \subseteq DataErrors /\ o.receiving \in BOOLEAN /\ o.error \in BOOLEAN
  /\ o.ok => o.data /\ o.flags = {}
  /\ ~o.ok /\ flags = {} => o.error

LEMMA OutcomesAreSound ==
  ASSUME Types, NEW b \in Nat, NEW o \in read_a_block(b) \cup write_a_block(b)
  PROVE  Sound(o)
<1>1. flags \subseteq DataErrors /\ receiving \in BOOLEAN
  BY DEF Types
<1>2. Sound(Reported(NoAnswer)) /\ Sound(Faulty(NoAnswer))
  BY <1>1 DEF Sound, Reported, Faulty, NoAnswer, Outcome
<1>3. \A f \in DataErrors : Sound(Reported(DataError(f))) /\ Sound(Faulty(DataError(f)))
  BY <1>1 DEF Sound, Reported, Faulty, DataError, Outcome
<1>4. Sound(Checked(TRUE)) /\ Sound(Faulty([Checked(TRUE) EXCEPT !.ok = FALSE]))
  BY <1>1 DEF Sound, Faulty, Checked, Outcome
<1>5. flags # {} => Sound([NoAnswer EXCEPT !.receiving = b < CardSize])
  BY <1>1 DEF Sound, NoAnswer, Outcome
<1>6. CASE o \in read_a_block(b)
  BY <1>2, <1>3, <1>4, <1>6 DEF read_a_block, DataErrors
<1>7. CASE o \in write_a_block(b)
  BY <1>2, <1>3, <1>4, <1>5, <1>7 DEF write_a_block
<1> QED
  BY <1>6, <1>7

\* Its effect on the bus keeps the types.
LEMMA TakesFacts ==
  ASSUME Types, NEW b \in Nat, NEW o \in read_a_block(b) \cup write_a_block(b), Takes(o)
  PROVE  /\ flags' \subseteq DataErrors /\ receiving' \in BOOLEAN /\ trouble' \in BOOLEAN
         /\ faults' \in 0 .. MaxFaults
         /\ o.ok => o.data /\ flags' = {}
         /\ ~o.ok /\ flags = {} => trouble'
<1>1. Sound(o)
  BY OutcomesAreSound
<1>2. flags' \subseteq DataErrors /\ receiving' \in BOOLEAN /\ (o.ok => o.data /\ flags' = {})
  BY <1>1 DEF Sound, Takes
<1>3. trouble' \in BOOLEAN /\ (~o.ok /\ flags = {} => trouble')
  BY <1>1, Zenon DEF Sound, Takes, Types
<1>4. faults' \in 0 .. MaxFaults
  BY DEF Takes, Types, SdAssumption
<1> QED
  BY <1>2, <1>3, <1>4

-----------------------------------------------------------------------------
(* Bringing the card up.                                                   *)

LEMMA InitHolds ==
  ASSUME SdInit
  PROVE  IInv
<1>1. Types
  <2>1. call \in Requests /\ mmc_dev \in [blksz : Nat, lba : Nat, ops : BOOLEAN]
    BY DEF SdInit, Requests, NoCall
  <2>2. media \in [BlockSize : Nat, LastBlock : Nat]
    BY DEF SdInit
  <2>3. faults \in 0 .. MaxFaults
    BY DEF SdInit, SdAssumption
  <2> QED
    BY <2>1, <2>2, <2>3 DEF SdInit, Types
<1> QED
  BY <1>1 DEF SdInit, IInv, BroughtUp, MediaAreTheCards, SearchIsBounded, RequestInPlace,
              SuccessIsExplained, NoCall, Ops

\* The driver goes from one step of the identification to another, or gives up.
LEMMA IdentifyKeeps ==
  ASSUME IInv, stage \in {"start", "controller", "identify", "select", "status", "length"},
         stage' \in {"absent", "controller", "identify", "select", "status", "length", "first",
                     "publish", "hang"},
         stage' \in {"identify", "select", "status"} => Driven("400KHz")',
         stage' \in {"length", "first"} => Driven("25MHz")',
         flags' \subseteq DataErrors, faults' \in 0 .. MaxFaults,
         UNCHANGED <<card, device, call, receiving, trouble, result, moved>>
  PROVE  IInv'
<1>1. Types'
  BY DEF IInv, Types, device
<1>2. ~mmc_dev.ops /\ ~published
  BY DEF IInv, BroughtUp, MediaAreTheCards
<1>3. BroughtUp' /\ MediaAreTheCards' /\ SearchIsBounded'
  BY <1>2 DEF BroughtUp, MediaAreTheCards, SearchIsBounded, device
<1>4. call.op \notin Ops /\ result = "none" /\ (call.op # "scan" => call.done <= call.asked)
  BY DEF IInv, RequestInPlace
<1>5. RequestInPlace' /\ SuccessIsExplained'
  BY <1>4 DEF RequestInPlace, SuccessIsExplained
<1> QED
  BY <1>1, <1>3, <1>5 DEF IInv

LEMMA SlotStepKeeps ==
  ASSUME IInv, SdCardInitialize \/ SDCn_init
  PROVE  IInv'
<1>1. CASE SdCardInitialize
  BY <1>1, IdentifyKeeps DEF SdCardInitialize, Goto, bus, IInv, Types
<1>2. CASE SDCn_init
  BY <1>2, IdentifyKeeps DEF SDCn_init, Goto, IInv, Types, Driven, DetectionClock
<1> QED
  BY <1>1, <1>2

LEMMA CardStepKeeps ==
  ASSUME IInv,
         card_identification_selection \/ card_transfer_init \/ read_SD_status \/ card_set_block_size
  PROVE  IInv'
<1>1. flags \subseteq DataErrors /\ faults \in 0 .. MaxFaults /\ (Fault => faults' \in 0 .. MaxFaults)
  BY DEF IInv, Types, Fault, SdAssumption
<1>2. CASE card_identification_selection
  <2>1. Driven("400KHz") /\ slot' = slot /\ stage = "identify"
    BY <1>2 DEF IInv, BroughtUp, card_identification_selection
  <2> QED
    BY <1>1, <1>2, <2>1, IdentifyKeeps DEF card_identification_selection, Goto, Fails, Driven
<1>3. CASE card_transfer_init
  <2>1. Driven("400KHz") /\ slot' = slot /\ stage = "select"
    BY <1>3 DEF IInv, BroughtUp, card_transfer_init
  <2> QED
    BY <1>1, <1>3, <2>1, IdentifyKeeps DEF card_transfer_init, Goto, Fails, Driven
<1>4. CASE read_SD_status
  <2>1. Driven("400KHz") /\ stage = "status"
    BY <1>4 DEF IInv, BroughtUp, read_SD_status
  <2>2. stage' = "length" => Driven("25MHz")'
    BY <1>4, <2>1 DEF read_SD_status, Goto, Fails, Driven, SD_MCLK_set, DataClock
  <2>3. flags' \subseteq DataErrors /\ faults' \in 0 .. MaxFaults /\ stage' \in {"length", "publish"}
    BY <1>1, <1>4 DEF read_SD_status, Goto, Fails
  <2> QED
    BY <1>4, <2>1, <2>2, <2>3, IdentifyKeeps DEF read_SD_status
<1>5. CASE card_set_block_size
  <2>1. Driven("25MHz") /\ slot' = slot /\ stage = "length"
    BY <1>5 DEF IInv, BroughtUp, card_set_block_size
  <2> QED
    BY <1>1, <1>5, <2>1, IdentifyKeeps DEF card_set_block_size, Goto, Fails, Driven
<1> QED
  BY <1>2, <1>3, <1>4, <1>5

LEMMA ReadFirstBlockKeeps ==
  ASSUME IInv, ReadFirstBlock
  PROVE  IInv'
<1>1. PICK o \in read_a_block(0) :
        /\ Takes(o)
        /\ mmc_dev' = IF o.ok /\ card.known
                      THEN [blksz |-> card.mult, lba |-> card.blocks, ops |-> TRUE]
                      ELSE mmc_dev
  BY DEF ReadFirstBlock
<1>2. /\ stage = "first" /\ stage' = "publish"
      /\ UNCHANGED <<card, slot, media, published, call, result, moved>>
  BY DEF ReadFirstBlock, Goto
<1>3. ~mmc_dev.ops /\ Driven("25MHz") /\ ~published /\ call.op \notin Ops /\ result = "none"
  BY <1>2 DEF IInv, BroughtUp, MediaAreTheCards, RequestInPlace
<1>4. Types'
  <2>1. /\ flags' \subseteq DataErrors /\ receiving' \in BOOLEAN /\ trouble' \in BOOLEAN
        /\ faults' \in 0 .. MaxFaults
    BY <1>1, TakesFacts DEF IInv
  <2>2. card.mult \in Nat /\ card.blocks \in Nat
    BY DEF IInv, Types, SdAssumption
  <2> QED
    BY <1>1, <1>2, <2>1, <2>2 DEF IInv, Types
<1>5. BroughtUp'
  BY <1>2, <1>3 DEF BroughtUp, Driven
<1>6. MediaAreTheCards' /\ SearchIsBounded'
  BY <1>1, <1>2, <1>3 DEF MediaAreTheCards, SearchIsBounded
<1>7. RequestInPlace' /\ SuccessIsExplained'
  BY <1>2, <1>3 DEF IInv, RequestInPlace, SuccessIsExplained
<1> QED
  BY <1>4, <1>5, <1>6, <1>7 DEF IInv

-----------------------------------------------------------------------------
(* Publishing it.                                                          *)

LEMMA StartScanKeeps ==
  ASSUME IInv, StartScan
  PROVE  IInv'
<1>1. /\ stage = "publish" /\ stage' \in {"scan", "wild"} /\ (stage' = "scan" => mmc_dev.ops)
      /\ media' = [BlockSize |-> mmc_dev.blksz, LastBlock |-> mmc_dev.lba]
      /\ call' = [op |-> "scan", first |-> 0, asked |-> 0, done |-> 0]
      /\ UNCHANGED <<card, slot, mmc_dev, published, flags, receiving, trouble, faults, result, moved>>
  BY DEF StartScan, Goto, NoCall, bus
<1>2. ~published /\ result = "none"
  BY <1>1 DEF IInv, SearchIsBounded, RequestInPlace
<1>3. Types'
  BY <1>1 DEF IInv, Types, Requests
<1>4. BroughtUp' /\ MediaAreTheCards'
  BY <1>1, <1>2 DEF IInv, BroughtUp, MediaAreTheCards, Driven
<1>5. SearchIsBounded'
  BY <1>1, <1>2 DEF IInv, SearchIsBounded, Types, SdAssumption
<1>6. RequestInPlace' /\ SuccessIsExplained'
  BY <1>1, <1>2 DEF RequestInPlace, SuccessIsExplained, Ops
<1> QED
  BY <1>3, <1>4, <1>5, <1>6 DEF IInv

LEMMA ScanBlockKeeps ==
  ASSUME IInv, ScanBlock
  PROVE  IInv'
<1> DEFINE found(o) == o.ok /\ card.mbr = call.done
           last == call.done = media.LastBlock \/ call.done = ScanLimit
<1>0. call.done \in Nat /\ call \in Requests
  BY DEF IInv, Types, Requests
<1>1. PICK o \in read_a_block(call.done) :
        /\ Takes(o)
        /\ stage' = IF found(o) THEN "idle" ELSE IF last THEN "deadloop" ELSE "scan"
        /\ call' = IF found(o) \/ last THEN NoCall ELSE [call EXCEPT !.done = @ + 1]
  BY DEF ScanBlock, Goto, AfterScan
<1>2. /\ stage = "scan" /\ published' = (stage' = "idle")
      /\ UNCHANGED <<card, slot, mmc_dev, media, result, moved>>
  BY DEF ScanBlock
<1>3. /\ call.op = "scan" /\ call.done <= ScanLimit /\ call.done <= media.LastBlock
      /\ mmc_dev.ops /\ media.BlockSize = mmc_dev.blksz /\ media.LastBlock = mmc_dev.lba
      /\ result = "none"
  BY <1>2 DEF IInv, SearchIsBounded, MediaAreTheCards, RequestInPlace
<1>4. /\ call' \in Requests /\ call'.op \in {"none", "scan"}
      /\ call'.op = "none" => call'.done = call'.asked
      /\ stage' = "scan" => /\ call'.op = "scan" /\ call'.done = call.done + 1
                            /\ call.done # media.LastBlock /\ call.done # ScanLimit
      /\ stage' \in {"idle", "deadloop", "scan"} /\ (stage' = "idle" => card.mbr = call.done)
  BY <1>0, <1>1, <1>3 DEF NoCall, Requests
<1> HIDE DEF found, last
<1>5. published' <=> stage' = "idle"
  BY <1>2, Zenon
<1>6. Types'
  <2>1. /\ flags' \subseteq DataErrors /\ receiving' \in BOOLEAN /\ trouble' \in BOOLEAN
        /\ faults' \in 0 .. MaxFaults
    BY <1>0, <1>1, TakesFacts DEF IInv
  <2> QED
    BY <1>2, <1>4, <2>1 DEF IInv, Types
<1>7. BroughtUp' /\ MediaAreTheCards'
  BY <1>1, <1>2, <1>3 DEF IInv, BroughtUp, MediaAreTheCards, Driven
<1>8. SearchIsBounded'
  <2>1. ScanLimit \in Nat /\ media.LastBlock \in Nat
    BY DEF SdAssumption, IInv, Types
  <2>2. CASE stage' = "scan"
    <3>1. ~published' /\ media' = media
      BY <1>2, <1>5, <2>2
    <3>2. call.done + 1 <= ScanLimit /\ call.done + 1 <= media.LastBlock
      BY <1>0, <1>3, <1>4, <2>1, <2>2
    <3> QED
      BY <1>4, <2>2, <3>1, <3>2 DEF SearchIsBounded
  <2>3. CASE stage' = "idle"
    BY <1>2, <1>3, <1>4, <2>3 DEF SearchIsBounded
  <2>4. CASE stage' = "deadloop"
    BY <1>5, <2>4 DEF SearchIsBounded
  <2> QED
    BY <1>4, <2>2, <2>3, <2>4
<1>9. RequestInPlace' /\ SuccessIsExplained'
  <2>1. call'.op \notin Ops /\ result' = "none" /\ stage' # "xfer"
    BY <1>2, <1>3, <1>4 DEF Ops
  <2>2. call'.op # "scan" => call'.done <= call'.asked
    BY <1>4 DEF Requests
  <2> QED
    BY <2>1, <2>2 DEF RequestInPlace, SuccessIsExplained
<1> QED
  BY <1>6, <1>7, <1>8, <1>9 DEF IInv

-----------------------------------------------------------------------------
(* The requests.                                                           *)

\* Whole blocks of a request are no more than its size.
LEMMA WholeBlocks ==
  ASSUME NEW size \in Nat, NEW length \in Nat \ {0}
  PROVE  size \div length \in Nat /\ size \div length <= size
OBVIOUS

\* The places of no block, of one more, and of fewer.
LEMMA PlaceFacts ==
  ASSUME MaxSize \in Nat, NEW n \in Nat
  PROVE  /\ Place(0) = {}
         /\ Place(n) \subseteq Place(n + 1)
         /\ n < MaxSize => Place(n + 1) = Place(n) \cup {<<n, call.first + n>>}
         /\ n <= MaxSize => <<n, call.first + n>> \in Place(n + 1)
<1>1. {j \in 0 .. MaxSize : j < 0} = {}
  OBVIOUS
<1>2. {j \in 0 .. MaxSize : j < n} \subseteq {j \in 0 .. MaxSize : j < n + 1}
  OBVIOUS
<1>3. n <= MaxSize => {j \in 0 .. MaxSize : j < n + 1} = {j \in 0 .. MaxSize : j < n} \cup {n}
  OBVIOUS
<1> QED
  BY <1>1, <1>2, <1>3 DEF Place

LEMMA BlockIoKeeps ==
  ASSUME IInv, NEW op \in Ops, NEW lba \in 0 .. media.LastBlock,
         NEW size \in 0 .. MaxSize, NEW buffer \in BOOLEAN, BlockIo(op, lba, size, buffer)
  PROVE  IInv'
<1>1. /\ stage = "idle" /\ moved' = {} /\ trouble' = FALSE
      /\ UNCHANGED <<card, slot, device, flags, receiving, faults>>
      /\ \/ \E status \in {"BAD_BUFFER_SIZE", "INVALID_PARAMETER", "SUCCESS"} : Refused(status)
         \/ Accepted(op, lba, size)
  BY DEF BlockIo
<1>2. /\ media.BlockSize \in Nat \ {0} /\ media.LastBlock \in Nat /\ MaxSize \in Nat
      /\ mmc_dev.ops /\ media.BlockSize = mmc_dev.blksz /\ media.LastBlock = mmc_dev.lba
  BY <1>1 DEF IInv, MediaAreTheCards, Types, SdAssumption
<1>3. CASE \E status \in {"BAD_BUFFER_SIZE", "INVALID_PARAMETER", "SUCCESS"} : Refused(status)
  <2>1. /\ stage' = "idle" /\ result' \in {"BAD_BUFFER_SIZE", "INVALID_PARAMETER", "SUCCESS"}
        /\ call' = [op |-> "none", first |-> 0, asked |-> 0, done |-> 0]
    BY <1>1, <1>3 DEF Refused, NoCall
  <2>2. Types'
    BY <1>1, <2>1 DEF IInv, Types, device, Requests
  <2>3. BroughtUp' /\ MediaAreTheCards' /\ SearchIsBounded'
    BY <1>1, <2>1 DEF IInv, BroughtUp, MediaAreTheCards, SearchIsBounded, device, Driven
  <2>4. RequestInPlace' /\ SuccessIsExplained'
    BY <1>1, <2>1 DEF RequestInPlace, SuccessIsExplained, Ops
  <2> QED
    BY <2>2, <2>3, <2>4 DEF IInv
<1>4. CASE Accepted(op, lba, size)
  <2> DEFINE asked == size \div media.BlockSize
  <2>1. asked \in Nat /\ asked <= MaxSize /\ lba \in Nat
    <3>1. asked \in Nat /\ asked <= size
      BY <1>2, WholeBlocks
    <3> HIDE DEF asked
    <3> QED
      BY <1>2, <3>1
  <2>2. /\ stage' = "xfer" /\ result' = result
        /\ call' = [op |-> op, first |-> lba, asked |-> asked, done |-> 0]
    BY <1>4 DEF Accepted, Goto
  <2> HIDE DEF asked
  <2>3. Types'
    BY <1>1, <2>1, <2>2 DEF IInv, Types, device, Requests
  <2>4. BroughtUp' /\ MediaAreTheCards' /\ SearchIsBounded'
    BY <1>1, <2>2 DEF IInv, BroughtUp, MediaAreTheCards, SearchIsBounded, device, Driven
  <2>5. Place(0)' = {} /\ moved' \subseteq Place(0 + 1)'
    <3>1. {j \in 0 .. MaxSize : j < 0} = {}
      BY <1>2
    <3> QED
      BY <1>1, <3>1 DEF Place
  <2>6. RequestInPlace'
    BY <1>1, <2>1, <2>2, <2>5 DEF RequestInPlace
  <2>7. SuccessIsExplained'
    BY <2>2 DEF SuccessIsExplained
  <2> QED
    BY <2>3, <2>4, <2>6, <2>7 DEF IInv
<1> QED
  BY <1>1, <1>3, <1>4

\* What is left when a request comes to its end.
LEMMA ReturnKeeps ==
  ASSUME IInv, stage = "xfer", Return, UNCHANGED <<card, slot, device>>,
         flags' \subseteq DataErrors, faults' \in 0 .. MaxFaults,
         receiving' \in BOOLEAN, trouble' \in BOOLEAN,
         moved \subseteq moved', moved' \subseteq Place(call.done + 1),
         call.done > 0 => call.done = call.asked \/ trouble'
  PROVE  IInv'
<1>1. /\ stage' = "idle" /\ call' = call
      /\ result' = IF call.done > 0 THEN "SUCCESS" ELSE "DEVICE_ERROR"
  BY DEF Return, Goto, Status
<1>2. Types'
  BY <1>1 DEF IInv, Types, device
<1>3. BroughtUp' /\ MediaAreTheCards' /\ SearchIsBounded'
  BY <1>1 DEF IInv, BroughtUp, MediaAreTheCards, SearchIsBounded, device, Driven
<1>4. Place(call.done)' = Place(call.done) /\ Place(call.done + 1)' = Place(call.done + 1)
  BY <1>1 DEF Place
<1>5. RequestInPlace'
  BY <1>1, <1>4 DEF IInv, RequestInPlace
<1>6. SuccessIsExplained'
  BY <1>1 DEF SuccessIsExplained
<1> QED
  BY <1>2, <1>3, <1>5, <1>6 DEF IInv

LEMMA TransferBlockKeeps ==
  ASSUME IInv, TransferBlock
  PROVE  IInv'
<1> DEFINE this == <<call.done, Blknr>>
<1>1. /\ stage = "xfer" /\ call.done < call.asked /\ call \in Requests
      /\ UNCHANGED <<card, slot, device>>
  BY DEF TransferBlock, Unfinished, IInv, Types
<1>2. /\ call.op \in Ops /\ call.done \in Nat /\ call.asked \in Nat /\ call.first \in Nat
      /\ MaxSize \in Nat /\ call.asked <= MaxSize /\ Blknr \in Nat /\ Blknr = call.first + call.done
      /\ Place(call.done) \subseteq moved /\ moved \subseteq Place(call.done)
      /\ call.done > 0 => flags = {}
  BY <1>1 DEF IInv, RequestInPlace, Requests, Blknr, SdAssumption
<1>3. PICK o \in read_a_block(Blknr) \cup write_a_block(Blknr) :
        /\ Takes(o)
        /\ moved' = IF o.data THEN moved \cup {this} ELSE moved
        /\ IF o.ok THEN call' = NextCall /\ UNCHANGED <<stage, result>> ELSE Return
  <2>1. PICK o \in IF call.op = "read" THEN read_a_block(Blknr) ELSE write_a_block(Blknr) :
          /\ Takes(o)
          /\ moved' = IF o.data THEN moved \cup {this} ELSE moved
          /\ IF o.ok THEN call' = NextCall /\ UNCHANGED <<stage, result>> ELSE Return
    BY DEF TransferBlock
  <2>2. o \in read_a_block(Blknr) \cup write_a_block(Blknr)
    OBVIOUS
  <2> QED
    BY <2>1, <2>2
<1>4. /\ flags' \subseteq DataErrors /\ receiving' \in BOOLEAN /\ trouble' \in BOOLEAN
      /\ faults' \in 0 .. MaxFaults
      /\ o.ok => o.data /\ flags' = {}
      /\ ~o.ok /\ flags = {} => trouble'
  BY <1>2, <1>3, TakesFacts DEF IInv
<1>5. this \in Place(call.done + 1) /\ Place(call.done + 1) = Place(call.done) \cup {this}
  BY <1>1, <1>2, PlaceFacts
<1>6. CASE ~o.ok
  <2>1. Return
    BY <1>3, <1>6
  <2>2. moved \subseteq moved' /\ moved' \subseteq Place(call.done + 1)
    BY <1>2, <1>3, <1>5
  <2>3. call.done > 0 => trouble'
    BY <1>2, <1>4, <1>6
  <2> QED
    BY <1>1, <1>4, <2>1, <2>2, <2>3, ReturnKeeps
<1>7. CASE o.ok
  <2>1. /\ call' = [call EXCEPT !.done = call.done + 1] /\ stage' = "xfer" /\ result' = result
        /\ moved' = moved \cup {this} /\ flags' = {}
    BY <1>1, <1>3, <1>4, <1>7 DEF NextCall
  <2>2. /\ call' \in Requests /\ call'.op = call.op /\ call'.first = call.first
        /\ call'.asked = call.asked /\ call'.done = call.done + 1
    BY <1>1, <1>2, <2>1 DEF Requests
  <2>3. Types'
    BY <1>1, <1>4, <2>1, <2>2 DEF IInv, Types, device
  <2>4. BroughtUp' /\ MediaAreTheCards' /\ SearchIsBounded'
    BY <1>1, <2>1 DEF IInv, BroughtUp, MediaAreTheCards, SearchIsBounded, device, Driven
  <2>5. Place(call.done + 1)' = Place(call.done + 1 + 1) /\ Place(call.done)' = Place(call.done + 1)
    BY <2>2 DEF Place
  <2>6. moved' = Place(call.done)' /\ moved' \subseteq Place(call.done + 1)'
    <3>1. moved' = Place(call.done + 1)
      BY <1>2, <1>5, <2>1
    <3>2. Place(call.done + 1) \subseteq Place(call.done + 1 + 1)
      <4>1. call.done + 1 \in Nat
        BY <1>2
      <4> QED
        BY <1>2, <4>1, PlaceFacts
    <3> QED
      BY <2>5, <3>1, <3>2
  <2>7. RequestInPlace'
    BY <1>1, <1>2, <2>1, <2>2, <2>6 DEF RequestInPlace
  <2>8. SuccessIsExplained'
    BY <2>1 DEF SuccessIsExplained
  <2> QED
    BY <2>3, <2>4, <2>7, <2>8 DEF IInv
<1> QED
  BY <1>6, <1>7

LEMMA EndTransferKeeps ==
  ASSUME IInv, EndTransfer
  PROVE  IInv'
<1>1. /\ stage = "xfer" /\ ~(call.done < call.asked) /\ Return
      /\ UNCHANGED <<card, slot, device, bus, moved>> /\ call \in Requests
  BY DEF EndTransfer, Unfinished, IInv, Types
<1>2. call.done <= call.asked /\ call.op \in Ops /\ moved \subseteq Place(call.done + 1)
  BY <1>1 DEF IInv, RequestInPlace, Ops
<1>3. call.done = call.asked
  BY <1>1, <1>2 DEF Requests
<1> QED
  BY <1>1, <1>2, <1>3, ReturnKeeps DEF bus, IInv, Types

-----------------------------------------------------------------------------

LEMMA StepKeeps ==
  ASSUME IInv, [SdNext]_sdVars
  PROVE  IInv'
<1>1. CASE UNCHANGED sdVars
  <2>1. Types'
    BY <1>1 DEF IInv, Types, sdVars
  <2>2. BroughtUp' /\ MediaAreTheCards' /\ SearchIsBounded'
    BY <1>1 DEF IInv, BroughtUp, MediaAreTheCards, SearchIsBounded, Driven, sdVars
  <2>3. RequestInPlace' /\ SuccessIsExplained'
    BY <1>1 DEF IInv, RequestInPlace, SuccessIsExplained, Place, sdVars
  <2> QED
    BY <2>1, <2>2, <2>3 DEF IInv
<1>2. CASE Driver
  BY <1>2, SlotStepKeeps, CardStepKeeps, ReadFirstBlockKeeps, StartScanKeeps, ScanBlockKeeps,
     TransferBlockKeeps, EndTransferKeeps DEF Driver
<1>3. CASE Client
  BY <1>3, BlockIoKeeps DEF Client
<1> QED
  BY <1>1, <1>2, <1>3 DEF SdNext

LEMMA Invariant == SdSpec => []IInv
<1>1. SdInit => IInv
  BY InitHolds
<1>2. IInv /\ [SdNext]_sdVars => IInv'
  BY StepKeeps
<1> QED
  BY <1>1, <1>2, PTL DEF SdSpec

\* The card is asked who it is in a powered slot at 400 kHz and is published only
\* at the speed of data, brought up and with its partition table read
\* (mmc_legacy_init, lines 250-296; SdCardInitialize).
THEOREM CardIsReady == SdSpec => []CardReady
<1>1. IInv => CardReady
  <2> SUFFICES ASSUME IInv
               PROVE  CardReady
    OBVIOUS
  <2>1. SdTypeOK
    BY DEF IInv, Types, RequestInPlace, SdTypeOK, Requests
  <2>2. SlotFitsCard
    BY DEF IInv, BroughtUp, MediaAreTheCards, SlotFitsCard, Driven
  <2>3. PublishedMeansReady
    BY DEF IInv, MediaAreTheCards, SearchIsBounded, PublishedMeansReady
  <2> QED
    BY <2>1, <2>2, <2>3 DEF CardReady
<1> QED
  BY <1>1, Invariant, PTL

\* The blocks that count as done are those that were asked for, each at its place
\* of the buffer, whatever the flags of the bus were before.
THEOREM BlocksInPlace == SdSpec => []TransfersInPlace
<1>1. IInv => TransfersInPlace
  BY DEF IInv, RequestInPlace, TransfersInPlace, Place
<1> QED
  BY <1>1, Invariant, PTL

\* A request that succeeds has moved all it was asked to, or some and met an error.
THEOREM SuccessHasAReason == SdSpec => []SuccessIsExplained
<1>1. IInv => SuccessIsExplained
  BY DEF IInv
<1> QED
  BY <1>1, Invariant, PTL

-----------------------------------------------------------------------------
(* The tables of partitions.                                               *)

Header == [magic : BOOLEAN, version : Nat, len : Nat, parts : [1..PartsV4 -> Partition]]
EntryOf == [version : Nat, magic : BOOLEAN, parts : Seq(Partition), size : Nat,
            header : BOOLEAN, filled : BOOLEAN, allocated : BOOLEAN]

PartTypes ==
  /\ smem \in [Entries -> EntryOf]
  /\ partPc \in {"idle", "table", "ram", "assert"}
  /\ smem_ptable \in Header /\ ram \in Header
  /\ untouched \in BOOLEAN /\ clean \in BOOLEAN /\ ramLoaded \in BOOLEAN

\* An entry is allocated when it is written, and is not written again.
Ordered ==
  /\ \A e \in Entries : (smem[e].allocated => smem[e].filled) /\ (smem[e].filled => smem[e].header)
  /\ Length("ram") <= PartsV4

AppsStart == StartIn(Published, Length("flash"), NoStart)

\* The header of the copy is the modem's.
HeaderIsTheirs ==
  IF smem_ptable.magic
  THEN /\ smem["flash"].allocated /\ smem["flash"].magic
       /\ smem_ptable.version = smem["flash"].version /\ smem_ptable.len = Length("flash")
       /\ partPc # "assert" => Length("flash") <= PartsV4
  ELSE partPc # "table" /\ smem_ptable.parts = NoTable.parts /\ appsStart = NoStart

\* So are its partitions, until they are taken apart.
CopyIsTheirs ==
  smem_ptable.magic /\ partPc # "assert" =>
    /\ \A i \in 1..PartsV4 : i > PartsOf(smem["flash"].version) => smem_ptable.parts[i] = Unnamed
    /\ appsStart \in {NoStart, AppsStart}
    /\ partPc \in {"idle", "ram"} => appsStart = AppsStart /\ (untouched => smem_ptable.parts = Published)

\* The caller's table is a number of copies of the modem's, one after the other.
Copies(s, t) ==
  /\ \E k \in Nat : Len(s) = Len(t) * k
  /\ \A i \in 1..Len(s) : s[i] = t[((i - 1) % Len(t)) + 1]

TableIsTheirs ==
  /\ flash \in Seq(Range(flash))
  /\ flash # <<>> => smem_ptable.magic
  /\ clean => flash = <<>> \/ Copies(flash, Wanted)

RamIsTheirs ==
  ramLoaded => /\ smem["ram"].allocated /\ ram.len = Length("ram")
               /\ \A i \in 1..ram.len : ram.parts[i] = smem["ram"].parts[i]

PartInv == PartTypes /\ Ordered /\ HeaderIsTheirs /\ CopyIsTheirs /\ TableIsTheirs /\ RamIsTheirs

LEMMA LowestExists ==
  ASSUME NEW S \in SUBSET Nat, S # {}
  PROVE  \E i \in S : \A j \in S : i <= j
<1>1. PICK x \in S : \A y \in S : ~ (<<y, x>> \in OpToRel(<, Nat))
  BY NatLessThanWellFounded, WFMin
<1>2. \A y \in S : y \in Nat /\ x \in Nat
  OBVIOUS
<1>3. \A y \in S : ~ (y < x)
  BY <1>1, <1>2, Zenon DEF OpToRel
<1> QED
  BY <1>2, <1>3

LEMMA TablesAre ==
  ASSUME NEW e \in Entries, NEW t \in Tables(e)
  PROVE  /\ t.version \in Nat /\ t.magic \in BOOLEAN /\ t.size \in Nat /\ t.parts \in Seq(Partition)
         /\ e = "ram" => Len(t.parts) <= PartsV4
  BY PartitionsAssumption DEF Tables, Entries

LEMMA UnnamedIs == Unnamed \in Partition /\ Unnamed.name = <<>>
<1>1. <<>> \in Seq(STRING)
  OBVIOUS
<1>2. Unnamed.name = <<>> /\ Unnamed.start = 0 /\ Unnamed.kind = "none"
  BY DEF Unnamed
<1>3. Unnamed \in [name : Seq(STRING), start : Nat, kind : {"system", "none"}]
  BY <1>1 DEF Unnamed
<1> QED
  BY <1>2, <1>3 DEF Partition

LEMMA PartIs ==
  ASSUME PartTypes, NEW e \in Entries, NEW i \in Nat \ {0}
  PROVE  Part(e, i) \in Partition /\ Length(e) \in Nat
<1>1. smem[e] \in EntryOf
  BY DEF PartTypes
<1>2. smem[e].parts \in Seq(Partition)
  BY <1>1 DEF EntryOf
<1>3. Length(e) \in Nat
  BY <1>2 DEF Length
<1> QED
  BY <1>2, <1>3, UnnamedIs DEF Part, Length

LEMMA TakenApartIs ==
  ASSUME NEW p \in Partition
  PROVE  TakenApart(p) \in Partition /\ TakenApart(Unnamed) = Unnamed
<1>1. TakenApart(Unnamed) = Unnamed
  BY UnnamedIs DEF TakenApart
<1>2. CASE p.name = <<>>
  BY <1>1, <1>2 DEF TakenApart
<1>3. CASE p.name # <<>>
  <2>1. p.name \in Seq(STRING)
    BY DEF Partition
  <2>2. p.name[1] \in STRING
    BY <1>3, <2>1
  <2>3. <<p.name[1]>> \in Seq(STRING)
    BY <2>2
  <2>4. [p EXCEPT !.name = <<p.name[1]>>] \in Partition
    BY <2>3 DEF Partition
  <2> QED
    BY <1>1, <1>3, <2>4 DEF TakenApart
<1> QED
  BY <1>2, <1>3

\* The list that a table makes is a sequence.
LEMMA ListIs ==
  ASSUME NEW parts, NEW len \in Nat
  PROVE  Listed(parts, len) \in Seq(Range(Listed(parts, len)))
<1> DEFINE named == {i \in 1..len : parts[i].name # <<>>}
           n == Cardinality(named)
           list == Listed(parts, len)
<1>1. IsFiniteSet(1..len)
  BY FS_Interval
<1>2. n \in Nat
  BY <1>1, FS_Subset, FS_CardinalityType
<1> DEFINE place == CHOOSE f \in [1..n -> named] : \A i, j \in DOMAIN f : i < j => f[i] < f[j]
<1>3. list = [i \in 1..n |-> PtableAdd(parts[place[i]])]
  BY DEF Listed
<1> HIDE DEF named, n, place
<1>4. DOMAIN list = 1..n /\ list = [i \in 1..n |-> list[i]]
  BY <1>3
<1> HIDE DEF list
<1>5. list \in [1..n -> Range(list)]
  BY <1>4 DEF Range
<1>6. list \in Seq(Range(list))
  BY <1>2, <1>5
<1> QED
  BY <1>6 DEF list

\* One more copy of t.
LEMMA RemainderIs ==
  ASSUME NEW n \in Nat, NEW k \in Nat, NEW r \in 0..n - 1
  PROVE  (n * k + r) % n = r
<1> DEFINE x == n * k + r
           q == x \div n
<1>1. n > 0 /\ n * k \in Nat /\ x \in Nat
  OBVIOUS
<1> HIDE DEF x
<1>2. x % n \in 0..n - 1 /\ x = n * q + (x % n) /\ q \in Nat
  BY <1>1
<1>3. x = n * k + r
  BY DEF x
<1> HIDE DEF q
<1>4. CASE q < k
  <2>1. n * (q + 1) <= n * k /\ n * (q + 1) = n * q + n
    BY <1>1, <1>2, <1>4
  <2> QED
    BY <1>1, <1>2, <1>3, <2>1
<1>5. CASE k < q
  <2>1. n * (k + 1) <= n * q /\ n * (k + 1) = n * k + n
    BY <1>1, <1>2, <1>5
  <2> QED
    BY <1>1, <1>2, <1>3, <2>1
<1>6. CASE q = k
  <2>1. x % n = r
    BY <1>1, <1>2, <1>3, <1>6
  <2> QED
    BY <2>1 DEF x
<1> QED
  BY <1>2, <1>4, <1>5, <1>6

LEMMA OneMore ==
  ASSUME NEW S, NEW t \in Seq(S), NEW R, NEW s \in Seq(R), s = <<>> \/ Copies(s, t)
  PROVE  Copies(s \o t, t)
<1> DEFINE n == Len(t)
           u == s \o t
<1>1. PICK k \in Nat : Len(s) = n * k
  <2>1. CASE s = <<>>
    <3>1. Len(s) = n * 0
      BY <2>1
    <3> QED
      BY <3>1
  <2> QED
    BY <2>1 DEF Copies
<1>2. \A i \in 1..Len(s) : s[i] = t[((i - 1) % n) + 1]
  BY DEF Copies
<1>3. n \in Nat /\ Len(s) \in Nat /\ Len(u) = Len(s) + n
      /\ \A i \in 1..Len(s) + n : u[i] = IF i <= Len(s) THEN s[i] ELSE t[i - Len(s)]
  OBVIOUS
<1> HIDE DEF n, u
<1>4. Len(u) = n * (k + 1)
  BY <1>1, <1>3
<1>5. ASSUME NEW i \in 1..Len(u) PROVE u[i] = t[((i - 1) % n) + 1]
  <2>1. CASE i <= Len(s)
    <3>1. i \in 1..Len(s) /\ u[i] = s[i]
      BY <1>3, <2>1
    <3> QED
      BY <1>2, <3>1
  <2>2. CASE i > Len(s)
    <3> DEFINE r == i - Len(s) - 1
    <3>1. r \in 0..n - 1 /\ i - 1 = n * k + r /\ u[i] = t[r + 1]
      BY <1>1, <1>3, <2>2
    <3> HIDE DEF r
    <3>2. (n * k + r) % n = r
      BY <1>3, <3>1, RemainderIs
    <3>3. (i - 1) % n = r
      BY <3>1, <3>2
    <3> QED
      BY <3>1, <3>3
  <2> QED
    BY <2>1, <2>2, <1>3
<1>6. \A i \in 1..Len(u) : u[i] = t[((i - 1) % n) + 1]
  BY <1>5
<1>7. k + 1 \in Nat
  OBVIOUS
<1> QED
  BY <1>4, <1>6, <1>7, Zenon DEF Copies, n, u

LEMMA JoinedIs ==
  ASSUME NEW R, NEW S, NEW s \in Seq(R), NEW t \in Seq(S)
  PROVE  s \o t \in Seq(Range(s \o t))
<1> DEFINE u == s \o t
<1>1. u \in Seq(R \cup S)
  OBVIOUS
<1> HIDE DEF u
<1>2. Len(u) \in Nat /\ DOMAIN u = 1..Len(u) /\ u = [i \in 1..Len(u) |-> u[i]]
  BY <1>1
<1>3. u \in [1..Len(u) -> Range(u)]
  BY <1>2 DEF Range
<1>4. u \in Seq(Range(u))
  BY <1>2, <1>3
<1> QED
  BY <1>4 DEF u

LEMMA PartInitIs == PartInit => PartInv
<1> SUFFICES ASSUME PartInit PROVE PartInv
  OBVIOUS
<1>1. Blank \in EntryOf /\ ~Blank.allocated /\ ~Blank.filled /\ Len(Blank.parts) = 0
  BY DEF Blank, EntryOf
<1>2. NoTable \in Header /\ ~NoTable.magic
  BY UnnamedIs DEF NoTable, Header
<1>3. \A e \in Entries : smem[e] = Blank
  BY DEF PartInit
<1>4. PartTypes
  BY <1>1, <1>2 DEF PartInit, PartTypes
<1>5. PartsV4 \in Nat /\ "ram" \in Entries
  BY PartitionsAssumption DEF Entries
<1>6. Ordered
  BY <1>1, <1>3, <1>5 DEF Ordered, Length
<1>7. HeaderIsTheirs /\ CopyIsTheirs /\ RamIsTheirs
  BY <1>2 DEF PartInit, HeaderIsTheirs, CopyIsTheirs, RamIsTheirs
<1>8. <<>> \in Seq(Range(<<>>))
  OBVIOUS
<1>9. TableIsTheirs
  BY <1>8 DEF PartInit, TableIsTheirs
<1> QED
  BY <1>4, <1>6, <1>7, <1>9 DEF PartInv

LEMMA FlashStays ==
  ASSUME smem'["flash"] = smem["flash"]
  PROVE  Published' = Published /\ Length("flash")' = Length("flash") /\ Wanted' = Wanted /\ AppsStart' = AppsStart
<1>1. Length("flash")' = Length("flash")
  BY DEF Length
<1>2. Published' = Published
  BY <1>1 DEF Published
<1> QED
  BY <1>1, <1>2 DEF Wanted, AppsStart

LEMMA ModemKeeps ==
  ASSUME PartInv, NEW e \in Entries, Modem(e)
  PROVE  PartInv'
<1> USE DEF PartInv
<1>1. /\ \A d \in Entries \ {e} : smem'[d] = smem[d]
      /\ \/ ~smem[e].header /\ \E t \in Tables(e) : smem'[e] =
              [version |-> t.version, magic |-> t.magic, parts |-> t.parts, size |-> t.size,
               header |-> TRUE, filled |-> FALSE, allocated |-> FALSE]
         \/ smem[e].header /\ ~smem[e].filled /\ smem'[e] = [smem[e] EXCEPT !.filled = TRUE]
         \/ smem[e].filled /\ ~smem[e].allocated /\ smem'[e] = [smem[e] EXCEPT !.allocated = TRUE]
      /\ smem' = [d \in Entries |-> smem'[d]]
      /\ UNCHANGED <<partPc, flashVars, ramVars>>
  BY DEF PartTypes, Modem
<1>2. \A d \in Entries : smem[d] \in EntryOf
  BY DEF PartTypes
<1>3. /\ smem'[e] \in EntryOf
      /\ (smem'[e].allocated => smem'[e].filled) /\ (smem'[e].filled => smem'[e].header)
      /\ smem'[e].parts # smem[e].parts => \E t \in Tables(e) : smem'[e].parts = t.parts
  <2>1. smem[e] \in EntryOf /\ (smem[e].allocated => smem[e].filled) /\ (smem[e].filled => smem[e].header)
    BY <1>2 DEF Ordered
  <2>2. CASE \E t \in Tables(e) : smem'[e] =
              [version |-> t.version, magic |-> t.magic, parts |-> t.parts, size |-> t.size,
               header |-> TRUE, filled |-> FALSE, allocated |-> FALSE]
    BY <2>2, TablesAre DEF EntryOf
  <2>3. CASE smem[e].header /\ smem'[e] = [smem[e] EXCEPT !.filled = TRUE]
    BY <2>1, <2>3 DEF EntryOf
  <2>4. CASE smem[e].filled /\ smem'[e] = [smem[e] EXCEPT !.allocated = TRUE]
    BY <2>1, <2>4 DEF EntryOf
  <2> QED
    BY <1>1, <2>2, <2>3, <2>4
<1>4. ~smem[e].allocated
  BY <1>1 DEF Ordered
<1>5. PartTypes'
  <2>1. \A d \in Entries : smem'[d] \in EntryOf
    BY <1>1, <1>2, <1>3
  <2>2. smem' \in [Entries -> EntryOf]
    BY <1>1, <2>1
  <2> QED
    BY <1>1, <2>2 DEF PartTypes, flashVars, ramVars
<1>6. Ordered'
  <2>1. \A d \in Entries : (smem'[d].allocated => smem'[d].filled) /\ (smem'[d].filled => smem'[d].header)
    BY <1>1, <1>3 DEF Ordered
  <2>2. Length("ram")' <= PartsV4
    <3>1. CASE smem'["ram"].parts = smem["ram"].parts
      BY <3>1 DEF Ordered, Length
    <3>2. CASE smem'["ram"].parts # smem["ram"].parts
      <4>1. e = "ram"
        BY <1>1, <3>2 DEF Entries
      <4>2. PICK t \in Tables(e) : smem'[e].parts = t.parts
        BY <1>3, <3>2, <4>1
      <4> QED
        BY <4>1, <4>2, TablesAre DEF Length
    <3> QED
      BY <3>1, <3>2
  <2> QED
    BY <2>1, <2>2 DEF Ordered
<1>7. CASE e = "flash"
  <2>1. ~smem_ptable.magic /\ flash = <<>>
    BY <1>4, <1>7 DEF HeaderIsTheirs, TableIsTheirs
  <2>2. HeaderIsTheirs' /\ CopyIsTheirs'
    BY <1>1, <2>1 DEF HeaderIsTheirs, CopyIsTheirs, flashVars, NoTable
  <2>3. TableIsTheirs'
    BY <1>1, <2>1 DEF TableIsTheirs, flashVars
  <2>4. smem'["ram"] = smem["ram"]
    BY <1>1, <1>7 DEF Entries
  <2>5. RamIsTheirs'
    BY <1>1, <2>4 DEF RamIsTheirs, Length, ramVars
  <2> QED
    BY <1>5, <1>6, <2>2, <2>3, <2>5
<1>8. CASE e = "ram"
  <2>1. smem'["flash"] = smem["flash"]
    BY <1>1, <1>8 DEF Entries
  <2>2. Published' = Published /\ Length("flash")' = Length("flash") /\ Wanted' = Wanted /\ AppsStart' = AppsStart
    BY <2>1, FlashStays
  <2>3. HeaderIsTheirs' /\ CopyIsTheirs'
    BY <1>1, <2>1, <2>2 DEF HeaderIsTheirs, CopyIsTheirs, flashVars, NoTable
  <2>4. TableIsTheirs'
    BY <1>1, <2>2 DEF TableIsTheirs, flashVars
  <2>5. RamIsTheirs'
    BY <1>1, <1>4, <1>8 DEF RamIsTheirs, ramVars
  <2> QED
    BY <1>5, <1>6, <2>3, <2>4, <2>5
<1> QED
  BY <1>7, <1>8 DEF Entries

LEMMA CopyIs ==
  ASSUME PartTypes
  PROVE  /\ smem["flash"] \in EntryOf /\ smem["ram"] \in EntryOf
         /\ Length("flash") \in Nat /\ Length("ram") \in Nat
         /\ smem_ptable = [magic |-> smem_ptable.magic, version |-> smem_ptable.version,
                           len |-> smem_ptable.len, parts |-> smem_ptable.parts]
         /\ smem_ptable.parts \in [1..PartsV4 -> Partition]
         /\ smem_ptable.magic \in BOOLEAN /\ smem_ptable.version \in Nat /\ smem_ptable.len \in Nat
<1>1. "flash" \in Entries /\ "ram" \in Entries
  BY DEF Entries
<1>2. smem["flash"] \in EntryOf /\ smem["ram"] \in EntryOf /\ smem_ptable \in Header
  BY <1>1 DEF PartTypes
<1>3. smem["flash"].parts \in Seq(Partition) /\ smem["ram"].parts \in Seq(Partition)
  BY <1>2 DEF EntryOf
<1>4. Length("flash") \in Nat /\ Length("ram") \in Nat
  BY <1>3 DEF Length
<1> QED
  BY <1>2, <1>4 DEF Header

LEMMA InitHeaderKeeps ==
  ASSUME PartInv, InitHeader
  PROVE  PartInv'
<1> USE DEF PartInv
<1>1. PartTypes /\ partPc = "idle" /\ UNCHANGED <<smem, appsStart, flash, untouched, clean, ramVars>>
  BY DEF InitHeader
<1>2. Published' = Published /\ Length("flash")' = Length("flash") /\ Wanted' = Wanted /\ AppsStart' = AppsStart
      /\ Length("ram")' = Length("ram")
  BY <1>1, FlashStays DEF Length
<1>3. Ordered'
  BY <1>1, <1>2 DEF Ordered
<1>4. RamIsTheirs'
  BY <1>1, <1>2 DEF RamIsTheirs, ramVars
<1>5. CASE ~smem["flash"].allocated
  <2>1. UNCHANGED <<partPc, smem_ptable>>
    BY <1>5 DEF InitHeader, ReadHeader, Readable
  <2>2. PartTypes'
    BY <1>1, <2>1 DEF PartTypes, ramVars
  <2>3. HeaderIsTheirs' /\ CopyIsTheirs' /\ TableIsTheirs'
    BY <1>1, <1>2, <2>1 DEF HeaderIsTheirs, CopyIsTheirs, TableIsTheirs, NoTable
  <2> QED
    BY <1>3, <1>4, <2>2, <2>3
<1>6. CASE smem["flash"].allocated
  <2>1. /\ smem["flash"].magic \in BOOLEAN /\ smem["flash"].version \in Nat /\ Length("flash") \in Nat
        /\ smem_ptable.parts \in [1..PartsV4 -> Partition]
        /\ smem_ptable' = [magic |-> smem["flash"].magic, version |-> smem["flash"].version,
                           len |-> Length("flash"), parts |-> smem_ptable.parts]
    BY <1>1, <1>6, CopyIs DEF EntryOf, InitHeader, ReadHeader, Readable
  <2>2. IF ~smem["flash"].magic THEN UNCHANGED partPc
        ELSE IF Length("flash") > PartsV4 \/ smem["flash"].version > 4 THEN Dead ELSE partPc' = "table"
    BY <1>6 DEF InitHeader, ReadHeader, Readable
  <2>3. smem_ptable' \in Header /\ partPc' \in {"idle", "table", "assert"}
    BY <1>1, <2>1, <2>2 DEF Header, Dead
  <2>4. PartTypes'
    BY <1>1, <2>3 DEF PartTypes, ramVars
  <2>5. smem_ptable.magic => smem["flash"].magic
    BY DEF HeaderIsTheirs
  <2>6. HeaderIsTheirs'
    <3>1. CASE smem["flash"].magic
      BY <1>1, <1>2, <1>6, <2>1, <2>2, <3>1, PartitionsAssumption DEF HeaderIsTheirs, Dead
    <3>2. CASE ~smem["flash"].magic
      BY <1>1, <2>1, <2>2, <2>5, <3>2 DEF HeaderIsTheirs, NoTable
    <3> QED
      BY <3>1, <3>2
  <2>7. CopyIsTheirs'
    <3>1. CASE ~smem["flash"].magic
      BY <2>1, <3>1 DEF CopyIsTheirs
    <3>2. CASE smem["flash"].magic
      <4>1. partPc' \in {"table", "assert"}
        BY <2>2, <3>2 DEF Dead
      <4>2. CASE smem_ptable.magic
        BY <1>1, <1>2, <2>1, <4>1, <4>2 DEF CopyIsTheirs
      <4>3. CASE ~smem_ptable.magic
        BY <1>1, <1>2, <2>1, <4>1, <4>3 DEF HeaderIsTheirs, CopyIsTheirs, NoTable
      <4> QED
        BY <4>2, <4>3
    <3> QED
      BY <3>1, <3>2
  <2>8. TableIsTheirs'
    BY <1>1, <1>2, <2>1, <2>5 DEF TableIsTheirs
  <2> QED
    BY <1>3, <1>4, <2>4, <2>6, <2>7, <2>8
<1> QED
  BY <1>5, <1>6

LEMMA InitTableKeeps ==
  ASSUME PartInv, InitTable
  PROVE  PartInv'
<1> USE DEF PartInv
<1>1. PartTypes /\ partPc = "table" /\ UNCHANGED <<smem, flash, clean, ramVars>>
  BY DEF InitTable
<1>2. Published' = Published /\ Length("flash")' = Length("flash") /\ Wanted' = Wanted /\ AppsStart' = AppsStart
      /\ Length("ram")' = Length("ram")
  BY <1>1, FlashStays DEF Length
<1>3. Ordered'
  BY <1>1, <1>2 DEF Ordered
<1>4. RamIsTheirs'
  BY <1>1, <1>2 DEF RamIsTheirs, ramVars
<1>5. /\ smem_ptable.magic /\ smem["flash"].allocated /\ smem["flash"].magic /\ smem["flash"].filled
      /\ smem_ptable.version = smem["flash"].version /\ smem_ptable.len = Length("flash") /\ Length("flash") <= PartsV4
      /\ \A i \in 1..PartsV4 : i > PartsOf(smem["flash"].version) => smem_ptable.parts[i] = Unnamed
      /\ appsStart \in {NoStart, AppsStart}
  BY <1>1 DEF HeaderIsTheirs, CopyIsTheirs, Ordered, Entries
<1>6. CASE ~ReadEntry("flash", PartsOf(smem_ptable.version))
  <2>1. partPc' = "assert" /\ UNCHANGED <<smem_ptable, appsStart, untouched>>
    BY <1>6 DEF InitTable, Dead
  <2>2. PartTypes'
    BY <1>1, <2>1 DEF PartTypes, ramVars
  <2>3. HeaderIsTheirs' /\ CopyIsTheirs' /\ TableIsTheirs'
    BY <1>1, <1>2, <1>5, <2>1 DEF HeaderIsTheirs, CopyIsTheirs, TableIsTheirs
  <2> QED
    BY <1>3, <1>4, <2>2, <2>3
<1>7. CASE ReadEntry("flash", PartsOf(smem_ptable.version))
  <2> DEFINE new == [i \in 1..PartsV4 |-> IF i <= PartsOf(smem_ptable.version) THEN Part("flash", i) ELSE smem_ptable.parts[i]]
  <2>1. /\ smem_ptable' = [magic |-> TRUE, version |-> smem["flash"].version, len |-> Length("flash"), parts |-> new]
        /\ appsStart' = StartIn(smem_ptable'.parts, smem_ptable'.len, appsStart)
        /\ partPc' = "idle" /\ untouched' = TRUE
    BY <1>1, <1>5, <1>7, CopyIs DEF InitTable
  <2>2. new = Published
    <3>1. PartsOf(smem["flash"].version) \in Nat /\ Length("flash") \in Nat
      BY <1>1, CopyIs, PartitionsAssumption DEF PartsOf
    <3> QED
      BY <1>5, <3>1 DEF Part, Published
  <2>3. new \in [1..PartsV4 -> Partition]
    <3>1. \A i \in 1..PartsV4 : Part("flash", i) \in Partition
      BY <1>1, PartIs, PartitionsAssumption DEF Entries
    <3> QED
      BY <1>1, <3>1, CopyIs
  <2> HIDE DEF new
  <2>4. smem_ptable' \in Header
    BY <1>1, <2>1, <2>3, CopyIs DEF EntryOf, Header
  <2>5. PartTypes'
    BY <1>1, <2>1, <2>4 DEF PartTypes, ramVars
  <2>6. appsStart' = AppsStart
    <3>1. appsStart' = StartIn(Published, Length("flash"), appsStart)
      BY <2>1, <2>2
    <3>2. CASE appsStart = NoStart
      BY <3>1, <3>2 DEF AppsStart
    <3>3. CASE appsStart = AppsStart
      <4> DEFINE apps == {i \in 1..Length("flash") : Published[i].name = Apps}
                 first == Published[CHOOSE i \in apps : \A j \in apps : i <= j].start
      <4>1. \A former : StartIn(Published, Length("flash"), former) = IF apps = {} THEN former ELSE first
        BY DEF StartIn
      <4> HIDE DEF apps, first
      <4> QED
        BY <3>1, <3>3, <4>1 DEF AppsStart
    <3> QED
      BY <1>5, <3>2, <3>3
  <2>7. HeaderIsTheirs'
    BY <1>1, <1>2, <1>5, <2>1 DEF HeaderIsTheirs
  <2>8. CopyIsTheirs'
    <3>1. \A i \in 1..PartsV4 : i > PartsOf(smem["flash"].version) => new[i] = Unnamed
      BY <1>5, PartitionsAssumption DEF new, PartsOf
    <3> QED
      BY <1>1, <1>2, <2>1, <2>2, <2>6, <3>1 DEF CopyIsTheirs
  <2>9. TableIsTheirs'
    BY <1>1, <1>2, <2>1 DEF TableIsTheirs
  <2> QED
    BY <1>3, <1>4, <2>5, <2>7, <2>8, <2>9
<1> QED
  BY <1>6, <1>7

LEMMA AddModemPartitionsKeeps ==
  ASSUME PartInv, AddModemPartitions
  PROVE  PartInv'
<1> USE DEF PartInv
<1> DEFINE new == Listed(smem_ptable.parts, smem_ptable.len)
<1>1. PartTypes /\ partPc = "idle" /\ smem_ptable.magic /\ UNCHANGED <<smem, ramVars>>
  BY DEF AddModemPartitions
<1>2. Published' = Published /\ Length("flash")' = Length("flash") /\ Wanted' = Wanted /\ AppsStart' = AppsStart
      /\ Length("ram")' = Length("ram")
  BY <1>1, FlashStays DEF Length
<1>3. Ordered'
  BY <1>1, <1>2 DEF Ordered
<1>4. RamIsTheirs'
  BY <1>1, <1>2 DEF RamIsTheirs, ramVars
<1>5. /\ smem["flash"].allocated /\ smem["flash"].magic
      /\ smem_ptable.version = smem["flash"].version /\ smem_ptable.len = Length("flash") /\ Length("flash") <= PartsV4
      /\ \A i \in 1..PartsV4 : i > PartsOf(smem["flash"].version) => smem_ptable.parts[i] = Unnamed
      /\ appsStart = AppsStart
      /\ untouched => smem_ptable.parts = Published
  BY <1>1 DEF HeaderIsTheirs, CopyIsTheirs
<1>6. CASE Len(flash) + Len(new) > MAX_PTABLE_PARTS
  <2>1. partPc' = "assert" /\ UNCHANGED flashVars
    BY <1>6 DEF AddModemPartitions, Dead
  <2>2. PartTypes'
    BY <1>1, <2>1 DEF PartTypes, ramVars, flashVars
  <2>3. HeaderIsTheirs' /\ CopyIsTheirs' /\ TableIsTheirs'
    BY <1>1, <1>2, <1>5, <2>1 DEF HeaderIsTheirs, CopyIsTheirs, TableIsTheirs, flashVars
  <2> QED
    BY <1>3, <1>4, <2>2, <2>3
<1>7. CASE ~(Len(flash) + Len(new) > MAX_PTABLE_PARTS)
  <2> DEFINE apart == [i \in 1..PartsV4 |-> IF i <= smem_ptable.len THEN TakenApart(smem_ptable.parts[i])
                                            ELSE smem_ptable.parts[i]]
  <2>1. /\ flash' = flash \o new
        /\ smem_ptable' = [magic |-> TRUE, version |-> smem_ptable.version, len |-> smem_ptable.len, parts |-> apart]
        /\ clean' = (clean /\ untouched) /\ untouched' = FALSE
        /\ partPc' = "idle" /\ appsStart' = appsStart
    BY <1>1, <1>7, CopyIs DEF AddModemPartitions
  <2>2. apart \in [1..PartsV4 -> Partition]
    BY <1>1, CopyIs, TakenApartIs
  <2>3. \A i \in 1..PartsV4 : i > PartsOf(smem["flash"].version) => apart[i] = Unnamed
    BY <1>5, TakenApartIs, UnnamedIs
  <2> HIDE DEF apart
  <2>4. smem_ptable' \in Header
    BY <1>1, <2>1, <2>2, CopyIs DEF Header
  <2>5. PartTypes'
    BY <1>1, <2>1, <2>4 DEF PartTypes, ramVars
  <2>6. HeaderIsTheirs' /\ CopyIsTheirs'
    BY <1>1, <1>2, <1>5, <2>1, <2>3 DEF HeaderIsTheirs, CopyIsTheirs
  <2>7. new \in Seq(Range(new))
    BY <1>1, CopyIs, ListIs
  <2>8. flash \in Seq(Range(flash))
    BY DEF TableIsTheirs
  <2> HIDE DEF new
  <2>9. flash' \in Seq(Range(flash'))
    BY <2>1, <2>7, <2>8, JoinedIs
  <2>10. clean' => Copies(flash', Wanted')
    <3> SUFFICES ASSUME clean, untouched PROVE Copies(flash \o new, Wanted)
      BY <1>2, <2>1
    <3>1. new = Wanted
      BY <1>5 DEF Wanted, new
    <3> QED
      BY <2>7, <2>8, <3>1, OneMore DEF TableIsTheirs
  <2>11. TableIsTheirs'
    BY <2>1, <2>9, <2>10 DEF TableIsTheirs
  <2> QED
    BY <1>3, <1>4, <2>5, <2>6, <2>11
<1> QED
  BY <1>6, <1>7

LEMMA PtableInitKeeps ==
  ASSUME PartInv, PtableInit
  PROVE  PartInv'
<1> USE DEF PartInv
<1>1. partPc = "idle" /\ flash' = <<>> /\ clean' = TRUE
      /\ UNCHANGED <<smem, partPc, smem_ptable, appsStart, untouched, ramVars>>
  BY DEF PtableInit
<1>2. Published' = Published /\ Length("flash")' = Length("flash") /\ AppsStart' = AppsStart
      /\ Length("ram")' = Length("ram")
  BY <1>1, FlashStays DEF Length
<1>3. PartTypes' /\ Ordered' /\ HeaderIsTheirs' /\ CopyIsTheirs' /\ RamIsTheirs'
  BY <1>1, <1>2 DEF PartTypes, Ordered, HeaderIsTheirs, CopyIsTheirs, RamIsTheirs, NoTable, ramVars
<1>4. <<>> \in Seq(Range(<<>>))
  OBVIOUS
<1>5. TableIsTheirs'
  BY <1>1, <1>4 DEF TableIsTheirs
<1> QED
  BY <1>3, <1>5

LEMMA RamVersionKeeps ==
  ASSUME PartInv, RamVersion
  PROVE  PartInv'
<1> USE DEF PartInv
<1>1. partPc = "idle" /\ partPc' \in {"idle", "ram", "assert"}
      /\ UNCHANGED <<smem, smem_ptable, appsStart, flash, untouched, clean, ram, ramLoaded>>
  BY DEF RamVersion, flashVars, Dead
<1>2. Published' = Published /\ Length("flash")' = Length("flash") /\ Wanted' = Wanted /\ AppsStart' = AppsStart
      /\ Length("ram")' = Length("ram")
  BY <1>1, FlashStays DEF Length
<1>3. PartTypes' /\ Ordered' /\ RamIsTheirs' /\ TableIsTheirs'
  BY <1>1, <1>2 DEF PartTypes, Ordered, RamIsTheirs, TableIsTheirs
<1>4. HeaderIsTheirs' /\ CopyIsTheirs'
  BY <1>1, <1>2 DEF HeaderIsTheirs, CopyIsTheirs, NoTable
<1> QED
  BY <1>3, <1>4

LEMMA RamTableKeeps ==
  ASSUME PartInv, RamTable
  PROVE  PartInv'
<1> USE DEF PartInv
<1>1. partPc = "ram" /\ partPc' = "idle" /\ PartTypes
      /\ UNCHANGED <<smem, smem_ptable, appsStart, flash, untouched, clean, version>>
  BY DEF RamTable, flashVars
<1>2. Published' = Published /\ Length("flash")' = Length("flash") /\ Wanted' = Wanted /\ AppsStart' = AppsStart
      /\ Length("ram")' = Length("ram")
  BY <1>1, FlashStays DEF Length
<1>3. Ordered' /\ TableIsTheirs'
  BY <1>1, <1>2 DEF Ordered, TableIsTheirs
<1>4. HeaderIsTheirs' /\ CopyIsTheirs'
  BY <1>1, <1>2 DEF HeaderIsTheirs, CopyIsTheirs, NoTable
<1>5. CASE ~(ReadEntry("ram", PartsV4) /\ smem["ram"].magic)
  <2>1. UNCHANGED <<ram, ramLoaded>>
    BY <1>5 DEF RamTable
  <2>2. PartTypes' /\ RamIsTheirs'
    BY <1>1, <1>2, <2>1 DEF PartTypes, RamIsTheirs
  <2> QED
    BY <1>3, <1>4, <2>2
<1>6. CASE ReadEntry("ram", PartsV4) /\ smem["ram"].magic
  <2> DEFINE new == [i \in 1..PartsV4 |-> IF i <= Copied(smem["ram"].version, Length("ram")) THEN Part("ram", i)
                                          ELSE ram.parts[i]]
  <2>1. /\ ram' = [magic |-> TRUE, version |-> smem["ram"].version, len |-> Length("ram"), parts |-> new]
        /\ ramLoaded' = TRUE /\ smem["ram"].allocated
    BY <1>6 DEF RamTable, CopyRamTable, ReadEntry, Readable
  <2>2. Length("ram") \in Nat /\ Length("ram") <= PartsV4 /\ smem["ram"].filled /\ smem["ram"].version \in Nat
    BY <1>1, <2>1, CopyIs DEF Ordered, Entries, EntryOf
  <2>3. new \in [1..PartsV4 -> Partition]
    <3>1. ram.parts \in [1..PartsV4 -> Partition]
      BY DEF PartTypes, Header
    <3>2. \A i \in 1..PartsV4 : Part("ram", i) \in Partition
      BY <1>1, PartIs DEF Entries
    <3> QED
      BY <3>1, <3>2
  <2>4. \A i \in 1..Length("ram") : new[i] = smem["ram"].parts[i]
    BY <2>2, PartitionsAssumption DEF Part, Copied
  <2> HIDE DEF new
  <2>5. ram' \in Header
    BY <2>1, <2>2, <2>3 DEF Header
  <2>6. PartTypes'
    BY <1>1, <2>1, <2>5 DEF PartTypes
  <2>7. RamIsTheirs'
    BY <1>1, <1>2, <2>1, <2>4 DEF RamIsTheirs
  <2> QED
    BY <1>3, <1>4, <2>6, <2>7
<1> QED
  BY <1>5, <1>6

\* Two tables of RAM with the same partitions start at the same place.
LEMMA SameStart ==
  ASSUME NEW s, NEW t, s.len = t.len, t.len \in Nat, \A i \in 1..t.len : s.parts[i] = t.parts[i]
  PROVE  DdrStart(s) = DdrStart(t)
<1> DEFINE system == {i \in 1..t.len : t.parts[i].kind = "system"}
           theirs == {i \in 1..s.len : s.parts[i].kind = "system"}
           Lowest(S) == CHOOSE i \in S : \A j \in S : i <= j
           first == Lowest(system)
<1>1. theirs = system
  OBVIOUS
<1>2. /\ DdrStart(s) = IF system = {} THEN 0 ELSE s.parts[first].start
      /\ DdrStart(t) = IF system = {} THEN 0 ELSE t.parts[first].start
  <2>1. DdrStart(s) = IF theirs = {} THEN 0 ELSE s.parts[Lowest(theirs)].start
    BY DEF DdrStart
  <2>2. DdrStart(t) = IF system = {} THEN 0 ELSE t.parts[Lowest(system)].start
    BY DEF DdrStart
  <2> HIDE DEF Lowest, system, theirs
  <2> QED
    BY <1>1, <2>1, <2>2
<1>3. CASE system = {}
  BY <1>2, <1>3
<1>4. CASE system # {}
  <2>1. \E i \in system : \A j \in system : i <= j
    <3>1. system \in SUBSET Nat
      OBVIOUS
    <3> HIDE DEF system
    <3> QED
      BY <1>4, <3>1, LowestExists
  <2>2. first \in system
    BY <2>1
  <2> HIDE DEF first
  <2>3. s.parts[first] = t.parts[first]
    BY <2>2
  <2> QED
    BY <1>2, <2>3
<1> QED
  BY <1>3, <1>4

LEMMA PartInvTells == PartInv => TablesAsPublished
<1> SUFFICES ASSUME PartInv PROVE TablesAsPublished
  OBVIOUS
<1> USE DEF PartInv
<1>1. PartitionsAsPublished
  <2> SUFFICES ASSUME clean, NEW i \in DOMAIN flash
               PROVE  flash[i] = Wanted[((i - 1) % Len(Wanted)) + 1]
    BY DEF PartitionsAsPublished
  <2>1. flash \in Seq(Range(flash))
    BY DEF TableIsTheirs
  <2>2. flash # <<>> /\ i \in 1..Len(flash)
    BY <2>1
  <2> QED
    BY <2>2 DEF TableIsTheirs, Copies
<1>2. AppsStartPublished
  BY DEF AppsStartPublished, CopyIsTheirs, AppsStart
<1>3. RamAsPublished
  <2> SUFFICES ASSUME ramLoaded
               PROVE  DdrStart(ram) = DdrStart([parts |-> smem["ram"].parts, len |-> Length("ram")])
    BY DEF RamAsPublished
  <2>1. ram.len = Length("ram") /\ \A i \in 1..ram.len : ram.parts[i] = smem["ram"].parts[i]
    BY DEF RamIsTheirs
  <2>2. Length("ram") \in Nat
    BY CopyIs
  <2> QED
    BY <2>1, <2>2, SameStart
<1> QED
  BY <1>1, <1>2, <1>3 DEF TablesAsPublished

\* What the drivers and applications find in the tables of partitions is what
\* the modem has published, for tables of any sizes and versions, whenever they
\* are read (smem_ptable_init, smem_add_modem_partitions, smem_ram_ptable_init_v1).
THEOREM TablesTellTheTruth == PartSpec => []TablesAsPublished
<1>1. PartInit => PartInv
  BY PartInitIs
<1>2. PartInv /\ [PartNext]_partVars => PartInv'
  <2> SUFFICES ASSUME PartInv, [PartNext]_partVars PROVE PartInv'
    OBVIOUS
  <2>1. CASE InitHeader
    BY <2>1, InitHeaderKeeps
  <2>2. CASE InitTable
    BY <2>2, InitTableKeeps
  <2>3. CASE AddModemPartitions
    BY <2>3, AddModemPartitionsKeeps
  <2>4. CASE PtableInit
    BY <2>4, PtableInitKeeps
  <2>5. CASE RamVersion
    BY <2>5, RamVersionKeeps
  <2>6. CASE RamTable
    BY <2>6, RamTableKeeps
  <2>7. ASSUME NEW e \in Entries, Modem(e) PROVE PartInv'
    BY <2>7, ModemKeeps
  <2>8. CASE UNCHANGED partVars
    <3>1. UNCHANGED <<smem, partPc, smem_ptable, appsStart, flash, untouched, clean, version, ram, ramLoaded>>
      BY <2>8 DEF partVars, flashVars, ramVars
    <3>2. Published' = Published /\ Length("flash")' = Length("flash") /\ Wanted' = Wanted /\ AppsStart' = AppsStart
          /\ Length("ram")' = Length("ram")
      BY <3>1, FlashStays DEF Length
    <3> QED
      BY <3>1, <3>2 DEF PartInv, PartTypes, Ordered, HeaderIsTheirs, CopyIsTheirs, TableIsTheirs, RamIsTheirs, NoTable
  <2> QED
    BY <2>1, <2>2, <2>3, <2>4, <2>5, <2>6, <2>7, <2>8 DEF PartNext, ClientStep
<1>3. PartInv => TablesAsPublished
  BY PartInvTells
<1> QED
  BY <1>1, <1>2, <1>3, PTL DEF PartSpec
=============================================================================
