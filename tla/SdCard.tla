------------------------------- MODULE SdCard -------------------------------
(***************************************************************************)
(* The SD card driver: SdCardInitialize brings the card up, looks for a    *)
(* partition table and publishes BlockIo; ReadBlocks and WriteBlocks move  *)
(* a request one 512-byte block at a time (the driver is built without     *)
(* USE_DM, so NUM_BLOCKS_MULT is 1).                                       *)
(*                                                                         *)
(* The controller's data error flags stay set until the driver clears      *)
(* them, which it does only at the end of a block that went well.  Sizes   *)
(* are counted in blocks of 512 bytes.                                     *)
(***************************************************************************)
EXTENDS Naturals

CONSTANTS
  Cards,      \* cards that may be in the slot
  ScanLimit,  \* last block searched for a partition table, 50
  MaxFaults,  \* bound on the faults of the bus
  MaxSize     \* bound on BufferSize

\* A card is a record of mult (its block length, READ_BL_LEN, in 512 bytes),
\* blocks (how many of those it has), hc (high capacity), known (its CSD
\* structure version is one the driver knows) and mbr (where 55 AA is found).
ASSUME SdAssumption ==
  /\ \A c \in Cards : c.mult \in Nat \ {0} /\ c.blocks \in Nat \ {0}
  /\ ScanLimit \in Nat /\ MaxFaults \in Nat /\ MaxSize \in Nat

VARIABLES
  card,       \* the card in the slot
  slot,       \* what the controller gives it: bus clock, MCLK, pins, power
  stage,      \* where the driver is
  mmc_dev,    \* blksz, lba and whether block_read and block_write are set
  media,      \* gMMCHSMedia: BlockSize and LastBlock
  published,  \* BlockIo is published
  call,       \* the request: op, first block, blocks asked and done
  flags,      \* data error flags of the controller
  receiving,  \* the card waits for the data of a write
  result,     \* what the last call returned
  moved,      \* history: <<place in the buffer, block of the card>> of the call
  trouble,    \* history: the card or the bus reported an error in the call
  faults      \* faults so far

sdVars == <<card, slot, stage, mmc_dev, media, published, call, flags, receiving, result,
            moved, trouble, faults>>
device == <<mmc_dev, media, published>>
bus == <<flags, receiving, trouble, faults>>

NoCall == [op |-> "none", first |-> 0, asked |-> 0, done |-> 0]
DataErrors == {"crc", "timeout"}
CardSize == card.mult * card.blocks

-----------------------------------------------------------------------------
(* One block.  An outcome says whether the function returns TRUE, whether   *)
(* the data arrived, and what it leaves behind.                             *)

Outcome(ok, data, left) ==
  [ok |-> ok, data |-> data, flags |-> left, receiving |-> receiving,
   error |-> FALSE, fault |-> FALSE]
Reported(o) == [o EXCEPT !.error = TRUE]
Faulty(o) == [o EXCEPT !.error = TRUE, !.fault = TRUE]

\* The card does not answer the command; sdcc_send_cmd clears its own flags.
NoAnswer == Outcome(FALSE, FALSE, flags)
DataError(f) == Outcome(FALSE, FALSE, flags \cup {f})

\* check_clear_read_status and check_clear_write_status: an error flag, also
\* one left by an earlier block, makes the block fail and stays set.
Checked(data) == Outcome(flags = {}, data, flags)

read_a_block(b) ==
  IF receiving THEN {Reported(NoAnswer)}
  ELSE IF b >= CardSize THEN {Reported(DataError("timeout"))}
  ELSE {Checked(TRUE), Faulty(NoAnswer)} \cup {Faulty(DataError(f)) : f \in DataErrors}

\* The loop that fills the FIFO looks at the timeout flag, after the command
\* was sent; the last command may fail after the block was stored.
write_a_block(b) ==
  IF receiving THEN {Reported(NoAnswer)}
  ELSE IF "timeout" \in flags
  THEN {[NoAnswer EXCEPT !.receiving = b < CardSize], Faulty(NoAnswer)}
  ELSE IF b >= CardSize THEN {Reported(DataError(f)) : f \in DataErrors}
  ELSE {Checked(TRUE), Faulty(NoAnswer), Faulty([Checked(TRUE) EXCEPT !.ok = FALSE])}
       \cup {Faulty(DataError(f)) : f \in DataErrors}

Takes(o) ==
  /\ o.fault => faults < MaxFaults
  /\ faults' = IF o.fault THEN faults + 1 ELSE faults
  /\ flags' = o.flags
  /\ receiving' = o.receiving
  /\ trouble' = (trouble \/ o.error)

-----------------------------------------------------------------------------
(* SdCardInitialize and mmc_legacy_init, whose result is ignored.           *)

Goto(step) == stage' = step
Fault == faults < MaxFaults /\ faults' = faults + 1
Fails == Fault /\ Goto("publish") /\ UNCHANGED flags

\* SDC_INSTANCE is 2; the card reader of another board is one of the others.
SDC_INSTANCE == 2

\* sdcard_gpio_config: the six pins of an instance.
PinsOf(instance) ==
  CASE instance = 1 -> 51..56 [] instance = 2 -> 62..67 [] instance = 3 -> {} [] instance = 4 -> 142..147

\* Mutant: MCLK is set for data at once.
DetectionClock_Fast == "25MHz"

DetectionClock == "400KHz"
DataClock == "25MHz"

SD_MCLK_set(speed) == [slot EXCEPT !.mclk = speed]

\* The slot is empty, or the clock of the controller's bus is turned on.
SdCardInitialize ==
  /\ stage = "start"
  /\ \/ Goto("absent") /\ UNCHANGED slot
     \/ Goto("controller") /\ slot' = [slot EXCEPT !.hclk = TRUE]
  /\ UNCHANGED <<card, device, call, bus, result, moved>>

\* SDCn_init: bus clock, MCLK for the detection of a card, pins and power.  It
\* clears all flags of the controller.  Nothing takes this back when the card
\* cannot be brought up: SDCn_deinit is not called.
SDCn_init ==
  /\ stage = "controller" /\ Goto("identify")
  /\ slot' = [hclk |-> TRUE, mclk |-> DetectionClock, pins |-> PinsOf(SDC_INSTANCE), power |-> TRUE]
  /\ flags' = {}
  /\ UNCHANGED <<card, device, call, receiving, trouble, faults, result, moved>>

\* A high capacity card that was not asked with CMD8 stays busy, and the loop
\* of ACMD41 has no end.
card_identification_selection ==
  /\ stage = "identify"
  /\ \/ Goto("select") /\ UNCHANGED <<flags, faults>>
     \/ Fails
     \/ card.hc /\ Fault /\ Goto("hang") /\ UNCHANGED flags
  /\ UNCHANGED <<card, slot, device, call, receiving, trouble, result, moved>>

\* read_SCR_register waits for data without looking at an error flag.
card_transfer_init ==
  /\ stage = "select"
  /\ \/ Goto("status") /\ UNCHANGED <<flags, faults>>
     \/ Fails
     \/ Fault /\ Goto("hang") /\ UNCHANGED flags
  /\ UNCHANGED <<card, slot, device, call, receiving, trouble, result, moved>>

\* MCLK is raised once the status was read.
read_SD_status ==
  /\ stage = "status"
  /\ \/ Goto("length") /\ slot' = SD_MCLK_set(DataClock) /\ UNCHANGED <<flags, faults>>
     \/ Fails /\ UNCHANGED slot
     \/ \E f \in DataErrors : Fault /\ Goto("publish") /\ flags' = flags \cup {f} /\ UNCHANGED slot
  /\ UNCHANGED <<card, device, call, receiving, trouble, result, moved>>

card_set_block_size ==
  /\ stage = "length"
  /\ \/ Goto("first") /\ UNCHANGED <<flags, faults>>
     \/ Fails
  /\ UNCHANGED <<card, slot, device, call, receiving, trouble, result, moved>>

\* The first block is read, and mmc_decode_csd fills mmc_dev in if it knows
\* the structure.
ReadFirstBlock ==
  /\ stage = "first"
  /\ \E o \in read_a_block(0) :
       /\ Takes(o)
       /\ mmc_dev' = IF o.ok /\ card.known
                     THEN [blksz |-> card.mult, lba |-> card.blocks, ops |-> TRUE]
                     ELSE mmc_dev
  /\ Goto("publish")
  /\ UNCHANGED <<card, slot, media, published, call, result, moved>>

\* Without block_read the first call of the search goes through a null pointer.
StartScan ==
  /\ stage = "publish"
  /\ media' = [BlockSize |-> mmc_dev.blksz, LastBlock |-> mmc_dev.lba]
  /\ IF mmc_dev.ops THEN Goto("scan") ELSE Goto("wild")
  /\ call' = [NoCall EXCEPT !.op = "scan"]
  /\ UNCHANGED <<card, slot, mmc_dev, published, bus, result, moved>>

AfterScan == "deadloop"

\* The search goes on after a block that cannot be read, and ends in
\* CpuDeadLoop when nothing was found.
ScanBlock ==
  /\ stage = "scan"
  /\ \E o \in read_a_block(call.done) :
       LET found == o.ok /\ card.mbr = call.done
           last == call.done = media.LastBlock \/ call.done = ScanLimit
       IN /\ Takes(o)
          /\ Goto(IF found THEN "idle" ELSE IF last THEN AfterScan ELSE "scan")
          /\ call' = IF found \/ last THEN NoCall ELSE [call EXCEPT !.done = @ + 1]
  /\ published' = (stage' = "idle")
  /\ UNCHANGED <<card, slot, mmc_dev, media, result, moved>>

-----------------------------------------------------------------------------
(* BlockIo.                                                                *)

Ops == {"read", "write"}

\* A caller asks for size blocks of 512 bytes that lie within the media.
\* Neither Lba nor MediaId is checked.
Accepted(op, lba, size) ==
  /\ Goto("xfer")
  /\ call' = [op |-> op, first |-> lba, asked |-> size \div media.BlockSize, done |-> 0]
  /\ UNCHANGED result

Refused(status) == result' = status /\ call' = NoCall /\ UNCHANGED stage

BlockIo(op, lba, size, buffer) ==
  /\ stage = "idle"
  /\ lba * media.BlockSize + size <= (media.LastBlock + 1) * media.BlockSize
  /\ IF size % media.BlockSize # 0 THEN Refused("BAD_BUFFER_SIZE")
     ELSE IF ~buffer THEN Refused("INVALID_PARAMETER")
     ELSE IF size = 0 THEN Refused("SUCCESS")
     ELSE Accepted(op, lba, size)
  /\ moved' = {} /\ trouble' = FALSE
  /\ UNCHANGED <<card, slot, device, flags, receiving, faults>>

Unfinished == call.done < call.asked

\* Mutant: the block number is not advanced.
Blknr_Fixed == call.first

Blknr == call.first + call.done

NextCall == [call EXCEPT !.done = @ + 1]

\* Mutant: the count is not looked at.
Status_Ignored == "SUCCESS"

\* Any block that was moved makes the call a success.
Status == IF call.done > 0 THEN "SUCCESS" ELSE "DEVICE_ERROR"

Return == Goto("idle") /\ result' = Status /\ UNCHANGED call

\* A round of the loop of mmc_bread and mmc_bwrite.
TransferBlock ==
  /\ stage = "xfer" /\ Unfinished
  /\ \E o \in IF call.op = "read" THEN read_a_block(Blknr) ELSE write_a_block(Blknr) :
       /\ Takes(o)
       /\ moved' = IF o.data THEN moved \cup {<<call.done, Blknr>>} ELSE moved
       /\ IF o.ok THEN call' = NextCall /\ UNCHANGED <<stage, result>> ELSE Return
  /\ UNCHANGED <<card, slot, device>>

EndTransfer ==
  /\ stage = "xfer" /\ ~Unfinished
  /\ Return
  /\ UNCHANGED <<card, slot, device, bus, moved>>

-----------------------------------------------------------------------------
SdInit ==
  /\ card \in Cards
  /\ slot = [hclk |-> FALSE, mclk |-> "boot", pins |-> {}, power |-> FALSE]
  /\ stage = "start"
  /\ mmc_dev = [blksz |-> 0, lba |-> 0, ops |-> FALSE]
  /\ media = [BlockSize |-> 1, LastBlock |-> 0]
  /\ published = FALSE /\ call = NoCall
  /\ flags = {} /\ receiving = FALSE
  /\ result = "none" /\ moved = {} /\ trouble = FALSE /\ faults = 0

Driver ==
  \/ SdCardInitialize \/ SDCn_init \/ card_identification_selection \/ card_transfer_init
  \/ read_SD_status \/ card_set_block_size \/ ReadFirstBlock \/ StartScan
  \/ ScanBlock \/ TransferBlock \/ EndTransfer

Client ==
  \E op \in Ops, lba \in 0 .. media.LastBlock, size \in 0 .. MaxSize, buffer \in BOOLEAN :
    BlockIo(op, lba, size, buffer)

SdNext == Driver \/ Client

SdSpec == SdInit /\ [][SdNext]_sdVars

\* The driver's loops go on.
SdFairSpec == SdSpec /\ WF_sdVars(Driver)
-----------------------------------------------------------------------------
(* Properties.                                                             *)

SdTypeOK ==
  /\ call.op \in Ops \cup {"none", "scan"}
  /\ call.done \in 0 .. call.asked \/ call.op = "scan"
  /\ flags \subseteq DataErrors
  /\ media.BlockSize \in Nat /\ media.LastBlock \in Nat
  /\ result \in {"none", "SUCCESS", "DEVICE_ERROR", "BAD_BUFFER_SIZE", "INVALID_PARAMETER"}
  /\ faults \in 0 .. MaxFaults

\* On a card with blocks of 512 bytes, the blocks counted as done are those of
\* the request, each at its place in the buffer, and at most one more block was
\* moved: no flag left by an earlier error counts bad data as done.
TransfersInPlace ==
  card.mult = 1 /\ call.op \in Ops =>
    LET place(n) == {<<i, call.first + i>> : i \in {j \in 0 .. MaxSize : j < n}}
    IN  place(call.done) \subseteq moved /\ moved \subseteq place(call.done + 1)

\* A call that succeeds has moved all blocks, or some and met an error.
SuccessIsExplained ==
  stage = "idle" /\ result = "SUCCESS" =>
    call.done = call.asked \/ (call.done > 0 /\ trouble)

\* A card is asked who it is only in a powered slot with MCLK at 400 kHz, and
\* one that BlockIo is published for runs at the speed of data: whatever fails
\* on the way (mmc_legacy_init, lines 250-296).
SlotFitsCard ==
  LET driven(speed) == slot = [hclk |-> TRUE, mclk |-> speed, pins |-> PinsOf(SDC_INSTANCE), power |-> TRUE] IN
  /\ stage \in {"identify", "select"} => driven("400KHz")
  /\ stage \in {"first", "scan", "xfer"} \/ published => driven("25MHz")

\* BlockIo is published only for a card that was brought up and whose partition
\* table was read, whatever failed before.
PublishedMeansReady ==
  published => mmc_dev.ops /\ card.mbr <= ScanLimit /\ card.mbr <= media.LastBlock

\* Every call returns.
RequestReturns == stage = "xfer" ~> stage = "idle"

\* A transfer that returns EFI_DEVICE_ERROR met an error.
DeviceErrorMeansError ==
  stage = "idle" /\ result = "DEVICE_ERROR" => trouble

\* From the slot's first clock to the published card nothing is done too early,
\* whatever fails on the way.
CardReady == SdTypeOK /\ SlotFitsCard /\ PublishedMeansReady
=============================================================================
