------------------------------- MODULE I2CDxe -------------------------------
(***************************************************************************)
(* The I2C driver: msm_i2c_write and msm_i2c_read repeat msm_i2c_xfer      *)
(* until it reports success.  A transfer programs the first address        *)
(* itself, then the interrupt handler moves the bytes while msm_i2c_xfer   *)
(* watches the controller's BUS_ACTIVE bit.                                *)
(*                                                                         *)
(* One processor: the handler runs between two steps of the transfer as    *)
(* soon as the interrupt is pending and its source enabled.  The           *)
(* controller and the device behind it are external; they may refuse a     *)
(* byte (NACK) and may be slower than the busy wait.                       *)
(***************************************************************************)
EXTENDS Integers, Sequences

CONSTANTS
  Transfers,  \* message sequences the clients send
  Retries     \* MSM_I2C_WRITE_RETRY_TIMES = MSM_I2C_READ_RETRY_TIMES

\* A message is a record of read (flags & I2C_M_RD) and len.  msm_i2c_write and
\* the clients of Xfer send one to the device; msm_i2c_read sends the number of a
\* register and then reads.
ASSUME I2CAssumption ==
  /\ \A t \in Transfers :
       /\ Len(t) \in {1, 2}
       /\ t[1].read = FALSE /\ t[1].len \in Nat \ {0}
       /\ Len(t) = 2 => t[1].len = 1 /\ t[2].read = TRUE /\ t[2].len \in Nat \ {0}
  /\ Retries \in Nat

ERROR == -1
ERR_NOT_READY == -3
ERR_TIMED_OUT == -13
NULL == 0

VARIABLES
  dev,      \* the driver's record: msg (number of the message), rem, pos, cnt,
            \* ret, needFlush, flushCnt
  timeout,  \* the driver's other global, as a Boolean
  hw,       \* the controller: wr and rd registers, bus, err, irq; got counts
            \* the bytes received since the address
  enabled,  \* the interrupt source is enabled
  place,    \* where the caller is in msm_i2c_xfer
  msgs,     \* the messages of the call
  retry,    \* attempts that have failed
  ret,      \* msm_i2c_xfer's result
  wire,     \* history: what went over the bus in this attempt
  mishaps   \* history: what went wrong in this attempt

i2cVars == <<dev, timeout, hw, enabled, place, msgs, retry, ret, wire, mishaps>>
driver == <<dev, timeout, enabled, place, msgs, retry, ret>>
caller == <<enabled, place, msgs, retry>>

Idle == [msg |-> NULL, rem |-> 0, pos |-> 0, cnt |-> 0, ret |-> 0,
         needFlush |-> FALSE, flushCnt |-> 0]
Empty == <<"empty", 0>>
Stop == <<"stop", 0>>                  \* I2C_WRITE_DATA_LAST_BYTE alone
Address(read) == <<IF read THEN "addrR" ELSE "addrW", 0>>
Byte(n, last) == <<IF last THEN "last" ELSE "byte", n>>


\* I2C_STATUS_BUS_ACTIVE, from the moment an address is written.
Active == hw.bus # "idle" \/ hw.wr[1] \in {"addrW", "addrR"}

\* I2C_STATUS_WR_BUFFER_FULL; an idle controller drops a stop request.
WriteFull == hw.wr # Empty /\ ~(hw.wr = Stop /\ hw.bus = "idle")

Num == Len(msgs)
CallerRuns == ~(enabled /\ hw.irq)

-----------------------------------------------------------------------------
(* The controller and its device (external).                               *)

\* The address in wr goes out; it starts a transfer or, on an active bus, a
\* new part of it.
TakeAddress ==
  /\ hw.wr[1] \in {"addrW", "addrR"}
  /\ hw.bus # "stopping"
  /\ hw' = [hw EXCEPT !.wr = Empty, !.irq = TRUE, !.got = 0,
                      !.bus = IF hw.wr[1] = "addrR" THEN "read" ELSE "write"]
  /\ wire' = Append(wire, hw.wr)
  /\ UNCHANGED <<driver, mishaps>>

TakeByte ==
  /\ hw.wr[1] \in {"byte", "last"}
  /\ hw.bus = "write"
  /\ hw' = [hw EXCEPT !.wr = Empty, !.irq = TRUE,
                      !.bus = IF hw.wr[1] = "last" THEN "stopping" ELSE "write"]
  /\ wire' = Append(wire, <<"out", hw.wr[2]>>)
  /\ UNCHANGED <<driver, mishaps>>

\* The device does not acknowledge an address or a byte, or a byte is written
\* when none can be sent.
Refuse ==
  /\ hw.wr[1] \in {"addrW", "addrR", "byte", "last"}
  /\ hw.bus # "stopping"
  /\ hw' = [hw EXCEPT !.wr = Empty, !.irq = TRUE, !.err = TRUE, !.bus = "idle"]
  /\ mishaps' = mishaps \cup {"nack"}
  /\ UNCHANGED <<driver, wire>>

\* A byte arrives; it is the last one if a stop was requested.
Receive ==
  /\ hw.bus = "read" /\ hw.rd = 0
  /\ hw.wr \in {Empty, Stop}
  /\ hw' = [hw EXCEPT !.rd = hw.got + 1, !.got = hw.got + 1, !.irq = TRUE,
                      !.wr = Empty,
                      !.bus = IF hw.wr = Stop THEN "stopping" ELSE "read"]
  /\ UNCHANGED <<driver, wire, mishaps>>

\* The stop condition is sent and the bus becomes free.
StopBus ==
  /\ hw.bus = "stopping" \/ (hw.wr = Stop /\ hw.bus # "read")
  /\ hw' = [hw EXCEPT !.bus = "idle", !.wr = Empty]
  /\ UNCHANGED <<driver, wire, mishaps>>

Controller == TakeAddress \/ TakeByte \/ Refuse \/ Receive \/ StopBus

-----------------------------------------------------------------------------
(* The interrupt handler.                                                  *)

\* The effect of a part of the handler on the driver's record, the controller
\* and the log; more is its not_done.
State(d, h, log, more) == [dev |-> d, hw |-> h, log |-> log, more |-> more]

NextByte(d) == Byte(d.pos + 1, d.cnt = 1 /\ d.rem = 1)

msm_i2c_fill_write_buffer(d, h, log) ==
  LET read == msgs[d.msg].read
  IN  IF d.pos < 0
      THEN State([d EXCEPT !.pos = @ + 1], [h EXCEPT !.wr = Address(read)],
                 log, TRUE)
      ELSE IF read \/ d.cnt = 0 THEN State(d, h, log, FALSE)
      ELSE State([d EXCEPT !.pos = @ + 1, !.cnt = @ - 1],
                 [h EXCEPT !.wr = NextByte(d)], log, TRUE)

\* The stop has to be requested one byte ahead.  A message of one byte comes
\* with an extra byte that has to be flushed.
SingleByte(d) == d.cnt = 1 /\ d.pos = 0
StopsAhead(d) == SingleByte(d) \/ d.cnt = 2

msm_i2c_read_buffer(d, h, log, more) ==
  IF msgs[d.msg].read /\ d.pos >= 0 /\ d.cnt > 0
  THEN State([d EXCEPT !.cnt = @ - 1, !.pos = @ + 1,
                       !.needFlush = SingleByte(d) \/ @],
             [h EXCEPT !.rd = 0, !.wr = IF StopsAhead(d) THEN Stop ELSE @],
             Append(log, <<"in", d.pos + 1, h.rd>>), more)
  ELSE State([d EXCEPT !.needFlush = FALSE,
                       !.flushCnt = IF d.needFlush THEN @ ELSE @ + 1],
             [h EXCEPT !.rd = 0, !.wr = IF d.flushCnt % 2 = 1 THEN Stop ELSE @],
             log, more)

\* The end of the handler: the next message, or the end of the transfer.
EndsMessage(d) == d.pos >= 0 /\ d.cnt = 0
NextMessage(d) ==
  IF EndsMessage(d) /\ d.rem > 1
  THEN [d EXCEPT !.rem = @ - 1, !.msg = @ + 1, !.pos = -1,
                 !.cnt = msgs[d.msg + 1].len]
  ELSE d
Completes(s) ==
  EndsMessage(s.dev) /\ s.dev.rem <= 1 /\ ~s.more /\ ~s.dev.needFlush

\* Mutant: the flag is never reset.
TimeoutAfter_Sticky(s) == timeout

TimeoutAfter(s) == timeout /\ ~Completes(s)

\* Reading the status register acknowledges an error.
msm_i2c_interrupt_locked ==
  LET filled == IF WriteFull THEN State(dev, hw, wire, TRUE)
                ELSE msm_i2c_fill_write_buffer(dev, hw, wire)
      s == IF hw.rd = 0 THEN filled
           ELSE msm_i2c_read_buffer(filled.dev, filled.hw, filled.log, filled.more)
  IN
  IF dev.msg = NULL
  THEN hw' = [hw EXCEPT !.irq = FALSE, !.err = FALSE]
       /\ UNCHANGED <<dev, timeout, wire>>
  ELSE IF hw.err
  THEN /\ hw' = [hw EXCEPT !.irq = FALSE, !.err = FALSE]
       /\ dev' = [dev EXCEPT !.ret = ERROR]
       /\ timeout' = TRUE
       /\ UNCHANGED wire
  ELSE /\ dev' = NextMessage(s.dev)
       /\ hw' = [s.hw EXCEPT !.irq = FALSE]
       /\ wire' = s.log
       /\ timeout' = TimeoutAfter(s)

I2CInterruptHandler ==
  /\ enabled /\ hw.irq
  /\ msm_i2c_interrupt_locked
  /\ mishaps' = IF place = "addressed" THEN mishaps \cup {"race"} ELSE mishaps
  /\ UNCHANGED <<caller, ret>>

-----------------------------------------------------------------------------
(* msm_i2c_xfer, one step after the other.                                 *)

\* msm_i2c_write and msm_i2c_read are called with a message sequence.
Call(m) ==
  /\ place = "idle"
  /\ place' = "begin" /\ msgs' = m /\ retry' = 0
  /\ UNCHANGED <<dev, timeout, hw, enabled, ret, wire, mishaps>>

Begin ==
  /\ place = "begin"
  /\ enabled' = TRUE
  /\ place' = "notbusy"
  /\ mishaps' = {}
  /\ UNCHANGED <<dev, timeout, hw, msgs, retry, ret, wire>>

\* msm_i2c_recover_bus_busy: stop the transfer, clock the lines by hand and
\* look whether the bus is free.
msm_i2c_recover_bus_busy(free) ==
  IF ~Active /\ ~WriteFull
  THEN free /\ UNCHANGED hw
  ELSE hw' = [hw EXCEPT !.rd = 0, !.wr = IF free THEN Empty ELSE Stop,
                        !.bus = IF free THEN "idle"
                                ELSE IF @ = "idle" THEN "write" ELSE @]

BusIsFree ==
  /\ place = "notbusy" /\ CallerRuns
  /\ ~Active
  /\ place' = "setup"
  /\ UNCHANGED <<dev, timeout, hw, enabled, msgs, retry, ret, wire, mishaps>>

BusStaysBusy(free) ==
  /\ place = "notbusy" /\ CallerRuns
  /\ Active
  /\ msm_i2c_recover_bus_busy(free)
  /\ mishaps' = mishaps \cup {"busy"}
  /\ IF free THEN place' = "setup" /\ UNCHANGED ret
             ELSE place' = "end" /\ ret' = ERR_NOT_READY
  /\ UNCHANGED <<dev, timeout, enabled, msgs, retry, wire>>

Setup ==
  /\ place = "setup" /\ CallerRuns
  /\ dev' = [Idle EXCEPT !.msg = 1, !.rem = Num, !.pos = -1, !.ret = Num,
                         !.cnt = msgs[1].len]
  /\ wire' = <<>>
  /\ place' = "address"
  /\ UNCHANGED <<timeout, hw, enabled, msgs, retry, ret, mishaps>>

\* The call of msm_i2c_interrupt_locked by the transfer itself, which nothing
\* locks: a timer interrupt may come between the write of the address and
\* dev.pos++, and the controller may have taken the address when it returns.
WriteAddress ==
  /\ place = "address" /\ CallerRuns
  /\ IF hw.err \/ WriteFull
     THEN msm_i2c_interrupt_locked /\ place' = "wait"
     ELSE /\ hw' = [hw EXCEPT !.wr = Address(msgs[1].read)]
          /\ place' = "addressed"
          /\ UNCHANGED <<dev, timeout, wire>>
  /\ UNCHANGED <<enabled, msgs, retry, ret, mishaps>>

\* dev.pos++ may use the value read before the write of the address.
AdvanceFromAddress ==
  /\ place = "addressed" /\ CallerRuns
  /\ \E p \in {0, dev.pos + 1} :
       LET d == [dev EXCEPT !.pos = p]
           s == IF hw.rd = 0 THEN State(d, hw, wire, TRUE)
                ELSE msm_i2c_read_buffer(d, hw, wire, TRUE)
       IN  dev' = NextMessage(s.dev) /\ hw' = s.hw /\ wire' = s.log
  /\ place' = "wait"
  /\ UNCHANGED <<timeout, enabled, msgs, retry, ret, mishaps>>

\* The busy wait ends, or gives up after 200 looks at the status.
Collect(busy) ==
  /\ place = "wait" /\ CallerRuns
  /\ busy = Active
  /\ ret' = dev.ret
  /\ dev' = [Idle EXCEPT !.needFlush = dev.needFlush]
  /\ place' = IF busy THEN "recover" ELSE "judge"
  /\ mishaps' = IF busy THEN mishaps \cup {"slow"} ELSE mishaps
  /\ UNCHANGED <<timeout, hw, enabled, msgs, retry, wire>>

Recover(free) ==
  /\ place = "recover" /\ CallerRuns
  /\ msm_i2c_recover_bus_busy(free)
  /\ place' = IF free THEN "judge" ELSE "end"
  /\ UNCHANGED <<dev, timeout, enabled, msgs, retry, ret, wire, mishaps>>

Judge ==
  /\ place = "judge" /\ CallerRuns
  /\ ret' = IF timeout THEN ERR_TIMED_OUT ELSE ret
  /\ IF ret' < 0 THEN \E free \in BOOLEAN : msm_i2c_recover_bus_busy(free)
                 ELSE UNCHANGED hw
  /\ place' = "end"
  /\ UNCHANGED <<dev, timeout, enabled, msgs, retry, wire, mishaps>>

MayRetry == retry < Retries

\* Mutant: the counter is not advanced.
NextRetry_Same == retry

NextRetry == retry + 1

\* The transfer returns and its caller tries again or gives up.
End ==
  /\ place = "end" /\ CallerRuns
  /\ enabled' = FALSE
  /\ IF ret # Num /\ MayRetry
     THEN place' = "begin" /\ retry' = NextRetry
     ELSE place' = "idle" /\ UNCHANGED retry
  /\ UNCHANGED <<dev, timeout, hw, msgs, ret, wire, mishaps>>

-----------------------------------------------------------------------------
I2CInit ==
  /\ dev = Idle /\ timeout = FALSE
  /\ hw = [wr |-> Empty, rd |-> 0, bus |-> "idle", err |-> FALSE, irq |-> FALSE,
           got |-> 0]
  /\ enabled = FALSE
  /\ place = "idle" /\ msgs = <<>> /\ retry = 0 /\ ret = 0
  /\ wire = <<>> /\ mishaps = {}

Transfer ==
  \/ Begin \/ BusIsFree \/ Setup \/ WriteAddress \/ AdvanceFromAddress
  \/ Judge \/ End
  \/ \E b \in BOOLEAN : BusStaysBusy(b) \/ Collect(b) \/ Recover(b)

I2CNext ==
  \/ \E m \in Transfers : Call(m)
  \/ Transfer \/ I2CInterruptHandler \/ Controller

I2CSpec == I2CInit /\ [][I2CNext]_i2cVars

\* The processor goes on; the interrupt handler runs when it may.
I2CFairSpec == I2CSpec /\ WF_i2cVars(Transfer) /\ WF_i2cVars(I2CInterruptHandler)
-----------------------------------------------------------------------------
\* What a message and a whole call put on the bus.
MessageLog(m) ==
  <<Address(m.read)>> \o
  [i \in 1 .. m.len |-> IF m.read THEN <<"in", i, i>> ELSE <<"out", i>>]
Expected ==
  IF Num = 1 THEN MessageLog(msgs[1]) ELSE MessageLog(msgs[1]) \o MessageLog(msgs[2])
Done == wire = Expected

I2CTypeOK ==
  /\ dev.msg \in 0 .. 2 /\ dev.rem \in 0 .. 2 /\ dev.pos \in Nat \cup {-1}
  /\ dev.cnt \in Nat /\ dev.ret \in {ERROR, 0, 1, 2}
  /\ dev.needFlush \in BOOLEAN /\ dev.flushCnt \in Nat
  /\ timeout \in BOOLEAN /\ enabled \in BOOLEAN
  /\ hw.bus \in {"idle", "write", "read", "stopping"}
  /\ hw.rd \in Nat /\ hw.got \in Nat
  /\ retry \in 0 .. Retries
  /\ ret \in {ERROR, ERR_NOT_READY, ERR_TIMED_OUT, 0, 1, 2}
  /\ mishaps \subseteq {"nack", "busy", "slow", "race"}

\* As long as nothing goes wrong, the bytes of the messages go over the bus in
\* order, each once, none beyond the end of a buffer, and a byte read is stored
\* at the place it belongs to.
MovesInOrder ==
  mishaps \subseteq {"busy"} /\ dev.msg # NULL =>
    /\ Len(wire) <= Len(Expected)
    /\ \A i \in 1 .. Len(wire) : wire[i] = Expected[i]

\* A transfer that returns its number of messages has moved all their bytes,
\* unless the busy wait gave up or the handler interrupted the direct call: a
\* device that refuses a byte is always reported.
TransferIsExplained ==
  place = "end" /\ ret = Num => Done \/ mishaps \cap {"slow", "race"} # {}

\* A transfer fails only for a reason of its own: the error flag of an earlier
\* one does not outlive a transfer that completes.
FailureIsExplained == place = "end" /\ ret # Num => mishaps # {}

\* Every call returns, whatever the device does.
CallReturns == place = "begin" ~> place = "idle"

\* The handler moves the data, and an error or an incomplete transfer is not
\* reported as success.
SuccessMeansDone == place = "end" /\ ret = Num => Done

\* What a call returns tells what went over the bus, in this attempt and not in
\* an earlier one (lines 137-270, 337-431).
ResultExplained == I2CTypeOK /\ MovesInOrder /\ TransferIsExplained /\ FailureIsExplained
=============================================================================
