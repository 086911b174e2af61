---------------------------------- MODULE Clock ---------------------------------
(***************************************************************************)
(* The clock protocol of ClockDxe.c: clocks have a number in the modem, and   *)
(* rates are turned into the numbers of speeds.                             *)
(***************************************************************************)
EXTENDS Integers, Sequences, FiniteSetsExt

CONSTANTS
  Rates,        \* bound: Rates[clock], the rates that are asked for
  Together      \* bound: how many clocks are used in a behaviour

VARIABLES
  ClocksLookup, \* the modem's number of each clock, -1 for those that it does not have
  used,         \* the clocks that are used in this behaviour
  rate,         \* the rate last asked of each clock, and granted
  speed,        \* in the modem: the speed of each number, 0 before the first
  astray        \* history: the clocks that have missed a speed, or got another's

clockVars == <<ClocksLookup, used, rate, speed, astray>>

\* The rates above which the next speed is taken, from the highest.
Codec == <<11289600, 8192000, 6144000, 5644800, 4096000, 3072000, 2822400, 2048000>>
Sdac == <<1411200, 1024000, 768000, 705600, 512000, 384000, 352800, 256000>>
Uart == <<61440000, 58982400, 56000000, 51200000, 48000000, 40000000, 32000000, 24000000,
          16000000, 15360000, 14745600, 7680000, 7372800, 3840000>>
Sdc == <<50000000, 49152000, 45000000, 40000000, 35000000, 30000000, 25000000, 20000000,
         15000000, 10000000, 5000000, 400000, 144000>>
Ecodec == <<2048000, 128000>>
Spi == <<15360000, 9600000, 4800000, 960000>>

Bounds ==
  [ICODEC_RX |-> Codec, ICODEC_TX |-> Codec, SDAC_MCLK |-> Sdac, UART1DM |-> Uart, UART2DM |-> Uart,
   ECODEC |-> Ecodec, SPI |-> Spi, SDC1 |-> Sdc, SDC2 |-> Sdc]

\* The two video clocks have the rates of this table and no other.
VfeMdc ==
  [r \in {96000000, 48000000, 24000000, 12000000, 6000000, 3000000} |->
     CASE r = 96000000 -> 37 [] r = 48000000 -> 32 [] r = 24000000 -> 22
       [] r = 12000000 -> 14 [] r = 6000000 -> 6 [] r = 3000000 -> 1]
Vfe ==
  [r \in {36000000, 48000000, 64000000, 78000000, 96000000} |->
     CASE r = 36000000 -> 1 [] r = 48000000 -> 2 [] r = 64000000 -> 3
       [] r = 78000000 -> 4 [] r = 96000000 -> 5]
Exactly == [VFE_MDC |-> VfeMdc, VFE |-> Vfe]

Fixed == {"SDC1_PCLK", "SDC2_PCLK"}
Clocks == DOMAIN Bounds \cup DOMAIN Exactly \cup Fixed \cup {"IMEM", "SDC4_PCLK"}

FillClocksLookup ==
  [ICODEC_RX |-> 50, ICODEC_TX |-> 52, ECODEC |-> 42, SDAC_MCLK |-> 64, IMEM |-> 55, UART1DM |-> 78,
   UART2DM |-> 80, VFE_MDC |-> 40, VFE |-> 41, SPI |-> 95, SDC1 |-> 66, SDC2 |-> 67, SDC1_PCLK |-> 17,
   SDC2_PCLK |-> 16, SDC4_PCLK |-> -1]

\* Mutant: a rate that is exactly a bound is given the next speed.
Cascade_AtLeast(bounds, r) ==
  LET passed == {i \in DOMAIN bounds : r >= bounds[i]} IN
  IF passed = {} THEN 1 ELSE Len(bounds) + 2 - Min(passed)

\* The first bound that the rate is above decides.
Cascade(bounds, r) ==
  LET passed == {i \in DOMAIN bounds : r > bounds[i]} IN
  IF passed = {} THEN 1 ELSE Len(bounds) + 2 - Min(passed)

-----------------------------------------------------------------------------
ASSUME RatesAssumption == \A clock \in Clocks : Rates[clock] \subseteq Nat \ {0}

ClockInit ==
  /\ ClocksLookup = FillClocksLookup
  /\ used \in SUBSET Clocks /\ Cardinality(used) = Together
  /\ rate = [clock \in used |-> 0]
  /\ speed = [n \in {FillClocksLookup[clock] : clock \in used} |-> 0]
  /\ astray = {}

\* What the modem answers is the clock's number from then on: it need not be the
\* one it was asked with.  0 stands for a number that no clock has.
Answers == DOMAIN speed \cup {0}
Renumbered(clock, answer) == ClocksLookup' = [ClocksLookup EXCEPT ![clock] = answer]

\* CotullaClkSetRate: a request that the modem accepts; one that it refuses changes
\* nothing, and the caller is told of success either way.  The peripheral bus
\* clocks are left alone, and so is a video clock that is asked for another rate.
SetRate(clock, r, answer) ==
  LET s == IF clock \in DOMAIN Bounds THEN Cascade(Bounds[clock], r) ELSE Exactly[clock][r]
      n == ClocksLookup[clock]
  IN
  /\ clock \in DOMAIN Bounds \/ (clock \in DOMAIN Exactly /\ r \in DOMAIN Exactly[clock])
  /\ speed' = [speed EXCEPT ![n] = s]
  /\ rate' = [rate EXCEPT ![clock] = r]
  /\ Renumbered(clock, answer)
  /\ astray' = IF n = FillClocksLookup[clock] THEN astray \ {clock}
               ELSE astray \cup {clock} \cup {c \in used : FillClocksLookup[c] = n}
  /\ UNCHANGED used

\* ClkEnable, ClkDisable and ClkGetRate, which ask nothing for a clock without a
\* number.
Switch(clock, answer) ==
  /\ ClocksLookup[clock] # -1
  /\ Renumbered(clock, answer)
  /\ UNCHANGED <<used, rate, speed, astray>>

ClockNext ==
  \E clock \in used, answer \in Answers :
    \/ Switch(clock, answer)
    \/ \E r \in Rates[clock] : SetRate(clock, r, answer)
ClockSpec == ClockInit /\ [][ClockNext]_clockVars

-----------------------------------------------------------------------------
(* Property.                                                               *)

\* Every clock has the lowest speed whose bound is not below the rate that was
\* asked of it, whatever is asked of the other clocks.  A number that the modem
\* has changed harms no other clock than its own and the one it belongs to, and
\* these until they are asked with their own number again (CotullaClkSetRate, lines
\* 70-214; the answer overwrites the table of line 211).
SpeedForRate ==
  \A clock \in used \ astray : rate[clock] # 0 =>
    LET s == speed[FillClocksLookup[clock]] IN
    IF clock \in DOMAIN Exactly THEN Exactly[clock][rate[clock]] = s
    ELSE LET bounds == Bounds[clock]
             Bound(k) == bounds[Len(bounds) + 1 - k] IN
         /\ s <= Len(bounds) => rate[clock] <= Bound(s)
         /\ s > 1 => rate[clock] > Bound(s - 1)
=============================================================================
