-------------------------------- MODULE GptTimer --------------------------------
(***************************************************************************)
(* The delays of GPTTimerLib.c: a counter is read until it reaches a target *)
(* that may lie beyond its end.                                            *)
(***************************************************************************)
EXTENDS Naturals

CONSTANTS
  Turn,       \* the values of the counter: 2^32 in the code
  Gap,        \* the ticks that may go by between two reads of the counter
  Delays      \* bound: the delays asked for, in microseconds

Ticks(us) == (us * 33 + 1000 - 33) \div 1000

\* A delay is a number of as many bits as the counter has, and a tick is 30 us:
\* it is over within a turn.  The loops run with interrupts on: a tick goes by
\* between two reads, or as many as the handlers that run in between take,
\* though not half a turn, which is eighteen hours.
ASSUME GptAssumption ==
  /\ Turn \in Nat /\ Gap \in Nat /\ Gap >= 1 /\ 2 * Gap <= Turn
  /\ Delays \subseteq Nat /\ \A us \in Delays : Ticks(us) < Turn

VARIABLES
  GPT_COUNT_VAL, \* the counter
  elapsed,       \* ticks since MicroSecondDelay read it first, two turns for more
  unread,        \* ticks since MicroSecondDelay read it last
  MicroSeconds,  \* what was asked for
  Count, InitCount, Timeout,
  gptPc          \* "call", "wrap", "target" or "return"

gptVars == <<GPT_COUNT_VAL, elapsed, unread, MicroSeconds, Count, InitCount, Timeout, gptPc>>

NanoSeconds(ns) == ns \div 1000 + (IF ns % 1000 = 0 THEN 0 ELSE 1)

GptInit ==
  /\ GPT_COUNT_VAL = 0   \* TimerEarlyInit has cleared it
  /\ elapsed = 0 /\ unread = 0 /\ MicroSeconds = 0
  /\ Count = 0 /\ InitCount = 0 /\ Timeout = 0 /\ gptPc = "call"

\* The counter counts, in a delay and between two.
Tick ==
  /\ GPT_COUNT_VAL' = (GPT_COUNT_VAL + 1) % Turn
  /\ IF gptPc = "call" THEN UNCHANGED <<elapsed, unread>>
     ELSE unread < Gap /\ unread' = unread + 1 /\ elapsed' = (IF elapsed = 2 * Turn THEN elapsed ELSE elapsed + 1)
  /\ gptPc # "return"
  /\ UNCHANGED <<MicroSeconds, Count, InitCount, Timeout, gptPc>>

Read == Count' = GPT_COUNT_VAL /\ unread' = 0

\* NanoSecondDelay calls with the next whole microsecond.
MicroSecondDelay(us) ==
  /\ gptPc = "call"
  /\ MicroSeconds' = us /\ elapsed' = 0
  /\ Read /\ InitCount' = GPT_COUNT_VAL
  /\ Timeout' = (GPT_COUNT_VAL + Ticks(us)) % Turn
  /\ gptPc' = "wrap"
  /\ UNCHANGED GPT_COUNT_VAL

WaitForWrap ==
  /\ gptPc = "wrap"
  /\ IF Timeout < Count /\ InitCount <= Count THEN Read /\ UNCHANGED gptPc
     ELSE gptPc' = "target" /\ UNCHANGED <<Count, unread>>
  /\ UNCHANGED <<GPT_COUNT_VAL, elapsed, MicroSeconds, InitCount, Timeout>>

\* Mutant: a counter that has just reached the target is read once more.
WaitForTarget_Passed ==
  /\ gptPc = "target"
  /\ IF Timeout + 1 > Count THEN Read /\ UNCHANGED gptPc
     ELSE gptPc' = "return" /\ UNCHANGED <<Count, unread>>
  /\ UNCHANGED <<GPT_COUNT_VAL, elapsed, MicroSeconds, InitCount, Timeout>>

WaitForTarget ==
  /\ gptPc = "target"
  /\ IF Timeout > Count THEN Read /\ UNCHANGED gptPc
     ELSE gptPc' = "return" /\ UNCHANGED <<Count, unread>>
  /\ UNCHANGED <<GPT_COUNT_VAL, elapsed, MicroSeconds, InitCount, Timeout>>

DelayReturns ==
  /\ gptPc = "return" /\ gptPc' = "call"
  /\ UNCHANGED <<GPT_COUNT_VAL, elapsed, unread, MicroSeconds, Count, InitCount, Timeout>>

GptStep == WaitForWrap \/ WaitForTarget
GptNext ==
  \/ Tick \/ GptStep \/ DelayReturns
  \/ \E us \in Delays \cup {NanoSeconds(ns) : ns \in Delays} : MicroSecondDelay(us)
GptSpec == GptInit /\ [][GptNext]_gptVars /\ WF_gptVars(GptStep) /\ WF_gptVars(Tick)

-----------------------------------------------------------------------------
(* Properties.                                                             *)

\* What the comparisons of the two loops rest on: the target is not so near the
\* end of the counter that the counter may start again between two reads with the
\* target passed, and a delay that goes beyond the end does not begin so near the
\* start that the counter may be past its beginning when it is read again.
InSight == Timeout + Gap <= Turn /\ (InitCount <= Timeout \/ Gap <= InitCount)

\* A delay is over no earlier than the counter has advanced by enough ticks, and
\* these make up the delay, up to the microsecond that the rounding loses: a tick
\* is 30.5 us.  Ticks are counted as they come and the first may come at once, so
\* that a delay can be that much shorter.  While the target is in sight it is read
\* before another Gap goes by, and the delay is over within one more; else it
\* may last a turn longer (MicroSecondDelay, lines 35-67).
DelayExact ==
  gptPc = "return" =>
    /\ elapsed >= Ticks(MicroSeconds) /\ elapsed * 1000 + 33 > MicroSeconds * 33
    /\ InSight => elapsed < Ticks(MicroSeconds) + 2 * Gap

\* A delay whose target is in sight ends, wherever the counter is when it begins.
DelayEnds == gptPc = "wrap" /\ InSight ~> gptPc = "return"
=============================================================================
