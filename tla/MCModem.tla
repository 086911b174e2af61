------------------------------- MODULE MCModem -------------------------------
(***************************************************************************)
(* The mailbox to the modem and the clocks, each on its own.               *)
(***************************************************************************)
EXTENDS Pcom, Clock

VARIABLES
  focus,  \* the part a behaviour is about
  bank, sel, pll, modemPll, current, todo, from, to

\* Rates around every bound.
MCRates ==
  [clock \in Clocks |->
     IF clock \in DOMAIN Bounds
     THEN {1} \cup UNION {{Bounds[clock][i], Bounds[clock][i] + 1} : i \in DOMAIN Bounds[clock]}
     ELSE IF clock \in DOMAIN Exactly THEN DOMAIN Exactly[clock] \cup {1} ELSE {1}]

MCHighest == [clock \in Clocks |-> Max(MCRates[clock])]

Processor == INSTANCE Acpu

acpuVars == <<bank, sel, pll, modemPll, current, todo, from, to>>

\* The parts a behaviour is not about stay in one initial state.
MCInit ==
  /\ focus \in {"modem", "clocks", "processor"}
  /\ PcomInit /\ ClockInit /\ Processor!AcpuInit
  /\ focus # "clocks" => used = {"IMEM", "SDC4_PCLK"}
  /\ focus # "processor" => /\ bank = [b \in 0..1 |-> "other"] /\ sel = [bank |-> 0, source |-> "none"]
                            /\ pll.mode = "normal" /\ ~modemPll

\* A clock returns to the lowest rate before it takes another, and as long as a number
\* or a speed is not that of its clock they have their lowest or highest rate.
ClockStep ==
  /\ ClockNext
  /\ \A clock \in used :
       /\ rate[clock] <= 1 \/ rate'[clock] \in {1, rate[clock]}
       /\ ClocksLookup' # FillClocksLookup \/ astray' # {} => rate'[clock] \in {0, 1, MCHighest[clock]}

MCNext ==
  /\ UNCHANGED focus
  /\ \/ focus = "modem" /\ PcomNext /\ UNCHANGED <<clockVars, acpuVars>>
     \/ focus = "clocks" /\ ClockStep /\ UNCHANGED <<pcomVars, acpuVars>>
     \/ focus = "processor" /\ Processor!AcpuNext /\ UNCHANGED <<pcomVars, clockVars>>

\* The fairness of each module, for the part that the behaviour is about.
MCSpec ==
  /\ MCInit /\ [][MCNext]_<<focus, pcomVars, clockVars, acpuVars>>
  /\ WF_pcomVars(focus = "modem" /\ Step)
  /\ WF_pcomVars(focus = "modem" /\ ModemReady)
  /\ WF_pcomVars(focus = "modem" /\ Serve)
  /\ WF_acpuVars(focus = "processor" /\ Processor!AcpuStep)
  /\ WF_acpuVars(focus = "processor" /\ Processor!Settle)

\* The property of the processor's clock, stated in its module.
ClockedThroughout == Processor!ClockedThroughout
=============================================================================
