------------------------------ MODULE MCHandlers ------------------------------
(***************************************************************************)
(* What has to be served in the end, each on its own: the events of the    *)
(* keypad's driver by their handlers, and interrupts by theirs.            *)
(***************************************************************************)
EXTENDS MCKeypadDxe, Interrupts

VARIABLE focus  \* "events" or "interrupts"

\* Periods of no whole milliseconds, one of them below the shortest match.
MCPeriods == {5000, 15000}

MCInit == focus \in {"events", "interrupts"} /\ Init /\ InterruptsInit

OfEvents(step) == focus = "events" /\ step /\ UNCHANGED irqVars
OfInterrupts(step) == focus = "interrupts" /\ step /\ UNCHANGED vars

MCNext ==
  /\ UNCHANGED focus
  /\ \/ focus = "events" /\ Next /\ UNCHANGED irqVars
     \/ focus = "interrupts" /\ InterruptsNext /\ UNCHANGED vars

\* The fairness of both modules.  A behaviour is about one of them for ever, so
\* that one condition can be that of both.
MCSpec ==
  /\ MCInit /\ [][MCNext]_<<focus, vars, irqVars>>
  /\ WF_<<vars, irqVars>>(OfEvents(Firmware) \/ OfInterrupts(Dispatch))
  /\ SF_<<vars, irqVars>>(OfEvents(FnReturns) \/ OfInterrupts(Take("timer")))
  /\ SF_<<vars, irqVars>>(OfEvents(RepeatRead) \/ OfInterrupts(Take("gpio")))
  /\ SF_<<vars, irqVars>>(OfEvents(PollEndsInTime) \/ OfInterrupts(Take("nobody")))

\* Notifications, reads and interrupts are served, whatever comes in between
\* (KeyNotifyProcessHandler, ReadKeyStroke, IrqInterruptHandler).
AllAreServed == HandlersFinish /\ Served
=============================================================================
