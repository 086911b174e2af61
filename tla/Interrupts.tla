------------------------------- MODULE Interrupts -------------------------------
(***************************************************************************)
(* The interrupt controller of InterruptDxe.c and the timer of TimerDxe.     *)
(* The dispatcher runs nested: the timer's handler lowers the priority       *)
(* before it returns, and the next interrupt comes in between.              *)
(***************************************************************************)
EXTENDS Naturals, Sequences, SequencesExt

CONSTANTS
  Depth,     \* bound: how many dispatches are nested
  Periods    \* bound: the timer periods that are asked for, in units of 100 ns

VARIABLES
  handlers,  \* gRegisteredInterruptHandlers: the sources that have one
  enabled,   \* VIC_INT_EN0, VIC_INT_EN1
  master,    \* VIC_INT_MASTEREN
  latched,   \* the controller has seen an edge of the source
  waiting,   \* the sources whose device waits for the handler it has
  service,   \* an interrupt has been taken and is not ended yet
  frames,    \* the dispatches that run, the outermost first
  notify,    \* mTimerNotifyFunction is registered
  mTimerPeriod,
  match,     \* DGT_MATCH_VAL in milliseconds
  dgt,       \* DGT_ENABLE
  todo       \* what the code that is interrupted has yet to do

irqVars == <<handlers, enabled, master, latched, waiting, service, frames, notify,
             mTimerPeriod, match, dgt, todo>>
vic == <<handlers, enabled, master>>
timer == <<notify, mTimerPeriod, match, dgt>>

\* What the constants are.
ASSUME InterruptsAssumption == Depth \in Nat /\ Periods \subseteq Nat

\* Sources 0 and 32 are enabled at the start and nobody's.
Sources == {"timer", "gpio", "nobody"}

\* A step of the interrupted code, and the period it is about.
Step(do) == [do |-> do, period |-> 0]
Set(period) == [do |-> IF period = 0 THEN "off" ELSE "set", period |-> period]
Calls(todos) == [n \in DOMAIN todos |-> Step(todos[n])]

\* PcdTimerPeriod is one millisecond.
InterruptsInit ==
  /\ handlers = {} /\ enabled = {} /\ master = FALSE
  /\ latched = {} /\ waiting = {} /\ service = FALSE /\ frames = <<>>
  /\ notify = FALSE /\ mTimerPeriod = 0 /\ match = 0 /\ dgt = FALSE
  /\ todo = Append(Calls(<<"init", "gpio", "off", "timer">>), Set(10000))

-----------------------------------------------------------------------------
(* The dispatcher, IrqInterruptHandler.                                    *)

Depths == Len(frames)
Top == frames[Depths]
At(pc) == frames # <<>> /\ Top.pc = pc
Goto(pc) == frames' = [frames EXCEPT ![Depths].pc = pc]

\* The exception masks interrupts, and only RestoreTPL at the end of the timer's
\* handler admits them again.
Admits == frames # <<>> => Top.source = "timer" /\ Top.pc \in {"end", "return"}

\* A device raises its line.  The GPIO group has no pin enabled, but others
\* that register behave as it would.
Raise(source) ==
  /\ source = "timer" => dgt
  /\ latched' = latched \cup {source}
  /\ waiting' = waiting \cup ({source} \cap handlers)
  /\ UNCHANGED <<vic, service, frames, timer, todo>>

\* VIC_IRQ_VEC_RD: no other interrupt comes until this one is ended.
Take(source) ==
  /\ Admits /\ Depths < Depth /\ master /\ ~service
  /\ source \in latched \cap enabled
  /\ service' = TRUE
  /\ frames' = Append(frames, [source |-> source, pc |-> "clear"])
  /\ UNCHANGED <<vic, latched, waiting, timer, todo>>

Clear ==
  /\ At("clear")
  /\ latched' = latched \ {Top.source} /\ Goto("call")
  /\ UNCHANGED <<vic, waiting, service, timer, todo>>

\* The handler: the GPIO one is done at once, the timer's has more to do.
CallHandler ==
  /\ At("call")
  /\ waiting' = IF Top.source \in handlers THEN waiting \ {Top.source} ELSE waiting
  /\ Goto(IF Top.source = "timer" /\ Top.source \in handlers THEN "eoi" ELSE "end")
  /\ UNCHANGED <<vic, latched, service, timer, todo>>

\* EndOfInterrupt, VIC_IRQ_VEC_WR.
EndOfInterrupt == service' = FALSE

TimerHandlerEnds ==
  /\ At("eoi")
  /\ EndOfInterrupt /\ Goto("end")
  /\ UNCHANGED <<vic, latched, waiting, timer, todo>>

\* Mutant: the handlers are trusted to end their interrupt.
EndDispatch_Trusts ==
  /\ At("end")
  /\ Goto("return")
  /\ UNCHANGED <<vic, latched, waiting, service, timer, todo>>

\* Mutant: the edge is forgotten only when the handler has run.
EndDispatch_Clears ==
  /\ At("end")
  /\ EndOfInterrupt /\ Goto("return")
  /\ latched' = latched \ {Top.source}
  /\ UNCHANGED <<vic, waiting, timer, todo>>

EndDispatch ==
  /\ At("end")
  /\ EndOfInterrupt /\ Goto("return")
  /\ UNCHANGED <<vic, latched, waiting, timer, todo>>

Return ==
  /\ At("return")
  /\ frames' = Front(frames)
  /\ UNCHANGED <<vic, latched, waiting, service, timer, todo>>

-----------------------------------------------------------------------------
(* The code that interrupts interrupt: the drivers' entry points, then the   *)
(* users of the protocols, then the exit from boot services.                *)

Do(step) == frames = <<>> /\ todo # <<>> /\ Head(todo).do = step
NextStep == todo' = Tail(todo)

InitInterrupts ==
  /\ Do("init") /\ NextStep
  /\ latched' = {} /\ enabled' = {"nobody"} /\ master' = TRUE
  /\ UNCHANGED <<handlers, waiting, service, frames, timer>>

\* RegisterInterruptSource with a handler.
Register(source) ==
  /\ Do(source) /\ NextStep
  /\ source \notin handlers
  /\ handlers' = handlers \cup {source} /\ enabled' = enabled \cup {source}
  /\ UNCHANGED <<master, latched, waiting, service, frames, timer>>

\* TimerDriverSetTimerPeriod(0).
StopTimer ==
  /\ Do("off") /\ NextStep
  /\ dgt' = FALSE /\ enabled' = enabled \ {"timer"} /\ mTimerPeriod' = 0
  /\ UNCHANGED <<handlers, master, latched, waiting, service, frames, notify, match>>

ProgramTimer ==
  /\ Do("set")
  /\ match' = Head(todo).period \div 10000 /\ dgt' = TRUE
  /\ enabled' = enabled \ {"timer"}
  /\ todo' = <<Step("enable_timer"), [Head(todo) EXCEPT !.do = "note"]>> \o Tail(todo)
  /\ UNCHANGED <<handlers, master, latched, waiting, service, frames, notify, mTimerPeriod>>

EnableTimer ==
  /\ Do("enable_timer") /\ NextStep
  /\ enabled' = enabled \cup {"timer"}
  /\ UNCHANGED <<handlers, master, latched, waiting, service, frames, timer>>

NotePeriod ==
  /\ Do("note") /\ NextStep
  /\ mTimerPeriod' = Head(todo).period
  /\ UNCHANGED <<vic, latched, waiting, service, frames, notify, match, dgt>>

\* The DXE core registers its function, and takes it back, and asks for periods.
RegisterHandler ==
  /\ frames = <<>> /\ todo = <<>> /\ master
  /\ notify' = ~notify
  /\ UNCHANGED <<vic, latched, waiting, service, frames, mTimerPeriod, match, dgt, todo>>

Ask ==
  /\ frames = <<>> /\ todo = <<>> /\ master
  /\ \E period \in Periods \cup {0} : todo' = <<Set(period)>>
  /\ UNCHANGED <<vic, latched, waiting, service, frames, timer>>

\* RegisterInterruptSource with NULL: the source stays enabled.
UnregisterInterruptSource(source) ==
  /\ frames = <<>> /\ todo = <<>> /\ master
  /\ source \in handlers
  /\ handlers' = handlers \ {source} /\ enabled' = enabled \cup {source}
  /\ waiting' = waiting \ {source}
  /\ UNCHANGED <<master, latched, service, frames, timer, todo>>

\* Both drivers get the event, in either order.
ExitBootServices ==
  /\ frames = <<>> /\ todo = <<>> /\ master
  /\ todo' \in {Calls(<<"off", "deinit">>), Calls(<<"deinit", "off">>)}
  /\ UNCHANGED <<vic, latched, waiting, service, frames, timer>>

\* ExitBootServicesEvent disables every source, then DeinitInterupts.
DeinitInterrupts ==
  /\ Do("deinit") /\ NextStep
  /\ enabled' = {} /\ master' = FALSE /\ latched' = {}
  /\ UNCHANGED <<handlers, waiting, service, frames, timer>>

Dispatch == Clear \/ CallHandler \/ TimerHandlerEnds \/ EndDispatch \/ Return
InterruptsNext ==
  \/ Dispatch \/ InitInterrupts \/ StopTimer \/ ProgramTimer \/ EnableTimer \/ NotePeriod
  \/ RegisterHandler \/ Ask \/ ExitBootServices \/ DeinitInterrupts
  \/ \E source \in Sources :
       Raise(source) \/ Take(source) \/ Register(source) \/ UnregisterInterruptSource(source)
\* A dispatch runs on; the controller delivers what it may deliver.
InterruptsFairness ==
  WF_irqVars(Dispatch) /\ \A source \in Sources : SF_irqVars(Take(source))
InterruptsSpec == InterruptsInit /\ [][InterruptsNext]_irqVars /\ InterruptsFairness

-----------------------------------------------------------------------------
(* Properties.                                                             *)

\* No edge is lost: a device that waits has its interrupt latched or its handler
\* about to be called (InterruptDxe.c, lines 286-296).
NoneLost ==
  \A source \in waiting :
    \/ source \in latched
    \/ \E n \in 1..Depths : frames[n].source = source /\ frames[n].pc = "call"
    \/ ~master

\* The ticks are never farther apart than the period says, and less than a
\* millisecond closer: whole milliseconds are exact, the rest is cut off.
InForce(period) == match * 10000 \in (period - 9999)..period

\* Outside of TimerDriverSetTimerPeriod the timer runs exactly when there is a
\* period, at that period cut to milliseconds, and it is never left running with
\* its source disabled (Timer.c, lines 169-207).
PeriodInForce ==
  (todo = <<>> /\ master) =>
    /\ dgt <=> mTimerPeriod # 0
    /\ dgt => InForce(mTimerPeriod) /\ "timer" \in enabled

\* A device with a handler gets it called, or its source is switched off; also
\* when its edge comes while another dispatch runs (InterruptDxe.c, line 299).
Served ==
  \A source \in Sources : source \in waiting ~> (source \in waiting => source \notin enabled)

\* Neither an edge nor the timer's period is lost, in nested dispatches, changes
\* of the period and a register that is shared.
NothingLost == NoneLost /\ PeriodInForce
=============================================================================
