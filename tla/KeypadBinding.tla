---------------------------- MODULE KeypadBinding ----------------------------
(***************************************************************************)
(* The driver binding of KeypadDxe: what Start builds on a controller, what*)
(* its error exit and Stop take down again, and the handlers of the events *)
(* Start creates, which run between any two steps of either.               *)
(***************************************************************************)
EXTENDS FiniteSets

VARIABLES
  pc,         \* where Start or Stop is; "wild" after a use of a NULL device
  opened,     \* the KeypadDevice protocol is open BY_DRIVER
  pool,       \* pool allocations: "dev", "names", and "node" for NotifyList
  field,      \* events whose field in the device is not NULL
  live,       \* events that exist
  armed,      \* the periodic timer is set
  queued,     \* events whose notification function is queued
  installed   \* SimpleTextIn and SimpleTextInEx are on the controller

bindingVars == <<pc, opened, pool, field, live, armed, queued, installed>>

Proceed(step) == pc' = step

-----------------------------------------------------------------------------
(* KeypadControllerDriverStart.  Every service it calls may fail.          *)

\* The protocol is already open when the driver manages the controller.
KeypadControllerDriverStart ==
  /\ pc = "idle" /\ ~opened
  /\ opened' = TRUE
  /\ Proceed("alloc")
  /\ UNCHANGED <<pool, field, live, armed, queued, installed>>

AllocateDevice ==
  /\ pc = "alloc"
  /\ \/ Proceed("createWait") /\ pool' = pool \cup {"dev"}
     \/ Proceed("exitWait") /\ UNCHANGED pool
  /\ UNCHANGED <<opened, field, live, armed, queued, installed>>

Create(at, event, next) ==
  /\ pc = at
  /\ \/ /\ Proceed(next)
        /\ field' = field \cup {event}
        /\ live' = live \cup {event}
     \/ Proceed("exitWait") /\ UNCHANGED <<field, live>>
  /\ UNCHANGED <<opened, pool, armed, queued, installed>>

CreateEvents ==
  \/ Create("createWait", "WaitForKey", "createWaitEx")
  \/ Create("createWaitEx", "WaitForKeyEx", "createTimer")
  \/ Create("createTimer", "TimerEvent", "setTimer")
  \/ Create("createNotify", "KeyNotifyProcessEvent", "reset")

SetTimer ==
  /\ pc = "setTimer"
  /\ \/ Proceed("createNotify") /\ armed' = TRUE
     \/ Proceed("exitWait") /\ UNCHANGED armed
  /\ UNCHANGED <<opened, pool, field, live, queued, installed>>

ResetDevice ==
  /\ pc = "reset"
  /\ Proceed("install") \/ Proceed("exitWait")
  /\ UNCHANGED <<opened, pool, field, live, armed, queued, installed>>

\* The name table is built before the protocols are installed.
Install ==
  /\ pc = "install"
  /\ pool' = pool \cup {"names"}
  /\ \/ Proceed("idle") /\ installed' = TRUE
     \/ Proceed("exitWait") /\ UNCHANGED installed
  /\ UNCHANGED <<opened, field, live, armed, queued>>

-----------------------------------------------------------------------------
(* Taking down.                                                            *)

\* CloseEvent also takes the event out of the notification queue.
Close(event) ==
  IF event \in field
  THEN /\ live' = live \ {event}
       /\ queued' = queued \ {event}
       /\ armed' = (armed /\ event # "TimerEvent")
  ELSE UNCHANGED <<live, queued, armed>>

\* The error exit closes events and leaves the fields, Stop sets them to NULL.
ExitClose(at, event, next) ==
  /\ pc = at
  /\ Close(event)
  /\ Proceed(next)
  /\ UNCHANGED <<opened, pool, field, installed>>

\* Mutant: the fields keep the closed events.
StopClose_KeepsField(at, event, next) ==
  /\ pc = at
  /\ Close(event)
  /\ Proceed(next)
  /\ UNCHANGED <<opened, pool, field, installed>>

StopClose(at, event, next) ==
  /\ pc = at
  /\ Close(event)
  /\ field' = field \ {event}
  /\ Proceed(next)
  /\ UNCHANGED <<opened, pool, installed>>

ExitCloses ==
  \/ ExitClose("exitWait", "WaitForKey", "exitTimer")
  \/ ExitClose("exitTimer", "TimerEvent", "exitWaitEx")
  \/ ExitClose("exitWaitEx", "WaitForKeyEx", "exitNotify")
  \/ ExitClose("exitNotify", "KeyNotifyProcessEvent", "exitList")

StopCloses ==
  \/ StopClose("stopTimer", "TimerEvent", "stopUninstall")
  \/ StopClose("stopWait", "WaitForKey", "stopWaitEx")
  \/ StopClose("stopWaitEx", "WaitForKeyEx", "stopNotify")
  \/ StopClose("stopNotify", "KeyNotifyProcessEvent", "stopList")

\* KbdFreeNotifyList gets the address of a member, which is not NULL when the
\* device is: it then walks a list that is not there.
FreeNotifyList(at, next) ==
  /\ pc = at
  /\ IF "dev" \in pool
     THEN Proceed(next) /\ pool' = pool \ {"node"}
     ELSE Proceed("wild") /\ UNCHANGED pool
  /\ UNCHANGED <<opened, field, live, armed, queued, installed>>

FreeDevice(at, next) ==
  /\ pc = at
  /\ pool' = pool \ {"dev", "names"}
  /\ field' = {}
  /\ Proceed(next)
  /\ UNCHANGED <<opened, live, armed, queued, installed>>

CloseProtocol(at, next) ==
  /\ pc = at
  /\ opened' = FALSE
  /\ Proceed(next)
  /\ UNCHANGED <<pool, field, live, armed, queued, installed>>

ErrorExit ==
  \/ ExitCloses
  \/ FreeNotifyList("exitList", "exitFree")
  \/ FreeDevice("exitFree", "exitProtocol")
  \/ CloseProtocol("exitProtocol", "idle")

\* It goes on only when both protocols are there.
KeypadControllerDriverStop ==
  /\ pc = "idle" /\ installed
  /\ Proceed("stopTimer")
  /\ UNCHANGED <<opened, pool, field, live, armed, queued, installed>>

\* The protocols stay when a driver that uses them cannot be disconnected.
Uninstall ==
  /\ pc = "stopUninstall"
  /\ \/ Proceed("stopProtocol") /\ installed' = FALSE
     \/ Proceed("idle") /\ UNCHANGED installed
  /\ UNCHANGED <<opened, pool, field, live, armed, queued>>

StopRest ==
  \/ StopCloses \/ Uninstall
  \/ CloseProtocol("stopProtocol", "stopWait")
  \/ FreeNotifyList("stopList", "stopFree")
  \/ FreeDevice("stopFree", "idle")

-----------------------------------------------------------------------------
(* Users of the protocols and the event handlers.                          *)

Register ==
  /\ installed /\ pool' = pool \cup {"node"}
  /\ UNCHANGED <<pc, opened, field, live, armed, queued, installed>>

Unregister ==
  /\ installed /\ pool' = pool \ {"node"}
  /\ UNCHANGED <<pc, opened, field, live, armed, queued, installed>>

Tick ==
  /\ armed /\ pc # "wild"
  /\ queued' = queued \cup {"TimerEvent"}
  /\ UNCHANGED <<pc, opened, pool, field, live, armed, installed>>

\* A poll signals the notification event if a registered key comes in.
RunTimerHandler ==
  /\ "TimerEvent" \in queued /\ pc # "wild"
  /\ \/ queued' = queued \ {"TimerEvent"}
     \/ /\ "node" \in pool
        /\ queued' = (queued \ {"TimerEvent"}) \cup {"KeyNotifyProcessEvent"}
  /\ UNCHANGED <<pc, opened, pool, field, live, armed, installed>>

RunNotifyHandler ==
  /\ "KeyNotifyProcessEvent" \in queued /\ pc # "wild"
  /\ queued' = queued \ {"KeyNotifyProcessEvent"}
  /\ UNCHANGED <<pc, opened, pool, field, live, armed, installed>>

-----------------------------------------------------------------------------
BindingInit ==
  /\ pc = "idle" /\ opened = FALSE /\ pool = {} /\ field = {} /\ live = {}
  /\ armed = FALSE /\ queued = {} /\ installed = FALSE

BindingNext ==
  \/ KeypadControllerDriverStart \/ AllocateDevice \/ CreateEvents \/ SetTimer \/ ResetDevice \/ Install
  \/ ErrorExit \/ KeypadControllerDriverStop \/ StopRest
  \/ Register \/ Unregister \/ Tick \/ RunTimerHandler \/ RunNotifyHandler

BindingSpec == BindingInit /\ [][BindingNext]_bindingVars
-----------------------------------------------------------------------------
(* Properties.                                                             *)

\* No handler outlives what it works on: an event exists only while the device
\* it gets as its context does, and only existing events are queued, whichever
\* step of Start failed and however often Stop was tried.
HandlersHaveTheirDevice ==
  /\ live # {} => "dev" \in pool
  /\ queued \subseteq live

\* Start's failures and Stop leave nothing behind, and a Stop that was refused
\* can be repeated.
NoLeak ==
  pc = "idle" /\ ~installed => live = {} /\ pool = {} /\ ~opened /\ ~armed

\* CloseEvent is called for events that exist, also in a second Stop.
ClosesLiveEvents ==
  /\ pc = "stopTimer" /\ "TimerEvent" \in field => "TimerEvent" \in live
  /\ pc = "stopWait" /\ "WaitForKey" \in field => "WaitForKey" \in live

\* An installed keypad is polled by its periodic timer.
InstalledIsPolled == pc = "idle" /\ installed => armed

\* Whichever step of Start failed, and however often Stop was refused and tried
\* again (Keypad.c, lines 199-426).
NothingDangles == HandlersHaveTheirDevice /\ NoLeak /\ ClosesLiveEvents
=============================================================================
