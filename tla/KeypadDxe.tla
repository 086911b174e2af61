------------------------------ MODULE KeypadDxe ------------------------------
(***************************************************************************)
(* KeypadDxe: the SimpleTextIn/SimpleTextInEx driver over a KeypadDevice.  *)
(*                                                                         *)
(* A poll of the device (from the 20 ms timer event or from any read)      *)
(* stores every reported key in EfiKeyQueue and, for each registration it  *)
(* matches, in EfiKeyQueueForNotify, signalling KeyNotifyProcessEvent.     *)
(* That event's handler runs at TPL_CALLBACK, pops keys one by one and     *)
(* walks NotifyList, calling the functions registered for the key.  The    *)
(* functions may call back into the driver.                                *)
(*                                                                         *)
(* The processor runs one thing at a time, ordered by task priority (TPL). *)
(* Code between RaiseTPL(TPL_NOTIFY) and RestoreTPL is one action, except  *)
(* a poll, which is one action per reported key; a TPL_CALLBACK handler    *)
(* runs only when no other one runs, before the application continues.     *)
(*                                                                         *)
(* A keystroke is identified by its serial number; typed[n] is its key.    *)
(***************************************************************************)
EXTENDS Naturals, Sequences, FiniteSets

CONSTANTS
  Codes,       \* ScanCode/UnicodeChar pairs
  NullCode,    \* SCAN_NULL with CHAR_NULL: a partial key
  Modifiers,   \* KeyState values; 0 in a registration matches any
  DeviceKeys,  \* the EFI_KEY_DATA values the device reports
  Fns,         \* notification functions
  Handles,     \* pool addresses for KEYPAD_CONSOLE_IN_EX_NOTIFY nodes
  Free,        \* what an address without a node holds
  Capacity,    \* KEYPAD_EFI_KEY_MAX_COUNT - 1, the keys a queue can hold
  MaxStrokes   \* bound: keystrokes per behaviour

KeyData == [code : Codes, state : Modifiers]
Strokes == 1 .. MaxStrokes
End == "end"       \* the list head, where a walk stops
Gone == "gone"     \* the walk's node was freed under it

ASSUME KeypadAssumption ==
  /\ NullCode \in Codes
  /\ Modifiers \subseteq Nat /\ 0 \in Modifiers
  /\ DeviceKeys \subseteq KeyData
  /\ IsFiniteSet(Handles) /\ End \notin Handles /\ Gone \notin Handles
  /\ Free \notin [key : KeyData, fn : Fns]
  /\ Capacity \in Nat \ {0}
  /\ MaxStrokes \in Nat

VARIABLES
  typed,        \* history: the keys stored so far, indexed by serial number
  keyQueue,     \* EfiKeyQueue, as the serial numbers of its keys
  notifyQueue,  \* EfiKeyQueueForNotify, likewise
  partial,      \* IsSupportPartialKey
  notifyList,   \* NotifyList, as the addresses of its nodes
  node,         \* node[h]: the registration stored at address h
  pending,      \* TPL_CALLBACK events signalled and not yet dispatched
  poll,         \* who polls the device now, or "none"
  phase,        \* where KeyNotifyProcessHandler is
  stroke,       \* its KeyData
  link,         \* its Link
  called,       \* history: nodes called in the walk for this KeyData
  reading,      \* contexts inside the loop of KeypadReadKeyStroke
  lastRead,     \* history: the keystroke a read returned last
  told,         \* WaitForKey was signalled and no key was read since
  resetMark     \* history: keystrokes typed before the last Reset

queues == <<typed, keyQueue, notifyQueue>>
registry == <<notifyList, node>>
handler == <<phase, stroke, link, called>>
reader == <<reading, lastRead, told, resetMark>>
vars == <<queues, partial, registry, pending, poll, handler, reader>>

-----------------------------------------------------------------------------
(* Helpers of the driver.                                                  *)

\* KeyState 0 in the registered key data means the state is ignored.
IsKeyRegistered(registered, input) ==
  /\ registered.code = input.code
  /\ registered.state \in {0, input.state}

IsPartial(n) == typed[n].code = NullCode

\* A queue that received all of s: only the newest Capacity keys stay.
KeepNewest(s) ==
  IF Len(s) > Capacity THEN SubSeq(s, Len(s) - Capacity + 1, Len(s)) ELSE s

Matching(key) == {h \in Handles : \E i \in 1 .. Len(notifyList) :
                    notifyList[i] = h /\ IsKeyRegistered(node[h].key, key)}

\* CoreSignalEvent: an event that is already queued is not queued again.
Signal(event) ==
  pending' = IF \E i \in 1 .. Len(pending) : pending[i] = event
             THEN pending ELSE Append(pending, event)

\* The node after h on the list, End after the last one.
NextOf(list, h) ==
  IF \E i \in 1 .. Len(list) - 1 : list[i] = h
  THEN list[1 + CHOOSE i \in 1 .. Len(list) - 1 : list[i] = h]
  ELSE End
FirstOf(list) == IF list = <<>> THEN End ELSE list[1]

\* Code that calls the driver: the application at TPL_APPLICATION, or a
\* notification function inside the handler.
Context == IF phase = "call" THEN "fn" ELSE "app"
CallerRuns ==
  /\ poll = "none"
  /\ Context \notin reading
  /\ \/ phase = "call"
     \/ phase = "idle" /\ pending = <<>>

-----------------------------------------------------------------------------
(* The device poll: KeypadTimerHandler and the keys GetKeys pushes.        *)

\* The 20 ms timer expires, at any priority.
TimerExpires ==
  /\ phase # "wild"
  /\ Signal("timer")
  /\ UNCHANGED <<queues, partial, registry, poll, handler, reader>>

DispatchTimer ==
  /\ phase = "idle" /\ poll = "none"
  /\ pending # <<>> /\ Head(pending) = "timer"
  /\ pending' = Tail(pending)
  /\ poll' = "timer"
  /\ UNCHANGED <<queues, partial, registry, handler, reader>>

\* KeypadReturnApiPushEfikeyBufTail: the device reports one key.  Every
\* registration that matches stores a copy for the handler.
Push(k) ==
  LET n == Len(typed) + 1
      copies == Cardinality(Matching(k))
  IN
  /\ poll # "none"
  /\ Len(typed) < MaxStrokes
  /\ k.code # NullCode \/ partial
  /\ typed' = Append(typed, k)
  /\ notifyQueue' = KeepNewest(notifyQueue \o [i \in 1 .. copies |-> n])
  /\ IF copies = 0 THEN UNCHANGED pending ELSE Signal("process")
  /\ keyQueue' = KeepNewest(Append(keyQueue, n))
  /\ UNCHANGED <<partial, registry, poll, handler, reader>>

EndTimerPoll ==
  /\ poll = "timer"
  /\ poll' = "none"
  /\ UNCHANGED <<queues, partial, registry, pending, handler, reader>>

-----------------------------------------------------------------------------
(* Reading keys.                                                           *)

\* KeypadReadKeyStroke enters its loop, KeypadReadKeyStrokeEx reads once.
BeginRead ==
  /\ CallerRuns
  /\ poll' = "read"
  /\ reading' = reading \cup {Context}
  /\ UNCHANGED <<queues, partial, registry, pending, handler,
                 lastRead, told, resetMark>>

BeginReadEx ==
  /\ CallerRuns
  /\ poll' = "readEx"
  /\ UNCHANGED <<queues, partial, registry, pending, handler, reader>>

\* The loop polls again; between two rounds the priority drops and events run.
RepeatRead ==
  /\ poll = "none"
  /\ Context \in reading
  /\ phase = "call" \/ (phase = "idle" /\ pending = <<>>)
  /\ poll' = "read"
  /\ UNCHANGED <<queues, partial, registry, pending, handler, reader>>

\* Mutant: the key that is read stays in the queue.
EndRead_LeavesKey ==
  /\ poll \in {"read", "readEx"}
  /\ poll' = "none"
  /\ told' = FALSE
  /\ IF keyQueue = <<>>
     THEN /\ reading' = reading \ {Context}
          /\ UNCHANGED lastRead
     ELSE /\ lastRead' = Head(keyQueue)
          /\ reading' = IF poll = "read" /\ IsPartial(Head(keyQueue))
                        THEN reading ELSE reading \ {Context}
  /\ UNCHANGED <<typed, keyQueue, notifyQueue, partial, registry, pending, handler,
                 resetMark>>

\* KeypadReadKeyStrokeWorker after its poll.  ReadKeyStroke stays in its loop
\* when the key is a partial one.
EndRead ==
  /\ poll \in {"read", "readEx"}
  /\ poll' = "none"
  /\ told' = FALSE
  /\ IF keyQueue = <<>>
     THEN /\ reading' = reading \ {Context}
          /\ UNCHANGED <<keyQueue, lastRead>>
     ELSE /\ lastRead' = Head(keyQueue)
          /\ keyQueue' = Tail(keyQueue)
          /\ reading' = IF poll = "read" /\ IsPartial(Head(keyQueue))
                        THEN reading ELSE reading \ {Context}
  /\ UNCHANGED <<typed, notifyQueue, partial, registry, pending, handler,
                 resetMark>>

BeginWaitForKey ==
  /\ CallerRuns
  /\ poll' = "wait"
  /\ UNCHANGED <<queues, partial, registry, pending, handler, reader>>

\* Mutant: the event is signalled for whatever key is in the queue.
EndWaitForKey_AnyKey ==
  /\ poll = "wait"
  /\ poll' = "none"
  /\ told' = (keyQueue # <<>>)
  /\ UNCHANGED <<queues, partial, registry, pending, handler,
                 reading, lastRead, resetMark>>

\* KeypadWaitForKey after its poll: partial keys at the head are thrown away
\* and the event is signalled if a key is left.
EndWaitForKey ==
  LET full == {i \in 1 .. Len(keyQueue) : ~IsPartial(keyQueue[i])}
  IN
  /\ poll = "wait"
  /\ poll' = "none"
  /\ IF full = {}
     THEN keyQueue' = <<>> /\ told' = FALSE
     ELSE /\ \E i \in full : /\ \A j \in full : i <= j
                             /\ keyQueue' = SubSeq(keyQueue, i, Len(keyQueue))
          /\ told' = TRUE
  /\ UNCHANGED <<typed, notifyQueue, partial, registry, pending, handler,
                 reading, lastRead, resetMark>>

-----------------------------------------------------------------------------
(* Reset, SetState and the registration of notifications.                  *)

\* Mutant: InitKeypad leaves EfiKeyQueueForNotify as it is.
Reset_KeepsNotifyKeys ==
  /\ CallerRuns
  /\ keyQueue' = <<>>
  /\ partial' = FALSE
  /\ told' = FALSE
  /\ resetMark' = Len(typed)
  /\ UNCHANGED <<typed, notifyQueue, registry, pending, poll, handler, reading,
                 lastRead>>

\* KeypadEfiReset -> InitKeypad.
Reset ==
  /\ CallerRuns
  /\ keyQueue' = <<>>
  /\ notifyQueue' = <<>>
  /\ partial' = FALSE
  /\ told' = FALSE
  /\ resetMark' = Len(typed)
  /\ UNCHANGED <<typed, registry, pending, poll, handler, reading, lastRead>>

\* KeypadSetState with EFI_TOGGLE_STATE_VALID; the lock flags it also sets are
\* never read.
SetState(exposed) ==
  /\ CallerRuns
  /\ partial' = exposed
  /\ UNCHANGED <<queues, registry, pending, poll, handler, reader>>

\* Mutant: InsertHeadList for InsertTailList.
RegisterNew_AtHead(key, fn, h) ==
  /\ CallerRuns
  /\ ~ \E i \in 1 .. Len(notifyList) :
         /\ IsKeyRegistered(node[notifyList[i]].key, key)
         /\ node[notifyList[i]].fn = fn
  /\ node[h] = Free
  /\ node' = [node EXCEPT ![h] = [key |-> key, fn |-> fn]]
  /\ notifyList' = <<h>> \o notifyList
  /\ UNCHANGED <<queues, partial, pending, poll, handler, reader>>

\* KeypadRegisterKeyNotify: an existing registration that covers the key with
\* the same function is reused and nothing changes.
RegisterNew(key, fn, h) ==
  /\ CallerRuns
  /\ ~ \E i \in 1 .. Len(notifyList) :
         /\ IsKeyRegistered(node[notifyList[i]].key, key)
         /\ node[notifyList[i]].fn = fn
  /\ node[h] = Free
  /\ node' = [node EXCEPT ![h] = [key |-> key, fn |-> fn]]
  /\ notifyList' = Append(notifyList, h)
  /\ UNCHANGED <<queues, partial, pending, poll, handler, reader>>

\* KeypadUnregisterKeyNotify of a handle that is on the list.
Unregister(h) ==
  /\ CallerRuns
  /\ \E i \in 1 .. Len(notifyList) :
       /\ notifyList[i] = h
       /\ notifyList' = SubSeq(notifyList, 1, i - 1)
                          \o SubSeq(notifyList, i + 1, Len(notifyList))
  /\ node' = [node EXCEPT ![h] = Free]
  /\ called' = called \ {h}
  /\ link' = IF link = h THEN Gone ELSE link
  /\ UNCHANGED <<queues, partial, pending, poll, phase, stroke, reader>>

-----------------------------------------------------------------------------
(* KeyNotifyProcessHandler.                                                *)

DispatchProcess ==
  /\ phase = "idle" /\ poll = "none"
  /\ pending # <<>> /\ Head(pending) = "process"
  /\ pending' = Tail(pending)
  /\ phase' = "pop"
  /\ UNCHANGED <<queues, partial, registry, poll, stroke, link, called, reader>>

\* The critical section at the top of its loop.
PopForNotify ==
  /\ phase = "pop"
  /\ IF notifyQueue = <<>>
     THEN /\ phase' = "idle"
          /\ UNCHANGED <<notifyQueue, stroke, link, called>>
     ELSE /\ phase' = "walk"
          /\ stroke' = Head(notifyQueue)
          /\ notifyQueue' = Tail(notifyQueue)
          /\ link' = FirstOf(notifyList)
          /\ called' = {}
  /\ UNCHANGED <<typed, keyQueue, partial, registry, pending, poll, reader>>

\* Mutant: the handler processes one key per event.
VisitNode_OneKeyPerEvent ==
  /\ phase = "walk"
  /\ \/ /\ link = End
        /\ phase' = "idle"
        /\ UNCHANGED <<link, called>>
     \/ /\ link # End
        /\ IsKeyRegistered(node[link].key, typed[stroke])
        /\ phase' = "call"
        /\ called' = called \cup {link}
        /\ UNCHANGED link
     \/ /\ link # End
        /\ ~IsKeyRegistered(node[link].key, typed[stroke])
        /\ link' = NextOf(notifyList, link)
        /\ UNCHANGED <<phase, called>>
  /\ UNCHANGED <<queues, partial, registry, pending, poll, stroke, reader>>

\* The walk calls the function of the node at Link if the key matches, steps
\* over it if not, and goes back to the queue at the end of the list.
VisitNode ==
  /\ phase = "walk"
  /\ \/ /\ link = End
        /\ phase' = "pop"
        /\ UNCHANGED <<link, called>>
     \/ /\ link # End
        /\ IsKeyRegistered(node[link].key, typed[stroke])
        /\ phase' = "call"
        /\ called' = called \cup {link}
        /\ UNCHANGED link
     \/ /\ link # End
        /\ ~IsKeyRegistered(node[link].key, typed[stroke])
        /\ link' = NextOf(notifyList, link)
        /\ UNCHANGED <<phase, called>>
  /\ UNCHANGED <<queues, partial, registry, pending, poll, stroke, reader>>

\* The function returns and the walk reads the node's ForwardLink.  If the
\* function freed that node the walk reads freed memory: what happens then is
\* undefined, and "wild" stands for it.
FnReturns ==
  /\ phase = "call" /\ poll = "none" /\ "fn" \notin reading
  /\ IF link = Gone
     THEN phase' = "wild" /\ UNCHANGED link
     ELSE phase' = "walk" /\ link' = NextOf(notifyList, link)
  /\ UNCHANGED <<queues, partial, registry, pending, poll, stroke, called,
                 reader>>

-----------------------------------------------------------------------------
Init ==
  /\ typed = <<>> /\ keyQueue = <<>> /\ notifyQueue = <<>>
  /\ partial = FALSE
  /\ notifyList = <<>>
  /\ node = [h \in Handles |-> Free]
  /\ pending = <<>>
  /\ poll = "none"
  /\ phase = "idle" /\ stroke = 0 /\ link = End /\ called = {}
  /\ reading = {} /\ lastRead = 0 /\ told = FALSE /\ resetMark = 0

Callers ==
  \/ BeginRead \/ BeginReadEx \/ BeginWaitForKey \/ Reset
  \/ \E exposed \in BOOLEAN : SetState(exposed)
  \/ \E key \in KeyData, fn \in Fns, h \in Handles : RegisterNew(key, fn, h)
  \/ \E h \in Handles : Unregister(h)

\* What the firmware runs to completion once it has begun.
Firmware ==
  \/ DispatchTimer \/ EndTimerPoll
  \/ RepeatRead \/ EndRead \/ EndWaitForKey
  \/ DispatchProcess \/ PopForNotify \/ VisitNode \/ FnReturns

Next == TimerExpires \/ (\E k \in DeviceKeys : Push(k)) \/ Callers \/ Firmware

Spec == Init /\ [][Next]_vars
-----------------------------------------------------------------------------
(* Properties.                                                             *)

Phases == {"idle", "pop", "walk", "call", "wild"}
Polls == {"none", "timer", "read", "readEx", "wait"}

TypeOK ==
  /\ typed \in Seq(KeyData) /\ Len(typed) <= MaxStrokes
  /\ keyQueue \in Seq(Strokes) /\ Len(keyQueue) <= Capacity
  /\ notifyQueue \in Seq(Strokes) /\ Len(notifyQueue) <= Capacity
  /\ partial \in BOOLEAN
  /\ notifyList \in Seq(Handles)
  /\ node \in [Handles -> [key : KeyData, fn : Fns] \cup {Free}]
  /\ pending \in Seq({"timer", "process"})
  /\ poll \in Polls
  /\ phase \in Phases
  /\ stroke \in Strokes \cup {0}
  /\ link \in Handles \cup {End, Gone}
  /\ called \in SUBSET Handles
  /\ reading \in SUBSET {"app", "fn"}
  /\ lastRead \in Strokes \cup {0}
  /\ told \in BOOLEAN
  /\ resetMark \in Strokes \cup {0}

IsPending(event) == \E i \in 1 .. Len(pending) : pending[i] = event

\* No lost wakeup: while a key waits for its notification, the handler that
\* drains the queue is running or its event is signalled.  The handler pops
\* outside the walk, functions poll and push from inside it, and Reset empties
\* the queue under it.
NoLostWakeup ==
  notifyQueue # <<>> => IsPending("process") \/ phase # "idle"

\* NotifyList and the node pool agree: every listed node is allocated, every
\* allocated node is listed, once.
ListMatchesPool ==
  /\ \A i, j \in 1 .. Len(notifyList) :
       notifyList[i] = notifyList[j] => i = j
  /\ \A h \in Handles :
       node[h] # Free <=> \E i \in 1 .. Len(notifyList) : notifyList[i] = h

\* A walk has called every matching registration it has passed, whatever the
\* functions registered and unregistered in the meantime.
WalkCallsEveryMatch ==
  phase \in {"walk", "call"} /\ link # Gone =>
    \A i \in 1 .. Len(notifyList) :
      \/ notifyList[i] \in called
      \/ ~IsKeyRegistered(node[notifyList[i]].key, typed[stroke])
      \/ \E j \in 1 .. i : notifyList[j] = link

\* A signalled WaitForKey means ReadKeyStroke will find a key that is not a
\* partial one, unless the queue has run full since.
WaitForKeyIsHonest ==
  told /\ Len(keyQueue) < Capacity =>
    \E i \in 1 .. Len(keyQueue) : ~IsPartial(keyQueue[i])

\* The end of a read that finds a key.
KeyIsRead == poll \in {"read", "readEx"} /\ poll' = "none" /\ keyQueue # <<>>

\* Keys are read in the order they were typed, each at most once, and never
\* one from before the last Reset: each read gets a newer key than the read
\* before it did (KeypadReadKeyStrokeWorker).
ReadsAreOrderedAndFresh ==
  [][KeyIsRead => lastRead' > lastRead /\ lastRead' > resetMark]_vars

\* Notifications are in typing order, and a walk never starts for a key from
\* before the last Reset.
NotificationsAreOrderedAndFresh ==
  [][phase = "pop" /\ phase' = "walk" =>
       stroke' >= stroke /\ stroke' > resetMark]_vars

-----------------------------------------------------------------------------
(* Liveness.  Handlers run to completion; a notification function returns   *)
(* however often it calls the driver; and a poll takes less than the 20 ms  *)
(* timer period, so that the timer event is not signalled again in every    *)
(* poll and the code below TPL_CALLBACK is not starved.                     *)
PollEndsInTime == EndTimerPoll /\ \A i \in 1 .. Len(pending) : pending[i] # "timer"

FairSpec ==
  /\ Spec
  /\ WF_vars(Firmware)
  /\ SF_vars(FnReturns)
  /\ SF_vars(RepeatRead)
  /\ SF_vars(PollEndsInTime)

\* Keys queued for notification are all processed.
NotifyQueueDrains ==
  notifyQueue # <<>> ~> (notifyQueue = <<>> \/ phase = "wild")

\* A call of ReadKeyStroke returns, also when partial keys keep it looping.
ReadReturns == "app" \in reading ~> ("app" \notin reading \/ phase = "wild")

\* What has begun in the handlers and in the readers comes to its end.
HandlersFinish == NotifyQueueDrains /\ ReadReturns
=============================================================================
