------------------------------ MODULE KeypadLed ------------------------------
(***************************************************************************)
(* The light of the keypad: a poll that finds a lit key pressed turns it   *)
(* on and sets a timer that turns it off 5 s later.  Every call makes a    *)
(* timer event of its own and none is ever closed.                         *)
(*                                                                         *)
(* A poll runs at TPL_NOTIFY when an application reads a key, so a timer   *)
(* that has expired may be waiting for its callback at TPL_CALLBACK.       *)
(***************************************************************************)
EXTENDS Naturals, FiniteSets

CONSTANTS
  LedTime,    \* EFI_TIMER_PERIOD_MILLISECONDS(5000), in units
  MaxEvents   \* events the pool has room for

\* What the constants are.
LedAssumption == LedTime \in Nat \ {0} /\ MaxEvents \in Nat

VARIABLES
  made,     \* events created; they are numbered in this order
  left,     \* left[e]: time until timer e expires, 0 when it is not set
  queued,   \* events whose callback is queued
  current,  \* m_CallbackTimer, 0 for NULL
  running,  \* timerRunning
  led,      \* the light
  stopped   \* "assert" after a failed assertion, "exit" after boot services

vars == <<made, left, queued, current, running, led, stopped>>

Ids == 1 .. MaxEvents
Runs == stopped = "no"

-----------------------------------------------------------------------------

\* A lit key is pressed.  Cancelling a timer does not call back a callback
\* that is queued already.
EnableKeypadLedWithTimer ==
  LET others == IF running THEN [left EXCEPT ![current] = 0] ELSE left
  IN
  /\ Runs
  /\ led' = TRUE
  /\ IF made = MaxEvents
     THEN /\ stopped' = "assert"
          /\ left' = others
          /\ running' = FALSE
          /\ UNCHANGED <<made, current>>
     ELSE /\ made' = made + 1
          /\ current' = made + 1
          /\ left' = [others EXCEPT ![made + 1] = LedTime]
          /\ running' = TRUE
          /\ UNCHANGED stopped
  /\ UNCHANGED queued

\* Mutant: the timer is periodic and its callback does not touch the light.
DisableKeyPadLed_Periodic ==
  /\ Runs
  /\ \E e \in queued : /\ queued' = queued \ {e}
                        /\ left' = [left EXCEPT ![e] = LedTime]
  /\ UNCHANGED <<made, current, running, led, stopped>>

DisableKeyPadLed ==
  /\ Runs
  /\ \E e \in queued : queued' = queued \ {e}
  /\ led' = FALSE /\ running' = FALSE
  /\ UNCHANGED <<made, left, current, stopped>>

\* Time passes; a timer that reaches its end queues its callback.
Tick ==
  /\ Runs
  /\ left' = [e \in Ids |-> IF left[e] = 0 THEN 0 ELSE left[e] - 1]
  /\ queued' = queued \cup {e \in Ids : left[e] = 1}
  /\ UNCHANGED <<made, current, running, led, stopped>>

ExitBootServicesEvent ==
  /\ Runs
  /\ led' = FALSE
  /\ stopped' = "exit"
  /\ UNCHANGED <<made, left, queued, current, running>>

Init ==
  /\ made = 0 /\ left = [e \in Ids |-> 0] /\ queued = {}
  /\ current = 0 /\ running = FALSE
  /\ led = FALSE /\ stopped = "no"

Next ==
  \/ EnableKeypadLedWithTimer \/ DisableKeyPadLed \/ Tick \/ ExitBootServicesEvent

Spec == Init /\ [][Next]_vars

\* Time goes on and queued callbacks run.
FairSpec == Spec /\ WF_vars(Tick) /\ WF_vars(DisableKeyPadLed)
-----------------------------------------------------------------------------
\* Once the keys are left alone the light goes out.
LedGoesDark == led ~> (~led \/ stopped = "assert")
=============================================================================
