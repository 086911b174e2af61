------------------------------ MODULE KeyFifo ------------------------------
(***************************************************************************)
(* What an EFI_KEY_QUEUE of KeypadDxe promises to its users: a first-in,   *)
(* first-out queue of at most Capacity keys which, when it is full, drops  *)
(* its oldest key to make room for the new one.  KeyQueue is the ring      *)
(* buffer that implements it; KeypadDxe uses the operators of this module. *)
(***************************************************************************)
EXTENDS Naturals, Sequences

CONSTANTS
  Keys,      \* the EFI_KEY_DATA values a device may report
  NoKey,     \* what KeyData holds before the first successful pop
  Capacity   \* keys the queue holds before it starts to drop

VARIABLES
  keys,      \* the queued keys, oldest first
  keyData    \* the key the last successful pop returned

fifoVars == <<keys, keyData>>

\* The queue after one more key: the oldest is dropped when it was full.
PushTail(q, k) == Append(IF Len(q) >= Capacity THEN Tail(q) ELSE q, k)

TypeOK ==
  /\ keys \in Seq(Keys)
  /\ Len(keys) <= Capacity
  /\ keyData \in Keys \cup {NoKey}

Init ==
  /\ keys = <<>>
  /\ keyData = NoKey

Push(k) ==
  /\ keys' = PushTail(keys, k)
  /\ UNCHANGED keyData

Pop ==
  /\ keys # <<>>
  /\ keyData' = Head(keys)
  /\ keys' = Tail(keys)

Clear ==
  /\ keys' = <<>>
  /\ UNCHANGED keyData

Next == (\E k \in Keys : Push(k)) \/ Pop \/ Clear

Spec == Init /\ [][Next]_fifoVars
=============================================================================
