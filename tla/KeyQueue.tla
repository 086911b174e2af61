------------------------------ MODULE KeyQueue ------------------------------
(***************************************************************************)
(* EFI_KEY_QUEUE of KeypadDxe: a ring of MaxCount slots with the index of  *)
(* the oldest key (head) and of the next free slot (tail).  head = tail    *)
(* means empty, so the ring holds at most MaxCount - 1 keys.  Every        *)
(* operation runs inside a TPL_NOTIFY critical section of the driver and   *)
(* is one action here.                                                     *)
(***************************************************************************)
EXTENDS Naturals, Sequences

CONSTANTS
  Keys,      \* the EFI_KEY_DATA values a device may report
  NoKey,     \* what KeyData holds before the first successful pop
  MaxCount   \* KEYPAD_EFI_KEY_MAX_COUNT

ASSUME QueueAssumption ==
  /\ MaxCount \in Nat
  /\ MaxCount >= 2
  /\ NoKey \notin Keys

VARIABLES
  buffer,    \* EFI_KEY_QUEUE.Buffer
  head,      \* EFI_KEY_QUEUE.Head
  tail,      \* EFI_KEY_QUEUE.Tail
  keyData    \* the caller's KeyData, written by a successful pop

vars == <<buffer, head, tail, keyData>>

Slots == 0 .. MaxCount - 1

\* The index after i, wrapping at the end of the ring.
Succ(i) == (i + 1) % MaxCount

IsEfikeyBufEmpty == head = tail
IsFull == Succ(tail) = head

-----------------------------------------------------------------------------
\* The driver allocates the queue zeroed: nothing was ever stored in a slot.
Init ==
  /\ buffer = [i \in Slots |-> NoKey]
  /\ head = 0
  /\ tail = 0
  /\ keyData = NoKey

PopEfikeyBufHead ==
  /\ ~IsEfikeyBufEmpty
  /\ keyData' = buffer[head]
  /\ head' = Succ(head)
  /\ UNCHANGED <<buffer, tail>>

\* Mutant: the test for a full queue is one slot off, so one usable slot is lost.
PushEfikeyBufTail_FullEarly(k) ==
  /\ head' = IF Succ(Succ(tail)) = head THEN Succ(head) ELSE head
  /\ buffer' = [buffer EXCEPT ![tail] = k]
  /\ tail' = Succ(tail)
  /\ UNCHANGED keyData

\* A full queue gives up its head first; the caller of that inner pop passes
\* no KeyData, so keyData keeps its value.
PushEfikeyBufTail(k) ==
  /\ head' = IF IsFull THEN Succ(head) ELSE head
  /\ buffer' = [buffer EXCEPT ![tail] = k]
  /\ tail' = Succ(tail)
  /\ UNCHANGED keyData

\* InitKeypad resets the indices only: the slots keep their old contents.
ResetQueue ==
  /\ head' = 0
  /\ tail' = 0
  /\ UNCHANGED <<buffer, keyData>>

Next ==
  \/ PopEfikeyBufHead
  \/ \E k \in Keys : PushEfikeyBufTail(k)
  \/ ResetQueue

Spec == Init /\ [][Next]_vars

-----------------------------------------------------------------------------
\* The indices stay inside the ring and the slots hold keys.
TypeOK ==
  /\ buffer \in [Slots -> Keys \cup {NoKey}]
  /\ head \in Slots
  /\ tail \in Slots
  /\ keyData \in Keys \cup {NoKey}

\* Of a ring with head h and tail t: the number of keys it holds, the slot of
\* the i-th oldest, and its keys as a sequence, oldest first.
SizeOf(h, t) == IF t >= h THEN t - h ELSE t + MaxCount - h
SlotAt(h, i) == IF h + i - 1 < MaxCount THEN h + i - 1 ELSE h + i - 1 - MaxCount
Contents(b, h, t) == [i \in 1 .. SizeOf(h, t) |-> b[SlotAt(h, i)]]

QueuedKeys == Contents(buffer, head, tail)

\* Every slot between head and tail holds a key that was pushed: a pop never
\* returns the zeroed memory of a slot that no push has written.
OccupiedSlotsHoldKeys ==
  \A i \in 1 .. SizeOf(head, tail) : buffer[SlotAt(head, i)] \in Keys

Fifo == INSTANCE KeyFifo WITH keys <- QueuedKeys, Capacity <- MaxCount - 1

\* The ring implements the bounded queue that drops its oldest key when full:
\* no key is lost, duplicated or reordered in any other way, also across the
\* wrap of the indices and after a reset that leaves old keys in the slots.
ImplementsFifo == Fifo!Spec

\* Each function of the ring does what the operation of its name promises: in
\* particular a push that meets a full ring costs the oldest key only.  (The
\* refinement alone would let it empty the queue, as a reset may.)
OperationsMatchFifo ==
  [][ /\ PopEfikeyBufHead => Fifo!Pop
      /\ \A k \in Keys : PushEfikeyBufTail(k) => Fifo!Push(k)
      /\ ResetQueue => Fifo!Clear ]_vars
=============================================================================
