------------------------------ MODULE PcomProofs ------------------------------
(***************************************************************************)
(* Theorems about Pcom for calls nested to any depth and card slots of any *)
(* number of pins; and about Clock for all rates.                          *)
(***************************************************************************)
EXTENDS Pcom, Clock, SequenceTheorems, FiniteSetTheorems, WellFoundedInduction, TLAPS

USE PcomAssumption

-----------------------------------------------------------------------------
(* The inductive invariant.                                                *)

Early == {"reason", "check_word", "ready", "command"}
Writing == {"data1", "data2", "notify", "wait"}
Answering == {"status", "copy", "idle"}
Places == Early \cup Writing \cup Answering \cup {"check", "return"} \cup Ending
Status == {"none", "success", "fail", "refused"}
Datum == {Arg(n) : n \in Nat} \cup {<<"nothing">>} \cup {<<"answer">> \o SetToSeq(S) : S \in SUBSET Nat}
CallType ==
  [client : Client, step : Nat, pc : Places, d1 : Datum, status : Status, did : Seq(Request),
   disturbed : BOOLEAN]

\* A call is at a command of its client, and in a place the client comes to.
Sensible(call) ==
  /\ call.step \in 1..Len(Commands(call.client))
  /\ call.pc \in {"reason", "check_word"} => call.client = "reboot"
  /\ call.pc = "check" => call.client \in Persistent
  /\ call.pc = "return" => call.step = Len(Commands(call.client))

MailType == [command : Request \cup {"idle", "done"}, status : Status, d1 : Datum, d2 : Datum]

TypeOK ==
  /\ mail \in MailType
  /\ bell \in BOOLEAN /\ ready \in BOOLEAN
  /\ calls \in Seq(CallType)
  /\ reason \in {"none", "first", "both"}
  /\ \A n \in 1..Level : Sensible(calls[n])

\* The calls above n have not written their command yet.
Above(n) == \A m \in n + 1..Level : calls[m].pc \in Early

\* If one call has ended the program, all have.
EndTogether == \A m, n \in 1..Level : calls[n].pc \in Ending => calls[m].pc \in Ending

ReadyUnderway == \A n \in 1..Level : calls[n].pc \in Underway \cup {"command"} => ready

\* Two calls under way have disturbed each other.
AloneOrDisturbed ==
  \A m, n \in 1..Level :
    m # n /\ calls[m].pc \in Underway /\ calls[n].pc \in Underway => calls[m].disturbed

\* Who has written the request in the mailbox waits for its answer.
RequestHasWriter ==
  mail.command \in Request =>
    \E n \in 1..Level : calls[n].pc \in Writing /\ Command(calls[n]) = mail.command /\ Above(n)

\* An answer in the mailbox is about to be read, or the program has ended.
AnswerHasReader ==
  mail.command = "done" =>
    \E n \in 1..Level :
      calls[n].pc \in Ending \/ (calls[n].pc \in Writing \cup Answering /\ Above(n))

\* While the bell rings a call waits that will not find its answer before the
\* bell is heard.
BellHasWaiter ==
  bell => \E n \in 1..Level : calls[n].pc = "wait" /\ (n = Level => mail.command # "done")

\* A request half written that finds an answer has interrupted who waits for it.
Half == {"data1", "data2", "notify"}
HalfFindsWaiter ==
  calls # <<>> /\ Top.pc \in Half /\ mail.command = "done" =>
    \E n \in 1..Level : n # Level /\ calls[n].pc = "wait"

ReasonWritten ==
  \A n \in 1..Level :
    calls[n].client = "reboot" /\ calls[n].pc \notin {"reason", "check_word"} \cup Ending => reason = "both"

\* What the mailbox holds for a call that is alone with it.
Reply(n) == IF mail.status = "success" /\ calls[n].client = "get" THEN <<"answer", n>> ELSE Arg(n)
Asking(n) == calls[n].pc = "wait" /\ mail.command # "done"
Answered(n) == (calls[n].pc = "wait" /\ mail.command = "done") \/ calls[n].pc \in {"status", "copy"}
MailIsOf(n) ==
  /\ calls[n].pc \in {"data1", "data2", "notify"} => ~bell
  /\ calls[n].pc \in {"data1", "data2", "notify"} \/ Asking(n) => mail.command = Command(calls[n])
  /\ calls[n].pc \in {"data2", "notify"} \/ Asking(n) => mail.d1 = Arg(n)
  /\ calls[n].pc = "notify" \/ Asking(n) => mail.d2 = Arg(n)
  /\ Asking(n) => bell
  /\ Answered(n) => mail.d1 = Reply(n)
  /\ calls[n].pc \in {"copy", "idle", "check"} => calls[n].status = mail.status

\* What such a call has got so far, and how many of its commands are done.
Over(n) == calls[n].pc \in {"idle", "check", "return"} /\ calls[n].status = "success"
ResultIsOf(n) ==
  calls[n].d1 = IF Over(n) /\ calls[n].client = "get" THEN <<"answer", n>> ELSE Arg(n)
Count(n) ==
  IF (Answered(n) /\ mail.status = "success") \/ Over(n) THEN calls[n].step ELSE calls[n].step - 1
DoneByCount(n) ==
  /\ Len(calls[n].did) <= Count(n)
  /\ calls[n].client \in Persistent =>
       /\ calls[n].did = SubSeq(Commands(calls[n].client), 1, Count(n))
       /\ calls[n].pc = "return" => calls[n].status = "success"
InPlace(n) == MailIsOf(n) /\ ResultIsOf(n) /\ DoneByCount(n)
UndisturbedInPlace ==
  \A n \in 1..Level : ~calls[n].disturbed /\ calls[n].pc \notin Ending => InPlace(n)

Nesting ==
  /\ EndTogether /\ ReadyUnderway /\ AloneOrDisturbed
  /\ RequestHasWriter /\ AnswerHasReader /\ HalfFindsWaiter /\ ReasonWritten /\ ResetFindsReason

IInv == TypeOK /\ Nesting /\ BellHasWaiter /\ UndisturbedInPlace

-----------------------------------------------------------------------------
(* The helpers.                                                            *)

\* A client with one command.
LEMMA OneCommand ==
  ASSUME NEW c \in Request
  PROVE  /\ <<c>> \in Seq(Request) /\ Len(<<c>>) = 1
         /\ \A i \in 1..Len(<<c>>) : <<c>>[i] = c
  OBVIOUS

\* What the clients ask for.
LEMMA CommandsFacts ==
  ASSUME NEW client \in Client
  PROVE  /\ Commands(client) \in Seq(Request)
         /\ Len(Commands(client)) \in Nat \ {0}
         /\ client \in {"get", "reboot", "shutdown"} => Len(Commands(client)) = 1
         /\ \A i \in 1..Len(Commands(client)) :
              /\ Commands(client)[i] = "get" <=> client = "get"
              /\ Commands(client)[i] = "reset" <=> client = "reboot"
<1>1. CASE client = "pins"
  <2>1. Commands(client) = [pin \in 1..Pins |-> "set"]
    BY <1>1 DEF Commands, GpioConfig
  <2>2. /\ [pin \in 1..Pins |-> "set"] \in Seq(Request) /\ Len([pin \in 1..Pins |-> "set"]) = Pins
        /\ \A i \in 1..Pins : [pin \in 1..Pins |-> "set"][i] = "set"
    BY DEF PcomAssumption, Request
  <2> QED
    BY <1>1, <2>1, <2>2 DEF PcomAssumption
<1>2. CASE client = "vreg_on"
  <2>1. Commands(client) = <<"set_level", "set">>
    BY <1>2 DEF Commands, VregOn
  <2>2. /\ <<"set_level", "set">> \in Seq(Request) /\ Len(<<"set_level", "set">>) = 2
        /\ \A i \in 1..2 : <<"set_level", "set">>[i] \in {"set_level", "set"}
    BY DEF Request
  <2>3. Commands(client) \in Seq(Request) /\ Len(Commands(client)) = 2
    BY <2>1, <2>2
  <2>4. \A i \in 1..Len(Commands(client)) : Commands(client)[i] \in {"set_level", "set"}
    BY <2>1, <2>2
  <2> QED
    BY <1>2, <2>3, <2>4
<1>3. CASE client \notin {"pins", "vreg_on"}
  <2>1. PICK c \in Request :
          Commands(client) = <<c>> /\ (c = "get" <=> client = "get") /\ (c = "reset" <=> client = "reboot")
    BY <1>3 DEF Commands, Client, Request, VregOff, SetOnce, QueryClock
  <2>2. Commands(client) \in Seq(Request) /\ Len(Commands(client)) = 1
    BY <2>1, OneCommand
  <2>3. \A i \in 1..Len(Commands(client)) : Commands(client)[i] = c
    BY <2>1, OneCommand
  <2> QED
    BY <1>3, <2>1, <2>2, <2>3
<1> QED
  BY <1>1, <1>2, <1>3

\* A call is at a command that is a request.
LEMMA CommandFacts ==
  ASSUME NEW call \in CallType, Sensible(call)
  PROVE  /\ Command(call) \in Request
         /\ Command(call) = "get" <=> call.client = "get"
         /\ Command(call) = "reset" <=> call.client = "reboot"
<1>1. call.client \in Client /\ call.step \in 1..Len(Commands(call.client))
  BY DEF CallType, Sensible
<1> QED
  BY <1>1, CommandsFacts, ElementOfSeq DEF Command

\* The innermost call changes and the others stay.
LEMMA TopFacts ==
  ASSUME calls \in Seq(CallType), calls # <<>>, NEW c \in CallType,
         calls' = [calls EXCEPT ![Level] = c]
  PROVE  /\ calls' \in Seq(CallType) /\ Level' = Level
         /\ Level \in 1..Level
         /\ \A n \in 1..Level : calls'[n] = IF n = Level THEN c ELSE calls[n]
<1>1. Level \in 1..Level
  BY EmptySeq DEF Level
<1> QED
  BY <1>1, ExceptSeq DEF Level

\* A step of the innermost call c that keeps the order: the call goes on, comes
\* under way only if it was, and leaves its words of the mailbox in their order.
Orderly(c) ==
  /\ c.client = Top.client /\ c.disturbed = Top.disturbed
  /\ Top.pc \notin Ending /\ c.pc \notin Ending
  /\ c.pc \in Underway => Top.pc \in Underway
  /\ c.pc \in Half => Top.pc \in Half
  /\ c.pc = "command" => ready
  /\ \/ mail'.command = "idle"
     \/ /\ mail'.command = mail.command
        /\ Top.pc \in Early => c.pc \in Early
        /\ mail.command \in Request /\ Top.pc \in Writing => c.pc \in Writing /\ c.step = Top.step
        /\ mail.command = "done" /\ Top.pc \in Writing \cup Answering => c.pc \in Writing \cup Answering
  /\ Top.client = "reboot" /\ c.pc \notin {"reason", "check_word"} =>
       Top.pc \notin {"reason", "check_word"} \cup Ending \/ reason' = "both"

LEMMA OrderlySteps ==
  ASSUME TypeOK, Nesting, calls # <<>>, NEW c \in CallType,
         calls' = [calls EXCEPT ![Level] = c],
         Orderly(c), ready' = ready, reason = "both" => reason' = "both"
  PROVE  Nesting'
<1>1. /\ calls' \in Seq(CallType) /\ Level' = Level
      /\ Level \in 1..Level
      /\ \A n \in 1..Level : calls'[n] = IF n = Level THEN c ELSE calls[n]
  BY TopFacts DEF TypeOK
<1>2. Level \in Nat /\ Top = calls[Level]
  BY <1>1, LenProperties DEF Level, Top, TypeOK
<1>3. EndTogether'
  BY <1>1, <1>2 DEF EndTogether, Nesting, Orderly
<1>4. ReadyUnderway'
  BY <1>1, <1>2 DEF ReadyUnderway, Nesting, Orderly
<1>5. AloneOrDisturbed'
  BY <1>1, <1>2 DEF AloneOrDisturbed, Nesting, Orderly
<1>6. RequestHasWriter'
  <2> SUFFICES ASSUME mail'.command \in Request
               PROVE  RequestHasWriter'
    BY DEF RequestHasWriter
  <2>1. mail'.command = mail.command
    BY DEF Orderly, Request
  <2>2. PICK n \in 1..Level : calls[n].pc \in Writing /\ Command(calls[n]) = mail.command /\ Above(n)
    BY <2>1 DEF RequestHasWriter, Nesting
  <2>3. calls'[n].pc \in Writing /\ Command(calls'[n]) = mail.command
    BY <1>1, <1>2, <2>1, <2>2 DEF Orderly, Command, Request
  <2>4. Above(n)'
    <3> SUFFICES ASSUME NEW m \in n + 1..Level
                 PROVE  calls'[m].pc \in Early
      BY <1>1 DEF Above
    <3>1. m \in 1..Level /\ calls[m].pc \in Early
      BY <1>2, <2>2 DEF Above
    <3> QED
      BY <1>1, <1>2, <2>1, <3>1 DEF Orderly, Request
  <2> QED
    BY <1>1, <2>1, <2>3, <2>4 DEF RequestHasWriter
<1>7. AnswerHasReader'
  <2> SUFFICES ASSUME mail'.command = "done"
               PROVE  AnswerHasReader'
    BY DEF AnswerHasReader
  <2>1. mail'.command = mail.command
    BY DEF Orderly
  <2>2. PICK n \in 1..Level :
          calls[n].pc \in Ending \/ (calls[n].pc \in Writing \cup Answering /\ Above(n))
    BY <2>1 DEF AnswerHasReader, Nesting
  <2>3. CASE calls[n].pc \in Ending /\ n # Level
    BY <1>1, <1>2, <2>3 DEF AnswerHasReader
  <2>4. CASE calls[n].pc \in Ending /\ n = Level
    BY <1>1, <1>2, <2>2, <2>4 DEF AnswerHasReader, Orderly
  <2>5. CASE calls[n].pc \in Writing \cup Answering /\ Above(n)
    <3>1. calls'[n].pc \in Writing \cup Answering
      BY <1>1, <1>2, <2>1, <2>5 DEF Orderly
    <3>2. Above(n)'
      <4> SUFFICES ASSUME NEW m \in n + 1..Level
                   PROVE  calls'[m].pc \in Early
        BY <1>1 DEF Above
      <4>1. m \in 1..Level /\ calls[m].pc \in Early
        BY <1>2, <2>5 DEF Above
      <4> QED
        BY <1>1, <1>2, <2>1, <4>1 DEF Orderly
    <3> QED
      BY <1>1, <3>1, <3>2 DEF AnswerHasReader
  <2> QED
    BY <2>2, <2>3, <2>4, <2>5
<1>8. ReasonWritten'
  BY <1>1, <1>2 DEF ReasonWritten, Nesting, Orderly
<1>9. ResetFindsReason'
  BY <1>1, <1>2 DEF ResetFindsReason, At, Top, Level, Orderly, Ending
<1>10. HalfFindsWaiter'
  <2> SUFFICES ASSUME Top'.pc \in Half, mail'.command = "done"
               PROVE  \E n \in 1..Level : n # Level /\ calls'[n].pc = "wait"
    BY <1>1 DEF HalfFindsWaiter
  <2>1. Top.pc \in Half /\ mail.command = "done"
    BY <1>1, <1>2 DEF Orderly, Top
  <2>2. PICK n \in 1..Level : n # Level /\ calls[n].pc = "wait"
    BY <2>1 DEF HalfFindsWaiter, Nesting
  <2> QED
    BY <1>1, <2>2
<1> QED
  BY <1>3, <1>4, <1>5, <1>6, <1>7, <1>8, <1>9, <1>10 DEF Nesting

\* A bell that was there keeps its waiter.
LEMMA BellStays ==
  ASSUME TypeOK, BellHasWaiter, calls # <<>>, NEW c \in CallType,
         calls' = [calls EXCEPT ![Level] = c],
         bell' => bell,
         Top.pc = "wait" => mail.command = "done",
         mail'.command = mail.command \/ mail'.command = "idle"
  PROVE  BellHasWaiter'
<1>1. /\ Level' = Level /\ Level \in 1..Level
      /\ \A n \in 1..Level : calls'[n] = IF n = Level THEN c ELSE calls[n]
  BY TopFacts DEF TypeOK
<1> SUFFICES ASSUME bell'
             PROVE  BellHasWaiter'
  BY DEF BellHasWaiter
<1>2. PICK n \in 1..Level : calls[n].pc = "wait" /\ (n = Level => mail.command # "done")
  BY DEF BellHasWaiter
<1>3. n # Level
  BY <1>2 DEF Top
<1> QED
  BY <1>1, <1>2, <1>3 DEF BellHasWaiter

\* A call that is not under way has nothing in the mailbox.
LEMMA AwayStays ==
  ASSUME NEW n, calls[n].pc \notin Underway, InPlace(n),
         calls'[n].client = calls[n].client, calls'[n].step = calls[n].step, calls'[n].pc = calls[n].pc,
         calls'[n].d1 = calls[n].d1, calls'[n].status = calls[n].status, calls'[n].did = calls[n].did
  PROVE  InPlace(n)'
<1>1. calls[n].pc \notin {"data1", "data2", "notify", "wait", "status", "copy", "idle", "check"}
  BY DEF Underway
<1>2. MailIsOf(n)'
  BY <1>1 DEF MailIsOf, Asking, Answered
<1>3. ResultIsOf(n)' /\ DoneByCount(n)'
  BY <1>1 DEF InPlace, ResultIsOf, DoneByCount, Answered, Over, Count
<1> QED
  BY <1>2, <1>3 DEF InPlace

\* A call that another one has interrupted stays in place: the other one has
\* not come to the mailbox yet, or this one has nothing there.
LEMMA OthersStay ==
  ASSUME TypeOK, Nesting, UndisturbedInPlace,
         NEW n \in 1..Level, n # Level, Level \in 1..Level,
         calls'[n] = calls[n],
         (mail' = mail /\ bell' = bell) \/ Top.pc \in Underway,
         ~calls[n].disturbed, calls[n].pc \notin Ending
  PROVE  InPlace(n)'
<1>1. InPlace(n)
  BY DEF UndisturbedInPlace
<1>2. CASE mail' = mail /\ bell' = bell
  BY <1>1, <1>2 DEF InPlace, MailIsOf, ResultIsOf, DoneByCount, Asking, Answered, Reply, Over, Count
<1>3. CASE Top.pc \in Underway
  <2>1. calls[n].pc \notin Underway
    BY <1>3 DEF Nesting, AloneOrDisturbed, Top
  <2> QED
    BY <1>1, <2>1, AwayStays
<1> QED
  BY <1>2, <1>3

\* What is to show of a step of the innermost call.
LEMMA TopSteps ==
  ASSUME IInv, calls # <<>>, NEW c \in CallType,
         calls' = [calls EXCEPT ![Level] = c],
         Sensible(c), Orderly(c),
         mail' \in MailType, bell' \in BOOLEAN, ready' = ready,
         reason' \in {"none", "first", "both"}, reason = "both" => reason' = "both",
         (mail' = mail /\ bell' = bell) \/ Top.pc \in Underway,
         BellHasWaiter',
         ~c.disturbed => InPlace(Level)'
  PROVE  IInv'
<1>1. /\ calls' \in Seq(CallType) /\ Level' = Level
      /\ Level \in 1..Level
      /\ \A n \in 1..Level : calls'[n] = IF n = Level THEN c ELSE calls[n]
  BY TopFacts DEF TypeOK, IInv
<1>2. TypeOK'
  <2>1. \A n \in 1..Level' : Sensible(calls'[n])
    BY <1>1 DEF IInv, TypeOK
  <2> QED
    BY <1>1, <2>1 DEF IInv, TypeOK, Sensible
<1>3. Nesting'
  BY OrderlySteps DEF IInv
<1>4. UndisturbedInPlace'
  <2> SUFFICES ASSUME NEW n \in 1..Level, ~calls'[n].disturbed, calls'[n].pc \notin Ending
               PROVE  InPlace(n)'
    BY <1>1 DEF UndisturbedInPlace
  <2>1. CASE n = Level
    BY <1>1, <2>1
  <2>2. CASE n # Level
    BY <1>1, <2>2, OthersStay DEF IInv
  <2> QED
    BY <2>1, <2>2
<1> QED
  BY <1>2, <1>3, <1>4 DEF IInv

-----------------------------------------------------------------------------
(* One access to the mailbox by the innermost call.                        *)

LEMMA TopIsCall ==
  ASSUME TypeOK, calls # <<>>
  PROVE  Top \in CallType /\ Sensible(Top) /\ Level \in 1..Level /\ Level \in Nat
<1>1. Level \in 1..Level /\ Level \in Nat
  BY EmptySeq, LenProperties DEF Level, TypeOK
<1> QED
  BY <1>1, ElementOfSeq DEF Top, Level, TypeOK

\* The call moves to another place and keeps all else.
LEMMA Moves ==
  ASSUME TypeOK, calls # <<>>, NEW pc \in Places, Goto(pc)
  PROVE  /\ [Top EXCEPT !.pc = pc] \in CallType
         /\ calls' = [calls EXCEPT ![Level] = [Top EXCEPT !.pc = pc]]
         /\ Level' = Level /\ calls'[Level] = [Top EXCEPT !.pc = pc]
<1>1. Top \in CallType
  BY TopIsCall
<1>2. [Top EXCEPT !.pc = pc] \in CallType
  BY <1>1 DEF CallType
<1>3. calls' = [calls EXCEPT ![Level] = [Top EXCEPT !.pc = pc]]
  BY DEF Goto, Top
<1> QED
  BY <1>2, <1>3, TopFacts, TopIsCall DEF TypeOK

LEMMA ReasonStep ==
  ASSUME IInv, WriteReason
  PROVE  IInv'
<1>1. PICK pc \in {"check_word", "ready"} :
        /\ Goto(pc) /\ calls # <<>> /\ Top.pc \in {"reason", "check_word"}
        /\ pc = "ready" => reason' = "both"
  BY DEF WriteReason, At
<1> DEFINE c == [Top EXCEPT !.pc = pc]
<1>2. /\ c \in CallType /\ calls' = [calls EXCEPT ![Level] = c]
      /\ Level' = Level /\ calls'[Level] = c /\ Top \in CallType /\ Sensible(Top) /\ Level \in 1..Level
  BY <1>1, Moves, TopIsCall DEF IInv, Places, Early
<1>3. mail' = mail /\ bell' = bell /\ ready' = ready
  BY DEF WriteReason
<1>4. Sensible(c)
  BY <1>1, <1>2 DEF Sensible, CallType
<1>5. Orderly(c)
  BY <1>1, <1>2, <1>3 DEF Orderly, CallType, Underway, Early, Ending, Writing, Answering, Half
<1>6. reason' \in {"none", "first", "both"} /\ (reason = "both" => reason' = "both")
  BY DEF WriteReason, IInv, TypeOK
<1>7. BellHasWaiter'
  BY <1>1, <1>2, <1>3, BellStays DEF IInv
<1>8. ASSUME ~c.disturbed
      PROVE  InPlace(Level)'
  <2>1. InPlace(Level)
    BY <1>1, <1>2, <1>8 DEF IInv, UndisturbedInPlace, Top, CallType, Ending
  <2> QED
    BY <1>1, <1>2, <1>3, <2>1
    DEF InPlace, MailIsOf, ResultIsOf, DoneByCount, Asking, Answered, Reply, Over, Count, CallType, Top
<1> QED
  BY <1>1, <1>2, <1>3, <1>4, <1>5, <1>6, <1>7, <1>8, TopSteps DEF IInv, TypeOK
LEMMA ReadyStep ==
  ASSUME IInv, WaitForModemReady
  PROVE  IInv'
<1> DEFINE c == [Top EXCEPT !.pc = "command"]
<1>1. /\ Goto("command") /\ calls # <<>> /\ Top.pc = "ready"
      /\ mail' = mail /\ bell' = bell /\ ready' = ready /\ ready = TRUE /\ reason' = reason
  BY DEF WaitForModemReady, At, IInv, TypeOK
<1>2. /\ c \in CallType /\ calls' = [calls EXCEPT ![Level] = c]
      /\ Level' = Level /\ calls'[Level] = c /\ Top \in CallType /\ Sensible(Top) /\ Level \in 1..Level /\ Level \in Nat
  BY <1>1, Moves, TopIsCall DEF IInv, Places, Early, Writing, Answering
<1>3. Sensible(c) /\ Command(c) = Command(Top) /\ Command(c) \in Request
  BY <1>1, <1>2, CommandFacts DEF Sensible, CallType, Command
<1>4. Orderly(c)
  BY <1>1, <1>2 DEF Orderly, CallType, Underway, Early, Ending, Writing, Answering, Half, Request
<1>5. mail' \in MailType /\ bell' \in BOOLEAN
  BY <1>1, <1>2 DEF IInv, TypeOK, MailType, CallType, Datum
<1>6. BellHasWaiter'
  BY <1>1, <1>2, BellStays DEF IInv
<1>7. ASSUME ~c.disturbed
      PROVE  InPlace(Level)'
  <2>1. InPlace(Level)
    BY <1>1, <1>2, <1>7 DEF IInv, UndisturbedInPlace, Top, CallType, Ending
  <2>2. MailIsOf(Level)'
    BY <1>1, <1>2, <1>3, <2>1
    DEF InPlace, MailIsOf, Asking, Answered, Reply, ResultIsOf, Over, CallType, Top, Request, IInv, TypeOK, MailType
  <2>3. Answered(Level)' <=> Answered(Level)
    BY <1>1, <1>2, <1>3, <2>1 DEF InPlace, MailIsOf, Answered, CallType, Top, Request
  <2>4. ResultIsOf(Level)' /\ DoneByCount(Level)'
    BY <1>1, <1>2, <2>1, <2>3
    DEF InPlace, ResultIsOf, DoneByCount, Over, Count, CallType, Top, IInv, TypeOK, MailType
  <2> QED
    BY <1>2, <2>2, <2>4 DEF InPlace
<1> QED
  BY <1>1, <1>2, <1>3, <1>4, <1>5, <1>6, <1>7, TopSteps DEF IInv, TypeOK, Underway

LEMMA Data1Step ==
  ASSUME IInv, WriteData1
  PROVE  IInv'
<1> DEFINE c == [Top EXCEPT !.pc = "data2"]
<1>1. /\ Goto("data2") /\ calls # <<>> /\ Top.pc = "data1"
      /\ mail' = [mail EXCEPT !.d1 = Top.d1] /\ bell' = bell /\ ready' = ready /\ reason' = reason
  BY DEF WriteData1, At
<1>2. /\ c \in CallType /\ calls' = [calls EXCEPT ![Level] = c]
      /\ Level' = Level /\ calls'[Level] = c /\ Top \in CallType /\ Sensible(Top) /\ Level \in 1..Level /\ Level \in Nat
  BY <1>1, Moves, TopIsCall DEF IInv, Places, Early, Writing, Answering
<1>3. Sensible(c) /\ Command(c) = Command(Top) /\ Command(c) \in Request
  BY <1>1, <1>2, CommandFacts DEF Sensible, CallType, Command
<1>4. Orderly(c)
  BY <1>1, <1>2 DEF Orderly, CallType, Underway, Early, Ending, Writing, Answering, Half, Request
<1>5. mail' \in MailType /\ bell' \in BOOLEAN
  BY <1>1, <1>2 DEF IInv, TypeOK, MailType, CallType, Datum
<1>6. BellHasWaiter'
  BY <1>1, <1>2, BellStays DEF IInv, TypeOK, MailType
<1>7. ASSUME ~c.disturbed
      PROVE  InPlace(Level)'
  <2>1. InPlace(Level)
    BY <1>1, <1>2, <1>7 DEF IInv, UndisturbedInPlace, Top, CallType, Ending
  <2>2. MailIsOf(Level)'
    BY <1>1, <1>2, <1>3, <2>1
    DEF InPlace, MailIsOf, Asking, Answered, Reply, ResultIsOf, Over, CallType, Top, Request, IInv, TypeOK, MailType
  <2>3. Answered(Level)' <=> Answered(Level)
    BY <1>1, <1>2, <1>3, <2>1 DEF InPlace, MailIsOf, Answered, CallType, Top, Request
  <2>4. ResultIsOf(Level)' /\ DoneByCount(Level)'
    BY <1>1, <1>2, <2>1, <2>3
    DEF InPlace, ResultIsOf, DoneByCount, Over, Count, CallType, Top, IInv, TypeOK, MailType
  <2> QED
    BY <1>2, <2>2, <2>4 DEF InPlace
<1> QED
  BY <1>1, <1>2, <1>3, <1>4, <1>5, <1>6, <1>7, TopSteps DEF IInv, TypeOK, Underway

LEMMA Data2Step ==
  ASSUME IInv, WriteData2
  PROVE  IInv'
<1> DEFINE c == [Top EXCEPT !.pc = "notify"]
<1>1. /\ Goto("notify") /\ calls # <<>> /\ Top.pc = "data2"
      /\ mail' = [mail EXCEPT !.d2 = Arg(Level)] /\ bell' = bell /\ ready' = ready /\ reason' = reason
  BY DEF WriteData2, At
<1>2. /\ c \in CallType /\ calls' = [calls EXCEPT ![Level] = c]
      /\ Level' = Level /\ calls'[Level] = c /\ Top \in CallType /\ Sensible(Top) /\ Level \in 1..Level /\ Level \in Nat
  BY <1>1, Moves, TopIsCall DEF IInv, Places, Early, Writing, Answering
<1>3. Sensible(c) /\ Command(c) = Command(Top) /\ Command(c) \in Request
  BY <1>1, <1>2, CommandFacts DEF Sensible, CallType, Command
<1>4. Orderly(c)
  BY <1>1, <1>2 DEF Orderly, CallType, Underway, Early, Ending, Writing, Answering, Half, Request
<1>5. mail' \in MailType /\ bell' \in BOOLEAN
  BY <1>1, <1>2 DEF IInv, TypeOK, MailType, CallType, Datum
<1>6. BellHasWaiter'
  BY <1>1, <1>2, BellStays DEF IInv, TypeOK, MailType
<1>7. ASSUME ~c.disturbed
      PROVE  InPlace(Level)'
  <2>1. InPlace(Level)
    BY <1>1, <1>2, <1>7 DEF IInv, UndisturbedInPlace, Top, CallType, Ending
  <2>2. MailIsOf(Level)'
    BY <1>1, <1>2, <1>3, <2>1
    DEF InPlace, MailIsOf, Asking, Answered, Reply, ResultIsOf, Over, CallType, Top, Request, IInv, TypeOK, MailType
  <2>3. Answered(Level)' <=> Answered(Level)
    BY <1>1, <1>2, <1>3, <2>1 DEF InPlace, MailIsOf, Answered, CallType, Top, Request
  <2>4. ResultIsOf(Level)' /\ DoneByCount(Level)'
    BY <1>1, <1>2, <2>1, <2>3
    DEF InPlace, ResultIsOf, DoneByCount, Over, Count, CallType, Top, IInv, TypeOK, MailType
  <2> QED
    BY <1>2, <2>2, <2>4 DEF InPlace
<1> QED
  BY <1>1, <1>2, <1>3, <1>4, <1>5, <1>6, <1>7, TopSteps DEF IInv, TypeOK, Underway

LEMMA NotifyStep ==
  ASSUME IInv, NotifyModem
  PROVE  IInv'
<1> DEFINE c == [Top EXCEPT !.pc = "wait"]
<1>1. /\ Goto("wait") /\ calls # <<>> /\ Top.pc = "notify"
      /\ mail' = mail /\ bell' = TRUE /\ ready' = ready /\ reason' = reason
  BY DEF NotifyModem, At
<1>2. /\ c \in CallType /\ calls' = [calls EXCEPT ![Level] = c]
      /\ Level' = Level /\ calls'[Level] = c /\ Top \in CallType /\ Sensible(Top) /\ Level \in 1..Level /\ Level \in Nat
  BY <1>1, Moves, TopIsCall DEF IInv, Places, Early, Writing, Answering
<1>3. Sensible(c) /\ Command(c) = Command(Top) /\ Command(c) \in Request
  BY <1>1, <1>2, CommandFacts DEF Sensible, CallType, Command
<1>4. Orderly(c)
  BY <1>1, <1>2 DEF Orderly, CallType, Underway, Early, Ending, Writing, Answering, Half, Request
<1>5. mail' \in MailType /\ bell' \in BOOLEAN
  BY <1>1, <1>2 DEF IInv, TypeOK, MailType, CallType, Datum
<1>6. BellHasWaiter'
  <2>1. CASE mail.command # "done"
    BY <1>1, <1>2, <2>1 DEF BellHasWaiter, CallType
  <2>2. CASE mail.command = "done"
    <3>1. PICK n \in 1..Level : n # Level /\ calls[n].pc = "wait"
      BY <1>1, <2>2 DEF IInv, Nesting, HalfFindsWaiter, Half
    <3>2. calls'[n] = calls[n]
      BY <1>2, <3>1, TopFacts DEF IInv, TypeOK
    <3> QED
      BY <1>2, <3>1, <3>2 DEF BellHasWaiter
  <2> QED
    BY <2>1, <2>2
<1>7. ASSUME ~c.disturbed
      PROVE  InPlace(Level)'
  <2>1. InPlace(Level)
    BY <1>1, <1>2, <1>7 DEF IInv, UndisturbedInPlace, Top, CallType, Ending
  <2>2. MailIsOf(Level)'
    BY <1>1, <1>2, <1>3, <2>1
    DEF InPlace, MailIsOf, Asking, Answered, Reply, ResultIsOf, Over, CallType, Top, Request, IInv, TypeOK, MailType
  <2>3. Answered(Level)' <=> Answered(Level)
    BY <1>1, <1>2, <1>3, <2>1 DEF InPlace, MailIsOf, Answered, CallType, Top, Request
  <2>4. ResultIsOf(Level)' /\ DoneByCount(Level)'
    BY <1>1, <1>2, <2>1, <2>3
    DEF InPlace, ResultIsOf, DoneByCount, Over, Count, CallType, Top, IInv, TypeOK, MailType
  <2> QED
    BY <1>2, <2>2, <2>4 DEF InPlace
<1> QED
  BY <1>1, <1>2, <1>3, <1>4, <1>5, <1>6, <1>7, TopSteps DEF IInv, TypeOK, Underway

LEMMA DoneStep ==
  ASSUME IInv, WaitForDone
  PROVE  IInv'
<1> DEFINE c == [Top EXCEPT !.pc = "status"]
<1>1. /\ Goto("status") /\ calls # <<>> /\ Top.pc = "wait"
      /\ mail' = mail /\ bell' = bell /\ ready' = ready /\ reason' = reason /\ mail.command = "done"
  BY DEF WaitForDone, At
<1>2. /\ c \in CallType /\ calls' = [calls EXCEPT ![Level] = c]
      /\ Level' = Level /\ calls'[Level] = c /\ Top \in CallType /\ Sensible(Top) /\ Level \in 1..Level /\ Level \in Nat
  BY <1>1, Moves, TopIsCall DEF IInv, Places, Early, Writing, Answering
<1>3. Sensible(c) /\ Command(c) = Command(Top) /\ Command(c) \in Request
  BY <1>1, <1>2, CommandFacts DEF Sensible, CallType, Command
<1>4. Orderly(c)
  BY <1>1, <1>2 DEF Orderly, CallType, Underway, Early, Ending, Writing, Answering, Half, Request
<1>5. mail' \in MailType /\ bell' \in BOOLEAN
  BY <1>1, <1>2 DEF IInv, TypeOK, MailType, CallType, Datum
<1>6. BellHasWaiter'
  BY <1>1, <1>2, BellStays DEF IInv
<1>7. ASSUME ~c.disturbed
      PROVE  InPlace(Level)'
  <2>1. InPlace(Level)
    BY <1>1, <1>2, <1>7 DEF IInv, UndisturbedInPlace, Top, CallType, Ending
  <2>2. MailIsOf(Level)'
    BY <1>1, <1>2, <1>3, <2>1
    DEF InPlace, MailIsOf, Asking, Answered, Reply, ResultIsOf, Over, CallType, Top, Request, IInv, TypeOK, MailType
  <2>3. Answered(Level)' <=> Answered(Level)
    BY <1>1, <1>2, <1>3, <2>1 DEF InPlace, MailIsOf, Answered, CallType, Top, Request
  <2>4. ResultIsOf(Level)' /\ DoneByCount(Level)'
    BY <1>1, <1>2, <2>1, <2>3
    DEF InPlace, ResultIsOf, DoneByCount, Over, Count, CallType, Top, IInv, TypeOK, MailType
  <2> QED
    BY <1>2, <2>2, <2>4 DEF InPlace
<1> QED
  BY <1>1, <1>2, <1>3, <1>4, <1>5, <1>6, <1>7, TopSteps DEF IInv, TypeOK, Underway
LEMMA ReadStatusStep ==
  ASSUME IInv, ReadStatus
  PROVE  IInv'
<1> DEFINE c == [Top EXCEPT !.status = mail.status, !.pc = "copy"]
<1>1. /\ calls # <<>> /\ Top.pc = "status" /\ calls' = [calls EXCEPT ![Level] = c]
      /\ mail' = mail /\ bell' = bell /\ ready' = ready /\ reason' = reason
  BY DEF ReadStatus, At, Top
<1>2. Top \in CallType /\ Sensible(Top) /\ Level \in 1..Level /\ mail \in MailType
  BY <1>1, TopIsCall DEF IInv, TypeOK
<1>3. c \in CallType
  BY <1>2 DEF CallType, MailType, Places, Answering
<1>4. Level' = Level /\ calls'[Level] = c
  BY <1>1, <1>2, <1>3, TopFacts DEF IInv, TypeOK
<1>5. Sensible(c)
  BY <1>1, <1>2 DEF Sensible, CallType
<1>6. Orderly(c)
  BY <1>1, <1>2 DEF Orderly, CallType, Underway, Early, Ending, Writing, Answering, Half, Request
<1>7. BellHasWaiter'
  BY <1>1, <1>3, BellStays DEF IInv
<1>8. ASSUME ~c.disturbed
      PROVE  InPlace(Level)'
  <2>1. InPlace(Level)
    BY <1>1, <1>2, <1>8 DEF IInv, UndisturbedInPlace, Top, CallType, Ending
  <2>2. MailIsOf(Level)'
    BY <1>1, <1>2, <1>4, <2>1 DEF InPlace, MailIsOf, Asking, Answered, Reply, CallType, Top
  <2>3. Answered(Level) /\ Answered(Level)' /\ ~Over(Level) /\ ~Over(Level)'
    BY <1>1, <1>2, <1>4 DEF Answered, Over, CallType, Top
  <2>4. ResultIsOf(Level)' /\ DoneByCount(Level)'
    BY <1>1, <1>2, <1>4, <2>1, <2>3 DEF InPlace, ResultIsOf, DoneByCount, Count, CallType, Top
  <2> QED
    BY <1>4, <2>2, <2>4 DEF InPlace
<1> QED
  BY <1>1, <1>3, <1>5, <1>6, <1>7, <1>8, TopSteps DEF IInv, TypeOK

LEMMA CopyStep ==
  ASSUME IInv, CopyData
  PROVE  IInv'
<1> DEFINE c == [Top EXCEPT !.d1 = IF Top.status = "fail" THEN @ ELSE mail.d1, !.pc = "idle"]
<1>1. /\ calls # <<>> /\ Top.pc = "copy" /\ calls' = [calls EXCEPT ![Level] = c]
      /\ mail' = mail /\ bell' = bell /\ ready' = ready /\ reason' = reason
  BY DEF CopyData, At, Top
<1>2. Top \in CallType /\ Sensible(Top) /\ Level \in 1..Level /\ mail \in MailType
  BY <1>1, TopIsCall DEF IInv, TypeOK
<1>3. c \in CallType
  BY <1>2 DEF CallType, MailType, Places, Answering
<1>4. /\ c.client = Top.client /\ c.disturbed = Top.disturbed /\ c.status = Top.status
      /\ c.step = Top.step /\ c.did = Top.did
      /\ c.pc = "idle" /\ c.d1 = IF Top.status = "fail" THEN Top.d1 ELSE mail.d1
  BY <1>2 DEF CallType
<1> HIDE DEF c
<1>5. Level' = Level /\ calls'[Level] = c
  BY <1>1, <1>2, <1>3, TopFacts DEF IInv, TypeOK
<1>6. Sensible(c)
  BY <1>1, <1>2, <1>4 DEF Sensible
<1>7. Orderly(c)
  BY <1>1, <1>4 DEF Orderly, CallType, Underway, Early, Ending, Writing, Answering, Half, Request
<1>8. BellHasWaiter'
  BY <1>1, <1>3, BellStays DEF IInv
<1>9. ASSUME ~c.disturbed
      PROVE  InPlace(Level)'
  <2>1. InPlace(Level)
    BY <1>1, <1>2, <1>9, <1>4 DEF IInv, UndisturbedInPlace, Top, Ending
  <2>2. Answered(Level) /\ ~Answered(Level)' /\ ~Over(Level)
    BY <1>1, <1>5, <1>4 DEF Answered, Over, Top
  <2>3. mail.status = Top.status /\ mail.d1 = Reply(Level) /\ Top.d1 = Arg(Level)
    BY <1>1, <2>1, <2>2 DEF InPlace, MailIsOf, ResultIsOf, Top
  <2>4. Over(Level)' <=> Top.status = "success"
    BY <1>5, <1>4 DEF Over
  <2>5. MailIsOf(Level)'
    BY <1>1, <1>5, <1>4, <2>2, <2>3 DEF MailIsOf, Asking
  <2>6. ResultIsOf(Level)'
    BY <1>5, <1>4, <2>3, <2>4 DEF ResultIsOf, Reply, Top
  <2>7. DoneByCount(Level)'
    BY <1>1, <1>5, <1>4, <2>1, <2>2, <2>3, <2>4 DEF InPlace, DoneByCount, Count, Top
  <2> QED
    BY <1>5, <2>5, <2>6, <2>7 DEF InPlace
<1> QED
  BY <1>1, <1>3, <1>6, <1>7, <1>8, <1>9, TopSteps DEF IInv, TypeOK

\* The client is done with its command, or calls again.
LEMMA NextCommandSteps ==
  ASSUME IInv, calls # <<>>, NEW done \in BOOLEAN, NextCommand(done),
         \/ /\ Top.pc = "idle" /\ done /\ Top.client \notin Persistent
            /\ mail' = [mail EXCEPT !.command = "idle"]
         \/ /\ Top.pc = "check" /\ Top.client \in Persistent /\ mail' = mail
            /\ done <=> mail.status = "success",
         bell' = bell, ready' = ready, reason' = reason
  PROVE  IInv'
<1> DEFINE last == Top.step = Len(Commands(Top.client))
           c == [Top EXCEPT !.step = IF done /\ ~last THEN @ + 1 ELSE @,
                            !.pc = IF done /\ last THEN "return" ELSE "ready"]
<1>1. calls' = [calls EXCEPT ![Level] = c]
  BY DEF NextCommand, Top
<1>2. Top \in CallType /\ Sensible(Top) /\ Level \in 1..Level /\ mail \in MailType
  BY TopIsCall DEF IInv, TypeOK
<1>3. Top.client \in Client /\ Len(Commands(Top.client)) \in Nat /\ Top.step \in Nat
  BY <1>2, CommandsFacts DEF CallType
<1>4. c \in CallType
  <2>1. (IF done /\ ~last THEN Top.step + 1 ELSE Top.step) \in Nat
    BY <1>3
  <2>2. (IF done /\ last THEN "return" ELSE "ready") \in Places
    BY DEF Places, Early
  <2> QED
    BY <1>2, <2>1, <2>2 DEF CallType
<1>5. /\ c.client = Top.client /\ c.disturbed = Top.disturbed /\ c.status = Top.status
      /\ c.d1 = Top.d1 /\ c.did = Top.did
      /\ \/ c.pc = "return" /\ done /\ last /\ c.step = Top.step
         \/ c.pc = "ready" /\ ~(done /\ last) /\ c.step = IF done THEN Top.step + 1 ELSE Top.step
  BY <1>2 DEF CallType
<1> HIDE DEF c
<1>6. Level' = Level /\ calls'[Level] = c
  BY <1>1, <1>2, <1>4, TopFacts DEF IInv, TypeOK
<1>7. Sensible(c)
  BY <1>2, <1>5, <1>3 DEF Sensible
<1>8. mail' \in MailType /\ (mail'.command = "idle" \/ mail' = mail) /\ mail'.status = mail.status
  BY <1>2 DEF MailType
<1>9. Orderly(c)
  <2>1. Top.pc \in {"idle", "check"} /\ c.pc \in {"ready", "return"}
    BY <1>5
  <2>2. mail'.command = "idle" \/ (mail'.command = mail.command /\ Top.pc = "check")
    BY <1>2 DEF MailType
  <2> QED
    BY <1>5, <2>1, <2>2 DEF Orderly, CallType, Underway, Early, Ending, Writing, Answering, Half, Request
<1>10. BellHasWaiter'
  BY <1>1, <1>4, <1>8, BellStays DEF IInv
<1>11. ASSUME ~c.disturbed
       PROVE  InPlace(Level)'
  <2>1. InPlace(Level)
    BY <1>2, <1>5, <1>11 DEF IInv, UndisturbedInPlace, Top, Ending
  <2>2. MailIsOf(Level)'
    BY <1>6, <1>5 DEF MailIsOf, Asking, Answered
  <2>3. /\ ~Answered(Level) /\ ~Answered(Level)'
        /\ Over(Level) <=> Top.status = "success"
        /\ Over(Level)' <=> c.pc = "return" /\ Top.status = "success"
    BY <1>6, <1>5 DEF Answered, Over, Top
  <2>4. Top.pc = "check" => (done <=> Top.status = "success")
    BY <2>1 DEF InPlace, MailIsOf, Top
  <2>5. c.client = "get" => c.pc = "return"
    BY <1>2, <1>5, <1>3, CommandsFacts DEF Persistent, Sensible
  <2>6. ResultIsOf(Level)'
    BY <1>6, <1>5, <2>1, <2>3, <2>5 DEF InPlace, ResultIsOf, Top
  <2>7. Count(Level) = (IF Top.status = "success" THEN Top.step ELSE Top.step - 1)
    BY <2>3 DEF Count, Top
  <2>8. Count(Level)' = (IF c.pc = "return" /\ Top.status = "success" THEN c.step ELSE c.step - 1)
    BY <1>6, <2>3 DEF Count
  <2>9. Count(Level)' \in Int /\ Count(Level) \in Int /\ Count(Level)' >= Count(Level)
        /\ (Top.client \in Persistent => Count(Level)' = Count(Level))
    BY <1>5, <1>3, <2>4, <2>7, <2>8
  <2>10. Len(Top.did) \in Nat
    BY <1>2, LenProperties DEF CallType
  <2>11. DoneByCount(Level)'
    BY <1>6, <1>5, <2>1, <2>4, <2>9, <2>10 DEF InPlace, DoneByCount, Top
  <2> QED
    BY <1>6, <2>2, <2>6, <2>11 DEF InPlace
<1>12. Top.pc \in Underway /\ Top.pc # "wait"
  BY DEF Underway
<1> QED
  BY <1>1, <1>4, <1>7, <1>8, <1>9, <1>10, <1>11, <1>12, TopSteps DEF IInv, TypeOK

LEMMA IdleStep ==
  ASSUME IInv, WriteIdle
  PROVE  IInv'
<1>1. /\ calls # <<>> /\ Top.pc = "idle" /\ mail' = [mail EXCEPT !.command = "idle"]
      /\ bell' = bell /\ ready' = ready /\ reason' = reason
  BY DEF WriteIdle, At
<1>2. CASE Top.client \notin Persistent
  BY <1>1, <1>2, NextCommandSteps DEF WriteIdle
<1>3. CASE Top.client \in Persistent
  <2> DEFINE c == [Top EXCEPT !.pc = "check"]
  <2>1. Goto("check")
    BY <1>3 DEF WriteIdle
  <2>2. /\ c \in CallType /\ calls' = [calls EXCEPT ![Level] = c]
        /\ Level' = Level /\ calls'[Level] = c /\ Top \in CallType /\ Sensible(Top) /\ Level \in 1..Level
        /\ mail \in MailType
    BY <1>1, <2>1, Moves, TopIsCall DEF IInv, TypeOK, Places
  <2>3. Sensible(c)
    BY <1>3, <2>2 DEF Sensible, CallType
  <2>4. mail' \in MailType /\ mail'.command = "idle" /\ mail'.status = mail.status
    BY <1>1, <2>2 DEF MailType
  <2>5. Orderly(c)
    BY <1>1, <2>2, <2>4 DEF Orderly, CallType, Underway, Early, Ending, Writing, Answering, Half, Request
  <2>6. BellHasWaiter'
    BY <1>1, <2>2, <2>4, BellStays DEF IInv
  <2>7. ASSUME ~c.disturbed
        PROVE  InPlace(Level)'
    <3>1. InPlace(Level)
      BY <1>1, <2>2, <2>7 DEF IInv, UndisturbedInPlace, Top, CallType, Ending
    <3>2. MailIsOf(Level)'
      BY <1>1, <2>2, <2>4, <3>1 DEF InPlace, MailIsOf, Asking, Answered, CallType, Top
    <3>3. ~Answered(Level) /\ ~Answered(Level)' /\ (Over(Level) <=> Over(Level)')
      BY <1>1, <2>2 DEF Answered, Over, CallType, Top
    <3>4. ResultIsOf(Level)' /\ DoneByCount(Level)'
      BY <1>1, <2>2, <3>1, <3>3 DEF InPlace, ResultIsOf, DoneByCount, Count, CallType, Top
    <3> QED
      BY <2>2, <3>2, <3>4 DEF InPlace
  <2> QED
    BY <1>1, <2>2, <2>3, <2>4, <2>5, <2>6, <2>7, TopSteps DEF IInv, TypeOK, Underway
<1> QED
  BY <1>2, <1>3

LEMMA CheckStep ==
  ASSUME IInv, CheckStatus
  PROVE  IInv'
<1>1. /\ calls # <<>> /\ Top.pc = "check" /\ NextCommand(mail.status = "success")
      /\ mail' = mail /\ bell' = bell /\ ready' = ready /\ reason' = reason
  BY DEF CheckStatus, At
<1>2. Top.client \in Persistent
  BY <1>1, TopIsCall DEF Sensible, IInv
<1> QED
  BY <1>1, <1>2, NextCommandSteps

\* An event handler's call keeps those it interrupts in place.
LEMMA CallStep ==
  ASSUME IInv, NEW client \in Client, Call(client)
  PROVE  IInv'
<1> DEFINE c == NewCall(client)
<1>1. /\ calls' = Append(calls, c) /\ mail' = mail /\ bell' = bell /\ ready' = ready /\ reason' = reason
      /\ \A n \in 1..Level : calls[n].pc \notin Ending
  BY DEF Call
<1>2. calls \in Seq(CallType) /\ Level \in Nat
  BY LenProperties DEF IInv, TypeOK, Level
<1>3. /\ c.client = client /\ c.step = 1 /\ c.d1 = Arg(Level + 1) /\ c.status = "none"
      /\ c.did = <<>> /\ c.disturbed = FALSE
      /\ c.pc = IF client = "reboot" THEN "reason" ELSE "ready"
  BY DEF NewCall
<1>4. c \in CallType
  <2>1. Arg(Level + 1) \in Datum /\ <<>> \in Seq(Request)
    BY <1>2 DEF Datum
  <2>2. (IF client = "reboot" THEN "reason" ELSE "ready") \in Places /\ "none" \in Status
    BY DEF Places, Early, Status
  <2> QED
    BY <2>1, <2>2 DEF NewCall, CallType
<1> HIDE DEF c
<1>5. /\ calls' \in Seq(CallType) /\ Level' = Level + 1
      /\ \A n \in 1..Level : calls'[n] = calls[n]
      /\ calls'[Level + 1] = c
  BY <1>1, <1>2, <1>4, AppendProperties DEF Level
<1>20. 1..Level' = 1..Level \cup {Level + 1} /\ Level + 1 \notin 1..Level
  BY <1>2, <1>5
<1>6. Top' = c /\ calls' # <<>>
  BY <1>1, <1>2, <1>4, <1>5, AppendProperties DEF Top
<1>7. Sensible(c)
  BY <1>3, CommandsFacts DEF Sensible
<1>8. \A n \in 1..Level' : Sensible(calls'[n])
  BY <1>2, <1>5, <1>7 DEF IInv, TypeOK
<1>9. TypeOK'
  BY <1>1, <1>5, <1>8 DEF IInv, TypeOK, Sensible
<1>10. c.pc \in Early /\ c.pc \notin Underway \cup {"command"} \cup Ending \cup Half
  BY <1>3 DEF Early, Underway, Ending, Half
<1>11. EndTogether' /\ ReadyUnderway' /\ AloneOrDisturbed'
  BY <1>1, <1>20, <1>5, <1>10 DEF IInv, Nesting, EndTogether, ReadyUnderway, AloneOrDisturbed
<1>12. ASSUME NEW n \in 1..Level, Above(n)
       PROVE  Above(n)'
  BY <1>2, <1>5, <1>10, <1>12 DEF Above
<1>13. RequestHasWriter'
  BY <1>1, <1>20, <1>5, <1>12 DEF IInv, Nesting, RequestHasWriter, Command
<1>14. AnswerHasReader'
  BY <1>1, <1>20, <1>5, <1>12 DEF IInv, Nesting, AnswerHasReader
<1>15. HalfFindsWaiter' /\ ResetFindsReason'
  BY <1>6, <1>10 DEF HalfFindsWaiter, ResetFindsReason, At, Ending
<1>16. ReasonWritten'
  BY <1>1, <1>20, <1>3, <1>5 DEF IInv, Nesting, ReasonWritten
<1>17. BellHasWaiter'
  BY <1>1, <1>20, <1>5 DEF IInv, BellHasWaiter
<1>18. UndisturbedInPlace'
  <2> SUFFICES ASSUME NEW n \in 1..Level', ~calls'[n].disturbed, calls'[n].pc \notin Ending
               PROVE  InPlace(n)'
    BY DEF UndisturbedInPlace
  <2>1. CASE n \in 1..Level
    BY <1>1, <1>5, <2>1
    DEF IInv, UndisturbedInPlace, InPlace, MailIsOf, ResultIsOf, DoneByCount, Asking, Answered, Reply, Over, Count
  <2>2. CASE n = Level + 1
    <3>1. calls'[n] = c
      BY <1>5, <2>2
    <3>2. MailIsOf(n)' /\ ResultIsOf(n)'
      BY <1>3, <3>1, <2>2 DEF MailIsOf, Asking, Answered, ResultIsOf, Over
    <3>3. Count(n)' = 0
      BY <1>3, <3>1 DEF Count, Answered, Over
    <3>4. SubSeq(Commands(client), 1, 0) = <<>> /\ Len(<<>>) = 0
      BY SubSeqEmpty
    <3>5. calls'[n].client = client /\ calls'[n].did = <<>> /\ calls'[n].pc # "return"
      BY <1>3, <3>1
    <3>6. DoneByCount(n)'
      BY <3>3, <3>4, <3>5 DEF DoneByCount
    <3> QED
      BY <3>2, <3>6 DEF InPlace
  <2> QED
    BY <1>20, <2>1, <2>2
<1> QED
  BY <1>9, <1>11, <1>13, <1>14, <1>15, <1>16, <1>17, <1>18 DEF IInv, Nesting

\* A call returns to one that it has interrupted.
LEMMA ReturnStep ==
  ASSUME IInv, Return
  PROVE  IInv'
<1>1. /\ calls # <<>> /\ Top.pc = "return" /\ calls' = Front(calls)
      /\ mail' = mail /\ bell' = bell /\ ready' = ready /\ reason' = reason
  BY DEF Return, At
<1>2. calls \in Seq(CallType) /\ Level \in Nat /\ Level \in 1..Level
  BY <1>1, TopIsCall DEF IInv, TypeOK
<1>3. /\ calls' \in Seq(CallType) /\ Level' = Level - 1
      /\ \A n \in 1..Level - 1 : n \in 1..Level /\ calls'[n] = calls[n]
  <2>1. calls' = SubSeq(calls, 1, Level - 1)
    BY <1>1 DEF Front, Level
  <2>2. \A n \in 1..Level - 1 : calls[n] \in CallType
    BY <1>2, ElementOfSeq DEF Level
  <2>3. /\ SubSeq(calls, 1, Level - 1) \in Seq(CallType)
        /\ Len(SubSeq(calls, 1, Level - 1)) = IF 1 <= Level - 1 THEN Level - 1 - 1 + 1 ELSE 0
        /\ \A n \in 1..Level - 1 - 1 + 1 : SubSeq(calls, 1, Level - 1)[n] = calls[1 + n - 1]
    BY <1>2, <2>2, SubSeqProperties
  <2>4. Len(calls') = Level - 1 /\ calls' \in Seq(CallType)
    BY <1>2, <2>1, <2>3
  <2>5. ASSUME NEW n \in 1..Level - 1
        PROVE  n \in 1..Level /\ calls'[n] = calls[n]
    <3>1. n \in 1..Level - 1 - 1 + 1 /\ 1 + n - 1 = n /\ n \in 1..Level
      BY <1>2
    <3> QED
      BY <2>1, <2>3, <3>1
  <2> QED
    BY <2>4, <2>5 DEF Level
<1>4. TypeOK'
  BY <1>1, <1>2, <1>3 DEF IInv, TypeOK, Sensible
<1>5. \A n \in 1..Level : calls[n].pc \notin Ending
  BY <1>1, <1>2 DEF IInv, Nesting, EndTogether, Top, Ending
<1>6. \A n \in 1..Level : calls[n].pc \in Writing \cup Answering => ~Above(n)
  BY <1>1, <1>2 DEF Above, Top, Writing, Answering, Early
<1>7. mail.command \notin Request /\ mail.command # "done"
  BY <1>5, <1>6 DEF IInv, Nesting, RequestHasWriter, AnswerHasReader
<1>8. EndTogether' /\ ReadyUnderway' /\ AloneOrDisturbed' /\ ReasonWritten'
  BY <1>1, <1>2, <1>3 DEF IInv, Nesting, EndTogether, ReadyUnderway, AloneOrDisturbed, ReasonWritten
<1>9. RequestHasWriter' /\ AnswerHasReader' /\ HalfFindsWaiter'
  BY <1>1, <1>7 DEF RequestHasWriter, AnswerHasReader, HalfFindsWaiter
<1>10. ResetFindsReason'
  <2> SUFFICES ASSUME calls' # <<>>
               PROVE  Top'.pc # "reset"
    BY DEF ResetFindsReason, At
  <2>1. Level - 1 \in 1..Level - 1
    BY <1>2, <1>3, EmptySeq DEF Level
  <2> QED
    BY <1>3, <1>5, <2>1 DEF Top, Ending
<1>11. BellHasWaiter'
  BY <1>1, <1>2, <1>3, <1>7 DEF IInv, BellHasWaiter, Top
<1>12. UndisturbedInPlace'
  <2> SUFFICES ASSUME NEW n \in 1..Level', ~calls'[n].disturbed, calls'[n].pc \notin Ending
               PROVE  InPlace(n)'
    BY DEF UndisturbedInPlace
  <2>1. calls'[n] = calls[n] /\ InPlace(n)
    BY <1>3 DEF IInv, UndisturbedInPlace
  <2> QED
    BY <1>1, <2>1
    DEF InPlace, MailIsOf, ResultIsOf, DoneByCount, Asking, Answered, Reply, Over, Count
<1> QED
  BY <1>4, <1>8, <1>9, <1>10, <1>11, <1>12 DEF IInv, Nesting

\* A call comes to the mailbox, and to whom it has interrupted there.
LEMMA CommandStep ==
  ASSUME IInv, WriteCommand
  PROVE  IInv'
<1> DEFINE nested == {n \in 1..Level - 1 : calls[n].pc \in Underway}
           c(n) == [calls[n] EXCEPT !.disturbed = @ \/ n \in nested \/ (n = Level /\ nested # {}),
                                    !.pc = IF n = Level THEN "data1" ELSE @]
<1>1. /\ calls # <<>> /\ Top.pc = "command" /\ mail' = [mail EXCEPT !.command = Command(Top)]
      /\ calls' = [n \in 1..Level |-> c(n)]
      /\ bell' = bell /\ ready' = ready /\ reason' = reason
  BY DEF WriteCommand, At
<1>2. /\ Level \in 1..Level /\ Level \in Nat /\ Top \in CallType /\ Sensible(Top) /\ Top = calls[Level]
      /\ mail \in MailType /\ \A n \in 1..Level : calls[n] \in CallType
  BY <1>1, TopIsCall, ElementOfSeq DEF IInv, TypeOK, Top, Level
<1>3. \A n \in 1..Level :
        /\ c(n) \in CallType
        /\ c(n).client = calls[n].client /\ c(n).step = calls[n].step /\ c(n).d1 = calls[n].d1
        /\ c(n).status = calls[n].status /\ c(n).did = calls[n].did
        /\ c(n).disturbed = (calls[n].disturbed \/ n \in nested \/ (n = Level /\ nested # {}))
        /\ c(n).pc = IF n = Level THEN "data1" ELSE calls[n].pc
  <2> TAKE n \in 1..Level
  <2>1. (IF n = Level THEN "data1" ELSE calls[n].pc) \in Places
    BY <1>2 DEF CallType, Places, Writing
  <2>2. (calls[n].disturbed \/ n \in nested \/ (n = Level /\ nested # {})) \in BOOLEAN
    OBVIOUS
  <2> QED
    BY <1>2, <2>1, <2>2 DEF CallType
<1> HIDE DEF c
<1>4. /\ calls' \in Seq(CallType) /\ Level' = Level
      /\ \A n \in 1..Level : calls'[n] = c(n)
  BY <1>1, <1>2, <1>3, LenProperties, IsASeq DEF Level
<1>5. Command(Top) \in Request /\ mail'.command = Command(Top) /\ mail' \in MailType
      /\ mail'.command # "done" /\ Command(calls'[Level]) = Command(Top)
  BY <1>1, <1>2, <1>3, <1>4, CommandFacts DEF MailType, Request, Command
<1>6. TypeOK'
  <2>1. \A n \in 1..Level : Sensible(calls'[n])
    BY <1>3, <1>4 DEF IInv, TypeOK, Sensible
  <2> QED
    BY <1>1, <1>4, <1>5, <2>1 DEF IInv, TypeOK, Sensible
<1>7. EndTogether'
  BY <1>1, <1>2, <1>3, <1>4 DEF IInv, Nesting, EndTogether, Ending
<1>8. ReadyUnderway'
  BY <1>1, <1>2, <1>3, <1>4 DEF IInv, Nesting, ReadyUnderway
<1>9. \A n \in 1..Level : n # Level => n \in 1..Level - 1
  BY <1>2
<1>10. AloneOrDisturbed'
  <2> SUFFICES ASSUME NEW m \in 1..Level, NEW n \in 1..Level, m # n,
                      calls'[m].pc \in Underway, calls'[n].pc \in Underway
               PROVE  calls'[m].disturbed
    BY <1>4 DEF AloneOrDisturbed
  <2>1. CASE m = Level
    BY <1>3, <1>4, <1>9, <2>1
  <2>2. CASE m # Level
    <3>1. m \in nested
      BY <1>3, <1>4, <1>9, <2>2
    <3> QED
      BY <1>3, <1>4, <3>1
  <2> QED
    BY <2>1, <2>2
<1>11. RequestHasWriter'
  <2>1. calls'[Level].pc \in Writing /\ Above(Level)'
    BY <1>2, <1>3, <1>4 DEF Writing, Above
  <2> QED
    BY <1>2, <1>4, <1>5, <2>1 DEF RequestHasWriter
<1>12. AnswerHasReader' /\ HalfFindsWaiter'
  BY <1>5 DEF AnswerHasReader, HalfFindsWaiter
<1>13. ReasonWritten'
  BY <1>1, <1>2, <1>3, <1>4 DEF IInv, Nesting, ReasonWritten, Ending
<1>14. ResetFindsReason'
  BY <1>2, <1>3, <1>4 DEF ResetFindsReason, At, Top
<1>15. BellHasWaiter'
  BY <1>1, <1>2, <1>3, <1>4, <1>5 DEF IInv, BellHasWaiter
<1>16. UndisturbedInPlace'
  <2> SUFFICES ASSUME NEW n \in 1..Level, ~calls'[n].disturbed, calls'[n].pc \notin Ending
               PROVE  InPlace(n)'
    BY <1>4 DEF UndisturbedInPlace
  <2>1. ~calls[n].disturbed /\ n \notin nested /\ ~(n = Level /\ nested # {})
    BY <1>3, <1>4
  <2>2. calls[n].pc \notin Ending
    BY <1>1, <1>2, <1>3, <1>4 DEF Ending
  <2>3. InPlace(n)
    BY <2>1, <2>2 DEF IInv, UndisturbedInPlace
  <2>4. CASE n # Level
    BY <1>3, <1>4, <1>9, <2>1, <2>3, <2>4, AwayStays
  <2>5. CASE n = Level
    <3>1. ~bell
      <4> SUFFICES ASSUME bell
                   PROVE  FALSE
        OBVIOUS
      <4>1. PICK m \in 1..Level : calls[m].pc = "wait"
        BY DEF IInv, BellHasWaiter
      <4>2. m \in nested
        BY <1>1, <1>2, <1>9, <4>1 DEF Underway
      <4> QED
        BY <2>1, <2>5, <4>2
    <3>2. calls'[Level].pc = "data1"
      BY <1>2, <1>3, <1>4
    <3>3. MailIsOf(Level)'
      BY <1>1, <1>4, <1>5, <3>1, <3>2 DEF MailIsOf, Asking, Answered
    <3>4. ~Answered(Level) /\ ~Answered(Level)' /\ ~Over(Level) /\ ~Over(Level)'
      BY <1>1, <1>2, <1>4, <3>2 DEF Answered, Over
    <3>5. ResultIsOf(Level)' /\ DoneByCount(Level)'
      BY <1>1, <1>2, <1>3, <1>4, <2>3, <2>5, <3>2, <3>4
      DEF InPlace, ResultIsOf, DoneByCount, Count
    <3> QED
      BY <1>4, <2>5, <3>3, <3>5 DEF InPlace
  <2> QED
    BY <2>4, <2>5
<1> QED
  BY <1>6, <1>7, <1>8, <1>10, <1>11, <1>12, <1>13, <1>14, <1>15, <1>16 DEF IInv, Nesting

LEMMA ReadinessStep ==
  ASSUME IInv, ModemReady
  PROVE  IInv'
<1>1. ~ready /\ ready' = TRUE /\ bell' = FALSE /\ mail' = mail /\ calls' = calls /\ reason' = reason
  BY DEF ModemReady
<1>2. TypeOK' /\ BellHasWaiter'
  BY <1>1 DEF IInv, TypeOK, Sensible, BellHasWaiter, Level
<1>3. Nesting'
  BY <1>1
  DEF IInv, Nesting, EndTogether, ReadyUnderway, AloneOrDisturbed, RequestHasWriter, AnswerHasReader,
      HalfFindsWaiter, ReasonWritten, ResetFindsReason, Above, Level, At, Top
<1>4. UndisturbedInPlace'
  <2> SUFFICES ASSUME NEW n \in 1..Level, ~calls[n].disturbed, calls[n].pc \notin Ending
               PROVE  InPlace(n)'
    BY <1>1 DEF UndisturbedInPlace, Level
  <2>1. calls[n].pc \notin Underway /\ InPlace(n)
    BY <1>1 DEF IInv, Nesting, ReadyUnderway, UndisturbedInPlace
  <2> QED
    BY <1>1, <2>1, AwayStays
<1> QED
  BY <1>2, <1>3, <1>4 DEF IInv


\* With no call in progress.
LEMMA NoCalls ==
  ASSUME PcomInit
  PROVE  IInv
<1>1. Level = 0 /\ \A n \in 1..Level : FALSE
  BY EmptySeq DEF PcomInit, Level
<1>2. mail \in MailType /\ mail.command = "idle"
  BY DEF PcomInit, MailType, Status, Datum
<1>3. TypeOK
  BY <1>1, <1>2, EmptySeq DEF PcomInit, TypeOK
<1>4. Nesting
  BY <1>1, <1>2
  DEF PcomInit, Nesting, EndTogether, ReadyUnderway, AloneOrDisturbed, RequestHasWriter, AnswerHasReader,
      HalfFindsWaiter, ReasonWritten, ResetFindsReason, At, Request
<1>5. BellHasWaiter /\ UndisturbedInPlace
  BY <1>1 DEF PcomInit, BellHasWaiter, UndisturbedInPlace
<1> QED
  BY <1>3, <1>4, <1>5 DEF IInv

LEMMA RebootStep ==
  ASSUME Reboot
  PROVE  IInv'
<1>1. /\ mail' = [command |-> "idle", status |-> "none", d1 |-> <<"nothing">>, d2 |-> <<"nothing">>]
      /\ bell' = FALSE /\ ready' = FALSE /\ calls' = <<>> /\ reason' = "none"
  BY DEF Reboot
<1>2. Level' = 0 /\ \A n \in 1..Level' : FALSE
  BY <1>1, EmptySeq DEF Level
<1>3. mail' \in MailType /\ mail'.command = "idle"
  BY <1>1 DEF MailType, Status, Datum
<1>4. TypeOK'
  BY <1>1, <1>2, <1>3, EmptySeq DEF TypeOK
<1>5. Nesting'
  BY <1>1, <1>2, <1>3
  DEF Nesting, EndTogether, ReadyUnderway, AloneOrDisturbed, RequestHasWriter, AnswerHasReader,
      HalfFindsWaiter, ReasonWritten, ResetFindsReason, At, Request
<1>6. BellHasWaiter' /\ UndisturbedInPlace'
  BY <1>1, <1>2 DEF BellHasWaiter, UndisturbedInPlace
<1> QED
  BY <1>4, <1>5, <1>6 DEF IInv

-----------------------------------------------------------------------------
(* The answer.                                                             *)

LEMMA SetToSeqOfOne ==
  ASSUME NEW x
  PROVE  SetToSeq({x}) = <<x>>
<1>1. Cardinality({x}) = 1
  BY FS_Singleton
<1>2. SetToSeq({x}) = CHOOSE f \in [1..1 -> {x}] : IsInjective(f)
  BY <1>1 DEF SetToSeq
<1>3. <<x>> \in [1..1 -> {x}] /\ IsInjective(<<x>>)
  BY DEF IsInjective
<1>4. \A f \in [1..1 -> {x}] : f = <<x>>
  OBVIOUS
<1> QED
  BY <1>2, <1>3, <1>4

LEMMA PairIsConcat ==
  ASSUME NEW x, NEW y
  PROVE  <<x>> \o <<y>> = <<x, y>>
<1> DEFINE S == {x, y}
<1>1. <<x>> \in Seq(S) /\ <<y>> \in Seq(S) /\ <<x, y>> \in Seq(S)
  OBVIOUS
<1>2. Len(<<x>>) = 1 /\ Len(<<y>>) = 1 /\ Len(<<x, y>>) = 2
  OBVIOUS
<1>3. <<x>> \o <<y>> \in Seq(S) /\ Len(<<x>> \o <<y>>) = 2
  BY <1>1, <1>2, ConcatProperties
<1>4. (<<x>> \o <<y>>)[1] = x /\ (<<x>> \o <<y>>)[2] = y
  BY <1>1, <1>2, ConcatProperties
<1>5. \A i \in 1..2 : (<<x>> \o <<y>>)[i] = <<x, y>>[i]
  BY <1>4
<1> QED
  BY <1>1, <1>2, <1>3, <1>5, SeqEqual

\* A request that is there when the bell is heard is that of the only call
\* under way, or all such calls have been disturbed.
LEMMA WhoIsServed ==
  ASSUME IInv, bell, mail.command \in Request,
         NEW n \in 1..Level, ~calls[n].disturbed, calls[n].pc \in Underway
  PROVE  /\ calls[n].pc = "wait" /\ Asking(n) /\ Owners = {n}
         /\ mail.command = Command(calls[n]) /\ mail.d1 = Arg(n)
<1>1. \A m \in 1..Level : calls[m].pc \in Underway => m = n
  BY DEF IInv, Nesting, AloneOrDisturbed
<1>2. InPlace(n)
  BY DEF IInv, UndisturbedInPlace, Underway, Ending
<1>3. PICK m \in 1..Level : calls[m].pc \in Writing
  BY DEF IInv, Nesting, RequestHasWriter
<1>4. calls[n].pc \in Writing
  BY <1>1, <1>3 DEF Writing, Underway
<1>5. calls[n].pc = "wait" /\ Asking(n)
  BY <1>2, <1>4 DEF InPlace, MailIsOf, Writing, Asking, Request
<1>6. mail.command = Command(calls[n]) /\ mail.d1 = Arg(n) /\ mail.d2 = Arg(n)
  BY <1>2, <1>5 DEF InPlace, MailIsOf
<1>7. Owners = {n}
  BY <1>1, <1>5, <1>6 DEF Owners, Underway
<1> QED
  BY <1>5, <1>6, <1>7

\* A bell with no request.
LEMMA IgnoredBell ==
  ASSUME IInv, mail.command \notin Request,
         bell' = FALSE, mail' = mail, calls' = calls, ready' = ready, reason' = reason
  PROVE  IInv'
<1>1. TypeOK' /\ BellHasWaiter'
  BY DEF IInv, TypeOK, Sensible, BellHasWaiter, Level
<1>2. Nesting'
  BY DEF IInv, Nesting, EndTogether, ReadyUnderway, AloneOrDisturbed, RequestHasWriter, AnswerHasReader,
         HalfFindsWaiter, ReasonWritten, ResetFindsReason, Above, Level, At, Top
<1>3. UndisturbedInPlace'
  <2> SUFFICES ASSUME NEW n \in 1..Level, ~calls[n].disturbed, calls[n].pc \notin Ending
               PROVE  InPlace(n)'
    BY DEF UndisturbedInPlace, Level
  <2>1. InPlace(n)
    BY DEF IInv, UndisturbedInPlace
  <2>2. Command(calls[n]) \in Request
    BY CommandFacts, ElementOfSeq DEF IInv, TypeOK, Level
  <2>3. ~Asking(n)
    BY <2>1, <2>2 DEF InPlace, MailIsOf
  <2>4. MailIsOf(n)'
    BY <2>1, <2>3 DEF InPlace, MailIsOf, Asking, Answered, Reply
  <2>5. ResultIsOf(n)' /\ DoneByCount(n)'
    BY <2>1 DEF InPlace, ResultIsOf, DoneByCount, Answered, Over, Count
  <2> QED
    BY <2>4, <2>5 DEF InPlace
<1> QED
  BY <1>1, <1>2, <1>3 DEF IInv

LEMMA ServeStep ==
  ASSUME IInv, Serve
  PROVE  IInv'
<1>1. ready /\ bell /\ bell' = FALSE /\ ready' = ready /\ reason' = reason
  BY DEF Serve
<1>2. CASE mail.command \notin Request
  BY <1>1, <1>2, IgnoredBell DEF Serve
<1>3. CASE mail.command \in Request
  <2> DEFINE c(n, status) ==
        [calls[n] EXCEPT
           !.did = IF status = "success" /\ n \in Owners /\ ~calls[n].disturbed THEN Append(@, mail.command) ELSE @,
           !.pc = IF status = "success" /\ mail.command \in Ending THEN mail.command ELSE @]
  <2>1. PICK status \in {"success", "fail", "refused"} :
          /\ mail' = [mail EXCEPT !.command = "done", !.status = status,
                                  !.d1 = IF status = "success" /\ mail.command = "get"
                                         THEN <<"answer">> \o SetToSeq(Owners) ELSE @]
          /\ calls' = [n \in 1..Level |-> c(n, status)]
    BY <1>3 DEF Serve
  <2> DEFINE ends == status = "success" /\ mail.command \in Ending
             served(n) == status = "success" /\ n \in Owners /\ ~calls[n].disturbed
  <2>2. /\ Level \in Nat /\ mail \in MailType
        /\ \A n \in 1..Level : calls[n] \in CallType /\ Sensible(calls[n])
    BY LenProperties, ElementOfSeq DEF IInv, TypeOK, Level
  <2>3. \A n \in 1..Level :
          /\ c(n, status) \in CallType
          /\ c(n, status).client = calls[n].client /\ c(n, status).step = calls[n].step
          /\ c(n, status).d1 = calls[n].d1 /\ c(n, status).status = calls[n].status
          /\ c(n, status).disturbed = calls[n].disturbed
          /\ c(n, status).did = IF served(n) THEN Append(calls[n].did, mail.command) ELSE calls[n].did
          /\ c(n, status).pc = IF ends THEN mail.command ELSE calls[n].pc
    <3> TAKE n \in 1..Level
    <3>1. (IF ends THEN mail.command ELSE calls[n].pc) \in Places
      BY <2>2 DEF CallType, Places
    <3>2. (IF served(n) THEN Append(calls[n].did, mail.command) ELSE calls[n].did) \in Seq(Request)
      BY <1>3, <2>2, AppendProperties DEF CallType
    <3> QED
      BY <2>2, <3>1, <3>2 DEF CallType
  <2> HIDE DEF c
  <2>4. /\ calls' \in Seq(CallType) /\ Level' = Level
        /\ \A n \in 1..Level : calls'[n] = c(n, status)
    BY <2>1, <2>2, <2>3, LenProperties, IsASeq DEF Level
  <2>5. /\ mail'.command = "done" /\ mail'.status = status /\ mail' \in MailType
        /\ mail'.d1 = IF status = "success" /\ mail.command = "get"
                      THEN <<"answer">> \o SetToSeq(Owners) ELSE mail.d1
    <3>1. Owners \in SUBSET Nat
      BY <2>2 DEF Owners
    <3>2. <<"answer">> \o SetToSeq(Owners) \in Datum
      BY <3>1 DEF Datum
    <3> QED
      BY <2>1, <2>2, <3>2 DEF MailType, Status
  <2>6. TypeOK'
    <3>1. ends => mail.command \notin {"reason", "check_word", "check", "return"}
      BY DEF Ending
    <3>2. \A n \in 1..Level : Sensible(calls'[n])
      <4> TAKE n \in 1..Level
      <4>1. Sensible(calls[n])
        BY <2>2
      <4>2. /\ calls'[n].client = calls[n].client /\ calls'[n].step = calls[n].step
            /\ calls'[n].pc = IF ends THEN mail.command ELSE calls[n].pc
        BY <2>3, <2>4
      <4> HIDE DEF ends
      <4> QED
        BY <3>1, <4>1, <4>2 DEF Sensible
    <3> QED
      BY <1>1, <2>4, <2>5, <3>2 DEF IInv, TypeOK, Sensible
  <2>7. RequestHasWriter' /\ BellHasWaiter'
    BY <1>1, <2>5 DEF RequestHasWriter, BellHasWaiter, Request
  <2>8. PICK w \in 1..Level : calls[w].pc \in Writing /\ Command(calls[w]) = mail.command /\ Above(w)
    BY <1>3 DEF IInv, Nesting, RequestHasWriter
  <2>9. CASE ends
    <3>1. \A n \in 1..Level : calls'[n].pc = mail.command
      BY <2>3, <2>4, <2>9
    <3>2. mail.command \in Ending /\ mail.command \notin Underway \cup {"command"} \cup Half
      BY <2>9 DEF Ending, Underway, Half
    <3>3. EndTogether' /\ ReadyUnderway' /\ AloneOrDisturbed' /\ ReasonWritten' /\ UndisturbedInPlace'
      BY <2>4, <3>1, <3>2
      DEF EndTogether, ReadyUnderway, AloneOrDisturbed, ReasonWritten, UndisturbedInPlace
    <3>4. AnswerHasReader'
      BY <2>4, <2>8, <3>1, <3>2 DEF AnswerHasReader
    <3>5. Level \in 1..Level /\ Top'.pc = mail.command
      BY <2>2, <2>4, <2>8, <3>1 DEF Top
    <3>6. HalfFindsWaiter'
      BY <3>2, <3>5 DEF HalfFindsWaiter
    <3>7. ResetFindsReason'
      <4> SUFFICES ASSUME mail.command = "reset"
                   PROVE  reason = "both"
        BY <1>1, <3>5 DEF ResetFindsReason, At
      <4>1. calls[w].client = "reboot"
        BY <2>2, <2>8, CommandFacts
      <4> QED
        BY <2>8, <4>1 DEF IInv, Nesting, ReasonWritten, Writing, Ending
    <3> QED
      BY <2>6, <2>7, <3>3, <3>4, <3>6, <3>7 DEF IInv, Nesting
  <2>10. CASE ~ends
    <3>1. \A n \in 1..Level : calls'[n].pc = calls[n].pc
      BY <2>3, <2>4, <2>10
    <3>2. EndTogether' /\ ReadyUnderway' /\ AloneOrDisturbed' /\ ReasonWritten'
      BY <1>1, <2>3, <2>4, <3>1
      DEF IInv, Nesting, EndTogether, ReadyUnderway, AloneOrDisturbed, ReasonWritten
    <3>3. Above(w)'
      BY <2>2, <2>4, <2>8, <3>1 DEF Above
    <3>4. AnswerHasReader'
      BY <2>4, <2>8, <3>1, <3>3 DEF AnswerHasReader
    <3>5. Level \in 1..Level /\ Top'.pc = Top.pc
      BY <2>2, <2>4, <2>8, <3>1 DEF Top
    <3>6. HalfFindsWaiter'
      <4> SUFFICES ASSUME Top.pc \in Half
                   PROVE  \E n \in 1..Level : n # Level /\ calls'[n].pc = "wait"
        BY <2>4, <3>5 DEF HalfFindsWaiter
      <4>1. PICK n \in 1..Level : calls[n].pc = "wait"
        BY <1>1 DEF IInv, BellHasWaiter
      <4> QED
        BY <3>1, <4>1 DEF Top, Half
    <3>7. ResetFindsReason'
      BY <1>1, <2>4, <3>5, EmptySeq DEF IInv, Nesting, ResetFindsReason, At, Level
    <3>8. UndisturbedInPlace'
      <4> SUFFICES ASSUME NEW n \in 1..Level, ~calls[n].disturbed, calls[n].pc \notin Ending
                   PROVE  InPlace(n)'
        BY <2>3, <2>4, <3>1 DEF UndisturbedInPlace
      <4>1. InPlace(n)
        BY DEF IInv, UndisturbedInPlace
      <4>2. CASE calls[n].pc \notin Underway
        <5>1. ~served(n)
          BY <4>2 DEF Owners, Underway
        <5> QED
          BY <2>3, <2>4, <3>1, <4>1, <4>2, <5>1, AwayStays
      <4>3. CASE calls[n].pc \in Underway
        <5>1. /\ calls[n].pc = "wait" /\ Asking(n) /\ Owners = {n}
              /\ mail.command = Command(calls[n]) /\ mail.d1 = Arg(n)
          BY <1>1, <1>3, <4>3, WhoIsServed
        <5>2. /\ calls'[n].pc = "wait" /\ calls'[n].client = calls[n].client
              /\ calls'[n].step = calls[n].step /\ calls'[n].d1 = calls[n].d1
              /\ calls'[n].did = IF status = "success" THEN Append(calls[n].did, mail.command) ELSE calls[n].did
          BY <2>3, <2>4, <3>1, <5>1
        <5>3. mail'.d1 = Reply(n)'
          <6>1. mail.command = "get" <=> calls[n].client = "get"
            BY <2>2, <5>1, CommandFacts
          <6>2. <<"answer">> \o SetToSeq(Owners) = <<"answer", n>>
            <7>1. <<"answer">> \o <<n>> = <<"answer", n>>
              BY PairIsConcat
            <7> QED
              BY <5>1, <7>1, SetToSeqOfOne
          <6> QED
            BY <2>5, <5>1, <5>2, <6>1, <6>2 DEF Reply
        <5>4. MailIsOf(n)'
          BY <2>5, <5>2, <5>3 DEF MailIsOf, Asking
        <5>5. ~Over(n) /\ ~Over(n)' /\ ~Answered(n) /\ Answered(n)'
          BY <2>5, <5>1, <5>2 DEF Over, Asking, Answered
        <5>6. ResultIsOf(n)'
          BY <4>1, <5>2, <5>5 DEF InPlace, ResultIsOf
        <5>7. /\ Count(n) = calls[n].step - 1
              /\ Count(n)' = IF status = "success" THEN calls[n].step ELSE calls[n].step - 1
          BY <2>5, <5>2, <5>5 DEF Count
        <5>8. DoneByCount(n)'
          <6> DEFINE call == calls[n]
                     asked == Commands(call.client)
          <6>1. /\ call.client \in Client /\ call.did \in Seq(Request) /\ call.step \in Nat
                /\ call.step \in 1..Len(asked) /\ asked \in Seq(Request) /\ mail.command = asked[call.step]
            BY <2>2, <5>1, CommandsFacts DEF CallType, Sensible, Command
          <6>2. /\ Len(Append(call.did, mail.command)) = Len(call.did) + 1 /\ Len(call.did) \in Nat
            BY <1>3, <6>1, AppendProperties, LenProperties
          <6>3. Len(call.did) <= call.step - 1
            BY <4>1, <5>7 DEF InPlace, DoneByCount
          <6>4. Len(calls'[n].did) <= Count(n)'
            BY <5>2, <5>7, <6>1, <6>2, <6>3
          <6>5. ASSUME call.client \in Persistent
                PROVE  calls'[n].did = SubSeq(asked, 1, Count(n)')
            <7>1. call.did = SubSeq(asked, 1, call.step - 1)
              BY <4>1, <5>7, <6>5 DEF InPlace, DoneByCount
            <7>2. Append(call.did, mail.command) = SubSeq(asked, 1, call.step)
              BY <6>1, <7>1, LenProperties
            <7> QED
              BY <5>2, <5>7, <7>1, <7>2
          <6> QED
            BY <5>2, <6>4, <6>5 DEF DoneByCount
        <5> QED
          BY <5>4, <5>6, <5>8 DEF InPlace
      <4> QED
        BY <4>2, <4>3
    <3> QED
      BY <2>6, <2>7, <3>2, <3>4, <3>6, <3>7, <3>8 DEF IInv, Nesting
  <2> QED
    BY <2>9, <2>10
<1> QED
  BY <1>2, <1>3

-----------------------------------------------------------------------------
(* The theorems.                                                           *)

\* What a step keeps.
LEMMA StepsKeepInvariant ==
  ASSUME IInv, [PcomNext]_pcomVars
  PROVE  IInv'
<1>1. CASE Step
  BY <1>1, ReasonStep, ReadyStep, CommandStep, Data1Step, Data2Step, NotifyStep, DoneStep, ReadStatusStep,
     CopyStep, IdleStep, CheckStep, ReturnStep DEF Step
<1>2. CASE ModemReady \/ Serve \/ Reboot
  BY <1>2, ReadinessStep, ServeStep, RebootStep
<1>3. CASE \E client \in Client : Call(client)
  BY <1>3, CallStep
<1>4. CASE UNCHANGED pcomVars
  <2>1. mail' = mail /\ bell' = bell /\ ready' = ready /\ calls' = calls /\ reason' = reason
    BY <1>4 DEF pcomVars
  <2>2. TypeOK' /\ BellHasWaiter'
    BY <2>1 DEF IInv, TypeOK, Sensible, BellHasWaiter, Level
  <2>3. Nesting'
    BY <2>1
    DEF IInv, Nesting, EndTogether, ReadyUnderway, AloneOrDisturbed, RequestHasWriter, AnswerHasReader,
        HalfFindsWaiter, ReasonWritten, ResetFindsReason, Above, Level, At, Top
  <2>4. UndisturbedInPlace'
    BY <2>1
    DEF IInv, UndisturbedInPlace, InPlace, MailIsOf, ResultIsOf, DoneByCount, Asking, Answered, Reply, Over,
        Count, Level
  <2> QED
    BY <2>2, <2>3, <2>4 DEF IInv
<1> QED
  BY <1>1, <1>2, <1>3, <1>4 DEF PcomNext

LEMMA Invariance == PcomSpec => []IInv
<1>1. PcomInit => IInv
  BY NoCalls
<1>2. IInv /\ [PcomNext]_pcomVars => IInv'
  BY StepsKeepInvariant
<1> QED
  BY <1>1, <1>2, PTL DEF PcomSpec

\* The chip is never reset before PlatformReboot has left the boot reason and
\* its check word (PlatformResetLib.c lines 24-35), however calls are nested.
THEOREM ResetAlwaysFindsReason == PcomSpec => []ResetFindsReason
<1>1. IInv => ResetFindsReason
  BY DEF IInv, Nesting
<1> QED
  BY <1>1, Invariance, PTL

\* A call of msm_proc_comm that waits for an answer that will not come has been
\* interrupted by another one or has interrupted one (pcom.c lines 71-100).
THEOREM OnlyTheDisturbedAreStuck == PcomSpec => []StuckMeansDisturbed
<1>1. IInv => StuckMeansDisturbed
  <2> SUFFICES ASSUME IInv, calls # <<>>, Top.pc = "wait", ~bell, mail.command # "done", ~Top.disturbed
               PROVE  FALSE
    BY DEF StuckMeansDisturbed, At
  <2>1. Level \in 1..Level
    BY TopIsCall DEF IInv
  <2>2. InPlace(Level)
    BY <2>1 DEF IInv, UndisturbedInPlace, Top, Ending
  <2> QED
    BY <2>2 DEF InPlace, MailIsOf, Asking, Top
<1> QED
  BY <1>1, Invariance, PTL

\* A call that no other one has disturbed returns the answer to its own request
\* (pcom.c lines 71-100), at whatever depth it is nested.
THEOREM AnswersAreOwn == PcomSpec => []OwnAnswer
<1>1. IInv => OwnAnswer
  <2> SUFFICES ASSUME IInv, calls # <<>>, Top.pc = "return", ~Top.disturbed
               PROVE  /\ Top.client = "get" /\ Top.status = "success" => Top.d1 = <<"answer", Level>>
                      /\ Top.status # "success" => Top.d1 = Arg(Level) /\ Top.did # Commands(Top.client)
    BY DEF OwnAnswer, At
  <2>1. Level \in 1..Level /\ Top \in CallType /\ Sensible(Top)
    BY TopIsCall DEF IInv
  <2>2. InPlace(Level) /\ Top = calls[Level]
    BY <2>1 DEF IInv, UndisturbedInPlace, Top, Ending
  <2>3. Top.client = "get" /\ Top.status = "success" => Top.d1 = <<"answer", Level>>
    BY <2>2 DEF InPlace, ResultIsOf, Over
  <2>4. ASSUME Top.status # "success"
        PROVE  Top.d1 = Arg(Level) /\ Top.did # Commands(Top.client)
    <3>1. Top.d1 = Arg(Level)
      BY <2>2, <2>4 DEF InPlace, ResultIsOf, Over
    <3>2. Count(Level) = Top.step - 1
      BY <2>2, <2>4 DEF Count, Over, Answered
    <3>3. Len(Top.did) <= Top.step - 1 /\ Top.step = Len(Commands(Top.client))
      BY <2>1, <2>2, <3>2 DEF InPlace, DoneByCount, Sensible
    <3>4. Len(Commands(Top.client)) \in Nat
      BY <2>1, CommandsFacts DEF CallType
    <3> QED
      BY <3>1, <3>3, <3>4
  <2> QED
    BY <2>3, <2>4
<1> QED
  BY <1>1, Invariance, PTL

\* The clients that repeat a command until it succeeds (pcom_clients.c lines
\* 30-65) return with each command done once and in order, unless disturbed.
THEOREM InsistentAreServed == PcomSpec => []DoneInOrder
<1>1. IInv => DoneInOrder
  <2> SUFFICES ASSUME IInv, calls # <<>>, Top.pc = "return", ~Top.disturbed, Top.client \in Persistent
               PROVE  Top.did = Commands(Top.client)
    BY DEF DoneInOrder, At
  <2>1. Level \in 1..Level /\ Top \in CallType /\ Sensible(Top)
    BY TopIsCall DEF IInv
  <2>2. InPlace(Level) /\ Top = calls[Level]
    BY <2>1 DEF IInv, UndisturbedInPlace, Top, Ending
  <2>3. Count(Level) = Top.step /\ Top.did = SubSeq(Commands(Top.client), 1, Count(Level))
    BY <2>2 DEF InPlace, DoneByCount, Count, Over
  <2>4. Top.step = Len(Commands(Top.client)) /\ Commands(Top.client) \in Seq(Request)
    BY <2>1, CommandsFacts DEF Sensible, CallType
  <2> QED
    BY <2>3, <2>4, SubSeqFull
<1> QED
  BY <1>1, Invariance, PTL

\* Together: a call that no other one has disturbed is served, whatever became of
\* those that were (pcom.c lines 40-100).
THEOREM UndisturbedServed == PcomSpec => []UndisturbedAreServed
<1>1. OwnAnswer /\ DoneInOrder /\ StuckMeansDisturbed => UndisturbedAreServed
  BY DEF UndisturbedAreServed
<1> QED
  BY <1>1, OnlyTheDisturbedAreStuck, AnswersAreOwn, InsistentAreServed, PTL

-----------------------------------------------------------------------------
(* The clocks.                                                             *)

Cascading == {"ICODEC_RX", "ICODEC_TX", "SDAC_MCLK", "UART1DM", "UART2DM", "ECODEC", "SPI", "SDC1", "SDC2"}
Video == {"VFE_MDC", "VFE"}

\* A table of bounds is a sequence of numbers.
IsTable(bounds) == \E n \in Nat : bounds \in [1..n -> Nat] /\ Len(bounds) = n

LEMMA TablesAre ==
  /\ IsTable(Codec) /\ IsTable(Sdac) /\ IsTable(Uart) /\ IsTable(Sdc) /\ IsTable(Ecodec) /\ IsTable(Spi)
<1>1. IsTable(Codec)
  <2>1. Codec \in [1..8 -> Nat] /\ Len(Codec) = 8
    BY DEF Codec
  <2> QED
    BY <2>1 DEF IsTable
<1>2. IsTable(Sdac)
  <2>1. Sdac \in [1..8 -> Nat] /\ Len(Sdac) = 8
    BY DEF Sdac
  <2> QED
    BY <2>1 DEF IsTable
<1>3. IsTable(Uart)
  <2>1. Uart \in [1..14 -> Nat] /\ Len(Uart) = 14
    BY DEF Uart
  <2> QED
    BY <2>1 DEF IsTable
<1>4. IsTable(Sdc)
  <2>1. Sdc \in [1..13 -> Nat] /\ Len(Sdc) = 13
    BY DEF Sdc
  <2> QED
    BY <2>1 DEF IsTable
<1>5. IsTable(Ecodec)
  <2>1. Ecodec \in [1..2 -> Nat] /\ Len(Ecodec) = 2
    BY DEF Ecodec
  <2> QED
    BY <2>1 DEF IsTable
<1>6. IsTable(Spi)
  <2>1. Spi \in [1..4 -> Nat] /\ Len(Spi) = 4
    BY DEF Spi
  <2> QED
    BY <2>1 DEF IsTable
<1> QED
  BY <1>1, <1>2, <1>3, <1>4, <1>5, <1>6

LEMMA BoundsAre ==
  /\ DOMAIN Bounds = Cascading /\ \A clock \in Cascading : IsTable(Bounds[clock])
  /\ DOMAIN Exactly = Video
<1>1. DOMAIN Bounds = Cascading
  BY DEF Bounds, Cascading
<1>2. DOMAIN Exactly = Video
  BY DEF Exactly, Video
<1>3. \A clock \in Cascading : IsTable(Bounds[clock])
  BY TablesAre DEF Bounds, Cascading
<1> QED
  BY <1>1, <1>2, <1>3

\* No two clocks have the same number in the modem.
LEMMA NumbersDiffer ==
  \A a \in Clocks, b \in Clocks : FillClocksLookup[a] = FillClocksLookup[b] => a = b
<1>1. Clocks = Cascading \cup Video \cup Fixed \cup {"IMEM", "SDC4_PCLK"}
  BY BoundsAre, SMT DEF Clocks
<1> QED
  BY <1>1, SMTT(30) DEF Cascading, Video, Fixed, FillClocksLookup

\* Every set of numbers has a least one.
LEMMA LeastExists ==
  ASSUME NEW S \in SUBSET Nat, S # {}
  PROVE  \E i \in S : \A j \in S : i <= j
<1>1. PICK x \in S : \A y \in S : ~ (<<y, x>> \in OpToRel(<, Nat))
  BY NatLessThanWellFounded, WFMin
<1>2. \A y \in S : y \in Nat /\ x \in Nat
  OBVIOUS
<1>3. \A y \in S : ~ (y < x)
  BY <1>1, <1>2, Zenon DEF OpToRel
<1> QED
  BY <1>2, <1>3

\* The speed of a rate: its bound is not below the rate, the next one's is.
LEMMA CascadeIs ==
  ASSUME NEW bounds, IsTable(bounds), NEW r \in Nat
  PROVE  LET s == Cascade(bounds, r) IN
         /\ s \in Nat
         /\ s <= Len(bounds) => r <= bounds[Len(bounds) + 1 - s]
         /\ s > 1 => r > bounds[Len(bounds) + 1 - (s - 1)]
<1> DEFINE passed == {i \in DOMAIN bounds : r > bounds[i]}
<1>1. PICK n \in Nat : bounds \in [1..n -> Nat] /\ Len(bounds) = n
  BY DEF IsTable
<1>2. passed \in SUBSET (1..n) /\ \A i \in 1..n \ passed : r <= bounds[i]
  BY <1>1
<1>3. CASE passed = {}
  <2>1. Cascade(bounds, r) = 1
    BY <1>3 DEF Cascade
  <2>2. 1 <= n => r <= bounds[n]
    BY <1>2, <1>3
  <2> QED
    BY <1>1, <2>1, <2>2
<1>4. CASE passed # {}
  <2>1. \E i \in passed : \A j \in passed : i <= j
    <3>1. passed \in SUBSET Nat
      BY <1>2
    <3> HIDE DEF passed
    <3> QED
      BY <3>1, <1>4, LeastExists
  <2> DEFINE m == Min(passed)
  <2>2. m \in passed /\ \A j \in passed : m <= j
    <3> HIDE DEF passed
    <3> QED
      BY <2>1 DEF Min
  <2>3. Cascade(bounds, r) = n + 2 - m
    BY <1>1, <1>4 DEF Cascade
  <2> HIDE DEF m
  <2>4. m \in 1..n /\ r > bounds[m]
    BY <1>2, <2>2
  <2>5. m > 1 => r <= bounds[m - 1]
    <3>1. m - 1 \notin passed
      BY <1>2, <2>2, <2>4
    <3> QED
      BY <1>2, <2>4, <3>1
  <2>6. n + 1 - (n + 2 - m) = m - 1 /\ n + 1 - (n + 2 - m - 1) = m
    BY <2>4
  <2> QED
    BY <1>1, <2>3, <2>4, <2>5, <2>6
<1> QED
  BY <1>3, <1>4

\* The inductive invariant.
ClockInv ==
  /\ used \subseteq Clocks
  /\ DOMAIN rate = used /\ DOMAIN speed = {FillClocksLookup[clock] : clock \in used}
  /\ \A clock \in used : rate[clock] # 0 => clock \in Cascading \cup Video
  /\ SpeedForRate

\* A rate and a speed of a clock.
Right(clock, r, s) ==
  IF clock \in DOMAIN Exactly THEN Exactly[clock][r] = s
  ELSE LET bounds == Bounds[clock]
           Bound(k) == bounds[Len(bounds) + 1 - k] IN
       /\ s <= Len(bounds) => r <= Bound(s)
       /\ s > 1 => r > Bound(s - 1)

LEMMA SpeedsAre ==
  SpeedForRate <=>
    \A clock \in used \ astray : rate[clock] # 0 => Right(clock, rate[clock], speed[FillClocksLookup[clock]])
  BY DEF SpeedForRate, Right

LEMMA ClockInitIs == ClockInit => ClockInv
<1> SUFFICES ASSUME ClockInit
             PROVE  ClockInv
  OBVIOUS
<1>1. DOMAIN rate = used /\ \A clock \in used : rate[clock] = 0
  BY DEF ClockInit
<1>2. SpeedForRate
  BY <1>1 DEF SpeedForRate
<1>3. used \subseteq Clocks
  BY DEF ClockInit
<1>4. DOMAIN speed = {FillClocksLookup[clock] : clock \in used}
  BY DEF ClockInit
<1> QED
  BY <1>1, <1>2, <1>3, <1>4 DEF ClockInv

\* A request changes the speed of the number it is made with, and no other clock
\* than this one and the one with that number loses its own.
LEMMA SetRateKeeps ==
  ASSUME ClockInv, NEW clock \in used, NEW r \in Rates[clock], NEW answer, SetRate(clock, r, answer)
  PROVE  ClockInv'
<1> DEFINE s == IF clock \in DOMAIN Bounds THEN Cascade(Bounds[clock], r) ELSE Exactly[clock][r]
           n == ClocksLookup[clock]
<1>1. /\ used \subseteq Clocks
      /\ DOMAIN rate = used /\ DOMAIN speed = {FillClocksLookup[c] : c \in used}
      /\ \A c \in used : rate[c] # 0 => c \in Cascading \cup Video
      /\ \A c \in used \ astray : rate[c] # 0 => Right(c, rate[c], speed[FillClocksLookup[c]])
  BY SpeedsAre DEF ClockInv
<1>2. /\ clock \in DOMAIN Bounds \/ (clock \in DOMAIN Exactly /\ r \in DOMAIN Exactly[clock])
      /\ speed' = [speed EXCEPT ![n] = s] /\ rate' = [rate EXCEPT ![clock] = r]
      /\ astray' = IF n = FillClocksLookup[clock] THEN astray \ {clock}
                   ELSE astray \cup {clock} \cup {c \in used : FillClocksLookup[c] = n}
      /\ used' = used
  BY DEF SetRate
<1>3. Right(clock, r, s)
  <2>1. CASE clock \in Cascading
    <3>1. clock \in DOMAIN Bounds /\ clock \notin DOMAIN Exactly /\ IsTable(Bounds[clock])
      BY <2>1, BoundsAre DEF Cascading, Video
    <3>2. r \in Nat
      BY <1>1, RatesAssumption
    <3>3. s = Cascade(Bounds[clock], r)
      BY <3>1
    <3> QED
      BY <3>1, <3>2, <3>3, CascadeIs DEF Right
  <2>2. CASE clock \notin Cascading
    <3>1. clock \notin DOMAIN Bounds /\ clock \in DOMAIN Exactly
      BY <1>2, <2>2, BoundsAre
    <3> QED
      BY <3>1 DEF Right
  <2> QED
    BY <2>1, <2>2
<1> HIDE DEF s
<1> HIDE DEF n
<1>4. /\ \A c \in used : rate'[c] = IF c = clock THEN r ELSE rate[c]
      /\ \A c \in used : FillClocksLookup[c] # n => speed'[FillClocksLookup[c]] = speed[FillClocksLookup[c]]
  BY <1>1, <1>2
<1>5. ASSUME NEW c \in used, c \notin astray', rate'[c] # 0
      PROVE  Right(c, rate'[c], speed'[FillClocksLookup[c]])
  <2>1. CASE n = FillClocksLookup[clock]
    <3>1. CASE c = clock
      <4>1. rate'[c] = r /\ speed'[FillClocksLookup[c]] = s
        BY <1>1, <1>2, <1>4, <2>1, <3>1
      <4> QED
        BY <1>3, <3>1, <4>1
    <3>2. CASE c # clock
      <4>1. FillClocksLookup[c] # n
        BY <1>1, <2>1, <3>2, NumbersDiffer
      <4>2. c \notin astray
        BY <1>2, <1>5, <2>1, <3>2
      <4> QED
        BY <1>1, <1>4, <1>5, <3>2, <4>1, <4>2
    <3> QED
      BY <3>1, <3>2
  <2>2. CASE n # FillClocksLookup[clock]
    <3>1. c # clock /\ c \notin astray /\ FillClocksLookup[c] # n
      BY <1>2, <1>5, <2>2
    <3> QED
      BY <1>1, <1>4, <1>5, <3>1
  <2> QED
    BY <2>1, <2>2
<1>7. SpeedForRate'
  <2>1. \A c \in used' \ astray' : rate'[c] # 0 => Right(c, rate'[c], speed'[FillClocksLookup[c]])
    BY <1>2, <1>5
  <2> QED
    BY <2>1 DEF SpeedForRate, Right
<1>8. \A c \in used : rate'[c] # 0 => c \in Cascading \cup Video
  BY <1>1, <1>2, <1>4, BoundsAre
<1>9. DOMAIN rate' = used /\ DOMAIN speed' = {FillClocksLookup[c] : c \in used}
  BY <1>1, <1>2
<1> QED
  BY <1>1, <1>2, <1>7, <1>8, <1>9 DEF ClockInv

\* Every clock has the lowest speed that suffices for the rate that was asked of
\* it, for any rates of any of the clocks, and whatever numbers the modem answers
\* with but for the clocks that these mislead (CotullaClkSetRate, lines 70-214 of
\* ClockDxe.c).
THEOREM SpeedsSuffice == ClockSpec => []SpeedForRate
<1>1. ClockInv /\ [ClockNext]_clockVars => ClockInv'
  <2> SUFFICES ASSUME ClockInv, [ClockNext]_clockVars
               PROVE  ClockInv'
    OBVIOUS
  <2>1. CASE \E clock \in used, answer \in Answers : \E r \in Rates[clock] : SetRate(clock, r, answer)
    BY <2>1, SetRateKeeps
  <2>2. CASE UNCHANGED <<used, rate, speed, astray>>
    BY <2>2 DEF ClockInv, SpeedForRate
  <2> QED
    BY <2>1, <2>2 DEF ClockNext, clockVars, Switch
<1>2. ClockInv => SpeedForRate
  BY DEF ClockInv
<1> QED
  BY <1>1, <1>2, ClockInitIs, PTL DEF ClockSpec
=============================================================================
