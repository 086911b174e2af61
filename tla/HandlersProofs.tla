---------------------------- MODULE HandlersProofs ----------------------------
(***************************************************************************)
(* Theorems about what runs at an interrupt.  No edge of an interrupt and no *)
(* period of the timer is lost, for dispatches nested to any depth and for *)
(* all periods; the promises of KeypadDxe, for every set of keys, functions*)
(* and pool addresses, every queue capacity and any number of keystrokes;  *)
(* and that delays take their time and that charging stops in time, for    *)
(* all delays and voltages.                                                *)
(***************************************************************************)
EXTENDS KeypadDxe, Interrupts, GptTimer, Charging, SequenceTheorems, FiniteSetTheorems, TLAPS

-----------------------------------------------------------------------------
(* The interrupt controller and the timer driver: the inductive invariant. *)

Steps == {"init", "gpio", "off", "timer", "set", "enable_timer", "note", "deinit"}
StepType == [do : Steps, period : Nat]
FrameType == [source : Sources, pc : {"clear", "call", "eoi", "end", "return"}]

\* Only sources with a handler are waited for.
TypeInv ==
  /\ handlers \subseteq Sources /\ waiting \subseteq handlers
  /\ frames \in Seq(FrameType)
  /\ todo \in Seq(StepType)

\* The timer has been started with this period.
Programmed(period) == period # 0 /\ dgt /\ InForce(period)

\* The order of what the interrupted code has yet to do: the controller is
\* initialised before a handler is registered, and the timer's source is enabled,
\* and its period noted, right after it was programmed.
InitFirst ==
  /\ \A n \in 2..Len(todo) : todo[n].do # "init"
  /\ todo # <<>> /\ todo[1].do = "init" => handlers = {}

NoteAfterEnable ==
  /\ \A n \in 2..Len(todo) :
       /\ todo[n].do # "enable_timer"
       /\ todo[n].do = "note" => n = 2 /\ todo[1].do = "enable_timer"
  /\ todo # <<>> /\ todo[1].do = "enable_timer" =>
       Len(todo) > 1 /\ todo[2].do = "note" /\ Programmed(todo[2].period)
  /\ todo # <<>> /\ todo[1].do = "note" => Programmed(todo[1].period) /\ "timer" \in enabled

\* What comes last leaves the timer as it has to be.
LastDecides ==
  /\ \A n \in 1..Len(todo) : todo[n].do \in {"set", "note"} => todo[n].period # 0
  /\ todo # <<>> => todo[Len(todo)].do \in {"off", "set", "note", "deinit"}

IInv == TypeInv /\ InitFirst /\ NoteAfterEnable /\ LastDecides /\ NothingLost

-----------------------------------------------------------------------------
(* Lemmas about the two sequences.                                         *)

\* The rest of a list, entry by entry.
LEMMA TailFacts ==
  ASSUME todo \in Seq(StepType), todo # <<>>
  PROVE  /\ Tail(todo) \in Seq(StepType)
         /\ Len(Tail(todo)) = Len(todo) - 1
         /\ \A n \in 1..Len(Tail(todo)) : Tail(todo)[n] = todo[n + 1]
         /\ Head(todo) = todo[1] /\ todo[1] \in StepType
         /\ Len(todo) \in Nat \ {0}
<1> HIDE DEF StepType
<1>1. Len(todo) \in Nat \ {0} /\ Head(todo) = todo[1] /\ todo[1] \in StepType
  OBVIOUS
<1>2. Tail(todo) \in Seq(StepType) /\ Len(Tail(todo)) = Len(todo) - 1
  BY <1>1
<1>3. \A n \in 1..Len(Tail(todo)) : Tail(todo)[n] = todo[n + 1]
  BY <1>1, <1>2
<1> QED
  BY <1>1, <1>2, <1>3

\* A list of two calls.
LEMMA TwoCalls ==
  ASSUME NEW a, NEW b
  PROVE  Calls(<<a, b>>) = <<Step(a), Step(b)>>
<1>1. DOMAIN <<a, b>> = 1..2 /\ <<a, b>>[1] = a /\ <<a, b>>[2] = b
  OBVIOUS
<1> QED
  BY <1>1 DEF Calls

LEMMA FourCalls ==
  ASSUME NEW a, NEW b, NEW c, NEW d
  PROVE  Calls(<<a, b, c, d>>) = <<Step(a), Step(b), Step(c), Step(d)>>
<1>1. Calls(<<a, b, c, d>>) = [n \in 1..4 |-> Step(<<a, b, c, d>>[n])]
  BY DEF Calls
<1>2. \A n \in 1..4 : <<Step(a), Step(b), Step(c), Step(d)>>[n] = Step(<<a, b, c, d>>[n])
  OBVIOUS
<1> QED
  BY <1>1, <1>2

\* The step of a dispatch changes what is to come next of the innermost only.
LEMMA GotoFacts ==
  ASSUME frames \in Seq(FrameType), frames # <<>>,
         NEW pc \in {"clear", "call", "eoi", "end", "return"}, Goto(pc)
  PROVE  /\ frames' \in Seq(FrameType) /\ Len(frames') = Len(frames)
         /\ Len(frames) \in Nat \ {0} /\ Top \in FrameType
         /\ \A n \in 1..Len(frames) : n # Len(frames) => frames'[n] = frames[n]
         /\ frames'[Len(frames)].source = Top.source /\ frames'[Len(frames)].pc = pc
<1>1. Len(frames) \in Nat \ {0} /\ Top \in FrameType
  <2> HIDE DEF FrameType
  <2> QED
    BY DEF Top, Depths
<1>2. [Top EXCEPT !.pc = pc] \in FrameType
  BY <1>1 DEF FrameType
<1>3. frames' = [frames EXCEPT ![Len(frames)] = [Top EXCEPT !.pc = pc]]
  BY <1>1 DEF Goto, Top, Depths
<1>4. frames' \in Seq(FrameType) /\ Len(frames') = Len(frames)
  BY <1>1, <1>2, <1>3
<1>5. frames'[Len(frames)] = [Top EXCEPT !.pc = pc]
  BY <1>1, <1>3
<1>6. frames'[Len(frames)].source = Top.source /\ frames'[Len(frames)].pc = pc
  BY <1>1, <1>5 DEF FrameType
<1> QED
  BY <1>1, <1>3, <1>4, <1>6

\* The dispatches without the innermost.
LEMMA FrontFacts ==
  ASSUME frames \in Seq(FrameType), frames # <<>>
  PROVE  /\ Front(frames) \in Seq(FrameType)
         /\ Len(Front(frames)) = Len(frames) - 1 /\ Len(frames) \in Nat \ {0}
         /\ \A n \in 1..(Len(frames) - 1) : Front(frames)[n] = frames[n]
<1> HIDE DEF FrameType
<1>1. Len(frames) \in Nat \ {0}
  OBVIOUS
<1>2. Front(frames) = [n \in 1..(Len(frames) - 1) |-> frames[n]]
  BY <1>1 DEF Front
<1>3. \A n \in 1..(Len(frames) - 1) : frames[n] \in FrameType
  BY <1>1
<1>4. Front(frames) \in Seq(FrameType) /\ Len(Front(frames)) = Len(frames) - 1
  BY <1>1, <1>2, <1>3
<1> QED
  BY <1>1, <1>2, <1>4

LEMMA InitHolds ==
  ASSUME InterruptsInit
  PROVE  IInv
<1> DEFINE four == <<[do |-> "init", period |-> 0], [do |-> "gpio", period |-> 0], [do |-> "off", period |-> 0],
                     [do |-> "timer", period |-> 0]>>
           set == [do |-> "set", period |-> 10000]
<1>1. todo = Append(four, set)
  <2>1. four = <<Step("init"), Step("gpio"), Step("off"), Step("timer")>>
    BY DEF Step
  <2>2. Set(10000) = set
    BY DEF Set
  <2> HIDE DEF four, set
  <2>3. Calls(<<"init", "gpio", "off", "timer">>) = four
    BY <2>1, FourCalls
  <2> QED
    BY <2>2, <2>3 DEF InterruptsInit
<1>2. /\ four \in Seq(StepType) /\ Len(four) = 4 /\ set \in StepType
      /\ four[1].do = "init" /\ four[2].do = "gpio" /\ four[3].do = "off" /\ four[4].do = "timer"
  BY DEF StepType, Steps
<1>0. set.do = "set" /\ set.period # 0
  OBVIOUS
<1> HIDE DEF four, set
<1>3. /\ todo \in Seq(StepType) /\ Len(todo) = 5 /\ todo[5] = set
      /\ \A n \in 1..4 : todo[n] = four[n]
  <2>1. /\ Append(four, set) \in Seq(StepType) /\ Len(Append(four, set)) = Len(four) + 1
        /\ \A n \in 1..Len(four) : Append(four, set)[n] = four[n]
        /\ Append(four, set)[Len(four) + 1] = set
    <3>1. four \in Seq(StepType) /\ set \in StepType
      BY <1>2
    <3> QED
      BY <3>1
  <2> QED
    BY <2>1, <1>1, <1>2
<1>4. /\ todo[1].do = "init" /\ todo[2].do = "gpio" /\ todo[3].do = "off" /\ todo[4].do = "timer"
      /\ todo[5].do = "set" /\ todo[5].period # 0
  BY <1>2, <1>0, <1>3
<1>5. \A n \in 1..5 : n = 1 \/ n = 2 \/ n = 3 \/ n = 4 \/ n = 5
  OBVIOUS
<1>6. TypeInv
  BY <1>3 DEF InterruptsInit, TypeInv
<1>7. InitFirst
  BY <1>3, <1>4, <1>5 DEF InterruptsInit, InitFirst
<1>8. NoteAfterEnable
  BY <1>3, <1>4, <1>5 DEF InterruptsInit, NoteAfterEnable
<1>9. LastDecides
  BY <1>3, <1>4, <1>5 DEF InterruptsInit, LastDecides
<1> QED
  BY <1>3, <1>6, <1>7, <1>8, <1>9 DEF InterruptsInit, IInv, NothingLost, NoneLost, PeriodInForce, InForce

-----------------------------------------------------------------------------
(* The steps of the devices and of the dispatcher.                         *)

\* What those steps leave alone keeps what is said of it.
LEMMA OfTheDispatcher ==
  ASSUME IInv, UNCHANGED <<vic, timer, todo>>, TypeInv', NoneLost'
  PROVE  IInv'
BY DEF IInv, InitFirst, NoteAfterEnable, LastDecides, Programmed, NothingLost, PeriodInForce, InForce,
       vic, timer

LEMMA RaiseKeeps ==
  ASSUME IInv, NEW source \in Sources, Raise(source)
  PROVE  IInv'
<1>1. TypeInv'
  BY DEF IInv, TypeInv, Raise, vic
<1>2. NoneLost'
  BY DEF IInv, NothingLost, NoneLost, Raise, vic, Depths
<1> QED
  BY <1>1, <1>2, OfTheDispatcher DEF Raise

LEMMA TakeKeeps ==
  ASSUME IInv, NEW source \in Sources, Take(source)
  PROVE  IInv'
<1> DEFINE frame == [source |-> source, pc |-> "clear"]
<1>1. frame \in FrameType /\ frames \in Seq(FrameType)
  BY DEF FrameType, IInv, TypeInv
<1> HIDE DEF frame, FrameType
<1>2. frames' = Append(frames, frame)
  BY DEF Take, frame
<1>3. /\ frames' \in Seq(FrameType) /\ Len(frames') = Len(frames) + 1 /\ Len(frames) \in Nat
      /\ \A n \in 1..Len(frames) : frames'[n] = frames[n]
  BY <1>1, <1>2
<1>4. TypeInv'
  BY <1>3 DEF IInv, TypeInv, Take, vic
<1>5. NoneLost'
  BY <1>3 DEF IInv, NothingLost, NoneLost, Take, vic, Depths
<1> QED
  BY <1>4, <1>5, OfTheDispatcher DEF Take

\* The edge is forgotten when the handler is about to be called.
LEMMA ClearKeeps ==
  ASSUME IInv, Clear
  PROVE  IInv'
<1>1. frames \in Seq(FrameType) /\ frames # <<>> /\ Top.pc = "clear" /\ Goto("call")
  BY DEF Clear, At, IInv, TypeInv
<1>2. /\ frames' \in Seq(FrameType) /\ Len(frames') = Len(frames)
      /\ Len(frames) \in Nat \ {0} /\ Top \in FrameType
      /\ \A n \in 1..Len(frames) : n # Len(frames) => frames'[n] = frames[n]
      /\ frames'[Len(frames)].source = Top.source /\ frames'[Len(frames)].pc = "call"
  BY <1>1, GotoFacts
<1>3. TypeInv'
  BY <1>2 DEF IInv, TypeInv, Clear, vic
<1>4. NoneLost'
  <2> SUFFICES ASSUME NEW source \in waiting, master
               PROVE  \/ source \in latched'
                      \/ \E n \in 1..Len(frames) : frames'[n].source = source /\ frames'[n].pc = "call"
    BY <1>2 DEF NoneLost, Clear, vic, Depths
  <2>1. CASE source = Top.source
    BY <2>1, <1>2
  <2>2. CASE source # Top.source /\ source \in latched
    BY <2>2 DEF Clear
  <2>3. CASE \E n \in 1..Len(frames) : frames[n].source = source /\ frames[n].pc = "call"
    BY <2>3, <1>1, <1>2 DEF Top, Depths
  <2> QED
    BY <2>1, <2>2, <2>3 DEF IInv, NothingLost, NoneLost, Depths
<1> QED
  BY <1>3, <1>4, OfTheDispatcher DEF Clear

\* The device of the handler that is called waits no more.
LEMMA CallHandlerKeeps ==
  ASSUME IInv, CallHandler
  PROVE  IInv'
<1> DEFINE then == IF Top.source = "timer" /\ Top.source \in handlers THEN "eoi" ELSE "end"
<1>1. frames \in Seq(FrameType) /\ frames # <<>> /\ Top.pc = "call" /\ Goto(then)
  BY DEF CallHandler, At, IInv, TypeInv
<1>2. then \in {"clear", "call", "eoi", "end", "return"}
  OBVIOUS
<1> HIDE DEF then
<1>3. /\ frames' \in Seq(FrameType) /\ Len(frames') = Len(frames)
      /\ Len(frames) \in Nat \ {0} /\ Top \in FrameType
      /\ \A n \in 1..Len(frames) : n # Len(frames) => frames'[n] = frames[n]
  BY <1>1, <1>2, GotoFacts
<1>4. waiting' \subseteq waiting /\ Top.source \notin waiting'
  BY DEF CallHandler, IInv, TypeInv
<1>5. TypeInv'
  BY <1>3, <1>4 DEF IInv, TypeInv, CallHandler, vic
<1>6. NoneLost'
  <2> SUFFICES ASSUME NEW source \in waiting', master
               PROVE  \/ source \in latched
                      \/ \E n \in 1..Len(frames) : frames'[n].source = source /\ frames'[n].pc = "call"
    BY <1>3 DEF NoneLost, CallHandler, vic, Depths
  <2>1. \A n \in 1..Len(frames) : frames[n].source = source => frames'[n] = frames[n]
    BY <1>3, <1>4 DEF Top, Depths
  <2> QED
    BY <2>1, <1>4 DEF IInv, NothingLost, NoneLost, Depths
<1> QED
  BY <1>5, <1>6, OfTheDispatcher DEF CallHandler

\* The ends of a handler and of a dispatch move past the call.
LEMMA EndKeeps ==
  ASSUME IInv, TimerHandlerEnds \/ EndDispatch
  PROVE  IInv'
<1>1. PICK pc \in {"end", "return"} :
        frames \in Seq(FrameType) /\ frames # <<>> /\ Top.pc # "call" /\ Goto(pc)
  BY DEF TimerHandlerEnds, EndDispatch, At, IInv, TypeInv
<1>2. /\ frames' \in Seq(FrameType) /\ Len(frames') = Len(frames)
      /\ Len(frames) \in Nat \ {0}
      /\ \A n \in 1..Len(frames) : n # Len(frames) => frames'[n] = frames[n]
  BY <1>1, GotoFacts
<1>3. UNCHANGED <<vic, latched, waiting, timer, todo>>
  BY DEF TimerHandlerEnds, EndDispatch
<1>4. TypeInv'
  BY <1>2, <1>3 DEF IInv, TypeInv, vic
<1>5. NoneLost'
  <2>1. \A n \in 1..Len(frames) : frames[n].pc = "call" => frames'[n] = frames[n]
    BY <1>1, <1>2 DEF Top, Depths
  <2> QED
    BY <2>1, <1>2, <1>3 DEF IInv, NothingLost, NoneLost, vic, Depths
<1> QED
  BY <1>3, <1>4, <1>5, OfTheDispatcher

LEMMA ReturnKeeps ==
  ASSUME IInv, Return
  PROVE  IInv'
<1>1. frames \in Seq(FrameType) /\ frames # <<>> /\ Top.pc = "return" /\ frames' = Front(frames)
  BY DEF Return, At, IInv, TypeInv
<1>2. /\ frames' \in Seq(FrameType)
      /\ Len(frames') = Len(frames) - 1 /\ Len(frames) \in Nat \ {0}
      /\ \A n \in 1..(Len(frames) - 1) : frames'[n] = frames[n]
  BY <1>1, FrontFacts
<1>3. TypeInv'
  BY <1>2 DEF IInv, TypeInv, Return, vic
<1>4. NoneLost'
  <2>1. \A n \in 1..Len(frames) : frames[n].pc = "call" => n \in 1..Len(frames') /\ frames'[n] = frames[n]
    BY <1>1, <1>2 DEF Top, Depths
  <2> QED
    BY <2>1, <1>2 DEF IInv, NothingLost, NoneLost, Return, vic, Depths
<1> QED
  BY <1>3, <1>4, OfTheDispatcher DEF Return

-----------------------------------------------------------------------------
(* The steps of the interrupted code.                                      *)

\* Nothing is being dispatched, so all that wait have their edge latched.
LEMMA AllLatched ==
  ASSUME IInv, frames = <<>>, master
  PROVE  waiting \subseteq latched
BY DEF IInv, NothingLost, NoneLost, Depths

\* What is left to do when a step is done that neither programs the timer nor
\* makes the code before it come twice.
LEMMA NextFacts ==
  ASSUME IInv, todo # <<>>, NextStep, todo[1].do # "enable_timer"
  PROVE  /\ todo' \in Seq(StepType) /\ Len(todo') = Len(todo) - 1 /\ Len(todo) \in Nat \ {0}
         /\ \A n \in 1..Len(todo') : todo'[n] = todo[n + 1]
         /\ \A n \in 1..Len(todo') : todo'[n].do \notin {"init", "enable_timer", "note"}
         /\ LastDecides'
<1>1. todo \in Seq(StepType)
  BY DEF IInv, TypeInv
<1>2. /\ todo' \in Seq(StepType) /\ Len(todo') = Len(todo) - 1 /\ Len(todo) \in Nat \ {0}
      /\ \A n \in 1..Len(todo') : todo'[n] = todo[n + 1]
  BY <1>1, TailFacts DEF NextStep
<1>3. \A n \in 1..Len(todo') : n + 1 \in 2..Len(todo)
  BY <1>2
<1>4. \A n \in 1..Len(todo') : todo'[n].do \notin {"init", "enable_timer", "note"}
  BY <1>2, <1>3 DEF IInv, InitFirst, NoteAfterEnable
<1>5. \A n \in 1..Len(todo') : todo'[n].do \in {"set", "note"} => todo'[n].period # 0
  BY <1>2, <1>3 DEF IInv, LastDecides
<1>6. todo' # <<>> => todo'[Len(todo')] = todo[Len(todo)]
  <2>1. todo' # <<>> => Len(todo') \in Nat \ {0}
    <3> HIDE DEF StepType
    <3> QED
      BY <1>2
  <2> QED
    BY <1>2, <2>1
<1> QED
  BY <1>2, <1>4, <1>5, <1>6 DEF IInv, LastDecides

\* After such a step the orders hold.
LEMMA NextKeepsOrder ==
  ASSUME IInv, todo # <<>>, NextStep, todo[1].do # "enable_timer"
  PROVE  InitFirst' /\ NoteAfterEnable' /\ LastDecides'
<1>1. /\ todo' \in Seq(StepType) /\ LastDecides'
      /\ \A n \in 1..Len(todo') : todo'[n].do \notin {"init", "enable_timer", "note"}
  BY NextFacts
<1>2. todo' # <<>> => 1 \in 1..Len(todo')
  <2> HIDE DEF StepType
  <2> QED
    BY <1>1
<1>3. \A n \in 2..Len(todo') : n \in 1..Len(todo')
  OBVIOUS
<1> QED
  BY <1>1, <1>2, <1>3 DEF InitFirst, NoteAfterEnable

\* The step at the head of the list.
LEMMA DoFacts ==
  ASSUME IInv, NEW step, Do(step)
  PROVE  frames = <<>> /\ todo # <<>> /\ todo[1] = Head(todo) /\ todo[1].do = step
         /\ todo[1] \in StepType
BY TailFacts DEF Do, IInv, TypeInv

LEMMA InitInterruptsKeeps ==
  ASSUME IInv, InitInterrupts
  PROVE  IInv'
<1>1. frames = <<>> /\ todo # <<>> /\ todo[1].do = "init" /\ NextStep
  BY DoFacts DEF InitInterrupts
<1>2. waiting = {}
  BY <1>1 DEF IInv, InitFirst, TypeInv
<1>3. /\ todo' \in Seq(StepType) /\ Len(todo') = Len(todo) - 1 /\ Len(todo) \in Nat \ {0}
      /\ InitFirst' /\ NoteAfterEnable' /\ LastDecides'
  BY <1>1, NextFacts, NextKeepsOrder
<1>4. todo' # <<>>
  BY <1>1, <1>3 DEF IInv, LastDecides
<1> QED
  BY <1>2, <1>3, <1>4
     DEF IInv, TypeInv, InitInterrupts, NothingLost, NoneLost, PeriodInForce, InForce

LEMMA RegisterKeeps ==
  ASSUME IInv, NEW source \in Sources, Register(source)
  PROVE  IInv'
<1>1. frames = <<>> /\ todo # <<>> /\ todo[1].do = source /\ NextStep
  BY DoFacts DEF Register
<1>2. /\ todo' \in Seq(StepType) /\ Len(todo') = Len(todo) - 1 /\ Len(todo) \in Nat \ {0}
      /\ InitFirst' /\ NoteAfterEnable' /\ LastDecides'
  BY <1>1, NextFacts, NextKeepsOrder DEF Sources
<1>3. todo' # <<>>
  BY <1>1, <1>2 DEF IInv, LastDecides, Sources
<1> QED
  BY <1>1, <1>2, <1>3
     DEF IInv, TypeInv, Register, NothingLost, NoneLost, PeriodInForce, InForce, Depths

LEMMA StopTimerKeeps ==
  ASSUME IInv, StopTimer
  PROVE  IInv'
<1>1. frames = <<>> /\ todo # <<>> /\ todo[1].do = "off" /\ NextStep
  BY DoFacts DEF StopTimer
<1>2. todo' \in Seq(StepType) /\ InitFirst' /\ NoteAfterEnable' /\ LastDecides'
  BY <1>1, NextFacts, NextKeepsOrder
<1> QED
  BY <1>1, <1>2
     DEF IInv, TypeInv, StopTimer, NothingLost, NoneLost, PeriodInForce, InForce, Depths

LEMMA DeinitKeeps ==
  ASSUME IInv, DeinitInterrupts
  PROVE  IInv'
<1>1. frames = <<>> /\ todo # <<>> /\ todo[1].do = "deinit" /\ NextStep
  BY DoFacts DEF DeinitInterrupts
<1>2. todo' \in Seq(StepType) /\ InitFirst' /\ NoteAfterEnable' /\ LastDecides'
  BY <1>1, NextFacts, NextKeepsOrder
<1> QED
  BY <1>2 DEF IInv, TypeInv, DeinitInterrupts, NothingLost, NoneLost, PeriodInForce, InForce

\* The two steps that follow the programming of the timer are put before the rest.
LEMMA ProgramTimerKeeps ==
  ASSUME IInv, ProgramTimer
  PROVE  IInv'
<1> DEFINE enabling == Step("enable_timer")
           note == [Head(todo) EXCEPT !.do = "note"]
           rest == Tail(todo)
<1>1. frames = <<>> /\ todo # <<>> /\ todo[1] = Head(todo) /\ todo[1].do = "set" /\ todo[1] \in StepType
  BY DoFacts DEF ProgramTimer
<1>2. todo \in Seq(StepType)
  BY DEF IInv, TypeInv
<1>3. /\ rest \in Seq(StepType) /\ Len(rest) = Len(todo) - 1 /\ Len(todo) \in Nat \ {0}
      /\ \A n \in 1..Len(rest) : rest[n] = todo[n + 1]
  BY <1>1, <1>2, TailFacts
<1>4. /\ enabling \in StepType /\ note \in StepType
      /\ enabling.do = "enable_timer" /\ note.do = "note" /\ note.period = todo[1].period
  BY <1>1 DEF StepType, Steps, Step
<1>5. todo[1].period # 0
  BY <1>1, <1>3 DEF IInv, LastDecides
<1>6. todo' = <<enabling, note>> \o rest /\ match' = todo[1].period \div 10000 /\ dgt'
  BY <1>1 DEF ProgramTimer
<1> HIDE DEF enabling, note, rest, StepType
<1>7. /\ todo' \in Seq(StepType) /\ Len(todo') = Len(todo) + 1
      /\ todo'[1] = enabling /\ todo'[2] = note
      /\ \A n \in 3..Len(todo') : todo'[n] = todo[n - 1]
  <2>1. <<enabling, note>> \in Seq(StepType) /\ Len(<<enabling, note>>) = 2
    BY <1>4
  <2>2. /\ todo' \in Seq(StepType) /\ Len(todo') = 2 + Len(rest)
        /\ todo'[1] = enabling /\ todo'[2] = note
    BY <1>3, <1>4, <1>6, <2>1
  <2>3. \A n \in 3..Len(todo') : todo'[n] = rest[n - 2]
    BY <1>3, <1>4, <1>6, <2>1, <2>2
  <2> QED
    BY <1>3, <2>2, <2>3
<1>8. \A n \in 3..Len(todo') : n - 1 \in 2..Len(todo)
  BY <1>3, <1>7
<1>9. \A n \in 3..Len(todo') : todo'[n].do \notin {"init", "enable_timer", "note"}
  BY <1>1, <1>7, <1>8 DEF IInv, InitFirst, NoteAfterEnable
<1>10. \A n \in 1..Len(todo') : n = 1 \/ n = 2 \/ n \in 3..Len(todo')
  BY <1>3, <1>7
<1>11. InitFirst'
  BY <1>3, <1>4, <1>7, <1>9, <1>10 DEF InitFirst
<1>12. Programmed(todo[2].period)'
  <2>1. todo[1].period \in Nat
    BY <1>1 DEF StepType
  <2>2. (todo[1].period \div 10000) * 10000 \in (todo[1].period - 9999)..todo[1].period
    BY <2>1
  <2> QED
    BY <1>4, <1>5, <1>6, <1>7, <2>2 DEF Programmed, InForce
<1>13. NoteAfterEnable'
  BY <1>3, <1>4, <1>7, <1>9, <1>10, <1>12 DEF NoteAfterEnable
<1>14. LastDecides'
  <2>1. \A n \in 1..Len(todo') : todo'[n].do \in {"set", "note"} => todo'[n].period # 0
    <3>1. \A n \in 2..Len(todo) : todo[n].do \in {"set", "note"} => todo[n].period # 0
      BY <1>3 DEF IInv, LastDecides
    <3> QED
      BY <3>1, <1>4, <1>5, <1>7, <1>8, <1>10
  <2>2. todo'[Len(todo')].do \in {"off", "set", "note", "deinit"}
    <3>1. CASE Len(todo) = 1
      BY <3>1, <1>4, <1>7
    <3>2. CASE Len(todo) > 1
      BY <3>2, <1>1, <1>3, <1>7 DEF IInv, LastDecides
    <3> QED
      BY <3>1, <3>2, <1>3
  <2> QED
    BY <2>1, <2>2 DEF LastDecides
<1>15. todo' # <<>>
  BY <1>3, <1>7
<1> QED
  BY <1>1, <1>7, <1>11, <1>13, <1>14, <1>15
     DEF IInv, TypeInv, ProgramTimer, NothingLost, NoneLost, PeriodInForce, InForce, Depths

LEMMA EnableTimerKeeps ==
  ASSUME IInv, EnableTimer
  PROVE  IInv'
<1>1. frames = <<>> /\ todo # <<>> /\ todo[1].do = "enable_timer" /\ NextStep
  BY DoFacts DEF EnableTimer
<1>2. /\ todo' \in Seq(StepType) /\ Len(todo') = Len(todo) - 1 /\ Len(todo) \in Nat \ {0}
      /\ \A n \in 1..Len(todo') : todo'[n] = todo[n + 1]
  BY <1>1, TailFacts DEF NextStep, IInv, TypeInv
<1>3. Len(todo) > 1 /\ todo'[1].do = "note" /\ Programmed(todo'[1].period)
  BY <1>1, <1>2 DEF IInv, NoteAfterEnable
<1>4. \A n \in 2..Len(todo') : n + 1 \in 2..Len(todo) /\ n + 1 # 2
  BY <1>2
<1>5. \A n \in 2..Len(todo') : todo'[n].do \notin {"init", "enable_timer", "note"}
  BY <1>2, <1>4 DEF IInv, InitFirst, NoteAfterEnable
<1>6. InitFirst'
  BY <1>3, <1>5 DEF InitFirst
<1>7. NoteAfterEnable'
  BY <1>3, <1>5 DEF NoteAfterEnable, EnableTimer, Programmed, InForce, timer
<1>8. LastDecides'
  <2>1. \A n \in 1..Len(todo') : n + 1 \in 1..Len(todo)
    BY <1>2
  <2>2. /\ \A n \in 1..Len(todo') : todo'[n] = todo[n + 1]
        /\ todo' # <<>> /\ todo # <<>> /\ Len(todo) \in Nat /\ Len(todo') \in Nat
    BY <1>1, <1>2, <1>3
  <2>3. Len(todo') \in 1..Len(todo') /\ Len(todo') + 1 = Len(todo)
    BY <1>2, <2>2
  <2>4. todo'[Len(todo')] = todo[Len(todo)]
    BY <2>2, <2>3
  <2>5. \A n \in 1..Len(todo') : todo'[n].do \in {"set", "note"} => todo'[n].period # 0
    BY <2>1, <2>2 DEF IInv, LastDecides
  <2> QED
    BY <2>2, <2>4, <2>5 DEF IInv, LastDecides
<1>9. todo' # <<>>
  BY <1>2, <1>3
<1> QED
  BY <1>2, <1>6, <1>7, <1>8, <1>9
     DEF IInv, TypeInv, EnableTimer, NothingLost, NoneLost, PeriodInForce, InForce, Depths

\* Now the period is noted that the timer was programmed with.
LEMMA NotePeriodKeeps ==
  ASSUME IInv, NotePeriod
  PROVE  IInv'
<1>1. /\ frames = <<>> /\ todo # <<>> /\ todo[1] = Head(todo) /\ todo[1].do = "note" /\ NextStep
  BY DoFacts DEF NotePeriod
<1>2. todo' \in Seq(StepType) /\ InitFirst' /\ LastDecides' /\ NoteAfterEnable'
  BY <1>1, NextFacts, NextKeepsOrder
<1>3. Programmed(mTimerPeriod') /\ "timer" \in enabled
  BY <1>1 DEF IInv, NoteAfterEnable, NotePeriod
<1> QED
  BY <1>2, <1>3
     DEF IInv, TypeInv, NotePeriod, NothingLost, NoneLost, PeriodInForce, InForce, Depths, vic, Programmed

-----------------------------------------------------------------------------
(* The steps of those who use the protocols, when nothing is left to do.   *)

LEMMA RegisterHandlerKeeps ==
  ASSUME IInv, RegisterHandler
  PROVE  IInv'
<1>1. TypeInv' /\ InitFirst' /\ NoteAfterEnable' /\ LastDecides'
  BY DEF IInv, TypeInv, InitFirst, NoteAfterEnable, LastDecides, Programmed, RegisterHandler, vic
<1>2. NothingLost'
  BY DEF IInv, NothingLost, NoneLost, PeriodInForce, InForce, RegisterHandler, vic, Depths
<1> QED
  BY <1>1, <1>2 DEF IInv

LEMMA UnregisterKeeps ==
  ASSUME IInv, NEW source \in Sources, UnregisterInterruptSource(source)
  PROVE  IInv'
<1>1. TypeInv'
  BY DEF IInv, TypeInv, UnregisterInterruptSource
<1>2. InitFirst' /\ NoteAfterEnable' /\ LastDecides'
  BY DEF IInv, InitFirst, NoteAfterEnable, LastDecides, UnregisterInterruptSource
<1>3. NothingLost'
  BY DEF IInv, NothingLost, NoneLost, PeriodInForce, InForce, UnregisterInterruptSource, Depths, timer
<1> QED
  BY <1>1, <1>2, <1>3 DEF IInv

LEMMA AskKeeps ==
  ASSUME IInv, Ask
  PROVE  IInv'
<1>1. PICK period \in Periods \cup {0} : todo' = <<Set(period)>>
  BY DEF Ask
<1> DEFINE set == Set(period)
<1>2. /\ set \in StepType /\ set.do \in {"off", "set"}
      /\ set.do = "set" => set.period # 0
  BY InterruptsAssumption DEF Set, StepType, Steps
<1> HIDE DEF set, StepType
<1>3. todo' \in Seq(StepType) /\ Len(todo') = 1 /\ todo'[1] = set
  <2>1. <<set>> \in Seq(StepType) /\ Len(<<set>>) = 1 /\ <<set>>[1] = set
    BY <1>2
  <2>2. todo' = <<set>>
    BY <1>1 DEF set
  <2> QED
    BY <2>1, <2>2
<1>4. TypeInv'
  BY <1>3 DEF IInv, TypeInv, Ask, vic
<1>5. InitFirst' /\ NoteAfterEnable' /\ LastDecides'
  BY <1>2, <1>3 DEF InitFirst, NoteAfterEnable, LastDecides
<1>6. NothingLost'
  BY <1>1 DEF IInv, NothingLost, NoneLost, PeriodInForce, InForce, Ask, Depths, vic
<1> QED
  BY <1>4, <1>5, <1>6 DEF IInv

LEMMA ExitBootServicesKeeps ==
  ASSUME IInv, ExitBootServices
  PROVE  IInv'
<1> DEFINE off == Step("off")
           deinit == Step("deinit")
<1>1. todo' = <<off, deinit>> \/ todo' = <<deinit, off>>
  BY TwoCalls DEF ExitBootServices
<1>2. off \in StepType /\ off.do = "off" /\ deinit \in StepType /\ deinit.do = "deinit"
  BY DEF Step, StepType, Steps
<1> HIDE DEF off, deinit, StepType
<1>3. todo' \in Seq(StepType) /\ Len(todo') = 2
  <2>1. /\ <<off, deinit>> \in Seq(StepType) /\ Len(<<off, deinit>>) = 2
        /\ <<deinit, off>> \in Seq(StepType) /\ Len(<<deinit, off>>) = 2
    BY <1>2
  <2>2. CASE todo' = <<off, deinit>>
    BY <2>1, <2>2
  <2>3. CASE todo' = <<deinit, off>>
    BY <2>1, <2>3
  <2> QED
    BY <1>1, <2>2, <2>3
<1>4. \A n \in 1..2 : todo'[n].do \in {"off", "deinit"}
  BY <1>1, <1>2
<1>5. TypeInv'
  BY <1>3 DEF IInv, TypeInv, ExitBootServices, vic
<1>6. InitFirst' /\ NoteAfterEnable' /\ LastDecides'
  BY <1>3, <1>4 DEF InitFirst, NoteAfterEnable, LastDecides
<1>7. NothingLost'
  BY <1>3 DEF IInv, NothingLost, NoneLost, PeriodInForce, InForce, ExitBootServices, Depths, vic
<1> QED
  BY <1>5, <1>6, <1>7 DEF IInv

-----------------------------------------------------------------------------

LEMMA StepKeeps ==
  ASSUME IInv, [InterruptsNext]_irqVars
  PROVE  IInv'
<1>1. CASE UNCHANGED irqVars
  BY <1>1 DEF irqVars, IInv, TypeInv, InitFirst, NoteAfterEnable, LastDecides, Programmed,
              NothingLost, NoneLost, PeriodInForce, InForce, Depths
<1>2. CASE Dispatch
  BY <1>2, ClearKeeps, CallHandlerKeeps, EndKeeps, ReturnKeeps DEF Dispatch
<1>3. CASE InitInterrupts \/ StopTimer \/ ProgramTimer \/ EnableTimer \/ NotePeriod \/ DeinitInterrupts
  BY <1>3, InitInterruptsKeeps, StopTimerKeeps, ProgramTimerKeeps, EnableTimerKeeps,
     NotePeriodKeeps, DeinitKeeps
<1>4. CASE RegisterHandler \/ Ask \/ ExitBootServices
  BY <1>4, RegisterHandlerKeeps, AskKeeps, ExitBootServicesKeeps
<1>5. ASSUME NEW source \in Sources,
             Raise(source) \/ Take(source) \/ Register(source) \/ UnregisterInterruptSource(source)
      PROVE  IInv'
  BY <1>5, RaiseKeeps, TakeKeeps, RegisterKeeps, UnregisterKeeps
<1> QED
  BY <1>1, <1>2, <1>3, <1>4, <1>5 DEF InterruptsNext

\* No edge of a source with a handler is lost and the timer's period is in force,
\* whatever the order of interrupts, nested dispatches, registrations, periods
\* and the exit from boot services (InterruptDxe.c, lines 240-299; Timer.c, lines
\* 140-220).
THEOREM NothingIsLost == InterruptsSpec => []NothingLost
<1>1. InterruptsInit => IInv
  BY InitHolds
<1>2. IInv /\ [InterruptsNext]_irqVars => IInv'
  BY StepKeeps
<1>3. IInv => NothingLost
  BY DEF IInv
<1> QED
  BY <1>1, <1>2, <1>3, PTL DEF InterruptsSpec

\* Only a source that has a handler is waited for, and what runs and what is
\* still to be done keep their types.
THEOREM ControllerTypeCorrect == InterruptsSpec => []TypeInv
<1>1. InterruptsInit => IInv
  BY InitHolds
<1>2. IInv /\ [InterruptsNext]_irqVars => IInv'
  BY StepKeeps
<1>3. IInv => TypeInv
  BY DEF IInv
<1> QED
  BY <1>1, <1>2, <1>3, PTL DEF InterruptsSpec

USE KeypadAssumption

-----------------------------------------------------------------------------
(* The keypad driver: the helpers.                                         *)

\* A queue keeps its type, its last key and at most Capacity keys; it only
\* drops keys when it has more than that.
LEMMA KeepNewestFacts ==
  ASSUME NEW S, NEW s \in Seq(S)
  PROVE  /\ KeepNewest(s) \in Seq(S)
         /\ Len(KeepNewest(s)) <= Capacity
         /\ Len(s) <= Capacity => KeepNewest(s) = s
         /\ \E d \in Nat : /\ Len(KeepNewest(s)) = Len(s) - d
                           /\ \A i \in 1 .. Len(s) - d : KeepNewest(s)[i] = s[i + d]
<1>1. CASE Len(s) <= Capacity
  <2>1. KeepNewest(s) = s
    BY <1>1 DEF KeepNewest
  <2>2. \A i \in 1 .. Len(s) - 0 : KeepNewest(s)[i] = s[i + 0]
    BY <2>1
  <2> QED
    BY <1>1, <2>1, <2>2
<1>2. CASE Len(s) > Capacity
  <2> DEFINE d == Len(s) - Capacity
  <2>1. d \in Nat /\ d + 1 \in Int /\ Len(s) \in Int
    BY <1>2
  <2>2. KeepNewest(s) = SubSeq(s, d + 1, Len(s))
    BY <1>2 DEF KeepNewest
  <2>3. \A i \in d + 1 .. Len(s) : s[i] \in S
    BY <2>1, ElementOfSeq
  <2>4. /\ KeepNewest(s) \in Seq(S)
        /\ Len(KeepNewest(s)) = IF d + 1 <= Len(s) THEN Len(s) - (d + 1) + 1 ELSE 0
        /\ \A i \in 1 .. Len(s) - (d + 1) + 1 : KeepNewest(s)[i] = s[d + 1 + i - 1]
    BY <2>1, <2>2, <2>3, SubSeqProperties
  <2>5. /\ Len(KeepNewest(s)) = Len(s) - d
        /\ \A i \in 1 .. Len(s) - d : KeepNewest(s)[i] = s[i + d]
    <3>1. Len(KeepNewest(s)) = Len(s) - d
      BY <1>2, <2>1, <2>4
    <3>2. ASSUME NEW i \in 1 .. Len(s) - d PROVE KeepNewest(s)[i] = s[i + d]
      <4>1. i \in 1 .. Len(s) - (d + 1) + 1 /\ d + 1 + i - 1 = i + d
        BY <2>1
      <4>2. KeepNewest(s)[i] = s[d + 1 + i - 1]
        BY <2>4, <4>1
      <4> QED
        BY <4>1, <4>2
    <3> QED
      BY <3>1, <3>2
  <2>6. Len(s) - d = Capacity
    BY <2>1
  <2>7. \E e \in Nat : /\ Len(KeepNewest(s)) = Len(s) - e
                       /\ \A i \in 1 .. Len(s) - e : KeepNewest(s)[i] = s[i + e]
    <3>1. d \in Nat
      BY <2>1
    <3> HIDE DEF d
    <3> QED
      BY <2>5, <3>1
  <2>8. Len(KeepNewest(s)) <= Capacity /\ ~(Len(s) <= Capacity)
    BY <1>2, <2>5, <2>6
  <2> QED
    BY <2>4, <2>7, <2>8
<1> QED
  BY <1>1, <1>2

LEMMA EmptyFacts ==
  /\ \A S : <<>> \in Seq(S)
  /\ Len(<<>>) = 0
  /\ 0 <= Capacity /\ 0 <= MaxStrokes
  OBVIOUS

\* The copies of a keystroke n for the handler are a sequence of n's.
LEMMA CopiesFacts ==
  ASSUME NEW S, NEW n \in S, NEW c \in Nat
  PROVE  /\ [i \in 1 .. c |-> n] \in Seq(S)
         /\ Len([i \in 1 .. c |-> n]) = c
  OBVIOUS

LEMMA MatchingIsCounted ==
  ASSUME NEW k
  PROVE  Cardinality(Matching(k)) \in Nat
<1>1. Matching(k) \subseteq Handles
  BY DEF Matching
<1> QED
  BY <1>1, FS_Subset, FS_CardinalityType

\* The walk stays on the list or reaches its end.
LEMMA WalkStaysOnList ==
  ASSUME NEW list \in Seq(Handles), NEW h
  PROVE  /\ NextOf(list, h) \in Handles \cup {End}
         /\ FirstOf(list) \in Handles \cup {End}
<1>1. NextOf(list, h) \in Handles \cup {End}
  <2>1. CASE \E i \in 1 .. Len(list) - 1 : list[i] = h
    <3> DEFINE c == CHOOSE i \in 1 .. Len(list) - 1 : list[i] = h
    <3>1. c \in 1 .. Len(list) - 1
      BY <2>1
    <3>2. 1 + c \in 1 .. Len(list)
      BY <3>1
    <3>3. list[1 + c] \in Handles
      BY <3>2, ElementOfSeq
    <3> QED
      BY <2>1, <3>3 DEF NextOf
  <2>2. CASE ~ \E i \in 1 .. Len(list) - 1 : list[i] = h
    BY <2>2 DEF NextOf
  <2> QED
    BY <2>1, <2>2
<1>2. FirstOf(list) \in Handles \cup {End}
  BY DEF FirstOf
<1> QED
  BY <1>1, <1>2

\* Signalling an event makes it pending and forgets no other one.
LEMMA SignalFacts ==
  ASSUME NEW S, NEW e \in S, pending \in Seq(S), Signal(e)
  PROVE  /\ pending' \in Seq(S)
         /\ IsPending(e)'
         /\ \A other : IsPending(other) =>
              \E i \in 1 .. Len(pending') : pending'[i] = other
<1>1. CASE \E i \in 1 .. Len(pending) : pending[i] = e
  BY <1>1 DEF Signal, IsPending
<1>2. CASE ~ \E i \in 1 .. Len(pending) : pending[i] = e
  <2>1. pending' = Append(pending, e)
    BY <1>2 DEF Signal
  <2> QED
    BY <2>1, AppendProperties DEF IsPending
<1> QED
  BY <1>1, <1>2

\* What is left of a list from its i-th element on.
LEMMA SuffixFacts ==
  ASSUME NEW S, NEW s \in Seq(S), NEW i \in 1 .. Len(s)
  PROVE  LET t == SubSeq(s, i, Len(s))
         IN  /\ t \in Seq(S)
             /\ Len(t) = Len(s) - (i - 1)
             /\ \A j \in 1 .. Len(t) : t[j] = s[j + (i - 1)]
<1> DEFINE t == SubSeq(s, i, Len(s))
<1>1. \A j \in i .. Len(s) : s[j] \in S
  BY ElementOfSeq
<1>2. /\ t \in Seq(S)
      /\ Len(t) = Len(s) - (i - 1)
      /\ \A j \in 1 .. Len(s) - i + 1 : t[j] = s[i + j - 1]
  BY <1>1, SubSeqProperties
<1> HIDE DEF t
<1>3. Len(s) \in Nat /\ i \in Int
  OBVIOUS
<1>4. ASSUME NEW j \in 1 .. Len(t) PROVE t[j] = s[j + (i - 1)]
  <2>1. j \in 1 .. Len(s) - i + 1 /\ i + j - 1 = j + (i - 1)
    BY <1>2, <1>3
  <2>2. t[j] = s[i + j - 1]
    BY <1>2, <2>1
  <2> QED
    BY <2>1, <2>2
<1> QED
  BY <1>2, <1>4 DEF t

\* What is left of a list without its i-th element.
LEMMA DropFacts ==
  ASSUME NEW S, NEW s \in Seq(S), NEW i \in 1 .. Len(s)
  PROVE  LET r == SubSeq(s, 1, i - 1) \o SubSeq(s, i + 1, Len(s))
         IN  /\ r \in Seq(S)
             /\ Len(r) = Len(s) - 1
             /\ \A j \in 1 .. Len(r) : r[j] = IF j < i THEN s[j] ELSE s[j + 1]
<1> DEFINE p == SubSeq(s, 1, i - 1)
           q == SubSeq(s, i + 1, Len(s))
<1>1. /\ p \in Seq(S)
      /\ Len(p) = i - 1
      /\ \A j \in 1 .. i - 1 : p[j] = s[j]
  BY SubSeqProperties, ElementOfSeq
<1>2. /\ q \in Seq(S)
      /\ Len(q) = Len(s) - i
      /\ \A j \in 1 .. Len(s) - i : q[j] = s[i + j]
  <2>1. \A j \in i + 1 .. Len(s) : s[j] \in S
    BY ElementOfSeq
  <2> QED
    BY <2>1, SubSeqProperties
<1> HIDE DEF p, q
<1>3. /\ p \o q \in Seq(S)
      /\ Len(p \o q) = Len(p) + Len(q)
      /\ \A j \in 1 .. Len(p) + Len(q) :
           (p \o q)[j] = IF j <= Len(p) THEN p[j] ELSE q[j - Len(p)]
  <2>1. p \in Seq(S) /\ q \in Seq(S)
    BY <1>1, <1>2
  <2> QED
    BY <2>1, ConcatProperties, ZenonT(30)
<1>4. Len(p \o q) = Len(s) - 1
  BY <1>1, <1>2, <1>3
<1>5. ASSUME NEW j \in 1 .. Len(p \o q)
      PROVE  (p \o q)[j] = IF j < i THEN s[j] ELSE s[j + 1]
  <2>1. j \in 1 .. Len(p) + Len(q) /\ j \in 1 .. Len(s) - 1
    BY <1>3, <1>4
  <2>2. CASE j < i
    <3>1. j <= Len(p) /\ j \in 1 .. i - 1
      BY <1>1, <2>1, <2>2
    <3> QED
      BY <1>1, <1>3, <2>1, <2>2, <3>1
  <2>3. CASE ~(j < i)
    <3>1. ~(j <= Len(p)) /\ j - Len(p) \in 1 .. Len(s) - i /\ i + (j - Len(p)) = j + 1
      BY <1>1, <2>1, <2>3
    <3>2. (p \o q)[j] = q[j - Len(p)]
      BY <1>3, <2>1, <3>1
    <3>3. q[j - Len(p)] = s[i + (j - Len(p))]
      BY <1>2, <3>1
    <3> QED
      BY <2>3, <3>1, <3>2, <3>3
  <2> QED
    BY <2>2, <2>3
<1>6. \A j \in 1 .. Len(p \o q) : (p \o q)[j] = IF j < i THEN s[j] ELSE s[j + 1]
  BY <1>5
<1> QED
  BY <1>3, <1>4, <1>6 DEF p, q

-----------------------------------------------------------------------------
(* Type correctness.                                                       *)

\* The handler walks only while its Link is on the list: a node can be freed
\* under it inside a call, and the walk resumes only if it was not.
WalkHasNode == phase = "walk" => link # Gone

LEMMA TypeOKInit == Init => TypeOK /\ WalkHasNode
  BY EmptyFacts DEF Init, TypeOK, WalkHasNode, Phases, Polls

\* The actions that append to the queues.
LEMMA TypeOKPush ==
  ASSUME TypeOK, NEW k \in DeviceKeys, Push(k)
  PROVE  TypeOK'
<1> DEFINE n == Len(typed) + 1
           c == Cardinality(Matching(k))
           copies == [i \in 1 .. c |-> n]
<1>1. n \in Strokes /\ k \in KeyData
  BY DEF TypeOK, Push, Strokes
<1>2. c \in Nat
  BY MatchingIsCounted
<1>3. copies \in Seq(Strokes)
  BY <1>1, <1>2, CopiesFacts
<1>4. typed' \in Seq(KeyData) /\ Len(typed') <= MaxStrokes
  BY <1>1, AppendProperties DEF TypeOK, Push
<1>5. notifyQueue' \in Seq(Strokes) /\ Len(notifyQueue') <= Capacity
  <2>1. notifyQueue \o copies \in Seq(Strokes)
    BY <1>3, ConcatProperties DEF TypeOK
  <2>2. notifyQueue' = KeepNewest(notifyQueue \o copies)
    BY DEF Push
  <2> QED
    BY <2>1, <2>2, KeepNewestFacts
<1>6. keyQueue' \in Seq(Strokes) /\ Len(keyQueue') <= Capacity
  <2>1. Append(keyQueue, n) \in Seq(Strokes)
    BY <1>1, AppendProperties DEF TypeOK
  <2>2. keyQueue' = KeepNewest(Append(keyQueue, n))
    BY DEF Push
  <2> QED
    BY <2>1, <2>2, KeepNewestFacts
<1>7. pending' \in Seq({"timer", "process"})
  <2>1. CASE c = 0
    BY <2>1 DEF TypeOK, Push
  <2>2. CASE c # 0
    <3>1. Signal("process")
      BY <2>2 DEF Push
    <3> QED
      BY <3>1, SignalFacts DEF TypeOK
  <2> QED
    BY <2>1, <2>2
<1> QED
  BY <1>4, <1>5, <1>6, <1>7 DEF TypeOK, Push, registry, handler, reader

LEMMA TypeOKNext == TypeOK /\ WalkHasNode /\ [Next]_vars => TypeOK'
<1> SUFFICES ASSUME TypeOK, WalkHasNode, [Next]_vars
             PROVE  TypeOK'
  OBVIOUS
<1>1. CASE TimerExpires
  <2>1. pending' \in Seq({"timer", "process"})
    BY <1>1, SignalFacts DEF TypeOK, TimerExpires
  <2> QED
    BY <1>1, <2>1 DEF TypeOK, TimerExpires, queues, registry, handler, reader
<1>2. ASSUME NEW k \in DeviceKeys, Push(k)
      PROVE  TypeOK'
  BY <1>2, TypeOKPush
<1>3. CASE DispatchTimer
  BY <1>3, HeadTailProperties
  DEF TypeOK, DispatchTimer, Polls, queues, registry, handler, reader
<1>4. CASE EndTimerPoll
  BY <1>4 DEF TypeOK, EndTimerPoll, Polls, queues, registry, handler, reader
<1>5. CASE BeginRead
  BY <1>5 DEF TypeOK, BeginRead, Context, Polls, queues, registry, handler
<1>6. CASE BeginReadEx
  BY <1>6 DEF TypeOK, BeginReadEx, Polls, queues, registry, handler, reader
<1>7. CASE RepeatRead
  BY <1>7 DEF TypeOK, RepeatRead, Polls, queues, registry, handler, reader
<1>8. CASE EndRead
  <2>1. /\ keyQueue' \in Seq(Strokes) /\ Len(keyQueue') <= Capacity
        /\ lastRead' \in Strokes \cup {0}
        /\ reading' \in SUBSET {"app", "fn"}
    <3>1. CASE keyQueue = <<>>
      BY <1>8, <3>1 DEF TypeOK, EndRead
    <3>2. CASE keyQueue # <<>>
      <4>1. /\ Head(keyQueue) \in Strokes
            /\ Tail(keyQueue) \in Seq(Strokes)
            /\ Len(Tail(keyQueue)) = Len(keyQueue) - 1
        BY <3>2, HeadTailProperties DEF TypeOK
      <4>2. lastRead' = Head(keyQueue) /\ keyQueue' = Tail(keyQueue)
        BY <1>8, <3>2 DEF EndRead
      <4>3. reading' = reading \/ reading' = reading \ {Context}
        BY <1>8, <3>2, Zenon DEF EndRead
      <4>4. reading' \in SUBSET {"app", "fn"}
        BY <4>3 DEF TypeOK
      <4>5. Len(keyQueue) \in Nat /\ Len(keyQueue) <= Capacity
        BY DEF TypeOK
      <4> QED
        BY <4>1, <4>2, <4>4, <4>5
    <3> QED
      BY <3>1, <3>2
  <2> QED
    BY <1>8, <2>1 DEF TypeOK, EndRead, Polls, registry, handler
<1>9. CASE BeginWaitForKey
  BY <1>9 DEF TypeOK, BeginWaitForKey, Polls, queues, registry, handler, reader
<1>10. CASE EndWaitForKey
  <2>1. keyQueue' \in Seq(Strokes) /\ Len(keyQueue') <= Capacity /\ told' \in BOOLEAN
    <3>1. CASE keyQueue' = <<>> /\ told' = FALSE
      BY <3>1, EmptyFacts
    <3>2. CASE told' = TRUE /\ \E i \in 1 .. Len(keyQueue) :
                 keyQueue' = SubSeq(keyQueue, i, Len(keyQueue))
      <4>1. PICK i \in 1 .. Len(keyQueue) :
              keyQueue' = SubSeq(keyQueue, i, Len(keyQueue))
        BY <3>2
      <4>2. \A j \in i .. Len(keyQueue) : keyQueue[j] \in Strokes
        BY ElementOfSeq DEF TypeOK
      <4>3. /\ SubSeq(keyQueue, i, Len(keyQueue)) \in Seq(Strokes)
            /\ Len(SubSeq(keyQueue, i, Len(keyQueue))) = Len(keyQueue) - i + 1
        BY <4>2, SubSeqProperties DEF TypeOK
      <4> QED
        BY <3>2, <4>1, <4>3 DEF TypeOK
    <3> QED
      BY <1>10, <3>1, <3>2 DEF EndWaitForKey
  <2> QED
    BY <1>10, <2>1 DEF TypeOK, EndWaitForKey, Polls, registry, handler
<1>11. CASE Reset
  <2>1. Len(typed) \in Strokes \cup {0}
    BY DEF TypeOK, Strokes
  <2> QED
    BY <1>11, <2>1, EmptyFacts DEF TypeOK, Reset, registry, handler
<1>12. ASSUME NEW exposed \in BOOLEAN, SetState(exposed)
       PROVE  TypeOK'
  BY <1>12 DEF TypeOK, SetState, queues, registry, handler, reader
<1>13. ASSUME NEW key \in KeyData, NEW fn \in Fns, NEW h \in Handles,
              RegisterNew(key, fn, h)
       PROVE  TypeOK'
  <2>1. notifyList' \in Seq(Handles)
    BY <1>13, AppendProperties DEF TypeOK, RegisterNew
  <2> QED
    BY <1>13, <2>1 DEF TypeOK, RegisterNew, queues, handler, reader
<1>14. ASSUME NEW h \in Handles, Unregister(h)
       PROVE  TypeOK'
  <2>1. notifyList' \in Seq(Handles)
    BY <1>14, DropFacts DEF TypeOK, Unregister
  <2> QED
    BY <1>14, <2>1 DEF TypeOK, Unregister, queues, reader
<1>15. CASE DispatchProcess
  BY <1>15, HeadTailProperties
  DEF TypeOK, DispatchProcess, Phases, queues, registry, reader
<1>16. CASE PopForNotify
  <2>1. CASE notifyQueue = <<>>
    BY <1>16, <2>1 DEF TypeOK, PopForNotify, Phases, registry, reader
  <2>2. CASE notifyQueue # <<>>
    <3>1. /\ Head(notifyQueue) \in Strokes
          /\ Tail(notifyQueue) \in Seq(Strokes)
          /\ Len(Tail(notifyQueue)) = Len(notifyQueue) - 1
      BY <2>2, HeadTailProperties DEF TypeOK
    <3>2. link' \in Handles \cup {End, Gone}
      BY <1>16, <2>2, WalkStaysOnList DEF TypeOK, PopForNotify
    <3>3. Len(Tail(notifyQueue)) <= Capacity
      BY <3>1 DEF TypeOK
    <3>4. /\ phase' = "walk" /\ stroke' = Head(notifyQueue)
          /\ notifyQueue' = Tail(notifyQueue) /\ called' = {}
      BY <1>16, <2>2 DEF PopForNotify
    <3> QED
      BY <1>16, <3>1, <3>2, <3>3, <3>4
      DEF TypeOK, PopForNotify, Phases, registry, reader
  <2> QED
    BY <2>1, <2>2
<1>17. CASE VisitNode
  <2>1. NextOf(notifyList, link) \in Handles \cup {End}
    BY WalkStaysOnList DEF TypeOK
  <2>2. called' \in SUBSET Handles
    BY <1>17 DEF TypeOK, VisitNode, WalkHasNode
  <2> QED
    BY <1>17, <2>1, <2>2 DEF TypeOK, VisitNode, Phases, queues, registry, reader
<1>18. CASE FnReturns
  <2>1. NextOf(notifyList, link) \in Handles \cup {End}
    BY WalkStaysOnList DEF TypeOK
  <2> QED
    BY <1>18, <2>1 DEF TypeOK, FnReturns, Phases, queues, registry, reader
<1>19. CASE UNCHANGED vars
  BY <1>19 DEF TypeOK, vars, queues, registry, handler, reader
<1> QED
  BY <1>1, <1>2, <1>3, <1>4, <1>5, <1>6, <1>7, <1>8, <1>9, <1>10, <1>11, <1>12,
     <1>13, <1>14, <1>15, <1>16, <1>17, <1>18, <1>19
  DEF Next, Callers, Firmware

LEMMA WalkHasNodeNext ==
  TypeOK /\ WalkHasNode /\ [Next]_vars => WalkHasNode'
<1> SUFFICES ASSUME TypeOK, WalkHasNode, [Next]_vars
             PROVE  WalkHasNode'
  OBVIOUS
<1>1. End # Gone /\ \A h : NextOf(notifyList, h) # Gone /\ FirstOf(notifyList) # Gone
  BY WalkStaysOnList DEF TypeOK, End, Gone
<1>2. CASE TimerExpires \/ DispatchTimer \/ EndTimerPoll \/ RepeatRead \/ EndRead
           \/ EndWaitForKey \/ BeginRead \/ BeginReadEx \/ BeginWaitForKey \/ Reset
           \/ UNCHANGED vars
  BY <1>2 DEF TimerExpires, DispatchTimer, EndTimerPoll, RepeatRead, EndRead,
     EndWaitForKey, BeginRead, BeginReadEx, BeginWaitForKey, Reset, WalkHasNode,
     handler, vars
<1>3. ASSUME NEW k \in DeviceKeys, Push(k)
      PROVE  WalkHasNode'
  BY <1>3 DEF Push, WalkHasNode, handler
<1>4. ASSUME NEW exposed \in BOOLEAN, SetState(exposed)
      PROVE  WalkHasNode'
  BY <1>4 DEF SetState, WalkHasNode, handler
<1>5. ASSUME NEW key \in KeyData, NEW fn \in Fns, NEW h \in Handles,
             RegisterNew(key, fn, h)
      PROVE  WalkHasNode'
  BY <1>5 DEF RegisterNew, WalkHasNode, handler
<1>6. ASSUME NEW h \in Handles, Unregister(h)
      PROVE  WalkHasNode'
  BY <1>6 DEF Unregister, CallerRuns, WalkHasNode
<1>7. CASE DispatchProcess
  BY <1>7 DEF DispatchProcess, WalkHasNode
<1>8. CASE PopForNotify
  BY <1>1, <1>8 DEF PopForNotify, WalkHasNode
<1>9. CASE VisitNode
  BY <1>1, <1>9 DEF VisitNode, WalkHasNode
<1>10. CASE FnReturns
  BY <1>1, <1>10 DEF FnReturns, WalkHasNode
<1> QED
  BY <1>2, <1>3, <1>4, <1>5, <1>6, <1>7, <1>8, <1>9, <1>10
  DEF Next, Callers, Firmware

LEMMA Types == Spec => [](TypeOK /\ WalkHasNode)
<1> QED
  BY TypeOKInit, TypeOKNext, WalkHasNodeNext, PTL DEF Spec

\* Every variable keeps its type, and neither queue outgrows its array.
THEOREM TypeCorrect == Spec => []TypeOK
<1> QED
  BY Types, PTL

-----------------------------------------------------------------------------
(* No lost wakeup.                                                         *)

LEMMA NoLostWakeupPush ==
  ASSUME TypeOK, NoLostWakeup, NEW k \in DeviceKeys, Push(k)
  PROVE  NoLostWakeup'
<1> DEFINE n == Len(typed) + 1
           c == Cardinality(Matching(k))
<1>1. CASE c = 0
  <2>1. [i \in 1 .. c |-> n] = <<>>
    BY <1>1
  <2>2. notifyQueue \o <<>> = notifyQueue /\ KeepNewest(notifyQueue) = notifyQueue
    BY ConcatEmptySeq, KeepNewestFacts DEF TypeOK
  <2>3. notifyQueue' = notifyQueue
    BY <2>1, <2>2 DEF Push
  <2>4. UNCHANGED <<pending, phase>>
    BY <1>1 DEF Push, handler
  <2> QED
    BY <2>3, <2>4 DEF NoLostWakeup, IsPending
<1>2. CASE c # 0
  <2>1. Signal("process")
    BY <1>2 DEF Push
  <2>2. IsPending("process")'
    BY <2>1, SignalFacts DEF TypeOK
  <2> QED
    BY <2>2 DEF NoLostWakeup
<1> QED
  BY <1>1, <1>2

LEMMA NoLostWakeupNext ==
  TypeOK /\ NoLostWakeup /\ [Next]_vars => NoLostWakeup'
<1> SUFFICES ASSUME TypeOK, NoLostWakeup, [Next]_vars
             PROVE  NoLostWakeup'
  OBVIOUS
<1>1. CASE TimerExpires
  <2>1. \A e : IsPending(e) => \E i \in 1 .. Len(pending') : pending'[i] = e
    BY <1>1, SignalFacts DEF TypeOK, TimerExpires
  <2> QED
    BY <1>1, <2>1 DEF TimerExpires, NoLostWakeup, IsPending, queues, handler
<1>2. CASE DispatchTimer
  <2>1. IsPending("process") => IsPending("process")'
    <3> SUFFICES ASSUME NEW i \in 1 .. Len(pending), pending[i] = "process"
                 PROVE  IsPending("process")'
      BY DEF IsPending
    <3>1. i # 1
      BY <1>2 DEF DispatchTimer
    <3>2. pending' = Tail(pending) /\ pending # <<>>
      BY <1>2 DEF DispatchTimer
    <3>3. i - 1 \in 1 .. Len(Tail(pending)) /\ Tail(pending)[i - 1] = pending[i]
      BY <3>1, <3>2, HeadTailProperties DEF TypeOK
    <3> QED
      BY <3>2, <3>3 DEF IsPending
  <2> QED
    BY <1>2, <2>1 DEF DispatchTimer, NoLostWakeup, queues, handler
<1>3. ASSUME NEW k \in DeviceKeys, Push(k)
      PROVE  NoLostWakeup'
  BY <1>3, NoLostWakeupPush
<1>4. CASE EndTimerPoll \/ RepeatRead \/ EndRead \/ EndWaitForKey \/ BeginRead
           \/ BeginReadEx \/ BeginWaitForKey \/ UNCHANGED vars
  BY <1>4 DEF EndTimerPoll, RepeatRead, EndRead, EndWaitForKey, BeginRead,
     BeginReadEx, BeginWaitForKey, NoLostWakeup, IsPending, queues, handler, vars
<1>5. CASE Reset
  BY <1>5 DEF Reset, NoLostWakeup
<1>6. ASSUME NEW exposed \in BOOLEAN, SetState(exposed)
      PROVE  NoLostWakeup'
  BY <1>6 DEF SetState, NoLostWakeup, IsPending, queues, handler
<1>7. ASSUME NEW key \in KeyData, NEW fn \in Fns, NEW h \in Handles,
             RegisterNew(key, fn, h)
      PROVE  NoLostWakeup'
  BY <1>7 DEF RegisterNew, NoLostWakeup, IsPending, queues, handler
<1>8. ASSUME NEW h \in Handles, Unregister(h)
      PROVE  NoLostWakeup'
  BY <1>8 DEF Unregister, NoLostWakeup, IsPending, queues
<1>9. CASE DispatchProcess
  BY <1>9 DEF DispatchProcess, NoLostWakeup
<1>10. CASE PopForNotify
  BY <1>10 DEF PopForNotify, NoLostWakeup
<1>11. CASE VisitNode \/ FnReturns
  BY <1>11 DEF VisitNode, FnReturns, NoLostWakeup
<1> QED
  BY <1>1, <1>2, <1>3, <1>4, <1>5, <1>6, <1>7, <1>8, <1>9, <1>10, <1>11
  DEF Next, Callers, Firmware

\* While a key waits for its notification, the handler runs or is signalled.
THEOREM WakeupIsNeverLost == Spec => []NoLostWakeup
<1>1. Init => NoLostWakeup
  BY DEF Init, NoLostWakeup
<1> QED
  BY <1>1, NoLostWakeupNext, Types, PTL DEF Spec

-----------------------------------------------------------------------------
(* NotifyList and the node pool.                                           *)

LEMMA ListMatchesPoolNext ==
  TypeOK /\ ListMatchesPool /\ [Next]_vars => ListMatchesPool'
<1> SUFFICES ASSUME TypeOK, ListMatchesPool, [Next]_vars
             PROVE  ListMatchesPool'
  OBVIOUS
<1>1. CASE UNCHANGED registry
  BY <1>1 DEF registry, ListMatchesPool
<1>2. ASSUME NEW key \in KeyData, NEW fn \in Fns, NEW h \in Handles,
             RegisterNew(key, fn, h)
      PROVE  ListMatchesPool'
  <2>1. /\ notifyList' = Append(notifyList, h)
        /\ node' = [node EXCEPT ![h] = [key |-> key, fn |-> fn]]
        /\ node[h] = Free
    BY <1>2 DEF RegisterNew
  <2>2. \A i \in 1 .. Len(notifyList) : notifyList[i] # h
    BY <2>1 DEF ListMatchesPool
  <2>3. /\ Len(notifyList') = Len(notifyList) + 1
        /\ \A i \in 1 .. Len(notifyList) : notifyList'[i] = notifyList[i]
        /\ notifyList'[Len(notifyList) + 1] = h
        /\ Len(notifyList) \in Nat
    BY <2>1, AppendProperties DEF TypeOK
  <2>4. node'[h] # Free /\ \A g \in Handles \ {h} : node'[g] = node[g]
    BY <2>1 DEF TypeOK
  <2>5. ASSUME NEW i \in 1 .. Len(notifyList'), NEW j \in 1 .. Len(notifyList'),
               notifyList'[i] = notifyList'[j]
        PROVE  i = j
    <3>1. i \in 1 .. Len(notifyList) \/ i = Len(notifyList) + 1
      BY <2>3
    <3>2. j \in 1 .. Len(notifyList) \/ j = Len(notifyList) + 1
      BY <2>3
    <3> QED
      BY <2>2, <2>3, <2>5, <3>1, <3>2 DEF ListMatchesPool
  <2>6. ASSUME NEW g \in Handles
        PROVE  node'[g] # Free <=>
                 \E i \in 1 .. Len(notifyList') : notifyList'[i] = g
    <3>1. CASE g = h
      BY <2>3, <2>4, <3>1
    <3>2. CASE g # h
      <4>1. (\E i \in 1 .. Len(notifyList') : notifyList'[i] = g) <=>
              \E i \in 1 .. Len(notifyList) : notifyList[i] = g
        BY <2>3, <3>2
      <4> QED
        BY <2>4, <3>2, <4>1 DEF ListMatchesPool
    <3> QED
      BY <3>1, <3>2
  <2> QED
    BY <2>5, <2>6 DEF ListMatchesPool
<1>3. ASSUME NEW h \in Handles, Unregister(h)
      PROVE  ListMatchesPool'
  <2>1. PICK k \in 1 .. Len(notifyList) :
          /\ notifyList[k] = h
          /\ notifyList' = SubSeq(notifyList, 1, k - 1)
                             \o SubSeq(notifyList, k + 1, Len(notifyList))
    BY <1>3 DEF Unregister
  <2>2. /\ Len(notifyList') = Len(notifyList) - 1
        /\ \A j \in 1 .. Len(notifyList') :
             notifyList'[j] = IF j < k THEN notifyList[j] ELSE notifyList[j + 1]
        /\ Len(notifyList) \in Nat
    <3> DEFINE r == SubSeq(notifyList, 1, k - 1)
                      \o SubSeq(notifyList, k + 1, Len(notifyList))
    <3>1. notifyList \in Seq(Handles)
      BY DEF TypeOK
    <3>2. /\ Len(r) = Len(notifyList) - 1
          /\ \A j \in 1 .. Len(r) :
               r[j] = IF j < k THEN notifyList[j] ELSE notifyList[j + 1]
      BY <3>1, DropFacts
    <3>3. notifyList' = r
      BY <2>1
    <3> HIDE DEF r
    <3> QED
      BY <3>1, <3>2, <3>3
  <2>3. node'[h] = Free /\ \A g \in Handles \ {h} : node'[g] = node[g]
    BY <1>3 DEF Unregister, TypeOK
  <2> DEFINE From(j) == IF j < k THEN j ELSE j + 1
  <2>4. \A j \in 1 .. Len(notifyList') :
          /\ From(j) \in 1 .. Len(notifyList) \ {k}
          /\ notifyList'[j] = notifyList[From(j)]
    BY <2>2
  <2>5. \A i, j \in 1 .. Len(notifyList') : From(i) = From(j) => i = j
    BY <2>2
  <2>6. \A i \in 1 .. Len(notifyList) \ {k} :
          \E j \in 1 .. Len(notifyList') : From(j) = i
    <3> SUFFICES ASSUME NEW i \in 1 .. Len(notifyList) \ {k}
                 PROVE  \E j \in 1 .. Len(notifyList') : From(j) = i
      OBVIOUS
    <3>1. CASE i < k
      BY <2>2, <3>1
    <3>2. CASE i > k
      <4>1. i - 1 \in 1 .. Len(notifyList') /\ From(i - 1) = i
        BY <2>2, <3>2
      <4> QED
        BY <4>1
    <3> QED
      BY <3>1, <3>2
  <2> HIDE DEF From
  <2>7. \A i, j \in 1 .. Len(notifyList') : notifyList'[i] = notifyList'[j] => i = j
    BY <2>4, <2>5 DEF ListMatchesPool
  <2>8. ASSUME NEW g \in Handles
        PROVE  node'[g] # Free <=>
                 \E i \in 1 .. Len(notifyList') : notifyList'[i] = g
    <3>1. CASE g = h
      <4>1. \A i \in 1 .. Len(notifyList) \ {k} : notifyList[i] # h
        BY <2>1 DEF ListMatchesPool
      <4>2. ~ \E i \in 1 .. Len(notifyList') : notifyList'[i] = h
        BY <2>4, <4>1
      <4> QED
        BY <2>3, <3>1, <4>2
    <3>2. CASE g # h
      <4>1. (\E i \in 1 .. Len(notifyList') : notifyList'[i] = g) <=>
              \E i \in 1 .. Len(notifyList) : notifyList[i] = g
        <5>1. ASSUME NEW i \in 1 .. Len(notifyList'), notifyList'[i] = g
              PROVE  \E j \in 1 .. Len(notifyList) : notifyList[j] = g
          BY <2>4, <5>1
        <5>2. ASSUME NEW i \in 1 .. Len(notifyList), notifyList[i] = g
              PROVE  \E j \in 1 .. Len(notifyList') : notifyList'[j] = g
          <6>1. i \in 1 .. Len(notifyList) \ {k}
            BY <2>1, <3>2, <5>2
          <6>2. PICK j \in 1 .. Len(notifyList') : From(j) = i
            BY <2>6, <6>1
          <6> QED
            BY <2>4, <5>2, <6>2
        <5> QED
          BY <5>1, <5>2
      <4> QED
        BY <2>3, <3>2, <4>1 DEF ListMatchesPool
    <3> QED
      BY <3>1, <3>2
  <2> QED
    BY <2>7, <2>8 DEF ListMatchesPool
<1> QED
  BY <1>1, <1>2, <1>3
  DEF Next, Callers, Firmware, vars, registry, TimerExpires, Push, DispatchTimer,
      EndTimerPoll, RepeatRead, EndRead, EndWaitForKey, BeginRead, BeginReadEx,
      BeginWaitForKey, Reset, SetState, DispatchProcess, PopForNotify, VisitNode,
      FnReturns

\* The nodes on NotifyList are the allocated ones, each once.
THEOREM ListIsThePool == Spec => []ListMatchesPool
<1>1. Init => ListMatchesPool
  BY DEF Init, ListMatchesPool
<1> QED
  BY <1>1, ListMatchesPoolNext, Types, PTL DEF Spec

-----------------------------------------------------------------------------
(* Order and freshness of what is read and what is processed.              *)

\* The keys of q lie above lo and up to hi, and increase strictly.
Increasing(q, lo, hi) ==
  \A i \in 1 .. Len(q) :
    lo < q[i] /\ q[i] <= hi /\ \A j \in 1 .. Len(q) : i < j => q[i] < q[j]

\* Likewise, but a key may be there several times.
Ascending(q, lo, hi) ==
  \A i \in 1 .. Len(q) :
    lo <= q[i] /\ q[i] <= hi /\ \A j \in 1 .. Len(q) : i < j => q[i] <= q[j]

\* EfiKeyQueue holds keys newer than the last one read and the last Reset,
\* EfiKeyQueueForNotify keys at least as new as the one processed last.
QueuesAreOrdered ==
  /\ lastRead <= Len(typed) /\ resetMark <= Len(typed) /\ stroke <= Len(typed)
  /\ Increasing(keyQueue, lastRead, Len(typed))
  /\ Increasing(keyQueue, resetMark, Len(typed))
  /\ Ascending(notifyQueue, stroke, Len(typed))
  /\ Ascending(notifyQueue, resetMark + 1, Len(typed))

\* A suffix of an ordered queue is ordered.
LEMMA SuffixIsOrdered ==
  ASSUME NEW s \in Seq(Nat), NEW t \in Seq(Nat), NEW d \in Nat,
         Len(t) = Len(s) - d, \A i \in 1 .. Len(t) : t[i] = s[i + d],
         NEW lo \in Nat, NEW hi \in Nat
  PROVE  /\ Increasing(s, lo, hi) => Increasing(t, lo, hi)
         /\ Ascending(s, lo, hi) => Ascending(t, lo, hi)
<1>1. \A i \in 1 .. Len(t) : i + d \in 1 .. Len(s) /\ t[i] = s[i + d]
  OBVIOUS
<1>2. \A i, j \in 1 .. Len(t) : i < j => i + d < j + d
  OBVIOUS
<1>3. Increasing(s, lo, hi) => Increasing(t, lo, hi)
  BY <1>1, <1>2 DEF Increasing
<1>4. Ascending(s, lo, hi) => Ascending(t, lo, hi)
  BY <1>1, <1>2 DEF Ascending
<1> QED
  BY <1>3, <1>4

\* Popping the head leaves keys that are above it.
LEMMA PopIsOrdered ==
  ASSUME NEW s \in Seq(Nat), s # <<>>, NEW lo \in Nat, NEW hi \in Nat
  PROVE  /\ Increasing(s, lo, hi) =>
              /\ lo < Head(s) /\ Head(s) <= hi
              /\ Increasing(Tail(s), Head(s), hi)
              /\ Increasing(Tail(s), lo, hi)
         /\ Ascending(s, lo, hi) =>
              /\ lo <= Head(s) /\ Head(s) <= hi
              /\ Ascending(Tail(s), Head(s), hi)
              /\ Ascending(Tail(s), lo, hi)
<1>1. /\ Head(s) = s[1] /\ 1 \in 1 .. Len(s) /\ s[1] \in Nat
      /\ Tail(s) \in Seq(Nat) /\ Len(Tail(s)) = Len(s) - 1
      /\ \A i \in 1 .. Len(Tail(s)) :
           i + 1 \in 1 .. Len(s) /\ Tail(s)[i] = s[i + 1] /\ 1 < i + 1
  BY HeadTailProperties
<1>2. /\ Increasing(s, lo, hi) => Increasing(Tail(s), lo, hi)
      /\ Ascending(s, lo, hi) => Ascending(Tail(s), lo, hi)
  BY <1>1, SuffixIsOrdered
<1>3. Increasing(s, lo, hi) => /\ lo < Head(s) /\ Head(s) <= hi
                               /\ Increasing(Tail(s), Head(s), hi)
  BY <1>1, <1>2 DEF Increasing
<1>4. Ascending(s, lo, hi) => /\ lo <= Head(s) /\ Head(s) <= hi
                              /\ Ascending(Tail(s), Head(s), hi)
  BY <1>1, <1>2 DEF Ascending
<1> QED
  BY <1>2, <1>3, <1>4

\* Appending a newer keystroke keeps the order.
LEMMA PushIsOrdered ==
  ASSUME NEW s \in Seq(Nat), NEW n \in Nat, NEW lo \in Nat, NEW hi \in Nat,
         n = hi + 1, NEW c \in Nat
  PROVE  /\ lo <= hi /\ Increasing(s, lo, hi) =>
              Increasing(Append(s, n), lo, n)
         /\ lo <= n /\ Ascending(s, lo, hi) =>
              Ascending(s \o [i \in 1 .. c |-> n], lo, n)
<1> DEFINE copies == [i \in 1 .. c |-> n]
<1>1. /\ Len(Append(s, n)) = Len(s) + 1 /\ Len(s) \in Nat
      /\ \A i \in 1 .. Len(s) : Append(s, n)[i] = s[i] /\ s[i] \in Nat
      /\ Append(s, n)[Len(s) + 1] = n
  BY AppendProperties, ElementOfSeq
<1>2. ASSUME lo <= hi, Increasing(s, lo, hi)
      PROVE  Increasing(Append(s, n), lo, n)
  <2> SUFFICES ASSUME NEW i \in 1 .. Len(s) + 1
               PROVE  /\ lo < Append(s, n)[i] /\ Append(s, n)[i] <= n
                      /\ \A j \in 1 .. Len(s) + 1 : i < j =>
                           Append(s, n)[i] < Append(s, n)[j]
    BY <1>1 DEF Increasing
  <2>1. CASE i = Len(s) + 1
    BY <1>1, <1>2, <2>1
  <2>2. CASE i \in 1 .. Len(s)
    <3>1. lo < s[i] /\ s[i] <= hi /\ s[i] \in Nat
      BY <1>1, <1>2, <2>2 DEF Increasing
    <3>2. ASSUME NEW j \in 1 .. Len(s) + 1, i < j
          PROVE  Append(s, n)[i] < Append(s, n)[j]
      <4>1. CASE j = Len(s) + 1
        BY <1>1, <2>2, <3>1, <4>1
      <4>2. CASE j \in 1 .. Len(s)
        BY <1>1, <1>2, <2>2, <3>2, <4>2 DEF Increasing
      <4>3. j = Len(s) + 1 \/ j \in 1 .. Len(s)
        BY <1>1
      <4> QED
        BY <4>1, <4>2, <4>3
    <3>3. lo < Append(s, n)[i] /\ Append(s, n)[i] <= n
      BY <1>1, <2>2, <3>1
    <3> QED
      BY <3>2, <3>3
  <2> QED
    BY <1>1, <2>1, <2>2
<1>3. ASSUME lo <= n, Ascending(s, lo, hi)
      PROVE  Ascending(s \o copies, lo, n)
  <2> DEFINE t == s \o copies
  <2>1. /\ Len(t) = Len(s) + c
        /\ \A i \in 1 .. Len(s) : t[i] = s[i] /\ s[i] \in Nat
        /\ \A i \in Len(s) + 1 .. Len(t) : t[i] = n
    <3>1. copies \in Seq(Nat) /\ Len(copies) = c /\ \A i \in 1 .. c : copies[i] = n
      BY CopiesFacts
    <3> HIDE DEF copies
    <3>2. /\ Len(t) = Len(s) + Len(copies)
          /\ \A i \in 1 .. Len(s) + Len(copies) :
               t[i] = IF i <= Len(s) THEN s[i] ELSE copies[i - Len(s)]
      <4>1. s \in Seq(Nat) /\ copies \in Seq(Nat)
        BY <3>1
      <4> QED
        BY <4>1, ConcatProperties, ZenonT(30)
    <3> QED
      BY <1>1, <3>1, <3>2
  <2> HIDE DEF t
  <2> SUFFICES ASSUME NEW i \in 1 .. Len(t)
               PROVE  /\ lo <= t[i] /\ t[i] <= n
                      /\ \A j \in 1 .. Len(t) : i < j => t[i] <= t[j]
    BY DEF Ascending, t
  <2>2. CASE i \in Len(s) + 1 .. Len(t)
    <3>1. t[i] = n /\ i \in Nat /\ Len(s) < i
      BY <1>1, <2>1, <2>2
    <3>2. ASSUME NEW j \in 1 .. Len(t), i < j
          PROVE  t[i] <= t[j]
      <4>1. j \in Len(s) + 1 .. Len(t)
        BY <1>1, <2>1, <3>1, <3>2
      <4> QED
        BY <2>1, <3>1, <4>1
    <3> QED
      BY <1>3, <3>1, <3>2
  <2>3. CASE i \in 1 .. Len(s)
    <3>1. lo <= s[i] /\ s[i] <= hi /\ s[i] \in Nat
      BY <1>1, <1>3, <2>3 DEF Ascending
    <3>2. ASSUME NEW j \in 1 .. Len(t), i < j
          PROVE  t[i] <= t[j]
      <4>1. CASE j \in Len(s) + 1 .. Len(t)
        BY <2>1, <2>3, <3>1, <4>1
      <4>2. CASE j \in 1 .. Len(s)
        BY <1>3, <2>1, <2>3, <3>2, <4>2 DEF Ascending
      <4> QED
        BY <1>1, <2>1, <4>1, <4>2
    <3>3. lo <= t[i] /\ t[i] <= n
      BY <2>1, <2>3, <3>1
    <3> QED
      BY <3>2, <3>3
  <2> QED
    BY <1>1, <2>1, <2>2, <2>3
<1> QED
  BY <1>2, <1>3

LEMMA StrokesAreNats ==
  ASSUME TypeOK
  PROVE  /\ keyQueue \in Seq(Nat) /\ notifyQueue \in Seq(Nat)
         /\ lastRead \in Nat /\ resetMark \in Nat /\ stroke \in Nat
         /\ Len(typed) \in Nat
<1>1. Strokes \subseteq Nat
  BY DEF Strokes
<1>2. keyQueue \in Seq(Nat) /\ notifyQueue \in Seq(Nat)
  BY <1>1, SeqMonotonic DEF TypeOK
<1> QED
  BY <1>1, <1>2 DEF TypeOK

LEMMA QueuesAreOrderedPush ==
  ASSUME TypeOK, QueuesAreOrdered, NEW k \in DeviceKeys, Push(k)
  PROVE  QueuesAreOrdered'
<1> DEFINE n == Len(typed) + 1
           c == Cardinality(Matching(k))
           copies == [i \in 1 .. c |-> n]
           hi == Len(typed)
<1>1. /\ n \in Nat /\ hi \in Nat /\ n = hi + 1 /\ c \in Nat
      /\ keyQueue \in Seq(Nat) /\ notifyQueue \in Seq(Nat)
      /\ lastRead \in Nat /\ resetMark \in Nat /\ stroke \in Nat
  BY StrokesAreNats, MatchingIsCounted
<1>2. /\ Len(typed') = n
      /\ keyQueue' = KeepNewest(Append(keyQueue, n))
      /\ notifyQueue' = KeepNewest(notifyQueue \o copies)
      /\ UNCHANGED <<lastRead, resetMark, stroke>>
  BY AppendProperties DEF TypeOK, Push, handler, reader
<1>3. /\ Append(keyQueue, n) \in Seq(Nat)
      /\ notifyQueue \o copies \in Seq(Nat)
  BY <1>1, AppendProperties, CopiesFacts, ConcatProperties
<1>4. /\ Increasing(Append(keyQueue, n), lastRead, n)
      /\ Increasing(Append(keyQueue, n), resetMark, n)
      /\ Ascending(notifyQueue \o copies, stroke, n)
      /\ Ascending(notifyQueue \o copies, resetMark + 1, n)
  <2>1. /\ lastRead <= hi /\ resetMark <= hi /\ stroke <= n /\ resetMark + 1 <= n
        /\ resetMark + 1 \in Nat
    BY <1>1 DEF QueuesAreOrdered
  <2> HIDE DEF n, c, hi
  <2> QED
    BY <1>1, <2>1, PushIsOrdered DEF QueuesAreOrdered, hi
<1>5. ASSUME NEW s \in Seq(Nat), NEW lo \in Nat
      PROVE  /\ Increasing(s, lo, n) => Increasing(KeepNewest(s), lo, n)
             /\ Ascending(s, lo, n) => Ascending(KeepNewest(s), lo, n)
  <2>1. KeepNewest(s) \in Seq(Nat)
    BY KeepNewestFacts
  <2>2. PICK d \in Nat : /\ Len(KeepNewest(s)) = Len(s) - d
                         /\ \A i \in 1 .. Len(s) - d : KeepNewest(s)[i] = s[i + d]
    BY KeepNewestFacts
  <2> QED
    BY <1>1, <2>1, <2>2, SuffixIsOrdered
<1>6. /\ Increasing(keyQueue', lastRead, n) /\ Increasing(keyQueue', resetMark, n)
      /\ Ascending(notifyQueue', stroke, n)
      /\ Ascending(notifyQueue', resetMark + 1, n)
  <2> HIDE DEF n, c, copies
  <2>1. /\ Increasing(KeepNewest(Append(keyQueue, n)), lastRead, n)
        /\ Increasing(KeepNewest(Append(keyQueue, n)), resetMark, n)
    BY <1>1, <1>3, <1>4, <1>5
  <2>2. resetMark + 1 \in Nat
    BY <1>1
  <2>3. /\ Ascending(KeepNewest(notifyQueue \o copies), stroke, n)
        /\ Ascending(KeepNewest(notifyQueue \o copies), resetMark + 1, n)
    BY <1>1, <1>3, <1>4, <1>5, <2>2
  <2> QED
    BY <1>2, <2>1, <2>3
<1>7. lastRead <= n /\ resetMark <= n /\ stroke <= n
  BY <1>1 DEF QueuesAreOrdered
<1> QED
  BY <1>2, <1>6, <1>7 DEF QueuesAreOrdered

LEMMA QueuesAreOrderedNext ==
  TypeOK /\ QueuesAreOrdered /\ [Next]_vars => QueuesAreOrdered'
<1> SUFFICES ASSUME TypeOK, QueuesAreOrdered, [Next]_vars
             PROVE  QueuesAreOrdered'
  OBVIOUS
<1>1. CASE UNCHANGED <<queues, stroke, lastRead, resetMark>>
  BY <1>1 DEF QueuesAreOrdered, queues
<1>2. ASSUME NEW k \in DeviceKeys, Push(k)
      PROVE  QueuesAreOrdered'
  BY <1>2, QueuesAreOrderedPush
<1>3. CASE EndRead
  <2>1. CASE keyQueue = <<>>
    BY <1>3, <2>1 DEF EndRead, QueuesAreOrdered, handler
  <2>2. CASE keyQueue # <<>>
    <3>1. /\ Increasing(Tail(keyQueue), Head(keyQueue), Len(typed))
          /\ Increasing(Tail(keyQueue), resetMark, Len(typed))
          /\ Head(keyQueue) <= Len(typed)
      BY <2>2, StrokesAreNats, PopIsOrdered DEF QueuesAreOrdered
    <3>2. /\ lastRead' = Head(keyQueue) /\ keyQueue' = Tail(keyQueue)
          /\ UNCHANGED <<typed, notifyQueue, stroke, resetMark>>
      BY <1>3, <2>2 DEF EndRead, handler
    <3> QED
      BY <3>1, <3>2 DEF QueuesAreOrdered
  <2> QED
    BY <2>1, <2>2
<1>4. CASE EndWaitForKey
  <2>1. UNCHANGED <<typed, notifyQueue, stroke, lastRead, resetMark>>
    BY <1>4 DEF EndWaitForKey, handler
  <2>2. CASE keyQueue' = <<>>
    BY <2>1, <2>2, EmptyFacts DEF QueuesAreOrdered, Increasing
  <2>3. ASSUME NEW i \in 1 .. Len(keyQueue),
               keyQueue' = SubSeq(keyQueue, i, Len(keyQueue))
        PROVE  QueuesAreOrdered'
    <3> DEFINE t == SubSeq(keyQueue, i, Len(keyQueue))
    <3>1. keyQueue \in Seq(Nat) /\ \A j \in i .. Len(keyQueue) : keyQueue[j] \in Nat
      BY StrokesAreNats, ElementOfSeq
    <3>2. /\ t \in Seq(Nat)
          /\ Len(t) = Len(keyQueue) - (i - 1)
          /\ \A j \in 1 .. Len(t) : t[j] = keyQueue[j + (i - 1)]
      BY <3>1, SuffixFacts
    <3>3. i - 1 \in Nat
      OBVIOUS
    <3> HIDE DEF t
    <3>4. /\ Increasing(t, lastRead, Len(typed))
          /\ Increasing(t, resetMark, Len(typed))
      BY <3>1, <3>2, <3>3, StrokesAreNats, SuffixIsOrdered DEF QueuesAreOrdered
    <3> QED
      BY <2>1, <2>3, <3>4 DEF QueuesAreOrdered, t
  <2> QED
    BY <1>4, <2>2, <2>3 DEF EndWaitForKey
<1>5. CASE Reset
  <2>1. /\ UNCHANGED <<typed, stroke, lastRead>>
        /\ keyQueue' = <<>> /\ notifyQueue' = <<>> /\ resetMark' = Len(typed)
    BY <1>5 DEF Reset, handler
  <2> QED
    BY <2>1, EmptyFacts, StrokesAreNats DEF QueuesAreOrdered, Increasing, Ascending
<1>6. CASE PopForNotify
  <2>1. CASE notifyQueue = <<>>
    BY <1>6, <2>1 DEF PopForNotify, QueuesAreOrdered, reader
  <2>2. CASE notifyQueue # <<>>
    <3>1. /\ Head(notifyQueue) <= Len(typed)
          /\ Ascending(Tail(notifyQueue), Head(notifyQueue), Len(typed))
          /\ Ascending(Tail(notifyQueue), resetMark + 1, Len(typed))
      BY <2>2, StrokesAreNats, PopIsOrdered DEF QueuesAreOrdered
    <3>2. /\ stroke' = Head(notifyQueue) /\ notifyQueue' = Tail(notifyQueue)
          /\ UNCHANGED <<typed, keyQueue, lastRead, resetMark>>
      BY <1>6, <2>2 DEF PopForNotify, reader
    <3> QED
      BY <3>1, <3>2 DEF QueuesAreOrdered
  <2> QED
    BY <2>1, <2>2
<1> QED
  BY <1>1, <1>2, <1>3, <1>4, <1>5, <1>6
  DEF Next, Callers, Firmware, vars, queues, handler, reader, TimerExpires,
      DispatchTimer, EndTimerPoll, RepeatRead, BeginRead, BeginReadEx,
      BeginWaitForKey, SetState, RegisterNew, Unregister, DispatchProcess,
      VisitNode, FnReturns

LEMMA Ordered == Spec => []QueuesAreOrdered
<1>1. Init => QueuesAreOrdered
  BY EmptyFacts DEF Init, QueuesAreOrdered, Increasing, Ascending
<1> QED
  BY <1>1, QueuesAreOrderedNext, Types, PTL DEF Spec

\* Keys are read in typing order, once, and never from before a Reset.
THEOREM ReadsInOrder == Spec => ReadsAreOrderedAndFresh
<1>1. TypeOK /\ QueuesAreOrdered /\ [Next]_vars =>
        [KeyIsRead => lastRead' > lastRead /\ lastRead' > resetMark]_vars
  <2> SUFFICES ASSUME TypeOK, QueuesAreOrdered, [Next]_vars, KeyIsRead
               PROVE  lastRead' > lastRead /\ lastRead' > resetMark
    OBVIOUS
  <2>1. EndRead
    BY DEF KeyIsRead, Next, Callers, Firmware, vars, CallerRuns, TimerExpires, Push, DispatchTimer,
      EndTimerPoll, RepeatRead, EndWaitForKey, BeginRead, BeginReadEx,
      BeginWaitForKey, Reset, SetState, RegisterNew, Unregister, DispatchProcess,
      PopForNotify, VisitNode, FnReturns
  <2>2. keyQueue # <<>> /\ lastRead' = Head(keyQueue)
    BY <2>1 DEF EndRead, KeyIsRead
  <2>3. lastRead < Head(keyQueue) /\ resetMark < Head(keyQueue)
    BY <2>2, StrokesAreNats, PopIsOrdered DEF QueuesAreOrdered
  <2>4. Head(keyQueue) \in Nat
    BY <2>2, StrokesAreNats, HeadTailProperties
  <2> QED
    BY <2>2, <2>3, <2>4, StrokesAreNats
<1> QED
  BY <1>1, Ordered, Types, PTL DEF Spec, ReadsAreOrderedAndFresh

\* Notifications are processed in typing order, never from before a Reset.
THEOREM NotificationsInOrder == Spec => NotificationsAreOrderedAndFresh
<1>1. TypeOK /\ QueuesAreOrdered /\ [Next]_vars =>
        [phase = "pop" /\ phase' = "walk" =>
           stroke' >= stroke /\ stroke' > resetMark]_vars
  <2> SUFFICES ASSUME TypeOK, QueuesAreOrdered, [Next]_vars,
                      phase = "pop", phase' = "walk"
               PROVE  stroke' >= stroke /\ stroke' > resetMark
    OBVIOUS
  <2>1. PopForNotify
    BY DEF Next, Callers, Firmware, vars, handler, TimerExpires, Push, DispatchTimer,
      EndTimerPoll, RepeatRead, EndRead, EndWaitForKey, BeginRead, BeginReadEx,
      BeginWaitForKey, CallerRuns, Reset, SetState, RegisterNew, Unregister,
      DispatchProcess, VisitNode, FnReturns
  <2>2. notifyQueue # <<>> /\ stroke' = Head(notifyQueue)
    BY <2>1 DEF PopForNotify
  <2>3. stroke <= Head(notifyQueue) /\ resetMark + 1 <= Head(notifyQueue)
    BY <2>2, StrokesAreNats, PopIsOrdered DEF QueuesAreOrdered
  <2>4. Head(notifyQueue) \in Nat
    BY <2>2, StrokesAreNats, HeadTailProperties
  <2> QED
    BY <2>2, <2>3, <2>4, StrokesAreNats
<1> QED
  BY <1>1, Ordered, Types, PTL DEF Spec, NotificationsAreOrderedAndFresh

-----------------------------------------------------------------------------
(* A signalled WaitForKey.                                                 *)

LEMMA HonestPush ==
  ASSUME TypeOK, QueuesAreOrdered, WaitForKeyIsHonest, NEW k \in DeviceKeys, Push(k)
  PROVE  WaitForKeyIsHonest'
<1> DEFINE n == Len(typed) + 1
           q == Append(keyQueue, n)
<1>1. n \in Strokes /\ keyQueue \in Seq(Strokes) /\ typed \in Seq(KeyData) /\ k \in KeyData
  BY DEF TypeOK, Push, Strokes
<1>2. typed' = Append(typed, k) /\ keyQueue' = KeepNewest(q) /\ told' = told
  BY DEF Push, reader
<1>3. \A m \in 1 .. Len(typed) : typed'[m] = typed[m]
  BY <1>1, <1>2, AppendProperties
<1>4. \A i \in 1 .. Len(keyQueue) : keyQueue[i] \in 1 .. Len(typed)
  BY <1>1, ElementOfSeq DEF QueuesAreOrdered, Increasing, Strokes
<1> HIDE DEF n
<1>5. /\ q \in Seq(Strokes) /\ Len(q) = Len(keyQueue) + 1 /\ Len(keyQueue) \in Nat
      /\ \A i \in 1 .. Len(keyQueue) : q[i] = keyQueue[i]
  BY <1>1, AppendProperties
<1> HIDE DEF q
<1>6. CASE Len(q) <= Capacity
  <2>1. keyQueue' = q
    BY <1>2, <1>5, <1>6, KeepNewestFacts
  <2>2. \A i \in 1 .. Len(keyQueue) :
          i \in 1 .. Len(keyQueue') /\ typed'[keyQueue'[i]] = typed[keyQueue[i]]
    BY <1>3, <1>4, <1>5, <2>1
  <2>3. Len(keyQueue) < Capacity
    BY <1>5, <1>6
  <2> QED
    BY <1>2, <2>2, <2>3 DEF WaitForKeyIsHonest, IsPartial
<1>7. CASE Len(q) > Capacity
  <2>1. keyQueue' = SubSeq(q, Len(q) - Capacity + 1, Len(q))
    BY <1>2, <1>7 DEF KeepNewest
  <2>2. Len(q) - Capacity + 1 \in 1 .. Len(q)
    BY <1>5, <1>7
  <2>3. Len(keyQueue') = Capacity
    BY <1>5, <2>1, <2>2, SuffixFacts
  <2> QED
    BY <2>3 DEF WaitForKeyIsHonest
<1> QED
  BY <1>5, <1>6, <1>7

LEMMA HonestNext ==
  TypeOK /\ QueuesAreOrdered /\ WaitForKeyIsHonest /\ [Next]_vars => WaitForKeyIsHonest'
<1> SUFFICES ASSUME TypeOK, QueuesAreOrdered, WaitForKeyIsHonest, [Next]_vars
             PROVE  WaitForKeyIsHonest'
  OBVIOUS
<1>1. CASE UNCHANGED <<typed, keyQueue, told>>
  BY <1>1 DEF WaitForKeyIsHonest, IsPartial
<1>2. ASSUME NEW k \in DeviceKeys, Push(k)
      PROVE  WaitForKeyIsHonest'
  BY <1>2, HonestPush
<1>3. CASE EndRead \/ Reset
  BY <1>3 DEF EndRead, Reset, WaitForKeyIsHonest
<1>4. CASE EndWaitForKey
  <2>1. CASE told' = FALSE
    BY <2>1 DEF WaitForKeyIsHonest
  <2>2. ASSUME NEW i \in 1 .. Len(keyQueue), ~IsPartial(keyQueue[i]),
               keyQueue' = SubSeq(keyQueue, i, Len(keyQueue))
        PROVE  WaitForKeyIsHonest'
    <3>1. keyQueue \in Seq(Strokes)
      BY DEF TypeOK
    <3>2. 1 \in 1 .. Len(keyQueue') /\ keyQueue'[1] = keyQueue[i]
      BY <2>2, <3>1, SuffixFacts
    <3>3. typed' = typed
      BY <1>4 DEF EndWaitForKey
    <3> QED
      BY <2>2, <3>2, <3>3 DEF WaitForKeyIsHonest, IsPartial
  <2> QED
    BY <1>4, <2>1, <2>2 DEF EndWaitForKey
<1> QED
  BY <1>1, <1>2, <1>3, <1>4
  DEF Next, Callers, Firmware, vars, queues, reader, TimerExpires, DispatchTimer,
      EndTimerPoll, RepeatRead, BeginRead, BeginReadEx, BeginWaitForKey, SetState,
      RegisterNew, Unregister, DispatchProcess, PopForNotify, VisitNode, FnReturns

\* After WaitForKey was signalled ReadKeyStroke finds a key that is not a partial
\* one, unless the queue has run full since.
THEOREM WaitForKeyTellsTrue == Spec => []WaitForKeyIsHonest
<1>1. Init => WaitForKeyIsHonest
  BY DEF Init, WaitForKeyIsHonest
<1> QED
  BY <1>1, HonestNext, Ordered, Types, PTL DEF Spec

-----------------------------------------------------------------------------
(* A walk over NotifyList.                                                 *)

\* A walk is for a key that was typed, its node is on the list while it is
\* allocated, and in a call it is a node that has been called.
WalkIsSomewhere ==
  phase \in {"walk", "call"} =>
    /\ stroke \in 1 .. Len(typed)
    /\ link \in Handles => \E j \in 1 .. Len(notifyList) : notifyList[j] = link
    /\ phase = "call" => link # End /\ (link # Gone => link \in called)

WalkInv == WalkIsSomewhere /\ WalkCallsEveryMatch

\* The node after the j-th of a list without repetitions is the next one.
LEMMA NextOfFacts ==
  ASSUME NEW list \in Seq(Handles), NEW j \in 1 .. Len(list),
         \A i, k \in 1 .. Len(list) : list[i] = list[k] => i = k
  PROVE  /\ j < Len(list) => NextOf(list, list[j]) = list[j + 1]
         /\ j = Len(list) => NextOf(list, list[j]) = End
<1>1. CASE j < Len(list)
  <2>1. j \in 1 .. Len(list) - 1
    BY <1>1
  <2>2. \A i \in 1 .. Len(list) - 1 : list[i] = list[j] => i = j
    OBVIOUS
  <2>3. (CHOOSE i \in 1 .. Len(list) - 1 : list[i] = list[j]) = j
    BY <2>1, <2>2
  <2> QED
    BY <1>1, <2>1, <2>3 DEF NextOf
<1>2. CASE j = Len(list)
  <2>1. ~ \E i \in 1 .. Len(list) - 1 : list[i] = list[j]
    BY <1>2
  <2> QED
    BY <1>2, <2>1 DEF NextOf
<1> QED
  BY <1>1, <1>2

\* The walk steps on from a node that was called or need not be.
LEMMA StepsOn ==
  ASSUME TypeOK, ListMatchesPool, WalkInv, phase \in {"walk", "call"},
         link \in Handles, phase' = "walk", link' = NextOf(notifyList, link),
         link \in called \/ ~IsKeyRegistered(node[link].key, typed[stroke]),
         UNCHANGED <<typed, stroke, registry, called>>
  PROVE  WalkInv'
<1>1. notifyList \in Seq(Handles) /\ Len(notifyList) \in Nat
  BY DEF TypeOK
<1>2. PICK j \in 1 .. Len(notifyList) : notifyList[j] = link
  BY DEF WalkInv, WalkIsSomewhere
<1>3. \A i, k \in 1 .. Len(notifyList) : notifyList[i] = notifyList[k] => i = k
  BY DEF ListMatchesPool
<1>4. /\ j < Len(notifyList) => link' = notifyList[j + 1]
      /\ j = Len(notifyList) => link' = End
  BY <1>1, <1>2, <1>3, NextOfFacts
<1>5. UNCHANGED <<notifyList, node, typed, stroke, called>>
  BY DEF registry
<1>6. WalkIsSomewhere'
  <2>1. link' \in Handles => \E i \in 1 .. Len(notifyList) : notifyList[i] = link'
    BY <1>1, <1>4
  <2> QED
    BY <1>5, <2>1 DEF WalkInv, WalkIsSomewhere
<1>7. WalkCallsEveryMatch'
  <2> SUFFICES ASSUME NEW i \in 1 .. Len(notifyList)
               PROVE  \/ notifyList[i] \in called
                      \/ ~IsKeyRegistered(node[notifyList[i]].key, typed[stroke])
                      \/ \E m \in 1 .. i : notifyList[m] = link'
    BY <1>5 DEF WalkCallsEveryMatch
  <2>1. CASE i = j
    BY <1>2, <2>1
  <2>2. CASE i < j
    <3>1. ~ \E m \in 1 .. i : notifyList[m] = link
      BY <1>2, <1>3, <2>2
    <3> QED
      BY <1>1, <3>1 DEF WalkInv, WalkCallsEveryMatch, Gone
  <2>3. CASE i > j
    <3>1. j + 1 \in 1 .. i /\ j < Len(notifyList)
      BY <1>1, <2>3
    <3> QED
      BY <1>4, <3>1
  <2> QED
    BY <2>1, <2>2, <2>3
<1> QED
  BY <1>6, <1>7 DEF WalkInv

\* A registration that is added comes last, behind the node of the walk.
LEMMA WalkRegister ==
  ASSUME TypeOK, ListMatchesPool, WalkInv,
         NEW key \in KeyData, NEW fn \in Fns, NEW h \in Handles, RegisterNew(key, fn, h)
  PROVE  WalkInv'
<1>1. /\ notifyList' = Append(notifyList, h)
      /\ node' = [node EXCEPT ![h] = [key |-> key, fn |-> fn]] /\ node[h] = Free
      /\ UNCHANGED <<typed, stroke, phase, link, called>> /\ phase \in {"call", "idle"}
  BY DEF RegisterNew, queues, handler, CallerRuns
<1>2. /\ Len(notifyList') = Len(notifyList) + 1 /\ Len(notifyList) \in Nat
      /\ \A i \in 1 .. Len(notifyList) : notifyList'[i] = notifyList[i]
      /\ \A i \in 1 .. Len(notifyList') : i \in 1 .. Len(notifyList) \/ i = Len(notifyList')
  BY <1>1, AppendProperties DEF TypeOK
<1>3. \A i \in 1 .. Len(notifyList) : notifyList[i] # h /\ node'[notifyList[i]] = node[notifyList[i]]
  <2>1. \A i \in 1 .. Len(notifyList) : notifyList[i] # h
    BY <1>1 DEF ListMatchesPool
  <2>2. \A i \in 1 .. Len(notifyList) : notifyList[i] \in Handles
    BY ElementOfSeq DEF TypeOK
  <2> QED
    BY <1>1, <2>1, <2>2 DEF TypeOK
<1>4. CASE phase = "idle"
  BY <1>1, <1>4 DEF WalkInv, WalkIsSomewhere, WalkCallsEveryMatch
<1>5. CASE phase = "call"
  <2>1. link \in Handles \cup {Gone}
    BY <1>5 DEF TypeOK, WalkInv, WalkIsSomewhere
  <2>2. WalkIsSomewhere'
    BY <1>1, <1>2, <1>5 DEF WalkInv, WalkIsSomewhere
  <2>3. WalkCallsEveryMatch'
    <3> SUFFICES ASSUME link # Gone, NEW i \in 1 .. Len(notifyList')
                 PROVE  \/ notifyList'[i] \in called
                        \/ ~IsKeyRegistered(node'[notifyList'[i]].key, typed[stroke])
                        \/ \E m \in 1 .. i : notifyList'[m] = link
      BY <1>1 DEF WalkCallsEveryMatch
    <3>1. CASE i \in 1 .. Len(notifyList)
      <4>1. \/ notifyList[i] \in called
            \/ ~IsKeyRegistered(node[notifyList[i]].key, typed[stroke])
            \/ \E m \in 1 .. i : notifyList[m] = link
        BY <1>5, <3>1 DEF WalkInv, WalkCallsEveryMatch
      <4>2. \A m \in 1 .. i : m \in 1 .. Len(notifyList)
        BY <1>2, <3>1
      <4> QED
        BY <1>2, <1>3, <3>1, <4>1, <4>2
    <3>2. CASE i = Len(notifyList')
      <4>1. PICK j \in 1 .. Len(notifyList) : notifyList[j] = link
        BY <1>5, <2>1 DEF WalkInv, WalkIsSomewhere
      <4> QED
        BY <1>2, <3>2, <4>1
    <3> QED
      BY <1>2, <3>1, <3>2
  <2> QED
    BY <2>2, <2>3 DEF WalkInv
<1> QED
  BY <1>1, <1>4, <1>5

\* A registration that is taken back leaves the others in their order.
LEMMA WalkUnregister ==
  ASSUME TypeOK, ListMatchesPool, WalkInv, NEW h \in Handles, Unregister(h)
  PROVE  WalkInv'
<1>1. PICK k \in 1 .. Len(notifyList) :
        /\ notifyList[k] = h
        /\ notifyList' = SubSeq(notifyList, 1, k - 1) \o SubSeq(notifyList, k + 1, Len(notifyList))
  BY DEF Unregister
<1>2. /\ notifyList \in Seq(Handles) /\ Len(notifyList) \in Nat
      /\ node' = [node EXCEPT ![h] = Free] /\ called' = called \ {h}
      /\ link' = IF link = h THEN Gone ELSE link
      /\ UNCHANGED <<typed, stroke, phase>> /\ phase \in {"call", "idle"}
  BY DEF Unregister, TypeOK, queues, CallerRuns
<1> DEFINE From(j) == IF j < k THEN j ELSE j + 1
<1>3. /\ Len(notifyList') = Len(notifyList) - 1
      /\ \A j \in 1 .. Len(notifyList') : notifyList'[j] = notifyList[From(j)]
  <2> DEFINE r == SubSeq(notifyList, 1, k - 1) \o SubSeq(notifyList, k + 1, Len(notifyList))
  <2>1. /\ Len(r) = Len(notifyList) - 1
        /\ \A j \in 1 .. Len(r) : r[j] = IF j < k THEN notifyList[j] ELSE notifyList[j + 1]
    BY <1>2, DropFacts
  <2>2. notifyList' = r
    BY <1>1
  <2> HIDE DEF r
  <2> QED
    BY <2>1, <2>2
<1>4. CASE phase = "idle" \/ link = h \/ link = Gone
  BY <1>2, <1>4 DEF WalkInv, WalkIsSomewhere, WalkCallsEveryMatch, End, Gone
<1>5. CASE phase = "call" /\ link # h /\ link # Gone
  <2>1. link \in Handles /\ link' = link
    BY <1>2, <1>5 DEF TypeOK, WalkInv, WalkIsSomewhere
  <2>2. PICK j \in 1 .. Len(notifyList) : notifyList[j] = link
    BY <1>5, <2>1 DEF WalkInv, WalkIsSomewhere
  <2>3. j # k
    BY <1>1, <1>5, <2>2
  <2>4. \A i \in 1 .. Len(notifyList') :
          From(i) \in 1 .. Len(notifyList) /\ From(i) # k /\ notifyList'[i] = notifyList[From(i)]
    BY <1>2, <1>3
  <2>5. \A m \in 1 .. Len(notifyList) \ {k} : \E i \in 1 .. Len(notifyList') : From(i) = m
    <3> SUFFICES ASSUME NEW m \in 1 .. Len(notifyList) \ {k}
                 PROVE  \E i \in 1 .. Len(notifyList') : From(i) = m
      OBVIOUS
    <3>1. CASE m < k
      BY <1>2, <1>3, <3>1
    <3>2. CASE m > k
      <4>1. m - 1 \in 1 .. Len(notifyList') /\ From(m - 1) = m
        BY <1>2, <1>3, <3>2
      <4> QED
        BY <4>1
    <3> QED
      BY <3>1, <3>2
  <2>6. \A i, m \in 1 .. Len(notifyList') : From(m) <= From(i) => m <= i
    BY <1>2, <1>3
  <2> HIDE DEF From
  <2>7. PICK at \in 1 .. Len(notifyList') : From(at) = j
    BY <2>3, <2>5
  <2>8. notifyList'[at] = link
    BY <2>2, <2>4, <2>7
  <2>9. WalkIsSomewhere'
    BY <1>2, <1>5, <2>1, <2>8 DEF WalkInv, WalkIsSomewhere
  <2>10. WalkCallsEveryMatch'
    <3> SUFFICES ASSUME NEW i \in 1 .. Len(notifyList')
                 PROVE  \/ notifyList'[i] \in called'
                        \/ ~IsKeyRegistered(node'[notifyList'[i]].key, typed[stroke])
                        \/ \E m \in 1 .. i : notifyList'[m] = link
      BY <1>2, <2>1 DEF WalkCallsEveryMatch
    <3> DEFINE g == notifyList[From(i)]
    <3>1. notifyList'[i] = g /\ g # h /\ g \in Handles
      BY <1>1, <1>2, <2>4, ElementOfSeq DEF ListMatchesPool
    <3>2. node'[g] = node[g] /\ (g \in called => g \in called')
      BY <1>2, <3>1 DEF TypeOK
    <3>3. \/ g \in called
          \/ ~IsKeyRegistered(node[g].key, typed[stroke])
          \/ \E m \in 1 .. From(i) : notifyList[m] = link
      BY <1>5, <2>4 DEF WalkInv, WalkCallsEveryMatch
    <3>4. CASE \E m \in 1 .. From(i) : notifyList[m] = link
      <4>1. PICK m \in 1 .. From(i) : notifyList[m] = link
        BY <3>4
      <4>2. m \in 1 .. Len(notifyList) /\ From(i) \in Nat
        BY <1>2, <2>4
      <4>3. m = j
        BY <2>2, <4>1, <4>2 DEF ListMatchesPool
      <4>4. at <= i
        BY <2>6, <2>7, <4>2, <4>3
      <4> QED
        BY <1>3, <2>8, <4>4
    <3> QED
      BY <3>1, <3>2, <3>3, <3>4
  <2> QED
    BY <2>9, <2>10 DEF WalkInv
<1> QED
  BY <1>2, <1>4, <1>5

LEMMA WalkNext ==
  TypeOK /\ WalkHasNode /\ QueuesAreOrdered /\ ListMatchesPool /\ WalkInv /\ [Next]_vars => WalkInv'
<1> SUFFICES ASSUME TypeOK, WalkHasNode, QueuesAreOrdered, ListMatchesPool, WalkInv, [Next]_vars
             PROVE  WalkInv'
  OBVIOUS
<1>1. CASE UNCHANGED <<typed, registry, handler>>
  BY <1>1 DEF WalkInv, WalkIsSomewhere, WalkCallsEveryMatch, registry, handler
<1>2. ASSUME NEW k \in DeviceKeys, Push(k)
      PROVE  WalkInv'
  <2>1. /\ Len(typed') = Len(typed) + 1 /\ Len(typed) \in Nat
        /\ \A n \in 1 .. Len(typed) : typed'[n] = typed[n]
    <3>1. typed' = Append(typed, k) /\ typed \in Seq(KeyData) /\ k \in KeyData
      BY <1>2 DEF Push, TypeOK
    <3> QED
      BY <3>1, AppendProperties
  <2>2. UNCHANGED <<registry, handler>>
    BY <1>2 DEF Push
  <2>3. phase \in {"walk", "call"} => typed'[stroke] = typed[stroke] /\ stroke \in 1 .. Len(typed')
    BY <2>1 DEF WalkInv, WalkIsSomewhere
  <2> QED
    BY <2>2, <2>3 DEF WalkInv, WalkIsSomewhere, WalkCallsEveryMatch, registry, handler
<1>3. ASSUME NEW key \in KeyData, NEW fn \in Fns, NEW h \in Handles, RegisterNew(key, fn, h)
      PROVE  WalkInv'
  BY <1>3, WalkRegister
<1>4. ASSUME NEW h \in Handles, Unregister(h)
      PROVE  WalkInv'
  BY <1>4, WalkUnregister
<1>5. CASE DispatchProcess
  BY <1>5 DEF DispatchProcess, WalkInv, WalkIsSomewhere, WalkCallsEveryMatch
<1>6. CASE PopForNotify
  <2>1. CASE notifyQueue = <<>>
    BY <1>6, <2>1 DEF PopForNotify, WalkInv, WalkIsSomewhere, WalkCallsEveryMatch
  <2>2. CASE notifyQueue # <<>>
    <3>1. /\ stroke' = Head(notifyQueue) /\ phase' = "walk" /\ link' = FirstOf(notifyList)
          /\ UNCHANGED <<typed, notifyList>>
      BY <1>6, <2>2 DEF PopForNotify, registry
    <3>2. Head(notifyQueue) \in Strokes /\ Head(notifyQueue) <= Len(typed)
      BY <2>2, HeadTailProperties, StrokesAreNats, PopIsOrdered DEF TypeOK, QueuesAreOrdered
    <3>3. stroke' \in 1 .. Len(typed')
      BY <3>1, <3>2, StrokesAreNats DEF Strokes
    <3>4. notifyList # <<>> => Len(notifyList) \in Nat \ {0} /\ link' = notifyList[1]
      BY <3>1 DEF FirstOf, TypeOK
    <3>5. notifyList = <<>> => link' = End
      BY <3>1 DEF FirstOf
    <3> QED
      BY <3>1, <3>3, <3>4, <3>5 DEF WalkInv, WalkIsSomewhere, WalkCallsEveryMatch
  <2> QED
    BY <2>1, <2>2
<1>7. CASE VisitNode
  <2>0. phase = "walk" /\ UNCHANGED <<typed, registry, stroke>>
    BY <1>7 DEF VisitNode, queues
  <2>1. CASE link = End
    BY <1>7, <2>1 DEF VisitNode, WalkInv, WalkIsSomewhere, WalkCallsEveryMatch
  <2>2. CASE link # End /\ IsKeyRegistered(node[link].key, typed[stroke])
    <3>1. phase' = "call" /\ called' = called \cup {link} /\ link' = link
      BY <1>7, <2>2 DEF VisitNode
    <3> QED
      BY <2>0, <2>2, <3>1 DEF WalkInv, WalkIsSomewhere, WalkCallsEveryMatch, registry
  <2>3. CASE link # End /\ ~IsKeyRegistered(node[link].key, typed[stroke])
    <3>1. phase' = "walk" /\ called' = called /\ link' = NextOf(notifyList, link)
      BY <1>7, <2>0, <2>3 DEF VisitNode
    <3>2. link \in Handles
      BY <2>0, <2>3 DEF TypeOK, WalkHasNode
    <3> QED
      BY <2>0, <2>3, <3>1, <3>2, StepsOn
  <2> QED
    BY <2>1, <2>2, <2>3
<1>8. CASE FnReturns
  <2>0. phase = "call" /\ UNCHANGED <<typed, registry, stroke, called>>
    BY <1>8 DEF FnReturns, queues
  <2>1. CASE link = Gone
    BY <1>8, <2>1 DEF FnReturns, WalkInv, WalkIsSomewhere, WalkCallsEveryMatch
  <2>2. CASE link # Gone
    <3>1. link \in Handles /\ link \in called
      BY <2>0, <2>2 DEF TypeOK, WalkInv, WalkIsSomewhere
    <3>2. phase' = "walk" /\ link' = NextOf(notifyList, link)
      BY <1>8, <2>2 DEF FnReturns
    <3> QED
      BY <2>0, <3>1, <3>2, StepsOn
  <2> QED
    BY <2>1, <2>2
<1> QED
  BY <1>1, <1>2, <1>3, <1>4, <1>5, <1>6, <1>7, <1>8
  DEF Next, Callers, Firmware, vars, queues, registry, handler, TimerExpires,
      DispatchTimer, EndTimerPoll, RepeatRead, EndRead, EndWaitForKey, BeginRead,
      BeginReadEx, BeginWaitForKey, Reset, SetState

\* A walk calls every registration that matches its key, whatever the functions
\* it calls register and take back.
THEOREM WalksAreComplete == Spec => []WalkCallsEveryMatch
<1>1. Init => WalkInv /\ ListMatchesPool
  BY DEF Init, WalkInv, WalkIsSomewhere, WalkCallsEveryMatch, ListMatchesPool
<1>2. WalkInv => WalkCallsEveryMatch
  BY DEF WalkInv
<1> QED
  BY <1>1, <1>2, WalkNext, ListMatchesPoolNext, Ordered, Types, PTL DEF Spec

-----------------------------------------------------------------------------
(* The delays.                                                             *)

\* A number below two turns, as the counter has it.
OnCounter(x) == IF x < Turn THEN x ELSE x - Turn

LEMMA TurnIs ==
  ASSUME NEW x \in Nat, x < 2 * Turn
  PROVE  x % Turn = OnCounter(x)
<1>1. Turn \in Nat /\ Turn > 0
  BY GptAssumption
<1>2. x % Turn \in 0..Turn - 1 /\ x = Turn * (x \div Turn) + (x % Turn) /\ x \div Turn \in Nat
  BY <1>1
<1>3. x \div Turn \in {0, 1}
  <2> DEFINE q == x \div Turn
  <2>1. q \in Nat /\ Turn * q <= x
    BY <1>1, <1>2
  <2> HIDE DEF q
  <2>2. q >= 2 => Turn * q >= Turn * 2
    BY <1>1, <2>1
  <2>3. q < 2
    BY <1>1, <2>1, <2>2
  <2>4. q \in {0, 1}
    BY <2>1, <2>3
  <2> QED
    BY <2>4 DEF q
<1> QED
  BY <1>1, <1>2, <1>3 DEF OnCounter

LEMMA TicksAre ==
  /\ \A us \in Nat : Ticks(us) \in Nat /\ us * 33 < Ticks(us) * 1000 + 33
  /\ \A a \in Nat, b \in Nat : a <= b => Ticks(a) <= Ticks(b)
  BY DEF Ticks

LEMMA NanoSecondsAre == \A ns \in Nat : NanoSeconds(ns) \in Nat /\ NanoSeconds(ns) <= ns
  BY DEF NanoSeconds

LEMMA DelaysFit == \A us \in Delays \cup {NanoSeconds(ns) : ns \in Delays} : us \in Nat /\ Ticks(us) < Turn
<1>1. ASSUME NEW ns \in Delays
      PROVE  NanoSeconds(ns) \in Nat /\ Ticks(NanoSeconds(ns)) < Turn
  <2>1. ns \in Nat /\ Ticks(ns) < Turn /\ Turn \in Nat
    BY GptAssumption
  <2>2. NanoSeconds(ns) \in Nat /\ NanoSeconds(ns) <= ns
    BY <2>1, NanoSecondsAre
  <2>3. Ticks(NanoSeconds(ns)) <= Ticks(ns) /\ Ticks(NanoSeconds(ns)) \in Nat /\ Ticks(ns) \in Nat
    BY <2>1, <2>2, TicksAre
  <2> QED
    BY <2>1, <2>2, <2>3
<1>2. \A us \in Delays : us \in Nat /\ Ticks(us) < Turn
  BY GptAssumption
<1> QED
  BY <1>1, <1>2

GptTypes ==
  /\ GPT_COUNT_VAL \in 0..Turn - 1 /\ Count \in 0..Turn - 1
  /\ InitCount \in 0..Turn - 1 /\ Timeout \in 0..Turn - 1
  /\ elapsed \in 0..2 * Turn /\ unread \in 0..Gap /\ unread <= elapsed
  /\ MicroSeconds \in Nat /\ Ticks(MicroSeconds) < Turn
  /\ gptPc \in {"call", "wrap", "target", "return"}

\* The ticks of the delay when the counter was read last.
Seen == elapsed - unread

\* What was read tells how long the delay has lasted, as long as it is not over
\* or its target is in sight; the target is then read before it is lost.
CountTells ==
  /\ Timeout = OnCounter(InitCount + Ticks(MicroSeconds))
  /\ GPT_COUNT_VAL = OnCounter(Count + unread)
  /\ Seen <= Ticks(MicroSeconds) \/ InSight => Count = OnCounter(InitCount + Seen)
  /\ InSight => Seen < Ticks(MicroSeconds) + Gap

Wraps == InitCount + Ticks(MicroSeconds) >= Turn

\* The first loop waits for the end of the counter only if the target is beyond it,
\* and is left with the first count from there.
FirstLoop ==
  /\ ~ Wraps => Seen = 0
  /\ Wraps /\ InSight => InitCount + Seen < Turn + Gap

\* In the second loop, counter and target are on the same side of the end.
SecondLoop == Seen < Ticks(MicroSeconds) => (InitCount + Seen >= Turn <=> Wraps)

GptInv ==
  /\ GptTypes
  /\ gptPc # "call" => CountTells
  /\ gptPc = "wrap" => FirstLoop
  /\ gptPc = "target" => SecondLoop
  /\ gptPc = "return" => Seen >= Ticks(MicroSeconds)

LEMMA GptInitIs == GptInit => GptInv
<1>1. Ticks(0) = 0
  BY DEF Ticks
<1> QED
  BY <1>1, GptAssumption DEF GptInit, GptInv, GptTypes

LEMMA DelayBegins ==
  ASSUME GptInv, NEW us \in Nat, Ticks(us) < Turn, MicroSecondDelay(us)
  PROVE  GptInv'
<1>1. Turn \in Nat /\ Gap \in Nat /\ Gap >= 1 /\ 2 * Gap <= Turn /\ GPT_COUNT_VAL \in 0..Turn - 1 /\ Ticks(us) \in Nat
  BY GptAssumption, TicksAre DEF GptInv, GptTypes
<1>2. Timeout' = OnCounter(GPT_COUNT_VAL + Ticks(us))
  BY <1>1, TurnIs DEF MicroSecondDelay
<1>3. Timeout' \in 0..Turn - 1
  BY <1>1, <1>2 DEF OnCounter
<1>4. GptTypes'
  BY <1>1, <1>3 DEF GptInv, GptTypes, MicroSecondDelay, Read
<1>5. /\ elapsed' = 0 /\ unread' = 0 /\ MicroSeconds' = us /\ gptPc' = "wrap"
      /\ InitCount' = GPT_COUNT_VAL /\ Count' = GPT_COUNT_VAL /\ GPT_COUNT_VAL' = GPT_COUNT_VAL
  BY DEF MicroSecondDelay, Read
<1>6. CountTells'
  BY <1>1, <1>2, <1>5 DEF CountTells, Seen, OnCounter
<1>7. FirstLoop'
  BY <1>1, <1>5 DEF FirstLoop, Seen, Wraps
<1> QED
  BY <1>4, <1>5, <1>6, <1>7 DEF GptInv

LEMMA TickKeeps ==
  ASSUME GptInv, Tick
  PROVE  GptInv'
<1>1. /\ Turn \in Nat /\ Gap \in Nat /\ Gap >= 1 /\ 2 * Gap <= Turn /\ GptTypes
      /\ Ticks(MicroSeconds) \in Nat
  BY GptAssumption, TicksAre DEF GptInv, GptTypes
<1>2. GPT_COUNT_VAL' = OnCounter(GPT_COUNT_VAL + 1)
  BY <1>1, TurnIs DEF Tick, GptTypes
<1>3. GPT_COUNT_VAL' \in 0..Turn - 1
  BY <1>1, <1>2 DEF OnCounter, GptTypes
<1>4. GptTypes'
  BY <1>1, <1>3 DEF GptTypes, Tick
<1>5. CASE gptPc = "call"
  BY <1>4, <1>5 DEF GptInv, Tick
<1>6. CASE gptPc # "call"
  <2>1. /\ unread < Gap /\ unread' = unread + 1 /\ gptPc # "return"
        /\ Count' = Count /\ MicroSeconds' = MicroSeconds /\ InitCount' = InitCount /\ Timeout' = Timeout /\ gptPc' = gptPc
    BY <1>6 DEF Tick
  <2>2. GPT_COUNT_VAL' = OnCounter(Count' + unread')
    BY <1>1, <1>2, <1>6, <2>1 DEF GptInv, GptTypes, CountTells, OnCounter
  <2>3. CASE elapsed = 2 * Turn
    <3>1. elapsed' = elapsed /\ Seen >= Ticks(MicroSeconds) + Gap /\ Seen' > Ticks(MicroSeconds)
      BY <1>1, <1>6, <2>1, <2>3 DEF Tick, Seen, GptTypes
    <3>2. ~ InSight
      BY <1>1, <1>6, <3>1 DEF GptInv, CountTells, Seen, GptTypes
    <3>3. ~ InSight' /\ Ticks(MicroSeconds)' = Ticks(MicroSeconds) /\ (Wraps <=> Wraps')
      BY <2>1, <3>2 DEF InSight, Wraps
    <3>4. CountTells'
      BY <1>1, <1>6, <2>1, <2>2, <3>1, <3>3 DEF GptInv, CountTells, Seen, GptTypes, OnCounter
    <3>5. gptPc = "wrap" => FirstLoop'
      <4>1. gptPc = "wrap" => Wraps
        BY <1>1, <2>3, <3>1 DEF GptInv, FirstLoop, Seen, GptTypes
      <4> QED
        BY <3>3, <4>1 DEF FirstLoop
    <3>6. SecondLoop'
      BY <1>1, <2>1, <3>1, <3>3 DEF SecondLoop, Seen, GptTypes
    <3> QED
      BY <1>4, <2>1, <3>4, <3>5, <3>6 DEF GptInv
  <2>4. CASE elapsed # 2 * Turn
    <3>1. elapsed' = elapsed + 1 /\ Seen' = Seen
      BY <1>1, <1>6, <2>1, <2>4 DEF Tick, Seen, GptTypes
    <3>2. Ticks(MicroSeconds)' = Ticks(MicroSeconds) /\ (Wraps <=> Wraps') /\ (InSight <=> InSight')
      BY <2>1 DEF InSight, Wraps
    <3>3. CountTells'
      BY <1>6, <2>1, <2>2, <3>1, <3>2 DEF GptInv, CountTells, OnCounter
    <3>4. (FirstLoop <=> FirstLoop') /\ (SecondLoop <=> SecondLoop')
      BY <2>1, <3>1, <3>2 DEF FirstLoop, SecondLoop
    <3> QED
      BY <1>4, <1>6, <2>1, <3>3, <3>4 DEF GptInv
  <2> QED
    BY <2>3, <2>4
<1> QED
  BY <1>5, <1>6

\* Reading the counter again, for as long as the delay is not over or its target
\* not in sight.
LEMMA ReadAgain ==
  ASSUME GptTypes, CountTells, InSight => Seen < Ticks(MicroSeconds), Read,
         UNCHANGED <<GPT_COUNT_VAL, elapsed, MicroSeconds, InitCount, Timeout>>
  PROVE  CountTells' /\ Seen' = Seen + unread /\ Seen \in Nat /\ Seen' <= Seen + Gap
<1>1. /\ Turn \in Nat /\ Gap \in Nat /\ Gap >= 1 /\ 2 * Gap <= Turn
      /\ Ticks(MicroSeconds) \in Nat
  BY GptAssumption, TicksAre DEF GptTypes
<1>2. Seen' = Seen + unread /\ Seen \in Nat /\ Seen' <= Seen + Gap /\ Seen' = elapsed
  BY <1>1 DEF Seen, Read, GptTypes
<1>3. Ticks(MicroSeconds)' = Ticks(MicroSeconds) /\ (InSight <=> InSight')
  BY DEF InSight
<1>4. Count' = GPT_COUNT_VAL /\ unread' = 0
  BY DEF Read
<1>5. GPT_COUNT_VAL' = OnCounter(Count' + unread')
  BY <1>1, <1>4 DEF GptTypes, OnCounter
<1>6. Timeout' = OnCounter(InitCount' + Ticks(MicroSeconds)')
  BY <1>3 DEF CountTells, OnCounter
<1>7. InSight => Seen' < Ticks(MicroSeconds) + Gap
  BY <1>1, <1>2
<1>8. ASSUME Seen' <= Ticks(MicroSeconds) \/ InSight
      PROVE  Count' = OnCounter(InitCount' + Seen')
  <2>1. Seen <= Ticks(MicroSeconds)
    BY <1>1, <1>2, <1>8 DEF GptTypes
  <2>2. Count = OnCounter(InitCount + Seen) /\ GPT_COUNT_VAL = OnCounter(Count + unread)
    BY <2>1 DEF CountTells
  <2>3. InitCount + Seen + unread < 2 * Turn
    BY <1>1, <1>2, <1>7, <1>8, <2>1 DEF CountTells, InSight, GptTypes, OnCounter
  <2> QED
    BY <1>1, <1>2, <1>4, <2>2, <2>3 DEF OnCounter, GptTypes
<1> QED
  BY <1>2, <1>3, <1>5, <1>6, <1>7, <1>8 DEF CountTells

LEMMA WrapKeeps ==
  ASSUME GptInv, WaitForWrap
  PROVE  GptInv'
<1>1. /\ Turn \in Nat /\ Gap \in Nat /\ Gap >= 1 /\ 2 * Gap <= Turn /\ GptTypes
      /\ Ticks(MicroSeconds) \in Nat /\ CountTells /\ FirstLoop /\ gptPc = "wrap"
      /\ UNCHANGED <<GPT_COUNT_VAL, elapsed, MicroSeconds, InitCount, Timeout>>
  BY GptAssumption, TicksAre DEF GptInv, GptTypes, WaitForWrap
<1>2. Ticks(MicroSeconds)' = Ticks(MicroSeconds) /\ (Wraps <=> Wraps') /\ (InSight <=> InSight')
  BY <1>1 DEF Wraps, InSight
<1>3. Seen \in Nat /\ GptTypes'
  BY <1>1 DEF Seen, GptTypes, WaitForWrap, Read
<1>4. CASE Timeout < Count /\ InitCount <= Count
  <2>1. Wraps
    BY <1>1, <1>4 DEF GptTypes, CountTells, FirstLoop, Seen, Wraps, OnCounter
  <2>2. InSight => InitCount + Seen < Turn /\ Seen < Ticks(MicroSeconds)
    BY <1>1, <1>3, <1>4, <2>1 DEF GptTypes, CountTells, FirstLoop, InSight, Wraps, OnCounter
  <2>3. Read /\ gptPc' = gptPc
    BY <1>4 DEF WaitForWrap
  <2>4. CountTells' /\ Seen' = Seen + unread /\ Seen' <= Seen + Gap
    BY <1>1, <2>2, <2>3, ReadAgain
  <2>5. FirstLoop'
    BY <1>1, <1>2, <1>3, <2>1, <2>2, <2>4 DEF FirstLoop, GptTypes
  <2> QED
    BY <1>1, <1>3, <2>3, <2>4, <2>5 DEF GptInv
<1>5. CASE ~ (Timeout < Count /\ InitCount <= Count)
  <2>1. gptPc' = "target" /\ Count' = Count /\ unread' = unread /\ Seen' = Seen
    BY <1>1, <1>5 DEF WaitForWrap, Seen
  <2>2. CountTells'
    BY <1>1, <1>2, <2>1 DEF CountTells, OnCounter
  <2>3. SecondLoop
    BY <1>1, <1>3, <1>5 DEF GptTypes, CountTells, OnCounter, SecondLoop, Wraps
  <2>4. SecondLoop'
    BY <1>1, <1>2, <2>1, <2>3 DEF SecondLoop
  <2> QED
    BY <1>3, <2>1, <2>2, <2>4 DEF GptInv
<1> QED
  BY <1>4, <1>5

LEMMA TargetKeeps ==
  ASSUME GptInv, WaitForTarget
  PROVE  GptInv'
<1>1. /\ Turn \in Nat /\ Gap \in Nat /\ Gap >= 1 /\ 2 * Gap <= Turn /\ GptTypes
      /\ Ticks(MicroSeconds) \in Nat /\ CountTells /\ SecondLoop /\ gptPc = "target"
      /\ UNCHANGED <<GPT_COUNT_VAL, elapsed, MicroSeconds, InitCount, Timeout>>
  BY GptAssumption, TicksAre DEF GptInv, GptTypes, WaitForTarget
<1>2. Ticks(MicroSeconds)' = Ticks(MicroSeconds) /\ (Wraps <=> Wraps') /\ (InSight <=> InSight')
  BY <1>1 DEF Wraps, InSight
<1>3. Seen \in Nat /\ GptTypes'
  BY <1>1 DEF Seen, GptTypes, WaitForTarget, Read
<1>4. CASE Timeout > Count
  <2>1. InSight => Seen < Ticks(MicroSeconds)
    BY <1>1, <1>3, <1>4 DEF GptTypes, CountTells, InSight, OnCounter
  <2>2. Read /\ gptPc' = gptPc
    BY <1>4 DEF WaitForTarget
  <2>3. CountTells' /\ Seen' = Seen + unread
    BY <1>1, <2>1, <2>2, ReadAgain
  <2>4. SecondLoop'
    BY <1>1, <1>2, <1>3, <2>3 DEF SecondLoop, Wraps, GptTypes
  <2> QED
    BY <1>1, <1>3, <2>2, <2>3, <2>4 DEF GptInv
<1>5. CASE ~ (Timeout > Count)
  <2>1. gptPc' = "return" /\ Count' = Count /\ unread' = unread /\ Seen' = Seen
    BY <1>1, <1>5 DEF WaitForTarget, Seen
  <2>2. CountTells'
    BY <1>1, <1>2, <2>1 DEF CountTells, OnCounter
  <2>3. Seen >= Ticks(MicroSeconds)
    BY <1>1, <1>3, <1>5 DEF GptTypes, CountTells, SecondLoop, Wraps, OnCounter
  <2> QED
    BY <1>2, <1>3, <2>1, <2>2, <2>3 DEF GptInv
<1> QED
  BY <1>4, <1>5

\* A delay takes as many ticks as make up its time, wherever the counter is when
\* it begins, whether or not it wraps meanwhile and however many ticks go by
\* unread; and less than two gaps more while its target is in sight
\* (MicroSecondDelay, lines 35-67 of GPTTimerLib.c).
THEOREM DelaysTakeTheirTime == GptSpec => []DelayExact
<1>1. GptInv /\ [GptNext]_gptVars => GptInv'
  <2> SUFFICES ASSUME GptInv, [GptNext]_gptVars
               PROVE  GptInv'
    OBVIOUS
  <2>1. CASE \E us \in Delays \cup {NanoSeconds(ns) : ns \in Delays} : MicroSecondDelay(us)
    BY <2>1, DelaysFit, DelayBegins
  <2>2. CASE DelayReturns
    BY <2>2 DEF DelayReturns, GptInv, GptTypes
  <2>3. CASE UNCHANGED gptVars
    BY <2>3 DEF gptVars, GptInv, GptTypes, CountTells, FirstLoop, SecondLoop, Seen, Wraps, InSight, OnCounter
  <2> QED
    BY <2>1, <2>2, <2>3, TickKeeps, WrapKeeps, TargetKeeps DEF GptNext, GptStep
<1>2. GptInv => DelayExact
  <2> SUFFICES ASSUME GptInv, gptPc = "return"
               PROVE  /\ elapsed >= Ticks(MicroSeconds) /\ elapsed * 1000 + 33 > MicroSeconds * 33
                      /\ InSight => elapsed < Ticks(MicroSeconds) + 2 * Gap
    BY DEF DelayExact
  <2>1. /\ MicroSeconds \in Nat /\ elapsed \in Nat /\ Gap \in Nat
        /\ elapsed >= Seen /\ elapsed <= Seen + Gap /\ Seen \in Nat
    BY GptAssumption DEF GptInv, GptTypes, Seen
  <2>2. Ticks(MicroSeconds) \in Nat /\ MicroSeconds * 33 < Ticks(MicroSeconds) * 1000 + 33
    <3>1. \A us \in Nat : Ticks(us) \in Nat /\ us * 33 < Ticks(us) * 1000 + 33
      BY TicksAre
    <3> QED
      BY <2>1, <3>1
  <2>3. Seen >= Ticks(MicroSeconds) /\ (InSight => Seen < Ticks(MicroSeconds) + Gap)
    BY DEF GptInv, CountTells
  <2> QED
    BY <2>1, <2>2, <2>3
<1> QED
  BY <1>1, <1>2, GptInitIs, PTL DEF GptSpec

-----------------------------------------------------------------------------
(* The charger.                                                            *)

\* What the voltage was when its first byte was read.
FirstByteOf(r) == msb = r \div 16 /\ raw \in IF torn THEN {r - 1, r + 1} ELSE {r}

\* The voltage may be read as less than it is, when the second byte is that of
\* the next step of the first, by no more than that step.
ReadAs(x) == voltage = Millivolts(x) /\ raw <= x + 16 /\ (~torn => raw = x)

ChargingInv ==
  /\ raw \in Nat
  /\ torn \in BOOLEAN /\ silent \in BOOLEAN
  /\ chargePc = "msb" => ~torn
  /\ chargePc = "lsb" /\ ~silent => \E r \in Nat : FirstByteOf(r)
  /\ chargePc = "decide" /\ ~silent => \E x \in Nat : ReadAs(x)

LEMMA ChargingInitIs == ChargingInit => ChargingInv
<1> SUFFICES ASSUME ChargingInit
             PROVE  ChargingInv
  OBVIOUS
<1>1. raw \in Nat
  BY ChargingAssumption DEF ChargingInit
<1> QED
  BY <1>1 DEF ChargingInit, ChargingInv

LEMMA DriftKeeps ==
  ASSUME ChargingInv, Drift
  PROVE  ChargingInv'
<1>1. /\ raw' \in {raw - 1, raw + 1} /\ raw' \in Nat /\ raw \in Nat
      /\ chargePc' = chargePc /\ msb' = msb /\ voltage' = voltage /\ silent' = silent
      /\ torn' = (torn \/ chargePc \in {"lsb", "decide"}) /\ (chargePc \in {"lsb", "decide"} => ~torn)
  BY ChargingAssumption DEF Drift, ChargingInv, hardware, charger
<1>2. torn' \in BOOLEAN /\ silent' \in BOOLEAN
  BY <1>1 DEF ChargingInv
<1>3. chargePc' = "msb" => ~torn'
  BY <1>1 DEF ChargingInv
<1>4. ASSUME chargePc' = "lsb", ~silent'
      PROVE  \E r \in Nat : FirstByteOf(r)'
  <2>1. PICK r \in Nat : FirstByteOf(r)
    BY <1>1, <1>4 DEF ChargingInv
  <2>2. raw = r /\ torn' = TRUE
    BY <1>1, <1>4, <2>1 DEF FirstByteOf
  <2>3. FirstByteOf(r)'
    BY <1>1, <2>1, <2>2 DEF FirstByteOf
  <2> QED
    BY <2>3
<1>5. ASSUME chargePc' = "decide", ~silent'
      PROVE  \E x \in Nat : ReadAs(x)'
  <2>1. PICK x \in Nat : ReadAs(x)
    BY <1>1, <1>5 DEF ChargingInv
  <2>2. raw = x /\ torn' = TRUE
    BY <1>1, <1>5, <2>1 DEF ReadAs
  <2>3. raw' <= x + 16
    BY <1>1, <2>2
  <2>4. ReadAs(x)'
    BY <1>1, <2>1, <2>2, <2>3 DEF ReadAs, Millivolts
  <2> QED
    BY <2>4
<1> QED
  BY <1>1, <1>2, <1>3, <1>4, <1>5 DEF ChargingInv

LEMMA ReadMsbKeeps ==
  ASSUME ChargingInv, NEW answers \in BOOLEAN, ReadMsb(answers)
  PROVE  ChargingInv'
<1>1. /\ raw' = raw /\ torn' = torn /\ silent' = ~answers /\ chargePc = "msb" /\ chargePc' = "lsb"
      /\ answers => msb' = raw \div 16
  BY DEF ReadMsb, hardware
<1>2. raw \in Nat /\ ~torn /\ torn' \in BOOLEAN
  BY <1>1 DEF ChargingInv
<1>3. ~silent' => \E r \in Nat : FirstByteOf(r)'
  <2> SUFFICES ASSUME ~silent'
               PROVE  \E r \in Nat : FirstByteOf(r)'
    OBVIOUS
  <2>1. PICK r \in Nat : r = raw
    BY <1>2
  <2>2. FirstByteOf(r)'
    BY <1>1, <1>2, <2>1 DEF FirstByteOf
  <2> QED
    BY <2>2
<1> QED
  BY <1>1, <1>2, <1>3 DEF ChargingInv

\* Two bytes that are not of the same voltage.
LEMMA TwoBytes ==
  ASSUME NEW r \in Nat, NEW v \in Nat, v \in {r - 1, r, r + 1}
  PROVE  /\ 16 * (r \div 16) + (v % 16) \in Nat
         /\ v <= 16 * (r \div 16) + (v % 16) + 16
         /\ v = r => 16 * (r \div 16) + (v % 16) = v
  OBVIOUS

LEMMA ReadLsbKeeps ==
  ASSUME ChargingInv, NEW answers \in BOOLEAN, ReadLsb(answers)
  PROVE  ChargingInv'
<1>1. /\ raw' = raw /\ torn' = torn /\ silent' = (silent \/ ~answers) /\ chargePc = "lsb" /\ chargePc' = "decide"
      /\ answers => voltage' = Millivolts(16 * msb + (raw % 16))
  BY DEF ReadLsb, hardware
<1>2. raw \in Nat /\ torn \in BOOLEAN /\ silent' \in BOOLEAN
  BY <1>1 DEF ChargingInv
<1>3. ASSUME ~silent'
      PROVE  \E x \in Nat : ReadAs(x)'
  <2>1. answers /\ ~silent
    BY <1>1, <1>3
  <2>2. PICK r \in Nat : FirstByteOf(r)
    BY <1>1, <2>1 DEF ChargingInv
  <2>3. raw \in {r - 1, r, r + 1} /\ (~torn => raw = r) /\ msb = r \div 16
    BY <1>2, <2>2 DEF FirstByteOf
  <2>4. PICK x \in Nat : x = 16 * (r \div 16) + (raw % 16)
    BY <1>2, <2>3, TwoBytes
  <2>5. voltage' = Millivolts(x) /\ raw <= x + 16 /\ (~torn => raw = x)
    BY <1>1, <1>2, <2>1, <2>3, <2>4, TwoBytes
  <2>6. ReadAs(x)'
    BY <1>1, <2>5 DEF ReadAs, Millivolts
  <2> QED
    BY <2>6
<1> QED
  BY <1>1, <1>2, <1>3 DEF ChargingInv

\* The other steps leave the gauge alone, or begin anew.
LEMMA OthersKeep ==
  ASSUME ChargingInv, raw' = raw, torn' \in BOOLEAN, silent' \in BOOLEAN, chargePc' \notin {"lsb", "decide"},
         chargePc' = "msb" => ~torn'
  PROVE  ChargingInv'
  BY DEF ChargingInv

LEMMA GaugeAlone ==
  ASSUME ChargingInv, raw' = raw, UNCHANGED gauge, chargePc' = chargePc \/ chargePc' \notin {"msb", "lsb", "decide"}
  PROVE  ChargingInv'
<1>1. CASE chargePc' = chargePc
  BY <1>1 DEF gauge, ChargingInv, FirstByteOf, ReadAs, Millivolts
<1>2. CASE chargePc' \notin {"msb", "lsb", "decide"}
  BY <1>2, OthersKeep DEF gauge, ChargingInv
<1> QED
  BY <1>1, <1>2

LEMMA ChargingStepKeeps ==
  ASSUME ChargingInv, [ChargingNext]_chargingVars
  PROVE  ChargingInv'
<1>1. CASE Cable
  BY <1>1, GaugeAlone DEF Cable
<1>2. CASE Exit
  BY <1>2, GaugeAlone DEF Exit, hardware
<1>3. CASE WantsCharging
  <2>1. raw' = raw /\ torn' = FALSE /\ silent' = FALSE
    BY <1>3 DEF WantsCharging, hardware
  <2>2. chargePc' \in {"msb", "led"}
    BY <1>3 DEF WantsCharging, LightFor
  <2> QED
    BY <2>1, <2>2, OthersKeep
<1>4. CASE Decide
  <2>1. raw' = raw /\ UNCHANGED gauge /\ chargePc' = "led"
    BY <1>4 DEF Decide, LightFor, hardware
  <2> QED
    BY <2>1, GaugeAlone
<1>5. ASSUME NEW answers \in BOOLEAN, Probe(answers)
      PROVE  ChargingInv'
  <2>1. raw' = raw /\ UNCHANGED gauge
    BY <1>5 DEF Probe, hardware
  <2>2. chargePc' \in {"idle", "asserts", "probe"}
    BY <1>5 DEF Probe
  <2> QED
    BY <2>1, <2>2, GaugeAlone
<1>6. ASSUME NEW answers \in BOOLEAN, WriteLed(answers)
      PROVE  ChargingInv'
  <2>1. raw' = raw /\ UNCHANGED gauge
    BY <1>6 DEF WriteLed, hardware
  <2>2. chargePc' \in {"led", "last led", "idle", "exited"}
    BY <1>6 DEF WriteLed
  <2> QED
    BY <2>1, <2>2, GaugeAlone
<1>7. CASE UNCHANGED chargingVars
  BY <1>7, GaugeAlone DEF chargingVars, gauge
<1> QED
  BY <1>1, <1>2, <1>3, <1>4, <1>5, <1>6, <1>7, DriftKeeps, ReadMsbKeeps, ReadLsbKeeps
     DEF ChargingNext, ChargingStep, MicroP, Gauge

\* Only the decision goes on to the light from there.
LEMMA DecidesRightly ==
  ASSUME ChargingInv, [ChargingNext]_chargingVars, chargePc = "decide", chargePc' = "led", ~silent, Colour(gState') = "amber"
  PROVE  Millivolts(raw) < HighVoltage
<1>1. Decide
  BY DEF ChargingNext, ChargingStep, MicroP, Gauge, chargingVars, Cable, Drift, Exit, WantsCharging, Probe, WriteLed,
         ReadMsb, ReadLsb
<1>2. gState' = IF voltage >= Threshold THEN "FULL" ELSE IF ac THEN "AC" ELSE "USB_LOW"
  BY <1>1 DEF Decide, SetCharger
<1>3. ~ (voltage >= Threshold)
  BY <1>2 DEF Colour
<1>4. PICK x \in Nat : ReadAs(x)
  BY DEF ChargingInv
<1>5. x <= 1680
  BY <1>3, <1>4 DEF ReadAs, Millivolts, Threshold
<1>6. raw \in Nat /\ raw <= 1696
  BY <1>4, <1>5 DEF ReadAs, ChargingInv
<1> QED
  BY <1>6 DEF Millivolts, HighVoltage

\* A battery that the gauge tells about is never charged at the high voltage, for
\* any course of the voltage between the polls, although the two bytes may be of
\* different voltages (WantsCharging, lines 154-176 of ChargingDxe.c,
\* ds2746_voltage, lines 17-28).
THEOREM BatteryIsSpared == ChargingSpec => StopsInTime
<1>1. ChargingInv /\ [ChargingNext]_chargingVars => ChargingInv'
  BY ChargingStepKeeps
<1>2. ChargingInv /\ [ChargingNext]_chargingVars
        => [chargePc = "decide" /\ chargePc' = "led" /\ ~silent /\ Colour(gState') = "amber"
              => Millivolts(raw) < HighVoltage]_chargingVars
  BY DecidesRightly
<1> QED
  BY <1>1, <1>2, ChargingInitIs, PTL DEF ChargingSpec, StopsInTime
=============================================================================
