-------------------------------- MODULE ConIn --------------------------------
(***************************************************************************)
(* The keyboard half of the console splitter (ConSplitter.c): every input  *)
(* device that is started joins mConIn, and mConIn is read, reset and      *)
(* registered with as if it were one keyboard.                             *)
(*                                                                         *)
(* Callers and the driver binding run at TPL_APPLICATION, one call at a    *)
(* time; a keystroke and the toggle notification a device delivers come    *)
(* between any two steps of SetState and Reset, the calls that walk over   *)
(* the devices twice.                                                      *)
(***************************************************************************)
EXTENDS Naturals, SequencesExt

CONSTANTS
  Device,      \* the keyboards
  ExDevice,    \* those with SimpleTextInEx
  Unit,        \* CONSOLE_SPLITTER_ALLOC_UNIT
  Reg,         \* notifications a caller may register
  SyncReg,     \* the registration of ToggleStateSyncKeyNotify
  KeyBound     \* bound: keystrokes of one device

ASSUME ConInAssumption ==
  ExDevice \subseteq Device /\ Unit \in Nat \ {0} /\ KeyBound \in Nat

VARIABLES
  textIn, textInCount,      \* TextInList and its capacity
  textInEx, exCount,        \* TextInExList and its capacity
  keyQueue, queueCount,     \* KeyQueue and its capacity
  notifyList,               \* nodes [reg, handles]
  signalled,                \* KeyEventSignalState
  physical, exported,       \* PhysicalKeyToggleState, VirtualKeyStateExported
  setting,                  \* the SetState or Reset in progress
  open,                     \* devices managed by the driver
  devKeys, devToggle, devRegs, pending,   \* what the devices hold
  made, partialKeys, lastRead,            \* history of the keystrokes
  cleared, resetMark,       \* history: last key when the device, the splitter was reset
  torn,                     \* history: the toggle states were left different
  removed                   \* history: a device has left the splitter

lists    == <<textIn, textInCount, textInEx, exCount, queueCount, notifyList, open, removed>>
toggles  == <<physical, exported, devToggle, torn>>
keys     == <<keyQueue, devKeys, made, partialKeys, lastRead, cleared, resetMark, signalled>>
vars     == <<lists, toggles, keys, setting, devRegs, pending>>

\* PhysicalKeyToggleState always has the valid and exposed bits; what is left
\* of it is whether CapsLock is lit.
Toggle == {0, 1}

Calm == [kind |-> "none", value |-> 0, export |-> FALSE, at |-> 1, raced |-> FALSE, failed |-> FALSE]
Idle == setting = Calm

Regs == {SyncReg} \cup Reg
NoHandle == "none"
Capacity(node) == Len(node.handles)

\* ToggleStateSyncInitialization registers its function before any device.
Init ==
  /\ textIn = <<>> /\ textInCount = Unit
  /\ textInEx = <<>> /\ exCount = Unit
  /\ keyQueue = <<>> /\ queueCount = Unit
  /\ notifyList = <<[reg |-> SyncReg, handles |-> [i \in 1..Unit |-> NoHandle]]>>
  /\ signalled = FALSE
  /\ physical = 0 /\ exported = FALSE
  /\ setting = Calm
  /\ open = {}
  /\ devKeys = [d \in Device |-> <<>>]
  /\ devToggle = [d \in Device |-> 0]
  /\ devRegs = [d \in Device |-> {}]
  /\ pending = [d \in Device |-> <<>>]
  /\ made = [d \in Device |-> 0]
  /\ partialKeys = {}
  /\ lastRead = [d \in Device |-> 0]
  /\ cleared = [d \in Device |-> 0]
  /\ resetMark = [d \in Device |-> 0]
  /\ torn = FALSE /\ removed = FALSE

-----------------------------------------------------------------------------
(* The devices.                                                            *)

\* A partial key has neither a scan code nor a character.
Press(d) ==
  /\ made[d] < KeyBound
  /\ made' = [made EXCEPT ![d] = @ + 1]
  /\ \E partial \in BOOLEAN :
       LET key == [dev |-> d, n |-> made[d] + 1] IN
       /\ devKeys' = [devKeys EXCEPT ![d] = Append(@, key)]
       /\ partialKeys' = IF partial THEN partialKeys \cup {key} ELSE partialKeys
  /\ UNCHANGED <<lists, toggles, keyQueue, lastRead, cleared, resetMark, signalled, setting, devRegs, pending>>

\* CapsLock: the device changes its state and queues a notification.
PressToggle(d) ==
  /\ d \in ExDevice /\ pending[d] = <<>>
  /\ devToggle' = [devToggle EXCEPT ![d] = 1 - @]
  /\ pending' = [pending EXCEPT ![d] = IF SyncReg \in devRegs[d] THEN <<1 - devToggle[d]>> ELSE @]
  /\ UNCHANGED <<lists, physical, exported, torn, keys, setting, devRegs>>

Real(key) == key \notin partialKeys
HasKey(d) == \E i \in DOMAIN devKeys[d] : Real(devKeys[d][i])

SetOn(ds, value) == devToggle' = [d \in Device |-> IF d \in ds THEN value ELSE devToggle[d]]

-----------------------------------------------------------------------------
(* Toggle states: one lamp for all keyboards.                              *)

\* What a notification does to the call it interrupts: SetState goes on with
\* its own value, Reset has one more device that may have refused.
Interrupts(refused) ==
  setting' = CASE setting.kind = "set" -> [setting EXCEPT !.raced = TRUE]
               [] setting.kind = "reset" -> [setting EXCEPT !.failed = @ \/ refused]
               [] OTHER -> setting

\* ToggleStateSyncKeyNotify runs in one piece above the callers' level.
\* A device that refuses the state keeps its own.
ToggleStateSyncKeyNotify(d) ==
  /\ pending[d] # <<>>
  /\ pending' = [pending EXCEPT ![d] = <<>>]
  /\ physical' = Head(pending[d])
  /\ \E taking \in SUBSET ToSet(textInEx) :
       LET refused == taking # ToSet(textInEx) IN
       IF physical' = physical
       THEN taking = {} /\ Interrupts(FALSE) /\ UNCHANGED <<devToggle, torn>>
       ELSE SetOn(taking, physical') /\ torn' = refused /\ Interrupts(refused)
  /\ UNCHANGED <<lists, exported, keys, devRegs>>

SetState(value, export) ==
  /\ Idle
  /\ setting' = [Calm EXCEPT !.kind = "set", !.value = value, !.export = export]
  /\ UNCHANGED <<lists, toggles, keys, devRegs, pending>>

\* SetState passes its own copy of the state, Reset the shared variable, which
\* a notification may have changed since.
Passed == IF setting.kind = "set" THEN setting.value ELSE physical

\* The next device takes the state, or refuses it: SetState then returns at
\* once, the loop of ToggleStateSyncReInitialization goes on.
SetNext ==
  /\ ~Idle /\ setting.at \in DOMAIN textInEx
  /\ \/ /\ SetOn({textInEx[setting.at]}, Passed)
        /\ setting' = [setting EXCEPT !.at = @ + 1]
        /\ UNCHANGED torn
     \/ /\ setting.kind = "set"
        /\ setting' = Calm
        /\ torn' = TRUE
        /\ UNCHANGED devToggle
     \/ /\ setting.kind = "reset"
        /\ setting' = [setting EXCEPT !.at = @ + 1, !.failed = TRUE]
        /\ UNCHANGED <<devToggle, torn>>
  /\ UNCHANGED <<lists, physical, exported, keys, devRegs, pending>>

SetDone ==
  /\ ~Idle /\ setting.at = Len(textInEx) + 1
  /\ setting' = Calm
  /\ torn' = (setting.raced \/ setting.failed)
  /\ \/ /\ setting.kind = "set"
        /\ physical' = setting.value
        /\ exported' = setting.export
        /\ UNCHANGED keyQueue
     \/ /\ setting.kind = "reset"
        /\ keyQueue' = <<>>
        /\ UNCHANGED <<physical, exported>>
  /\ UNCHANGED <<lists, devToggle, devKeys, made, partialKeys, lastRead, cleared, resetMark, signalled, devRegs, pending>>

\* Reset and ResetEx: a device that refuses keeps the splitter's own state,
\* and its queue, as it is.
ResetDevices(list) ==
  /\ Idle
  /\ signalled' = FALSE
  /\ \E done \in SUBSET ToSet(list) :
       /\ devKeys' = [d \in Device |-> IF d \in done THEN <<>> ELSE devKeys[d]]
       /\ SetOn(done \cap ExDevice, 0)
       /\ cleared' = [d \in Device |-> Max({cleared[d]}
            \cup (IF d \in done THEN {made[d]} ELSE {})
            \cup (IF done = ToSet(list) THEN {key.n : key \in {k \in ToSet(keyQueue) : k.dev = d}} ELSE {}))]
       /\ IF done = ToSet(list)
          THEN /\ physical' = 0 /\ exported' = FALSE
               /\ setting' = [Calm EXCEPT !.kind = "reset"]
               /\ resetMark' = [d \in Device |-> IF d \in done THEN made[d] ELSE resetMark[d]]
               /\ UNCHANGED torn
          ELSE torn' = TRUE /\ UNCHANGED <<physical, exported, setting, resetMark>>
  /\ UNCHANGED <<lists, keyQueue, made, partialKeys, lastRead, devRegs, pending>>

Reset == ResetDevices(textIn)
ResetEx == ResetDevices(textInEx)

-----------------------------------------------------------------------------
(* Keys.                                                                   *)

Deliver(key) == lastRead' = [lastRead EXCEPT ![key.dev] = key.n]

RealAt(queue) == {i \in DOMAIN queue : Real(queue[i])}
First(is) == CHOOSE i \in is : \A j \in is : i <= j
After(queue, i) == SubSeq(queue, i + 1, Len(queue))

\* Mutant: the devices are read although the splitter still holds keys.
ReadKeyStroke_DevicesOnly ==
  /\ Idle
  /\ signalled' = FALSE /\ keyQueue' = <<>>
  /\ LET holders == {i \in DOMAIN textIn : HasKey(textIn[i])} IN
     \/ holders = {} /\ UNCHANGED <<devKeys, lastRead>>
     \/ \E i \in holders :
          LET d == textIn[i] IN
          /\ Deliver(devKeys[d][First(RealAt(devKeys[d]))])
          /\ devKeys' = [devKeys EXCEPT ![d] = After(@, First(RealAt(@)))]
  /\ UNCHANGED <<lists, toggles, made, partialKeys, cleared, resetMark, setting, devRegs, pending>>

\* ReadKeyStroke: the first real key of the splitter's queue, else of the
\* devices in turn; the partial keys on the way are gone.
ReadKeyStroke ==
  /\ Idle
  /\ signalled' = FALSE
  /\ LET queued == RealAt(keyQueue)
         holders == {i \in DOMAIN textIn : HasKey(textIn[i])} IN
     IF queued # {}
     THEN /\ Deliver(keyQueue[First(queued)])
          /\ keyQueue' = After(keyQueue, First(queued))
          /\ UNCHANGED devKeys
     ELSE /\ keyQueue' = <<>>
          /\ LET last == IF holders = {} THEN Len(textIn) ELSE First(holders)
                 emptied == {textIn[i] : i \in 1..last}
                 from == {d \in emptied : HasKey(d)} IN
             /\ devKeys' = [d \in Device |->
                  IF d \in from THEN After(devKeys[d], First(RealAt(devKeys[d])))
                  ELSE IF d \in emptied THEN <<>> ELSE devKeys[d]]
             /\ IF from = {} THEN UNCHANGED lastRead
                ELSE \E d \in from : Deliver(devKeys[d][First(RealAt(devKeys[d]))])
  /\ UNCHANGED <<lists, toggles, made, partialKeys, cleared, resetMark, setting, devRegs, pending>>

\* The enumeration of a set of places from the first to the last.
InOrder(is) ==
  {order \in [1..Cardinality(is) -> is] : \A i, j \in DOMAIN order : i < j => order[i] < order[j]}

\* ReadKeyStrokeEx: one key of every device that answers goes to the queue,
\* partial keys only while they are exported; then the queue's first is read.
ReadKeyStrokeEx ==
  /\ Idle
  /\ signalled' = FALSE
  /\ \E answering \in SUBSET ToSet(textInEx) :
       LET HeadOf(i) == Head(devKeys[textInEx[i]])
           asked == {i \in DOMAIN textInEx :
                       keyQueue = <<>> /\ textInEx[i] \in answering /\ devKeys[textInEx[i]] # <<>>}
           kept == {i \in asked : exported \/ Real(HeadOf(i))} IN
       /\ devKeys' = [d \in Device |->
            IF \E i \in asked : textInEx[i] = d THEN Tail(devKeys[d]) ELSE devKeys[d]]
       /\ \E order \in InOrder(kept) :
            LET queue == keyQueue \o [n \in 1..Cardinality(kept) |-> HeadOf(order[n])] IN
            IF queue = <<>>
            THEN UNCHANGED <<keyQueue, lastRead>>
            ELSE Deliver(Head(queue)) /\ keyQueue' = Tail(queue)
  /\ UNCHANGED <<lists, toggles, made, partialKeys, cleared, resetMark, setting, devRegs, pending>>

\* ConSplitterTextInWaitForKey asks the devices, not the splitter's queue.
WaitForKey ==
  /\ signalled' = (signalled \/ \E i \in DOMAIN textIn : HasKey(textIn[i]))
  /\ UNCHANGED <<lists, toggles, keyQueue, devKeys, made, partialKeys, lastRead, cleared, resetMark, setting, devRegs, pending>>

-----------------------------------------------------------------------------
(* Notifications.                                                          *)

\* IsKeyRegistered: a state of zero in the registration stands for any.
IsKeyRegistered(registered, input) ==
  /\ registered.key = input.key
  /\ registered.toggle \in {0, input.toggle}

Registered(reg) ==
  \E i \in DOMAIN notifyList :
    /\ IsKeyRegistered(notifyList[i].reg, reg)
    /\ notifyList[i].reg.fn = reg.fn

\* Mutant: the devices that took the registration keep it when one refuses.
RegisterKeyNotify_NoRollback(reg) ==
  /\ Idle /\ ~Registered(reg)
  /\ \E good \in 0..Len(textInEx) :
       /\ devRegs' = [d \in Device |->
            IF \E i \in 1..good : textInEx[i] = d THEN devRegs[d] \cup {reg} ELSE devRegs[d]]
       /\ IF good = Len(textInEx)
          THEN notifyList' = Append(notifyList, [reg |-> reg, handles |->
                 [i \in 1..exCount |-> IF i <= good THEN textInEx[i] ELSE NoHandle]])
          ELSE UNCHANGED notifyList
  /\ UNCHANGED <<textIn, textInCount, textInEx, exCount, queueCount, open, removed,
                 toggles, keys, setting, pending>>

\* A handle is the device's own node of that registration: the name of the
\* device stands for it.
RegisterKeyNotify(reg) ==
  /\ Idle /\ ~Registered(reg)
  /\ \E good \in 0..Len(textInEx) :
       IF good = Len(textInEx)
       THEN /\ devRegs' = [d \in Device |->
                 IF Contains(textInEx, d) THEN devRegs[d] \cup {reg} ELSE devRegs[d]]
            /\ notifyList' = Append(notifyList, [reg |-> reg, handles |->
                 [i \in 1..exCount |-> IF i <= good THEN textInEx[i] ELSE NoHandle]])
       ELSE /\ devRegs' = [d \in Device |->
                 IF \E i \in 1..good : textInEx[i] = d THEN devRegs[d] \ {reg} ELSE devRegs[d]]
            /\ UNCHANGED notifyList
  /\ UNCHANGED <<textIn, textInCount, textInEx, exCount, queueCount, open, removed,
                 toggles, keys, setting, pending>>

\* Each device gets the handle at its present place in the list; a handle of
\* another device is refused.
UnregisterKeyNotify(k) ==
  /\ Idle /\ k \in DOMAIN notifyList
  /\ LET node == notifyList[k] IN
     devRegs' = [d \in Device |->
       IF \E i \in DOMAIN textInEx : textInEx[i] = d /\ node.handles[i] = d
       THEN devRegs[d] \ {node.reg} ELSE devRegs[d]]
  /\ notifyList' = RemoveAt(notifyList, k)
  /\ UNCHANGED <<textIn, textInCount, textInEx, exCount, queueCount, open, removed,
                 toggles, keys, setting, pending>>

-----------------------------------------------------------------------------
(* Devices come and go.                                                    *)

Grown(node) == [node EXCEPT !.handles = @ \o [i \in 1..(exCount + Unit - Capacity(node)) |-> NoHandle]]

\* ConSplitterTextInExAddDevice.  When the list is full every node's handles,
\* the key queue and the list grow in this order, and any may fail.
GrowAll(done) ==
  /\ notifyList' = [k \in DOMAIN notifyList |-> IF k <= done THEN Grown(notifyList[k]) ELSE notifyList[k]]
  /\ queueCount' = IF done > Len(notifyList) THEN exCount + Unit ELSE queueCount
  /\ exCount' = IF done > Len(notifyList) + 1 THEN exCount + Unit ELSE exCount

\* A registration the device refuses takes the earlier ones back.
JoinEx(d, list) ==
  \E good \in 0..Len(list) :
    LET place == Len(textInEx) + 1 IN
    /\ notifyList' = [k \in DOMAIN list |-> IF k <= good THEN [list[k] EXCEPT !.handles[place] = d] ELSE list[k]]
    /\ IF good = Len(list)
       THEN /\ textInEx' = Append(textInEx, d)
            /\ devRegs' = [devRegs EXCEPT ![d] = @ \cup {list[k].reg : k \in 1..good}]
            /\ \/ SetOn({d}, physical) /\ UNCHANGED torn
               \/ torn' = TRUE /\ UNCHANGED devToggle
       ELSE /\ devRegs' = [devRegs EXCEPT ![d] = @ \ {list[k].reg : k \in 1..good}]
            /\ UNCHANGED <<textInEx, devToggle, torn>>

Full == Len(textInEx) >= exCount

ExAddDevice(d) ==
  LET all == Len(notifyList) + 2 IN
  IF ~Full
  THEN JoinEx(d, notifyList) /\ UNCHANGED <<exCount, queueCount>>
  ELSE \/ \E done \in 0..all - 1 :
            GrowAll(done) /\ UNCHANGED <<textInEx, devRegs, devToggle, torn>>
       \/ /\ JoinEx(d, [k \in DOMAIN notifyList |-> Grown(notifyList[k])])
          /\ queueCount' = exCount + Unit
          /\ exCount' = exCount + Unit

\* ConSplitterTextInAddDevice, when the list can grow.
TextInAddDevice(d) ==
  /\ textIn' = Append(textIn, d)
  /\ textInCount' = IF Len(textIn) >= textInCount THEN textInCount + Unit ELSE textInCount

\* ConSplitterConInDriverBindingStart: what fails after ConSplitterStart has
\* opened the device leaves it open, and in TextInList.
Start(d) ==
  /\ Idle /\ d \notin open
  /\ open' = open \cup {d}
  /\ \/ /\ Len(textIn) >= textInCount
        /\ UNCHANGED <<textIn, textInCount, textInEx, exCount, queueCount, notifyList, devRegs, devToggle, torn>>
     \/ /\ TextInAddDevice(d)
        /\ IF d \in ExDevice
           THEN ExAddDevice(d)
           ELSE UNCHANGED <<textInEx, exCount, queueCount, notifyList, devRegs, devToggle, torn>>
  /\ UNCHANGED <<removed, physical, exported, keys, setting, pending>>

\* The first entry of a device leaves its list, and the later ones move up.
Without(list, d) ==
  IF Contains(list, d) THEN RemoveAt(list, First({i \in DOMAIN list : list[i] = d})) ELSE list

\* The device keeps its registrations, and the nodes keep their handles where
\* they are.
TextInExDeleteDevice(d) == textInEx' = Without(textInEx, d)
TextInDeleteDevice(d) == textIn' = Without(textIn, d)

\* ConSplitterConInDriverBindingStop.  A device with SimpleTextInEx that is not
\* in TextInExList cannot be stopped.
Stop(d) ==
  /\ Idle /\ d \in open
  /\ d \in ExDevice => Contains(textInEx, d)
  /\ TextInExDeleteDevice(d)
  /\ TextInDeleteDevice(d)
  /\ open' = open \ {d}
  /\ removed' = TRUE
  /\ UNCHANGED <<textInCount, exCount, queueCount, notifyList, toggles, keys, setting, devRegs, pending>>

-----------------------------------------------------------------------------
Next ==
  \/ \E d \in Device : Press(d) \/ PressToggle(d) \/ ToggleStateSyncKeyNotify(d) \/ Start(d) \/ Stop(d)
  \/ \E value \in Toggle, export \in BOOLEAN : SetState(value, export)
  \/ SetNext \/ SetDone
  \/ Reset \/ ResetEx
  \/ ReadKeyStroke \/ ReadKeyStrokeEx \/ WaitForKey
  \/ \E reg \in Reg : RegisterKeyNotify(reg)
  \/ \E k \in 2..Len(notifyList) : UnregisterKeyNotify(k)

Spec == Init /\ [][Next]_vars

-----------------------------------------------------------------------------
(* Properties.                                                             *)

Key == [dev : Device, n : 1..KeyBound]
Node == [reg : Regs, handles : Seq(Device \cup {NoHandle})]

\* Every variable has its type.
TypeOK ==
  /\ textIn \in Seq(Device) /\ textInEx \in Seq(ExDevice)
  /\ {textInCount, exCount, queueCount} \subseteq Nat
  /\ keyQueue \in Seq(Key)
  /\ notifyList \in Seq(Node)
  /\ {signalled, exported, torn, removed} \subseteq BOOLEAN
  /\ physical \in Toggle
  /\ setting \in [kind : {"none", "set", "reset"}, value : Toggle, export : BOOLEAN, at : Nat,
                  raced : BOOLEAN, failed : BOOLEAN]
  /\ open \subseteq Device
  /\ devKeys \in [Device -> Seq(Key)]
  /\ devToggle \in [Device -> Toggle]
  /\ devRegs \in [Device -> SUBSET Regs]
  /\ pending \in [Device -> Seq(Toggle)]
  /\ partialKeys \subseteq Key
  /\ {made, lastRead, cleared, resetMark} \subseteq [Device -> 0..KeyBound]

\* No list outgrows its buffer, whatever growth has failed: the two device
\* lists, the key queue, which takes one key of each device, and each node's
\* handles, which are indexed by the place of the device (lines 1973-2006).
BuffersSuffice ==
  /\ Len(textIn) <= textInCount
  /\ Len(textInEx) <= exCount
  /\ Len(textInEx) <= queueCount
  /\ keyQueue # <<>> => Len(keyQueue) < queueCount
  /\ \A k \in DOMAIN notifyList : Len(textInEx) <= Capacity(notifyList[k])

\* A registered function is registered with every listed device, after
\* devices came, went, and refused; and until the first device has left, with
\* nothing else registered there (lines 2011-2029, 4048-4069, 4113-4118).
NotifyEverywhere ==
  \A i \in DOMAIN textInEx :
    LET wanted == {notifyList[k].reg : k \in DOMAIN notifyList} IN
    /\ wanted \subseteq devRegs[textInEx[i]]
    /\ ~removed => devRegs[textInEx[i]] = wanted

\* When no call and no notification is under way, every listed keyboard shows
\* the toggle state mConIn has, unless the last change of it was refused by a
\* device or a notification came in the middle of SetState (lines 325-336,
\* 415-420, 3946-3959).
TogglesAgree ==
  (Idle /\ ~torn /\ \A d \in Device : pending[d] = <<>>) =>
    \A i \in DOMAIN textInEx : devToggle[textInEx[i]] = physical

\* The keys of a device that wait to be read: in the splitter's queue, and
\* behind them in the device.
Queued(d) == {i \in DOMAIN keyQueue : keyQueue[i].dev = d}
Waiting(d) == {keyQueue[i].n : i \in Queued(d)} \cup {key.n : key \in ToSet(devKeys[d])}

\* The keystrokes of a device are read in the order they were made and no
\* real one is lost but to a reset of the device; no key from before a
\* successful reset of the splitter is left to be read (lines 3478-3484,
\* 3548-3587, 3826-3892).
KeysInOrder ==
  \A d \in Device :
    /\ \A i, j \in Queued(d) : i < j => keyQueue[i].n < keyQueue[j].n
    /\ \A i, j \in DOMAIN devKeys[d] : i < j => devKeys[d][i].n < devKeys[d][j].n
    /\ \A i \in Queued(d), j \in DOMAIN devKeys[d] : keyQueue[i].n < devKeys[d][j].n
    /\ \A n \in Waiting(d) : n > lastRead[d] /\ (Idle => n > resetMark[d])
    /\ \A n \in 1..made[d] :
         (n > lastRead[d] /\ n > cleared[d] /\ Real([dev |-> d, n |-> n])) => n \in Waiting(d)

\* The signal state is only left set while a device still has a key to read or
\* has left with it (lines 3463, 3618, 3657-3673, 3748, 3812).
SignalIsHonest == signalled => removed \/ \E i \in DOMAIN textIn : HasKey(textIn[i])

\* A device is in a list at most once, only while it is managed by the driver,
\* and in the list of extended devices only with its plain protocol.
ListedOnce ==
  /\ IsInjective(textIn) /\ IsInjective(textInEx)
  /\ ToSet(textInEx) \subseteq ToSet(textIn)
  /\ ToSet(textIn) \subseteq open

\* The lists, buffers and registrations fit each other, after any sequence of
\* devices that came, went and refused and of growths that failed.
ListsInStep == TypeOK /\ BuffersSuffice /\ NotifyEverywhere /\ ListedOnce

\* What is read, signalled and lit is what the keyboards have.
InputAgrees == TogglesAgree /\ KeysInOrder /\ SignalIsHonest
=============================================================================
