------------------------------ MODULE ConBinding ------------------------------
(***************************************************************************)
(* The five driver bindings of the console splitter (ConSplitter.c): how a  *)
(* controller is held while a virtual console has it in its list, and what  *)
(* a failed Start or Stop leaves behind.                                    *)
(***************************************************************************)
EXTENDS FiniteSets

CONSTANTS
  Controller,  \* the handles of the devices
  Extended     \* those that have SimpleTextInputEx, too

VARIABLES
  virtual,     \* the virtual consoles whose protocols are installed
  there,       \* there[k]: the controllers with the protocols of kind k
  driver,      \* driver[k]: those whose device protocol is open BY_DRIVER
  child,       \* child[k]: and BY_CHILD_CONTROLLER
  listed,      \* listed[k]: those in the virtual console's list
  listedEx,    \* those in the list of extended keyboards
  failed       \* history: failed[k], those whose Start ended with an error

bindVars == <<virtual, there, driver, child, listed, listedEx, failed>>

Kind == {"ConIn", "SimplePointer", "AbsolutePointer", "ConOut", "StdErr"}
VirtualOf(k) == IF k \in {"SimplePointer", "AbsolutePointer"} THEN "ConIn" ELSE k
Empty == [k \in Kind |-> {}]

\* ConSplitterDriverEntry: each virtual console by itself may fail to be built
\* or installed; the bindings are there all the same.
BindInit ==
  /\ virtual \in SUBSET {"ConIn", "ConOut", "StdErr"}
  /\ there = Empty /\ driver = Empty /\ child = Empty /\ listed = Empty /\ failed = Empty
  /\ listedEx = {}

\* ConPlatform marks a controller as a console device; a protocol that a driver
\* has open is not taken away.
Plug(k, h) == /\ there' = [there EXCEPT ![k] = @ \cup {h}]
              /\ UNCHANGED <<virtual, driver, child, listed, listedEx, failed>>

Unplug(k, h) == /\ h \in there[k] \ driver[k]
                /\ there' = [there EXCEPT ![k] = @ \ {h}]
                /\ UNCHANGED <<virtual, driver, child, listed, listedEx, failed>>

\* ConSplitterSupported: the protocol can be opened, and is closed again.
Supported(k, h) == h \in there[k] \ driver[k]

\* ConSplitterStart: open for the driver, then for the child, then get the
\* interface; a failure closes what was opened.
Opened(k, h) == VirtualOf(k) \in virtual

HeldAfterStart(k, h, interface) ==
  LET now(set) == IF Opened(k, h) /\ interface THEN [set EXCEPT ![k] = @ \cup {h}] ELSE set IN
  driver' = now(driver) /\ child' = now(child)

\* What Start reports of a controller that was added.  A text console is an
\* error even then, unless it brought the graphics protocol.
Reported(k, graphics, ex) ==
  CASE k = "ConOut" -> graphics
    [] k = "StdErr" -> FALSE
    [] OTHER -> ex

\* The lists grow, or there is no memory.
ConSplitterStart(k, h) ==
  \E interface, memory, memoryEx, graphics \in BOOLEAN :
    LET held == Opened(k, h) /\ interface
        ex == k = "ConIn" /\ h \in Extended
        good == held /\ memory /\ Reported(k, graphics, ex => memoryEx) IN
    /\ Supported(k, h)
    /\ HeldAfterStart(k, h, interface)
    /\ listed' = IF held /\ memory THEN [listed EXCEPT ![k] = @ \cup {h}] ELSE listed
    /\ listedEx' = IF held /\ memory /\ ex /\ memoryEx THEN listedEx \cup {h} ELSE listedEx
    /\ failed' = [failed EXCEPT ![k] = IF good THEN @ \ {h} ELSE @ \cup {h}]
    /\ UNCHANGED <<virtual, there>>

\* The list of extended keyboards is the first a keyboard must be found in.
FoundEx(k, h) == k = "ConIn" /\ h \in Extended => h \in listedEx

\* Mutant: the controller is released before its Ex protocol is looked for.
Released_Early(k, h) == TRUE

Released(k, h) == FoundEx(k, h)

\* ConSplitterStop and what calls it; the core asks it for a controller that
\* the driver has open.  Without children nothing is done.
ConSplitterStop(k, h) ==
  /\ h \in driver[k] \cap child[k]
  /\ listedEx' = IF k = "ConIn" THEN listedEx \ {h} ELSE listedEx
  /\ IF Released(k, h)
     THEN driver' = [driver EXCEPT ![k] = @ \ {h}] /\ child' = [child EXCEPT ![k] = @ \ {h}]
     ELSE UNCHANGED <<driver, child>>
  /\ listed' = IF FoundEx(k, h) THEN [listed EXCEPT ![k] = @ \ {h}] ELSE listed
  /\ failed' = IF FoundEx(k, h) THEN [failed EXCEPT ![k] = @ \ {h}] ELSE failed
  /\ UNCHANGED <<virtual, there>>

BindNext ==
  \E k \in Kind, h \in Controller : Plug(k, h) \/ Unplug(k, h) \/ ConSplitterStart(k, h) \/ ConSplitterStop(k, h)
BindSpec == BindInit /\ [][BindNext]_bindVars

-----------------------------------------------------------------------------
(* Properties.                                                             *)

\* A controller in a list is held for the driver and for the child, so that it
\* cannot go while the virtual console calls it (lines 1087-1110, 1531-1543).
HeldWhileListed ==
  /\ \A k \in Kind : listed[k] \subseteq there[k] \cap driver[k] \cap child[k]
  /\ listedEx \subseteq listed["ConIn"]

\* What is held is in a list, or its Start reported an error; and it is held
\* for the driver and the child alike (lines 1133-1149, 1198-1219).
NothingLeaks ==
  \A k \in Kind : driver[k] = child[k] /\ driver[k] \subseteq listed[k] \cup failed[k]

\* What is listed is held and what is held is listed, whatever step has failed.
HeldAsListed == HeldWhileListed /\ NothingLeaks
=============================================================================
