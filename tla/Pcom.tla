---------------------------------- MODULE Pcom ----------------------------------
(***************************************************************************)
(* The proc-comm mailbox of pcom.c, its clients in pcom_clients.c and the    *)
(* reboot of PlatformResetLib.c.  Four words shared with the modem, and one  *)
(* call that writes a command, rings, polls for the answer and clears the    *)
(* mailbox; nothing keeps an event handler from calling while the code it    *)
(* interrupted is in a call.                                                *)
(***************************************************************************)
EXTENDS Naturals, Sequences, SequencesExt

CONSTANTS
  Levels,   \* bound: how deep calls may be nested (one per task priority level)
  Pins      \* how many pins a card slot has: 6 or 10 in the code

ASSUME PcomAssumption == Levels \in Nat /\ Pins \in Nat \ {0}

VARIABLES
  mail,     \* APP_COMMAND, APP_STATUS, APP_DATA1 and APP_DATA2
  bell,     \* MSM_A2M_INT(6) is pending
  ready,    \* MDM_STATUS says that the modem listens
  calls,    \* the calls in progress, the outermost first
  reason    \* the words at LK_BOOTREASON_ADDR: "none", "first" or "both"

pcomVars == <<mail, bell, ready, calls, reason>>

Request == {"get", "set_level", "set", "reset", "power_down"}
Ending == {"reset", "power_down"}   \* of the program, too

\* What a client asks for, one command after the other.
VregOn == <<"set_level", "set">>
VregOff == <<"set">>                \* and the power of the memory card, on and off
GpioConfig == [pin \in 1..Pins |-> "set"]
SetOnce == <<"set">>     \* a clock's rate, flags or state; the USB's power, reset or clock
QueryClock == <<"get">>

Commands(client) ==
  CASE client = "vreg_on" -> VregOn
    [] client = "vreg_off" -> VregOff
    [] client = "pins" -> GpioConfig
    [] client = "set" -> SetOnce
    [] client = "get" -> QueryClock
    [] client = "reboot" -> <<"reset">>
    [] OTHER -> <<"power_down">>   \* "shutdown"
Client == {"vreg_on", "vreg_off", "pins", "set", "get", "reboot", "shutdown"}

\* These repeat each command until APP_STATUS says that it succeeded.
Persistent == {"vreg_on", "vreg_off"}

Arg(level) == <<"argument", level>>
Level == Len(calls)
Top == calls[Level]
Command(call) == Commands(call.client)[call.step]

NewCall(client) ==
  [client |-> client, step |-> 1, pc |-> IF client = "reboot" THEN "reason" ELSE "ready",
   d1 |-> Arg(Level + 1), status |-> "none", did |-> <<>>, disturbed |-> FALSE]

PcomInit ==
  /\ mail = [command |-> "idle", status |-> "none", d1 |-> <<"nothing">>, d2 |-> <<"nothing">>]
  /\ bell = FALSE /\ ready = FALSE /\ calls = <<>> /\ reason = "none"

-----------------------------------------------------------------------------
(* msm_proc_comm, one access to the mailbox at a time.  It is the innermost  *)
(* call that runs.                                                         *)

At(pc) == calls # <<>> /\ Top.pc = pc
Goto(pc) == calls' = [calls EXCEPT ![Level].pc = pc]

\* An event handler runs, whatever the code below it is doing, and calls.
Call(client) ==
  /\ Level < Levels
  /\ \A n \in 1..Level : calls[n].pc \notin Ending
  /\ calls' = Append(calls, NewCall(client))
  /\ UNCHANGED <<mail, bell, ready, reason>>

\* Mutant: the call is made before the second word is there.
WriteReason_Half ==
  /\ At("reason")
  /\ reason' = (IF reason = "none" THEN "first" ELSE reason) /\ Goto("ready")
  /\ UNCHANGED <<mail, bell, ready>>

\* PlatformReboot leaves the reason, and then its check word, to the next boot.
WriteReason ==
  /\ \/ At("reason") /\ reason' = (IF reason = "none" THEN "first" ELSE reason) /\ Goto("check_word")
     \/ At("check_word") /\ reason' = "both" /\ Goto("ready")
  /\ UNCHANGED <<mail, bell, ready>>

WaitForModemReady ==
  /\ At("ready") /\ ready
  /\ Goto("command")
  /\ UNCHANGED <<mail, bell, ready, reason>>

\* A call that finds another one under way disturbs it, and is disturbed.
Underway == {"data1", "data2", "notify", "wait", "status", "copy", "idle", "check"}
WriteCommand ==
  /\ At("command")
  /\ mail' = [mail EXCEPT !.command = Command(Top)]
  /\ LET nested == {n \in 1..Level - 1 : calls[n].pc \in Underway} IN
     calls' = [n \in 1..Level |->
                 [calls[n] EXCEPT !.disturbed = @ \/ n \in nested \/ (n = Level /\ nested # {}),
                                  !.pc = IF n = Level THEN "data1" ELSE @]]
  /\ UNCHANGED <<bell, ready, reason>>

WriteData1 ==
  /\ At("data1")
  /\ mail' = [mail EXCEPT !.d1 = Top.d1] /\ Goto("data2")
  /\ UNCHANGED <<bell, ready, reason>>

WriteData2 ==
  /\ At("data2")
  /\ mail' = [mail EXCEPT !.d2 = Arg(Level)] /\ Goto("notify")
  /\ UNCHANGED <<bell, ready, reason>>

NotifyModem ==
  /\ At("notify")
  /\ bell' = TRUE /\ Goto("wait")
  /\ UNCHANGED <<mail, ready, reason>>

\* Mutant: waits for a success.
WaitForDone_Success ==
  /\ At("wait") /\ mail.command = "done" /\ mail.status = "success"
  /\ Goto("status")
  /\ UNCHANGED <<mail, bell, ready, reason>>

WaitForDone ==
  /\ At("wait") /\ mail.command = "done"
  /\ Goto("status")
  /\ UNCHANGED <<mail, bell, ready, reason>>

ReadStatus ==
  /\ At("status")
  /\ calls' = [calls EXCEPT ![Level].status = mail.status, ![Level].pc = "copy"]
  /\ UNCHANGED <<mail, bell, ready, reason>>

CopyData ==
  /\ At("copy")
  /\ calls' = [calls EXCEPT ![Level].d1 = IF Top.status = "fail" THEN @ ELSE mail.d1, ![Level].pc = "idle"]
  /\ UNCHANGED <<mail, bell, ready, reason>>

\* The client goes on to its next command if this one is done with.
NextCommand(done) ==
  LET last == Top.step = Len(Commands(Top.client)) IN
  calls' = [calls EXCEPT ![Level].step = IF done /\ ~last THEN @ + 1 ELSE @,
                         ![Level].pc = IF done /\ last THEN "return" ELSE "ready"]

WriteIdle ==
  /\ At("idle")
  /\ mail' = [mail EXCEPT !.command = "idle"]
  /\ IF Top.client \in Persistent THEN Goto("check") ELSE NextCommand(TRUE)
  /\ UNCHANGED <<bell, ready, reason>>

\* Mutant: a command that the modem refused is taken for done.
CheckStatus_NotFail ==
  /\ At("check") /\ NextCommand(mail.status # "fail")
  /\ UNCHANGED <<mail, bell, ready, reason>>

\* The loops of pcom_clients.c read APP_STATUS again, after the call.
CheckStatus ==
  /\ At("check") /\ NextCommand(mail.status = "success")
  /\ UNCHANGED <<mail, bell, ready, reason>>

\* PlatformReboot and ResetShutdown go on to CpuDeadLoop.
Return ==
  /\ At("return") /\ Top.client \notin {"reboot", "shutdown"}
  /\ calls' = Front(calls)
  /\ UNCHANGED <<mail, bell, ready, reason>>

-----------------------------------------------------------------------------
(* The modem, as the code expects it.                                      *)

\* It begins to listen; a bell that rang before is lost.
ModemReady == ~ready /\ ready' = TRUE /\ bell' = FALSE /\ UNCHANGED <<mail, calls, reason>>

\* Whose request is in the mailbox, if it is one caller's and complete.
Owners ==
  {n \in 1..Level : calls[n].pc = "wait" /\ Command(calls[n]) = mail.command
                    /\ mail.d1 = Arg(n) /\ mail.d2 = Arg(n)}

\* It answers a request with one of several outcomes, writes data only for a
\* request that asks for some, and ignores a bell with no request.  Of a
\* disturbed call did has nothing more to say.
Serve ==
  /\ ready /\ bell /\ bell' = FALSE
  /\ UNCHANGED <<ready, reason>>
  /\ IF mail.command \notin Request THEN UNCHANGED <<mail, calls>>
     ELSE \E status \in {"success", "fail", "refused"} :
            /\ mail' = [mail EXCEPT !.command = "done", !.status = status,
                                    !.d1 = IF status = "success" /\ mail.command = "get"
                                           THEN <<"answer">> \o SetToSeq(Owners) ELSE @]
            /\ calls' = [n \in 1..Level |->
                           [calls[n] EXCEPT
                              !.did = IF status = "success" /\ n \in Owners /\ ~calls[n].disturbed THEN Append(@, mail.command) ELSE @,
                              !.pc = IF status = "success" /\ mail.command \in Ending THEN mail.command ELSE @]]

\* The chip starts again.
Reboot ==
  /\ At("reset") \/ At("power_down")
  /\ mail' = [command |-> "idle", status |-> "none", d1 |-> <<"nothing">>, d2 |-> <<"nothing">>]
  /\ bell' = FALSE /\ ready' = FALSE /\ calls' = <<>> /\ reason' = "none"

Step ==
  \/ WriteReason \/ WaitForModemReady \/ WriteCommand \/ WriteData1 \/ WriteData2 \/ NotifyModem
  \/ WaitForDone \/ ReadStatus \/ CopyData \/ WriteIdle \/ CheckStatus \/ Return

\* A caller may wait for ever, and a reboot that the modem refused stays.
PcomNext ==
  \/ Step \/ ModemReady \/ Serve \/ Reboot
  \/ \E client \in Client : Call(client)

\* The processor runs and the modem answers.
PcomFairness == WF_pcomVars(Step) /\ WF_pcomVars(ModemReady) /\ WF_pcomVars(Serve)
PcomSpec == PcomInit /\ [][PcomNext]_pcomVars /\ PcomFairness

-----------------------------------------------------------------------------
(* Properties.                                                             *)

\* A call that no other one has disturbed returns the answer to its own
\* request, and its arguments unchanged if there is none (lines 71-100).
OwnAnswer ==
  At("return") /\ ~Top.disturbed =>
    /\ Top.client = "get" /\ Top.status = "success" => Top.d1 = <<"answer", Level>>
    /\ Top.status # "success" => Top.d1 = Arg(Level) /\ Top.did # Commands(Top.client)

\* A client that insists returns when the modem has done each of its commands,
\* once and in order, unless it was disturbed (pcom_clients.c lines 30-65).
DoneInOrder ==
  At("return") /\ ~Top.disturbed /\ Top.client \in Persistent => Top.did = Commands(Top.client)

\* The only way to wait for ever for the answer is to have been interrupted by
\* another call, or to have interrupted one: it has cleared the mailbox (line 97).
StuckMeansDisturbed ==
  At("wait") /\ ~bell /\ mail.command # "done" => Top.disturbed

\* Calls that nobody has disturbed are served, though others were disturbed
\* before them: theirs is the answer, all of their commands are done, and none
\* of them waits for an answer that will not come.
UndisturbedAreServed == OwnAnswer /\ DoneInOrder /\ StuckMeansDisturbed

\* The chip is never reset before the boot reason and its check word are there,
\* whoever has disturbed whom (PlatformResetLib.c lines 24-35).
ResetFindsReason == At("reset") => reason = "both"

\* An undisturbed call gets its answer.
InCall(n) == Level >= n /\ calls[n].pc \in Underway
Disturbed(n) == Level >= n /\ calls[n].disturbed
CallsReturn == \A n \in 1..Levels : InCall(n) ~> (~InCall(n) \/ Disturbed(n))
=============================================================================
