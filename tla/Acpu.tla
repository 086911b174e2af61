---------------------------------- MODULE Acpu ----------------------------------
(***************************************************************************)
(* The processor's clock, acpuclock.c: the registers that choose its source, *)
(* the PLL, and the calls that change the speed, one register access at a    *)
(* time while the PLL settles at its own pace.                              *)
(***************************************************************************)
EXTENDS Naturals, Sequences

VARIABLES
  bank,     \* SPSS_CLK_CNTL: the configuration in each of the two RAW banks
  sel,      \* SPSS_CLK_SEL: the RAW bank and the source that are selected
  pll,      \* the mode, the next l-value and kind of switch, what comes out, whether it settles
  modemPll, \* the modem's PLL runs
  current,  \* current_speed, an index of acpu_freq_tbl, or NULL
  todo,     \* the accesses that the call under way has yet to make
  from, to  \* the speeds in kHz between which it moves

acpuVars == <<bank, sel, pll, modemPll, current, todo, from, to>>

\* acpu_freq_tbl: 245 MHz from the modem's PLL, then l-values 10 to 26.
acpu_freq_tbl ==
  [n \in 1..18 |-> IF n = 1 THEN [khz |-> 245000, source |-> "raw", l |-> 0]
                   ELSE [khz |-> 38400 * (n + 8), source |-> "pll", l |-> n + 8]]
Speed(khz) == CHOOSE n \in DOMAIN acpu_freq_tbl : acpu_freq_tbl[n].khz = khz
Standby == 1
NoSpeed == 0
FreqNum == 18   \* ClockDxe asks for acpu_freq_tbl[17], counted from 0

\* What the processor runs at; 0 if its clock is not there.
RawKhz(config) == IF config = "modem" /\ modemPll THEN 245000 ELSE 0
Khz == CASE sel.source = "raw" -> RawKhz(bank[sel.bank])
         [] sel.source = "pll" -> IF pll.busy THEN 0 ELSE pll.out * 38400
         [] sel.source = "axi" -> 128000
         [] sel.source = "none" -> 0

-----------------------------------------------------------------------------
(* The accesses that the functions of acpuclock.c make, in their order.     *)

SelectRaw == <<"bank", "flip", "raw">>
SelectPll == <<"pll">>
PowerDown == <<"wait", "standby", "power down">>

SetFreq == <<"wait", "start", "hop", "normal", "wait">>
StartPll == <<"standby", "shot", "normal", "wait">>

\* From the PLL the processor goes by way of the standby speed.
Switch(cur, next) ==
  IF acpu_freq_tbl[next].source = "pll"
  THEN (IF cur = Standby THEN <<>> ELSE SelectRaw) \o SetFreq \o SelectPll
  ELSE IF acpu_freq_tbl[cur].source = "pll" THEN SelectRaw \o SelectRaw \o PowerDown
       ELSE SelectRaw

-----------------------------------------------------------------------------
\* As the boot loader left it.
AcpuInit ==
  /\ bank \in [0..1 -> {"modem", "other"}]
  /\ sel \in [bank : 0..1, source : {"raw", "pll", "axi", "none"}]
  /\ pll \in [mode : {"normal"}, l : {16}, kind : {"hop"}, out : {16}, busy : {FALSE}]
             \cup [mode : {"power down"}, l : {16}, kind : {"hop"}, out : {0}, busy : {FALSE}]
  /\ sel.source = "pll" => pll.mode = "normal"
  /\ modemPll \in BOOLEAN
  /\ current = NoSpeed /\ todo = <<"find speed", "modem pll">> /\ from = 0 /\ to = 0

Do(access) == todo # <<>> /\ Head(todo) = access
Next == todo' = Tail(todo)

\* acpuclk_find_speed spins for ever unless it runs from the PLL or the bus.
FindSpeed ==
  /\ Do("find speed") /\ sel.source \in {"pll", "axi"}
  /\ from' = Khz /\ to' = acpu_freq_tbl[FreqNum].khz /\ Next
  /\ UNCHANGED <<bank, sel, pll, modemPll, current>>

\* The modem is asked for its PLL, then the register is read: off means to spin.
AskForModemPll ==
  /\ Do("modem pll") /\ modemPll
  /\ current' = FreqNum
  /\ todo' = SelectRaw \o PowerDown \o SetFreq \o SelectPll
  /\ UNCHANGED <<bank, sel, pll, modemPll, from, to>>

\* acpuclk_set_rate, for a speed of the table that is not the current one.
\* (Any other request returns at once.)
SetRate ==
  /\ todo = <<>> /\ current # NoSpeed
  /\ \E next \in DOMAIN acpu_freq_tbl \ {current} :
       /\ todo' = Switch(current, next) \o <<"done">>
       /\ from' = acpu_freq_tbl[current].khz /\ to' = acpu_freq_tbl[next].khz
  /\ UNCHANGED <<bank, sel, pll, modemPll, current>>

WriteBank ==
  /\ Do("bank") /\ Next
  /\ bank' = [bank EXCEPT ![1 - sel.bank] = "modem"]
  /\ UNCHANGED <<sel, pll, modemPll, current, from, to>>

Flip ==
  /\ Do("flip") /\ Next
  /\ sel' = [sel EXCEPT !.bank = 1 - @]
  /\ UNCHANGED <<bank, pll, modemPll, current, from, to>>

SelectSource ==
  /\ Do("raw") \/ Do("pll")
  /\ Next /\ sel' = [sel EXCEPT !.source = Head(todo)]
  /\ UNCHANGED <<bank, pll, modemPll, current, from, to>>

\* Mutant: waits for the PLL to be locked.
Wait_Locked ==
  /\ Do("wait") /\ ~pll.busy /\ pll.out # 0 /\ Next
  /\ UNCHANGED <<bank, sel, pll, modemPll, current, from, to>>

\* Reads SCPLL_STATUS until the PLL has settled.
Wait ==
  /\ Do("wait") /\ ~pll.busy /\ Next
  /\ UNCHANGED <<bank, sel, pll, modemPll, current, from, to>>

\* scpll_set_freq starts the PLL at l-value 10 if it does not run.
Start ==
  /\ Do("start")
  /\ todo' = (IF pll.mode = "normal" THEN <<>> ELSE StartPll) \o Tail(todo)
  /\ UNCHANGED <<bank, sel, pll, modemPll, current, from, to>>

\* SCPLL_CTL: the PLL stops, or begins to go where SCPLL_FSM_CTL_EXT says.
WriteMode ==
  /\ Do("standby") \/ Do("power down") \/ Do("normal")
  /\ pll' = IF Do("normal") THEN [pll EXCEPT !.mode = "normal", !.busy = TRUE]
            ELSE [pll EXCEPT !.mode = Head(todo), !.out = 0]
  /\ Next /\ UNCHANGED <<bank, sel, modemPll, current, from, to>>

\* SCPLL_FSM_CTL_EXT: 10 for the start, the speed's l-value for the hop.
WriteTarget ==
  /\ Do("shot") \/ Do("hop")
  /\ pll' = [pll EXCEPT !.kind = Head(todo),
                        !.l = IF Do("shot") THEN 10 ELSE acpu_freq_tbl[Speed(to)].l]
  /\ Next /\ UNCHANGED <<bank, sel, modemPll, current, from, to>>

\* The call is over: current_speed.
Done ==
  /\ Do("done") /\ Next
  /\ current' = Speed(to)
  /\ UNCHANGED <<bank, sel, pll, modemPll, from, to>>

\* The PLL hops only if it runs.
Settle ==
  /\ pll.busy
  /\ pll' = [pll EXCEPT !.busy = FALSE,
                        !.out = IF pll.kind = "hop" /\ pll.out = 0 THEN 0 ELSE pll.l]
  /\ UNCHANGED <<bank, sel, modemPll, current, todo, from, to>>

AcpuStep ==
  \/ FindSpeed \/ AskForModemPll \/ WriteBank \/ Flip \/ SelectSource
  \/ Wait \/ Start \/ WriteMode \/ WriteTarget \/ Done
AcpuNext == AcpuStep \/ SetRate \/ Settle
AcpuSpec == AcpuInit /\ [][AcpuNext]_acpuVars /\ WF_acpuVars(AcpuStep) /\ WF_acpuVars(Settle)

-----------------------------------------------------------------------------
(* Properties.                                                             *)

\* In the middle of a change the processor runs, and at the speed that it comes
\* from, the one it goes to, or the standby speed: never faster than both
\* (acpuclk_set_rate, lines 232-281, acpuclk_init, lines 304-348).
NeverWithoutClock ==
  to # 0 => Khz \in {from, to, acpu_freq_tbl[Standby].khz}

\* After a call the processor runs at current_speed, and the PLL is off if it
\* is not the source (lines 255-271).
AsCurrentSpeed ==
  to # 0 /\ todo = <<>> =>
    /\ Khz = acpu_freq_tbl[current].khz
    /\ sel.source = "raw" => pll.mode = "power down"

\* A change ends (the waits of lines 138, 164, 187 and 204).
ChangesEnd == current # NoSpeed /\ todo # <<>> ~> todo = <<>>

\* The processor always has a clock that its voltage allows, and a change of it
\* comes to its end.
ClockedThroughout == [](NeverWithoutClock /\ AsCurrentSpeed) /\ ChangesEnd
=============================================================================
