-------------------------------- MODULE Charging --------------------------------
(***************************************************************************)
(* The charger of ChargingDxe.c: every 100 ms a timer asks the modem for the *)
(* cable and DS2746Lib for the battery's voltage, sets the charger's pins and *)
(* has MicroPDxe.c write the colour of the light.  Cable, voltage and buses   *)
(* change under it.                                                        *)
(***************************************************************************)
EXTENDS Integers

CONSTANTS
  Raws,    \* bound: the battery's voltages, in the gauge's units of 2.44 mV
  Retries  \* MSM_I2C_WRITE_RETRY_TIMES: 16 in the code

\* The gauge has twelve bits.
ASSUME ChargingAssumption == Raws \subseteq 0..4095 /\ Retries \in Nat

VARIABLES
  usb, ac,   \* the cable: the modem sees it; it is that of a charger
  raw,       \* the battery's voltage
  gState,    \* what the charger is set to
  enable, current, \* its pins: low enables it, high is the high current
  led,       \* the colour of the light
  chargePc, tries, \* where the driver is, and the transfers that failed
  msb, voltage, \* the first byte that was read; the voltage in mV
  torn, silent, \* the voltage changed behind the first byte; the gauge did not answer
  colour     \* the colour that is being written

chargingVars == <<usb, ac, raw, gState, enable, current, led, chargePc, tries, msb, voltage, torn, silent, colour>>
hardware == <<usb, ac, raw>>
charger == <<gState, enable, current>>
gauge == <<msb, voltage, torn, silent>>

Millivolts(r) == (r * 2440) \div 1000
\* Mutant: the battery is full at its highest voltage.
Threshold_Highest == 4200

Threshold == 4100   \* VOLTAGE_4100
HighVoltage == 4200 \* DS2746_HIGH_VOLTAGE

Colour(state) == CASE state \in {"AC", "USB_LOW"} -> "amber"
                   [] state = "FULL" -> "green"
                   [] state = "OFF" -> "off"

ChargingInit ==
  /\ usb \in BOOLEAN /\ ac \in BOOLEAN /\ raw \in Raws
  /\ gState = "OFF" /\ enable = 1 /\ current = 1 /\ led = "off"
  /\ chargePc = "probe" /\ tries = 0 /\ msb = 0 /\ voltage = 0 /\ torn = FALSE /\ silent = FALSE
  /\ colour = "off"

\* The cable comes and goes, the voltage drifts: not twice from the first byte to
\* the decision.
Cable ==
  /\ \/ usb' = ~usb /\ UNCHANGED ac
     \/ ac' = ~ac /\ UNCHANGED usb
  /\ UNCHANGED <<raw, charger, led, chargePc, tries, gauge, colour>>

Drift ==
  /\ raw' \in {raw - 1, raw + 1} \cap Raws
  /\ chargePc \in {"lsb", "decide"} => ~torn
  /\ torn' = (torn \/ chargePc \in {"lsb", "decide"})
  /\ UNCHANGED <<usb, ac, charger, led, chargePc, tries, msb, voltage, silent, colour>>

-----------------------------------------------------------------------------
(* MicroPDxe.c: a transfer is tried Retries + 1 times.                       *)

\* microp_i2c_probe reads the version once; without it there is no protocol
\* and ChargingDxeInit asserts.
Probe(answers) ==
  /\ chargePc = "probe"
  /\ IF answers THEN chargePc' = "idle" /\ tries' = 0
     ELSE tries' = tries + 1 /\ chargePc' = IF tries = Retries THEN "asserts" ELSE "probe"
  /\ UNCHANGED <<hardware, charger, led, gauge, colour>>

\* htcleo_led_set_mode, microp_i2c_write: a failure is not reported.
WriteLed(answers) ==
  /\ chargePc \in {"led", "last led"}
  /\ led' = IF answers THEN colour ELSE led
  /\ LET over == answers \/ tries = Retries IN
     /\ tries' = IF over THEN 0 ELSE tries + 1
     /\ chargePc' = IF ~over THEN chargePc ELSE IF chargePc = "led" THEN "idle" ELSE "exited"
  /\ UNCHANGED <<hardware, charger, gauge, colour>>

-----------------------------------------------------------------------------
(* ChargingDxe.c.                                                          *)

\* The pins and USB_USBCMD are written only when the state is another one.
\* UlpiWrite gives up after 10000 reads, and nobody asks whether it did.
SetCharger(state) ==
  /\ gState' = state
  /\ enable' = IF state = gState THEN enable ELSE IF Colour(state) = "amber" THEN 0 ELSE 1
  /\ current' = IF state = gState THEN current ELSE IF state = "USB_LOW" THEN 0 ELSE 1

LightFor(state) == colour' = Colour(state) /\ chargePc' = "led"

\* WantsCharging, CheckUsbStatus: no cable switches the charger off.
WantsCharging ==
  /\ chargePc = "idle"
  /\ torn' = FALSE /\ silent' = FALSE /\ msb' = 0 /\ voltage' = 0
  /\ IF usb THEN chargePc' = "msb" /\ UNCHANGED <<charger, colour>>
     ELSE SetCharger("OFF") /\ LightFor("OFF")
  /\ UNCHANGED <<hardware, led, tries>>

\* ds2746_voltage reads two bytes of a register of 16 bits, the low four of
\* them unused, and leaves a byte undefined that the gauge does not send.
ReadMsb(answers) ==
  /\ chargePc = "msb" /\ chargePc' = "lsb"
  /\ silent' = ~answers
  /\ IF answers THEN msb' = raw \div 16 ELSE msb' \in {0, 255}
  /\ UNCHANGED <<hardware, charger, led, tries, voltage, torn, colour>>

ReadLsb(answers) ==
  /\ chargePc = "lsb" /\ chargePc' = "decide"
  /\ silent' = (silent \/ ~answers)
  /\ \E lsb \in IF answers THEN {raw % 16} ELSE {0, 15} : voltage' = Millivolts(16 * msb + lsb)
  /\ UNCHANGED <<hardware, charger, led, tries, msb, torn, colour>>

\* Mutant: a charger that is on is left as it is.
Decide_KeepsCurrent ==
  /\ chargePc = "decide"
  /\ LET state == IF voltage >= Threshold THEN "FULL"
                  ELSE IF gState \in {"AC", "USB_LOW"} THEN gState
                  ELSE IF ac THEN "AC" ELSE "USB_LOW"
     IN SetCharger(state) /\ LightFor(state)
  /\ UNCHANGED <<hardware, led, tries, gauge>>

Decide ==
  /\ chargePc = "decide"
  /\ LET state == IF voltage >= Threshold THEN "FULL" ELSE IF ac THEN "AC" ELSE "USB_LOW"
     IN SetCharger(state) /\ LightFor(state)
  /\ UNCHANGED <<hardware, led, tries, gauge>>

\* ExitBootServicesEvent, at the priority of the timer: never inside of it.
Exit ==
  /\ chargePc = "idle"
  /\ SetCharger("OFF") /\ colour' = "off" /\ chargePc' = "last led"
  /\ UNCHANGED <<hardware, led, tries, gauge>>

MicroP(answers) == Probe(answers) \/ WriteLed(answers)
Gauge(answers) == ReadMsb(answers) \/ ReadLsb(answers)
ChargingStep == WantsCharging \/ Decide \/ \E answers \in BOOLEAN : MicroP(answers) \/ Gauge(answers)
ChargingNext == Cable \/ Drift \/ Exit \/ ChargingStep

\* The timer ticks, and no bus fails for ever.
ChargingFairness ==
  WF_chargingVars(ChargingStep) /\ SF_chargingVars(WriteLed(TRUE)) /\ SF_chargingVars(Probe(TRUE))
ChargingSpec == ChargingInit /\ [][ChargingNext]_chargingVars /\ ChargingFairness

-----------------------------------------------------------------------------
(* Properties.                                                             *)

\* A battery that the gauge tells about is not charged at DS2746_HIGH_VOLTAGE,
\* although the two bytes may be those of different voltages (WantsCharging,
\* lines 154-176, ds2746_voltage, lines 17-28).
StopsInTime ==
  [][chargePc = "decide" /\ chargePc' = "led" /\ ~silent /\ Colour(gState') = "amber"
       => Millivolts(raw) < HighVoltage]_chargingVars

\* A cable that stays decides the current in the end, whatever the charger was
\* set to before (lines 159-176).
ChargerWaits == usb /\ ac /\ ~silent /\ ~torn /\ Millivolts(raw) < Threshold
FollowsCable ==
  <>[]ChargerWaits => <>[](chargePc \in {"asserts", "last led", "exited"} \/ gState = "AC")

\* The light comes to tell the charger's state again and again, whatever
\* transfers have failed (lines 177, 189 and 200).
LightTells == []<>(chargePc \in {"asserts", "exited"} \/ led = Colour(gState))
=============================================================================
