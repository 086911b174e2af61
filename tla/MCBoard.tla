------------------------------- MODULE MCBoard -------------------------------
(***************************************************************************)
(* What the drivers stand on, each part on its own: the pins, the delays   *)
(* and the charger.                                                        *)
(***************************************************************************)
EXTENDS GptTimer, Charging

VARIABLES
  focus,  \* the part a behaviour is about
  group, reg, asked, calls, timers, due

Board == INSTANCE Gpio

\* A counter of four bits, read three ticks later at most: delays of no tick, of one,
\* and of up to a turn.
MCDelays == {0, 1, 31, 250, 430}

\* Voltages around VOLTAGE_4100, DS2746_HIGH_VOLTAGE and a step of the first
\* byte (1712 = 107 * 16).
MCRaws == (1679..1681) \cup (1711..1712) \cup (1727..1728)

gpioVars == <<group, reg, asked, calls, timers, due>>

\* The parts a behaviour is not about stay in one initial state.
MCInit ==
  /\ focus \in {"pins", "delays", "charger"}
  /\ Board!GpioInit /\ GptInit /\ ChargingInit
  /\ focus # "pins" => group = "vibration"
  /\ focus # "charger" => ~usb /\ ~ac /\ raw = 1679

MCNext ==
  /\ UNCHANGED focus
  /\ \/ focus = "pins" /\ Board!GpioNext /\ UNCHANGED <<gptVars, chargingVars>>
     \/ focus = "delays" /\ GptNext /\ UNCHANGED <<gpioVars, chargingVars>>
     \/ focus = "charger" /\ ChargingNext /\ UNCHANGED <<gpioVars, gptVars>>

boardVars == <<gpioVars, gptVars, chargingVars>>

OfPins(step) == focus = "pins" /\ step /\ UNCHANGED <<gptVars, chargingVars>>
OfDelays(step) == focus = "delays" /\ step /\ UNCHANGED <<gpioVars, chargingVars>>
OfCharger(step) == focus = "charger" /\ step /\ UNCHANGED <<gpioVars, gptVars>>

\* The fairness of each module.  A behaviour is about one part for ever, so that
\* one condition can be that of several.
Runs ==
  OfPins(Board!Expire) \/ OfDelays(GptStep) \/ OfCharger(ChargingStep)
First ==
  \/ OfPins(Board!GpioStep /\ Board!Level = 1)
  \/ OfCharger(WriteLed(TRUE))
Second ==
  \/ OfPins(Board!GpioStep /\ Board!Level = 2)
  \/ OfCharger(Probe(TRUE))
MCSpec ==
  /\ MCInit /\ [][MCNext]_<<focus, boardVars>>
  /\ WF_boardVars(Runs) /\ WF_boardVars(OfDelays(Tick))
  /\ SF_boardVars(First) /\ SF_boardVars(Second) /\ SF_boardVars(OfPins(Board!GpioStep /\ Board!Level = 3))
  /\ SF_boardVars(OfPins(Board!StopVibration))

\* The property of the pins, stated in their module.
PinsAsAsked == Board!PinsAsAsked

\* Delays end, and the charger follows the cable and its light tells so, with
\* readings that are torn or missing and transfers that fail (MicroSecondDelay;
\* WantsCharging, lines 154-201).
BoardGoesOn == DelayEnds /\ FollowsCable /\ LightTells
=============================================================================
