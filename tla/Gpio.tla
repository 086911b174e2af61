---------------------------------- MODULE Gpio ----------------------------------
(***************************************************************************)
(* The pins of GpioDxe.c and who uses them.  A pin is a bit of two registers *)
(* of its bank, direction (oe) and level (out), and a call reads and writes  *)
(* back a whole register: event handlers of a higher priority may call in    *)
(* between.  HtcLeoVibrationLib is here too, for its pin.                    *)
(***************************************************************************)
EXTENDS Naturals, Sequences, SequencesExt

VARIABLES
  group,    \* which users there are: those of the drivers, or the vibration and the bus
  reg,      \* the registers: <<"oe" or "out", pin>> -> 0..1
  asked,    \* what they would hold if no access were ever interrupted
  calls,    \* the programs that run, the outermost first
  timers,   \* the vibration's timer events: "none", "set", or set once and "over"
  due       \* one of them has expired

gpioVars == <<group, reg, asked, calls, timers, due>>

\* The pins in use; KeyOut and KeyIn are one row and one column of the keys.
ChargerEnable == 22
ChargerCurrent == 16
KeyOut == 33
KeyIn == 42
KeyLight == 48
PowerKey == 94
I2cClock == 95
I2cData == 96
VibratorOn == 100
SdStatus == 153
Pins == {ChargerEnable, ChargerCurrent, KeyOut, KeyIn, KeyLight, PowerKey, I2cClock, I2cData,
         VibratorOn, SdStatus}

\* GPIO_REGS, find_gpio: the banks and their first pins.
GPIO_REGS == <<0, 16, 43, 68, 95, 104, 122, 153, 165>>
find_gpio(pin) == CHOOSE i \in 1..8 : GPIO_REGS[i] <= pin /\ pin < GPIO_REGS[i + 1]

-----------------------------------------------------------------------------
(* The accesses that the calls make, in their order.                       *)

gpio_config(pin, dir) == << <<"oe", pin, dir>> >>
gpio_set(pin, on) == gpio_config(pin, 1) \o << <<"out", pin, on>> >>
gpio_get(pin) == gpio_config(pin, 0)

\* A user has a priority, 0 to 2 for TPL_APPLICATION, TPL_CALLBACK and
\* TPL_NOTIFY, and a program.
User(priority, program) == [priority |-> priority, program |-> program]

\* The charger's high current is chosen before it is enabled, the low one after.
SetCharger(state) ==
  LET Enable(e) == gpio_set(ChargerEnable, e) \o gpio_config(ChargerEnable, 1)
      Current(c) == gpio_set(ChargerCurrent, c) \o gpio_config(ChargerCurrent, 1)
  IN CASE state = "AC" -> Current(1) \o Enable(0)
       [] state = "USB_LOW" -> Enable(0) \o Current(0)
       [] state = "OFF" -> Enable(1) \o Current(1)

\* KeypadDeviceImplGetKeys, with a key that lights the keys.
GetKeys ==
  User(2, gpio_get(PowerKey) \o gpio_set(KeyOut, 0) \o gpio_get(KeyIn) \o gpio_set(KeyOut, 1)
            \o gpio_set(KeyLight, 1))
DisableKeyPadLed == User(1, gpio_set(KeyLight, 0))

\* msm_i2c_recover_bus_busy, one round of it, when the driver starts or in the
\* timer of the charger.
Recover ==
  gpio_get(I2cData) \o gpio_set(I2cClock, 0) \o gpio_set(I2cData, 0) \o gpio_get(I2cClock)
    \o gpio_config(I2cData, 0)

SdCardIn == User(0, gpio_get(SdStatus))

VibrateOn == User(0, gpio_set(VibratorOn, 1))
VibrateOff == User(1, gpio_set(VibratorOn, 0))

Users ==
  IF group = "drivers"
  THEN {User(2, SetCharger(state)) : state \in {"AC", "USB_LOW", "OFF"}}
         \cup {GetKeys, DisableKeyPadLed, SdCardIn}
  ELSE {User(0, Recover), User(2, Recover)}

-----------------------------------------------------------------------------
Level == Len(calls)
Top == calls[Level]
Access == Head(Top.program)

GpioInit ==
  /\ group \in {"drivers", "vibration"}
  /\ reg = [r \in {"oe", "out"} \X Pins |-> 0] /\ asked = reg
  /\ calls = <<>> /\ timers = "none" /\ due = FALSE

Run(user) ==
  /\ calls = <<>> \/ \A n \in 1..Level : calls[n].priority < user.priority
  /\ calls' = Append(calls, [priority |-> user.priority, program |-> user.program, value |-> <<>>])

Start(user) == Run(user) /\ UNCHANGED <<group, reg, asked, timers, due>>

\* readl: the bits of all pins of the bank.
Bits(r, pin) == [q \in {q \in Pins : find_gpio(q) = find_gpio(pin)} |-> reg[<<r, q>>]]

ReadRegister ==
  /\ calls # <<>> /\ Top.value = <<>>
  /\ calls' = [calls EXCEPT ![Level].value = Bits(Access[1], Access[2])]
  /\ UNCHANGED <<group, reg, asked, timers, due>>

\* writel: all of them, with the pin's own bit changed.
WriteRegister ==
  /\ calls # <<>> /\ Top.value # <<>>
  /\ reg' = [x \in DOMAIN reg |->
               IF x = <<Access[1], Access[2]>> THEN Access[3]
               ELSE IF x[1] = Access[1] /\ x[2] \in DOMAIN Top.value THEN Top.value[x[2]] ELSE reg[x]]
  /\ asked' = [asked EXCEPT ![<<Access[1], Access[2]>>] = Access[3]]
  /\ calls' = IF Len(Top.program) = 1 THEN Front(calls)
              ELSE [calls EXCEPT ![Level].program = Tail(@), ![Level].value = <<>>]
  /\ UNCHANGED <<group, timers, due>>

\* htcleo_vibrate_timer: the motor, then a new timer event.  CreateEvent or
\* SetTimer may fail: the ASSERTs let it go on, with the events there are.
Vibrate ==
  /\ group = "vibration" /\ Run(VibrateOn)
  /\ timers' \in {timers, "set"}
  /\ UNCHANGED <<group, reg, asked, due>>

\* The timer events are periodic and stay for ever.
Expire ==
  /\ timers = "set" /\ ~due /\ due' = TRUE
  /\ UNCHANGED <<group, reg, asked, calls, timers>>

\* Mutant: the timer is set once.
StopVibration_Once ==
  /\ due /\ due' = FALSE /\ Run(VibrateOff)
  /\ timers' = "over"
  /\ UNCHANGED <<group, reg, asked>>

StopVibration ==
  /\ due /\ due' = FALSE /\ Run(VibrateOff)
  /\ UNCHANGED <<group, reg, asked, timers>>

GpioStep == ReadRegister \/ WriteRegister
GpioNext == GpioStep \/ Vibrate \/ Expire \/ StopVibration \/ \E user \in Users : Start(user)

\* Code goes on after every handler that interrupts it, the timer ticks, and a
\* handler that is due runs when the priority falls.
GpioFairness == (\A n \in 1..3 : SF_gpioVars(GpioStep /\ Level = n)) /\ WF_gpioVars(Expire) /\ SF_gpioVars(StopVibration)
GpioSpec == GpioInit /\ [][GpioNext]_gpioVars /\ GpioFairness

-----------------------------------------------------------------------------
(* Properties.                                                             *)

\* No access undoes another's that came in between, on any pin but the three of
\* bank 4, which are used at different priorities (gpio_config, gpio_set, lines
\* 190-228, and their callers).
AsAsked ==
  \A x \in DOMAIN reg : x[2] \notin {I2cClock, I2cData, VibratorOn} => reg[x] = asked[x]

\* The lines of the bus are never left driven (I2CDxe.c, lines 307-329).
BusReleased == calls = <<>> => reg[<<"oe", I2cClock>>] = 0 /\ reg[<<"oe", I2cData>>] = 0

\* Once a timer event could be made and set, every vibration ends, although a
\* recovery of the bus may switch it on again; one without an event is not ended
\* by anything (htcleo_vibrate_timer, lines 44-59).
Vibrates == reg[<<"oe", VibratorOn>>] = 1 /\ reg[<<"out", VibratorOn>>] = 1
VibrationStops == (Vibrates /\ timers # "none") ~> ~Vibrates

\* The users of the pins keep out of each other's way, and the vibration and the
\* driven bus come to their end.
PinsAsAsked == [](AsAsked /\ BusReleased) /\ VibrationStops
=============================================================================
