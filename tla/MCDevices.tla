------------------------------ MODULE MCDevices ------------------------------
(***************************************************************************)
(* The drivers of devices, each on its own: the parts of the keypad, the   *)
(* I2C bus, the SD card and its size, and the tables of partitions.        *)
(***************************************************************************)
EXTENDS KeyQueue, KeypadDevice, KeypadBinding, I2CDxe, SdCard, Partitions

VARIABLES
  focus,  \* the part a behaviour is about
  made, left, expired, current, running, led, stopped,
  csd, resp, decoded, csdPc

\* The ring has four slots (three usable), small enough for TLC and large
\* enough for the indices to wrap and for pushes to overrun the reader.
MCMaxCount == 4

Led == INSTANCE KeypadLed WITH LedTime <- 3, MaxEvents <- 4, queued <- expired

\* The LED command of the micro-controller (a write of three bytes) and reads
\* of one, two and three bytes.
Out(n) == [read |-> FALSE, len |-> n]
In(n) == [read |-> TRUE, len |-> n]
MCTransfers == {<<Out(3)>>} \cup {<<Out(1), In(n)>> : n \in 1..3}

\* Standard cards with blocks of 512 and 1024 bytes, a high capacity card, one
\* whose table lies behind the search limit, one with an unknown CSD structure.
Plain == [mult |-> 1, blocks |-> 3, hc |-> FALSE, known |-> TRUE, mbr |-> 0]
MCCards ==
  {Plain, [Plain EXCEPT !.mbr = 1, !.hc = TRUE], [Plain EXCEPT !.mbr = 2],
   [Plain EXCEPT !.mult = 2, !.blocks = 2], [Plain EXCEPT !.known = FALSE]}

\* The sizes of standard and high capacity cards, and of structures that are
\* newer, at the ends of their fields and on both sides of a word's.
Size == INSTANCE Csd WITH
  Structures <- {0, 1, 2}, Lengths <- {9, 10, 11}, Multipliers <- {0, 5, 7}, Noises <- BOOLEAN,
  Sizes <- <<{0, 1, 6, 2730, 4095}, {0, 15, 4095, 65535, 65536, 1048575}, {0, 4095}>>,
  mmc_dev <- decoded

\* Flash tables of every version, with full and missing names, too short and
\* too long for their entry, and RAM tables of every version.
Named(n, s) == [name |-> n, start |-> s, kind |-> "none"]
Ram(k, s) == [name |-> <<>>, start |-> s, kind |-> k]
Table(v, z, ps) == [version |-> v, magic |-> TRUE, size |-> z, parts |-> ps]
MCNames == {<<"0", "MODEM">>, <<"0", "APPS">>, <<>>}
MCFlash ==
  {Table(v, IF v = 3 THEN 2 ELSE 3, [i \in 1..3 |-> Named(f[i], i)]) : v \in {3, 4}, f \in [1..3 -> MCNames]}
  \cup {Table(v, 3, <<Named(<<"0", "APPS">>, 1)>>) : v \in {4, 5}}
  \cup {Table(4, 2, <<Named(<<"0", "APPS">>, 1)>>), Table(4, 4, [i \in 1..4 |-> Named(<<"0", "APPS">>, i)]),
        [Table(4, 3, <<>>) EXCEPT !.magic = FALSE]}
MCRam ==
  {Table(v, 3, [i \in 1..2 |-> Ram(f[i], i)]) : v \in {0, 2}, f \in {<<"system", "system">>, <<"none", "system">>}}
  \cup {Table(3, 3, <<Ram("system", 1)>>), Table(2, 2, <<Ram("system", 1)>>),
        [Table(1, 3, <<Ram("system", 1)>>) EXCEPT !.magic = FALSE]}

ASSUME LightAssumption == Led!LedAssumption

ledVars == <<made, left, expired, current, running, led, stopped>>
csdVars == <<csd, resp, decoded, csdPc>>
keypadVars == <<vars, deviceVars, bindingVars, ledVars>>
busVars == <<i2cVars, sdVars>>
tableVars == <<csdVars, partVars>>
allVars == <<focus, keypadVars, busVars, tableVars>>

MCInit ==
  /\ focus \in {"queue", "device", "binding", "led", "i2c", "sd", "size", "flash", "ram"}
  /\ Init /\ DeviceInit /\ BindingInit /\ Led!Init /\ I2CInit /\ SdInit
  /\ focus # "sd" => card = Plain
  /\ Size!CsdInit /\ PartInit
  /\ focus # "size" => csd = [structure |-> 0, length |-> 9, size |-> 0, multiplier |-> 0, noise |-> FALSE]

KeypadStep ==
  \/ focus = "queue" /\ Next /\ UNCHANGED <<deviceVars, bindingVars, ledVars>>
  \/ focus = "device" /\ DeviceNext /\ UNCHANGED <<vars, bindingVars, ledVars>>
  \/ focus = "binding" /\ BindingNext /\ UNCHANGED <<vars, deviceVars, ledVars>>
  \/ focus = "led" /\ Led!Next /\ UNCHANGED <<vars, deviceVars, bindingVars>>

BusStep ==
  \/ focus = "i2c" /\ I2CNext /\ UNCHANGED sdVars
  \/ focus = "sd" /\ SdNext /\ UNCHANGED i2cVars

\* The two tables have nothing to do with each other.
OneTable == \A e \in Entries \ {focus} : smem'[e] = Blank

TableStep ==
  \/ focus = "size" /\ Size!CsdNext /\ UNCHANGED partVars
  \/ focus \in {"flash", "ram"} /\ PartNext /\ OneTable /\ UNCHANGED csdVars

MCNext ==
  /\ UNCHANGED focus
  /\ \/ KeypadStep /\ UNCHANGED <<busVars, tableVars>>
     \/ BusStep /\ UNCHANGED <<keypadVars, tableVars>>
     \/ TableStep /\ UNCHANGED <<keypadVars, busVars>>

\* Time goes on and queued callbacks run; the processor goes on, and the
\* interrupt handler runs when it may.
MCSpec ==
  /\ MCInit /\ [][MCNext]_allVars
  /\ WF_ledVars(focus = "led" /\ Led!Tick) /\ WF_ledVars(focus = "led" /\ Led!DisableKeyPadLed)
  /\ WF_i2cVars(focus = "i2c" /\ Transfer) /\ WF_i2cVars(focus = "i2c" /\ I2CInterruptHandler)
  /\ WF_sdVars(focus = "sd" /\ Driver)

\* The properties of the other parts, each stated in its module.
LedGoesDark == Led!LedGoesDark
SizeIsTheCards == Size!SizeIsTheCards

\* Every transfer over the bus and every request to the card returns, whatever
\* they meet.
TransfersReturn == CallReturns /\ RequestReturns
=============================================================================
