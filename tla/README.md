# Verification of msm8909Pkg

`msm8909Pkg` is UEFI firmware (EDK II) for the HTC HD2 (Leo) and its sister
boards, Qualcomm QSD8250 devices. This directory models its own drivers and
applications in TLA+, checks the models with TLC and proves the most important
properties with TLAPS. Paths are relative to `src/QSD8250Pkg`.

- Part 1: the system: components, their state, how they interact, what is hard
- Part 2: the modules, and how their state and actions correspond to the code
- Part 3: the runs, their bounds, the fairness assumed
- Part 4: the proofs
- Part 5: disagreements between the code and its comments
- Part 6: what is left out, and the plan

Conventions: definitions keep the C names where they translate a C function. An
operator named `X_Something` with the comment "Mutant" stands before `X`: it is
`X` with a plausible bug, and the property named for it in `PROJECT.json` must
fail when it takes the place of `X`.

## 1. The system

The firmware runs on one processor. There are no threads. What interleaves is

- the application or boot code at `TPL_APPLICATION`,
- notification functions of timer and other events, at `TPL_CALLBACK` and
  `TPL_NOTIFY`: such a function runs to completion, can be interrupted only by a
  higher level, and can be held off with `RaiseTPL`,
- interrupt handlers, dispatched by `InterruptDxe`,
- the hardware: the modem processor behind shared memory, the I2C controller and
  the chips on its bus, the SD card.

### Inventory

| component | state it keeps | operations | meets | hard behaviours | correct when |
|---|---|---|---|---|---|
| KeypadDxe, text input (`Drivers/KeypadDxe`) | two key rings, `NotifyList` and its nodes, lock flags, partial-key flag | timer poll, ReadKeyStroke(Ex), WaitForKey, Reset, SetState, RegisterKeyNotify, UnregisterKeyNotify, the notification handler | keypad device, console splitter, every application | callbacks that call the driver while it walks its list; rings that overflow; Reset between push and processing | keys are read and notified in order, none from before a Reset, no registration missed, no key stuck |
| KeypadDxe, binding | device record, four events, protocols | Start, Stop | DXE core | any service may fail half-way, Stop may be refused | nothing leaked, no handler without its device |
| Keypad device (`KeypadDeviceImplLib`, `KeypadDeviceHelperLib`) | key contexts, two bitmaps, keypad light and its timer | GetKeys, Reset, light callback | GPIO, KeypadDxe, MicroP | keys read one after the other share bitmaps; times at thresholds; a timer callback already queued | no press lost, repeats paced, combinations true, the light goes out |
| Console splitter, input (`ConSplitterDxe`) | lists of keyboards and pointers with growing buffers, registrations with a handle per keyboard, queue of partial keys, toggle state, pending motion | Add, Delete and Start, Stop of a device; read, wait, reset, toggle, register; pointer state | KeypadDxe, boot manager, every application | a device that comes, refuses or goes while registrations and keys exist; loops over devices interrupted by a notification | one keyboard: every registration on every device, no key lost, toggles agree, motion neither lost nor counted twice |
| Console splitter, output | list of consoles, table of modes per splitter, current mode, cursor, colours; list and modes of graphics outputs | Add, Delete; QueryMode, SetMode, OutputString, cursor, attribute, ClearScreen; graphics QueryMode and SetMode | graphics console, SimpleFb | tables merged from devices with different modes, growth that fails, a device in both splitters | a mode on offer exists on every console; what is reported is what is shown |
| Graphics console (`GraphicsConsoleDxe`) | modes, cursor, colours; the screen | Start, Stop; the text protocol | SimpleFb, console splitter | the cursor is an exclusive or; wrapping, wide characters, missing glyphs | the screen is a terminal's, the cursor is where it is and nowhere else |
| I2CDxe | `dev` record, `timeout` | `msm_i2c_write`, `msm_i2c_read`, handler | interrupt controller, clock, GPIO; MicroPDxe and DS2746Lib are clients | handler against the transfer; device errors; a busy wait that gives up; retries | bytes in order, once; errors reported, and only errors |
| MicroPDxe, DS2746Lib | a protocol flag | read, write, LED mode; battery voltage | I2CDxe, charging, keypad light | retries; a voltage read as two bytes | a command reaches the chip or fails |
| SdCardDxe, mmc | `mmc_dev`, card address, BlockIo media; the controller's error flags | initialise, ReadBlocks, WriteBlocks | clock, GPIO, partition and file system drivers | partial transfers, sticky error flags, unchecked results, bit fields across words | success means the data moved, an error means it did not; the size is the card's |
| MsmPcomLib, MsmPcomClientLib, PlatformResetLib | one mailbox in shared memory | `msm_proc_comm`, its clients, LibResetSystem | modem; clock, GPIO, I2C, charging | a caller in a timer function interrupts another caller's call; retries that reuse overwritten arguments | every caller gets its own answer, and gets one |
| GpioDxe, HtcLeoVibrationLib | pin registers, timers of the vibration | Get, Set, Config; vibrate for a time | keypad, charging, I2C, SD | unlocked read-modify-write at several priorities; reading reconfigures a pin; a timer that cannot be made | a change of one pin leaves the others; the motor stops if a timer could be set |
| ClockDxe, acpuclock | clock table, processor speed | enable, disable, set rate, frequency switch | proc-comm, PLLs | one lookup table that the modem's replies overwrite; order of PLL, divider, source and bank | the speed that was asked for; no step without a clock or above both speeds |
| InterruptDxe, TimerDxe, GPTTimerLib | handler table, controller registers, period; counter | register, enable, disable, dispatch, end of interrupt, SetTimerPeriod, MicroSecondDelay | every driver with an interrupt | nested dispatch, an interrupt ended twice, a counter that wraps | no interrupt lost, the period in force is the one asked for in whole milliseconds, delays are long enough and end |
| ChargingDxe | charger state | periodic handler | GPIO, proc-comm, DS2746Lib, MicroPDxe | every bus may fail, cable and voltage move under it | charger and light follow cable and battery |
| SmemDxe, SmemPtableDxe, PTableLib | tables in memory the modem writes, two parsed copies | find, parse, publish | nobody in the package | a table read while it is written, fixed sizes, names split in place | entries as the modem wrote them |
| Boot menu, memory dump (`HtcLeoMenuApp`) | options, selection, countdown, console modes, watchdog; input buffer | key loop, countdown, start, boot from volumes; hexadecimal prompt, file | keypad, console, boot services, file systems | a key against the countdown; applications that return; a failure in each step | the entry shown is the one started; nothing left open; the watchdog fed |
| Text console on the frame buffer (`FrameBufferSerialPortLib`) | position, colours, pixels | write, write critical | debug library: all drivers and interrupt handlers | a writer interrupts another, also in the middle of a new line; wrap and scroll | text inside the screen, and not written over |
| Tetris | board, piece, state, tick counter | key loop, timer function, moves, rows | keypad, console | timer function against the loop | the board is what the rules say |
| Charger application | as ChargingDxe, of which it is a copy | | | in no build file | |
| Log ring, boot manager, virtual clock, early start, SMBIOS, logo, UART, ACPI, host tools | none, or fixed | | | straight-line | |

`PROJECT.json` lists every component with its source files and status, and under
`hazards` the places that are hard to test, each with its line.

### How they interact, where it matters for the models

```
 application --> console splitter --ReadKeyStroke--> KeypadDxe --GetKeys--> keypad device --> GPIO
      ^               |  ^                           |   ^                    |
      |               |  +--- registrations      NotifyList                   +--> light --> MicroP --> I2C
      +--- notification function --------------------+   +-- 20 ms timer
 application --> console splitter --> graphics console --> SimpleFb        debug output --> frame buffer
 charging timer (TPL_NOTIFY) --> DS2746, MicroP --> I2C --> clock --> proc-comm --> modem
                             \--> GPIO, proc-comm
 file system --> BlockIo (SdCardDxe) --> mmc --> SD controller
 hardware --> InterruptDxe --> TimerDxe --> DXE core's timers --> all of the above
```

## 2. The modules

| module | models | checked in run |
|---|---|---|
| `KeyFifo` | what an `EFI_KEY_QUEUE` promises: a bounded first-in, first-out queue that drops its oldest key | `devices` (refined by `KeyQueue`) |
| `KeyQueue` | the ring buffer (`KeypadTextIn.c:26-73`, the reset of `KeypadController.c`) | `devices` |
| `KeypadDxe` | the text-input protocols and notification | `keypad`, `handlers` |
| `KeypadBinding` | Start, its error exit, Stop | `devices`, `binding_stop` |
| `KeypadDevice`, `KeypadLed` | the key state machine behind GetKeys; the keypad light and its timers | `devices`, `device_lost` |
| `I2CDxe` | the I2C driver, with the controller and device as external actions | `devices`, `i2c_done` |
| `SdCard`, `Csd` | the SD card driver, with card and controller as outcomes of a block; the size in the CSD register | `devices`, `sd_error` |
| `Partitions` | the flash and RAM tables in shared memory | `devices` |
| `Interrupts` | the interrupt controller and the timer driver | `handlers` |
| `ConIn`, `ConPointers` | the console splitter's keyboards and pointers | `splitter` |
| `ConOut`, `ConStyle`, `ConGop` | its text consoles, their colours, its graphics | `splitter` |
| `ConBinding` | its five driver bindings | `splitter` |
| `GraphicsConsole`, `GraphicsBinding` | the text console on graphics; its Start, Stop and modes | `screen` |
| `FbCon` | the text console on the frame buffer | `screen` |
| `Menu`, `MemoryDump`, `Tetris` | the applications | `screen`, `menu_back` |
| `Pcom` | the mailbox to the modem, its clients, the system reset | `modem` |
| `Clock`, `Acpu` | the clock protocol; the processor's speed changes | `modem` |
| `Gpio`, `GptTimer`, `Charging` | the pins and the vibration; busy-wait delays; the charger | `board` |
| `I2CDxeProofs` | theorems about the module of its name | |
| `SdCardProofs` | theorems about `SdCard` and `Partitions` | |
| `PcomProofs` | theorems about `Pcom` and `Clock` | |
| `ConInProofs` | theorems about `ConIn` and `ConPointers` | |
| `HandlersProofs` | theorems about `KeypadDxe`, `Interrupts`, `GptTimer` and `Charging` | |
| `KeypadProofs` | theorems about `KeyQueue`, `KeypadDevice` and `KeypadBinding` | |
| `SplitterProofs` | theorems about `ConBinding`, `ConGop`, `ConOut` and `ConStyle` | |
| `ScreenProofs` | theorems about `FbCon`, `MemoryDump`, `GraphicsBinding` and `GraphicsConsole` | |

The modules `MCDevices`, `MCHandlers`, `MCSplitter`, `MCScreen`, `MCModem` and `MCBoard`
cover several modules each: they extend those that are proved about, so that a run and a theorem
speak of the same definitions and TLC evaluates the assumptions, and instantiate the others. Their variable `focus` says which part a behaviour is about; it
never changes, and the other parts stay in one initial state. So the state space is the sum of
those of the parts, not their product, and nothing is claimed about parts at the same time,
except where a module composes them itself (`Interrupts`, `Gpio`, `Charging`, `SdCard`, `Pcom`).
A fairness condition of such a specification is of one part in each focus.

### KeypadDxe

A keystroke is a serial number, `typed[n]` its key; the rings hold serial numbers,
so that order, freshness and duplication can be read off them. The rings are
sequences here: `KeyQueue` implements `KeyFifo`, and `KeepNewest` is the drop-oldest
push (a push of several copies at once).

| variable | code |
|---|---|
| `keyQueue`, `notifyQueue` | `EfiKeyQueue`, `EfiKeyQueueForNotify` |
| `partial` | `IsSupportPartialKey` |
| `notifyList`, `node` | `NotifyList`, the pool of its nodes |
| `pending` | signalled `TPL_CALLBACK` events, in the core's order |
| `poll` | the caller inside `KeypadTimerHandler` |
| `phase`, `stroke`, `link` | where `KeyNotifyProcessHandler` is, its `KeyData` and `Link` |
| `reading`, `lastRead`, `told`, `resetMark`, `called`, `typed` | history the properties need |

Code between `RaiseTPL(TPL_NOTIFY)` and `RestoreTPL` is one action; a poll is one
action per reported key. A notification function may do anything the
interface allows: read, wait, reset, register, unregister its own or another node,
then return. `phase = "wild"` means that the walk reads a freed node, which happens when
a function unregisters the node it was called from; the model ends there.
Left out: argument checks that return without a change of state, and the lock-key
flags, which nothing reads.

### KeypadBinding

`pc` names the service that is called next; every service may succeed or fail.
`field` says which event fields of the device are set, `live` which events exist,
`queued` which have a pending notification, `pool` what is allocated. Timer
and notification handlers run between any two steps.

### KeypadDevice and KeypadLed

`KeypadDevice` reads the keys one after another (`ReadKey` is one call of
`LibKeyUpdateKeyStatus`). The bitmaps are as in the code: keys with a scan code have
a bit each, and all keys that report a character share bit 0. `PlaceFrom` is the next key of the list that the board has. Time is counted in
units up to the longest threshold. `KeypadLed` numbers the timer events in
the order of their creation; a cancelled timer does not take back a callback that is
already queued.

### I2CDxe

`dev` is the C record, `place` the place in `msm_i2c_xfer`; `wire` and `mishaps` are history: what went over
the bus in this attempt, and what went wrong in it. The handler
(`I2CInterruptHandler`) is one action that runs whenever the interrupt is pending and
its source enabled, before the next step of the transfer (`CallerRuns`). The direct
call of the handler's body at `I2CDxe.c:371` is two actions, because the interrupt may
come between the write of the address and `dev.pos++`.

The controller (`TakeAddress`, `TakeByte`, `Refuse`, `Receive`, `StopBus`) is external:
written from how the driver uses it. Assumed of it: BUS_ACTIVE is reported from the
write of an address on; the read of the status register acknowledges errors; an idle
controller drops a request to stop; one byte is buffered in each direction.

### SdCard

The build has no `USE_DM`, so `NUM_BLOCKS_MULT` is 1 and every request goes block by
block. `read_a_block` and `write_a_block` are sets of outcomes for one block: what is
returned, whether the data arrived, which error flags are left. `flags` are the
controller's data error flags, cleared only at the end of a good block. `receiving` says
that the card waits for the data of a write the driver has given up.
Initialisation is one action per step of `mmc_legacy_init`, named by `stage`; its ends are `"idle"` (BlockIo
published, which sets `published`), `"absent"`, `"deadloop"` (CpuDeadLoop: no partition table), `"hang"` (a loop of
the code without exit) and `"wild"` (a call through a null `block_read` after a failed
initialisation whose result is ignored).
Sizes are in 512-byte blocks; `mult` is the card's own block length, which is 1024 bytes
on standard-capacity cards of 2 GB.

Size: standard and high capacity structures, whose fields lie in one word or across two, and
structures the driver does not know. A register is the set of its bits that are one, so that
`UNSTUFF_BITS` is shifting such sets.

### Partitions

The modem writes an entry of shared memory step by step and sets `allocated` last (assumed: the code
checks nothing else); a client calls the protocol at any moment. The flash table has two versions with
entries of different size, the RAM table three. `strtok` splits a name in place: what is left of the
field is part of the state. Sizes are counted in entries. `Listed` is what a client's table gets: the named partitions in
their order, each under the last word of its name (`PartitionName`). `Published` is what the modem has written, as far as the
entry of its version goes; the properties compare all copies with it.

### Interrupts

`frames` are the nested dispatches, each with its source and place in `IrqInterruptHandler`; `todo` is
what the interrupted code has yet to do, one access to the controller per step, because an interrupt may
come between any two. The timer's handler ends its interrupt before it lowers the priority, and the dispatcher
ends it again: in between the next interrupt is taken. `waiting` are the sources
whose device has not had its handler called since the last edge.

### Console splitter

The driver is one record per virtual console, and the models follow its parts.

- `ConIn`: `textIn`, `textInEx` are the device lists with their room (`Unit` entries are added when a list
  is full, and the growth may fail), `notifyList` the registrations, each with a handle per extended
  device, `queue` the partial keys that `ConSplitterTextInReadKeyStrokeEx` keeps. A step of a device
  (a key, a toggle notification) may come between any two steps of the calls that walk the list twice,
  `SetState` and `Reset`.
- `ConPointers`: what each mouse has moved and has reported, in its own resolution (`moved`) and as
  the splitter has shown it (`shown`), with integer division as in the code. One axis stands for three.
- `ConOut`: the mode table of each splitter (`TextOutQueryData`, `TextOutModeMap`), merged when a console is
  added and rebuilt when one goes. Sizes are values (`ModeSizes` per device); a mode that a console lacks has `NoSize`. A
  console may belong to both splitters. Every call goes to every console, and any of them may refuse it (`Refusals`): the others
  have followed it, the splitter has recorded it, and the caller gets the error. `fresh` and `inStep` say that the last change of
  the mode, or of the cursor, was refused by none. The calls are functions of a world, the two splitters with the devices,
  since adding a console makes several of them in a row; `OnDevices` is what setting some devices does to the other splitter. The
  growth of the list and the map succeeds (part 5 says what happens otherwise).
- `ConStyle`: attribute and cursor visibility of both splitters against what a shared console has.
- `ConGop`: the list of common resolutions, computed again with every device that comes (`gops`: those that
  are listed with a graphics output). The graphics are a part of their own of the run.
- `ConBinding`: the five bindings; per controller, who holds it (driver, child) and which list has it.

### GraphicsConsole and GraphicsBinding

The screen is a function from cells to characters; `ink` is the set of colours that the exclusive or of
the cursor has left in a cell, so that a cursor drawn twice is no cursor, and one drawn with another
colour stays. A string is written in steps: `OutputString` erases the cursor and enters the loop, each `Loop` is one turn of
it (a control character, or as much text as fits on the line, with the nested calls that pad and wrap), `OutputReturns` restores
the width and draws the cursor. No other call comes between, since the code is at TPL_NOTIFY. A pen is the record of what a turn
changes. `ScreenIsTerminal` compares with a terminal that takes one character after the other, whereas the code draws runs: `term` is
that terminal, a pen without a cursor, and `behind` the characters a turn has written that it has yet to take (`TermTakes`). Both are
history, and no step of the code depends on what they hold but that a turn waits for the terminal. `GraphicsBinding` computes the text modes from the resolution as the
code does, in pixels, for every display with up to two modes of four resolutions. Each service of Start may fail, `held` is what it has
acquired by then, and `ErrorExit` what its error exit leaves of that.

### FbCon

`writers` are the writes under way, each inside of the one before it, with its place in `FbConPutCharWithFactor` (`pc`). A glyph
is drawn with interrupts off, so that it is one step with what follows at the end of its row; but the jump to `newline` for the
character of that name passes the line that switches them off, and what the end of the new line does to them is up to the stack
(`intstate`). So a new line is six steps: y is stored, x, the comparison, the clear, the flush, and y again, and from a write's
first new line on a writer may come in between any two of them. `torn` says that one has, on the screen as it
is: the first writer then takes the position back to a row that has been written to, or goes on from one that the second has left. Pixels are kept as
cells with the walk of the pointer over their boxes, so that a walk over the end of a row or of the buffer is seen.

### Menu, MemoryDump, Tetris

`Menu` has one action per turn of the loops in `menu.c`. `pressed` is the key the next read returns, `rows`
what the screen shows, `lit` the yellow row, `mode` and `InitialMode` the console's, `watchdog` and
`feed` the watchdog and the event that feeds it. Each boot service may fail. The file systems of `BootApp.c` are
the function `files`. `MemoryDump` is the hexadecimal prompt, entered twice, and the file operations with
every failure. `Tetris` has the loop and the timer function as interleaved actions; `pile` is a second account of
the board by the rules, against which the single array `fields` of the code is compared.

### Pcom

`calls` are the calls in progress, the outermost first, each with the word of the mailbox it reads or
writes next (`pc`). A call of any client may start between any two accesses of the one it interrupts; nothing in
`pcom.c` prevents that, and the charging timer does it. `disturbed` marks both calls as soon as one writes
its command into the other's. The modem (`ModemReady`, `Serve`) is external. It may answer with success, failure or
another status; a bell without a request is ignored.

### Clock and Acpu

`Clock` turns rates into the numbers of speeds, which it gives the modem under the clock's number in `ClocksLookup`. The modem's reply
overwrites that number, and need not be the same (`Renumbered`). `astray` are the clocks that an overwritten number has harmed, its own and the one it
belongs to. The
comparisons of each clock with its rates, one after the other, are its row of `Bounds`; the two video clocks have tables of exact rates
(`VfeMdc`, `Vfe`). `Rates` are the rates asked for, `Together` how many clocks a behaviour uses. `Acpu` is one register access at a time, with the PLL settling at its own pace.

### Gpio, GptTimer, Charging

`Gpio` has the pins in use, and as users the calls the drivers make with them, each at its task
priority; an access is a read and a write of the register of the bank, and a user of higher priority may
come between. `wanted` (`asked`) is what the registers would be if no access were interrupted.
A vibration's timer event may fail to be made or set (`timers` stays as it was). `GptTimer` is `MicroSecondDelay` on a counter that goes round in
`Turn` steps; the loops run with interrupts on, so that up to `Gap` ticks go by between two reads (`unread`). `InSight` says
that such a gap cannot make the loops miss what they wait for; where it does not hold, they may, and wait for a turn more. `Charging` is one
timer handler (`chargePc`); the calls to buses are actions that may fail, and between them the cable and the voltage change. From the first
byte of a reading to the decision the voltage moves by one step of the gauge at most, which is 2.44 mV.

## 3. The runs

| run | instance | distinct states | shows |
|---|---|---|---|
| `devices` | nine foci: ring of 4 slots; volume keys and dial with polls of 1 or 2 units and thresholds 1, 2, 3; every failure of Start and Stop; light with 4 events and 3 time units; I2C writes of 3 and reads of 1 to 3 bytes, 1 retry; 5 cards, 2 faults, 3 blocks a request; 234 CSD registers; flash and RAM tables of every version | 107,184 | the ring implements `KeyFifo`; presses reported, repeats paced, combinations true; nothing leaked; the light goes out; bytes in order, success and failure explained, transfers end; data in place, publication, size; partitions as published |
| `keypad` | 2 strokes, modified and partial keys, 2 functions, 2 nodes, rings of 2 | 3,460,000 | reads and notifications in order and fresh, none stuck, none skipped; an honest WaitForKey |
| `handlers` | 2 strokes, one function, one node; two nested dispatches, periods of half and of one and a half milliseconds besides the initial one | 144,000 | queued keys are processed, reads return; every interrupt is served, none is lost, the timer runs at the period in force cut to milliseconds |
| `splitter` | 3 keyboards (2 extended), 2 mice, 2 touch screens, 3 consoles with different modes, 3 graphics outputs, 2 controllers for the bindings | 374,000 | lists, buffers and registrations in step; keys, toggles, pointers, consoles, graphics and colours agree; what is held is listed |
| `screen` | a console of 3 by 2 and 2 by 2 cells, 9 strings, displays with up to 2 modes of 4 resolutions, a frame buffer of 3 rows of 2 letters with a writer of one letter inside of another, countdown of 2, 2 volumes, numbers of 2 digits, a board of 3 by 5 | 847,000 | the screen is a terminal's; modes fit; console and applications keep their promises |
| `modem` | two levels of calls, slots of one pin; two clocks at a time and a modem that answers any of their numbers or none; all speeds of the processor | 533,000 | own answers, order, what a call can be stuck on, the reset's reason; speeds; no step without clock |
| `board` | three priority levels; a counter of 4 bits, read every 3 ticks at least; voltages around the thresholds | 69,000 | no access undone, motor and bus lines released, delays long enough and, in sight, ended in time, a full battery not charged, charger and light follow |
| `device_lost`, `binding_stop`, `i2c_done`, `sd_error`, `menu_back` | | | violations, see part 5 |

A property of a run is what a component promises. Most have named parts, each defined and commented in the component's module:

| property | module | parts |
|---|---|---|
| `ImplementsFifo` | `KeyQueue` | the refinement of `KeyFifo` |
| `PressesReported` | `KeypadDevice` | `NoPressIsLost`, `RepeatsArePaced`, `ComboMatchesKeys`, `DialReportsOnce`, types |
| `NothingDangles` | `KeypadBinding` | `HandlersHaveTheirDevice`, `NoLeak`, `ClosesLiveEvents` |
| `LedGoesDark` | `KeypadLed` | |
| `ResultExplained` | `I2CDxe` | `MovesInOrder`, `TransferIsExplained`, `FailureIsExplained`, types |
| `TransfersInPlace`, `SuccessIsExplained` | `SdCard` | |
| `CardReady` | `SdCard` | `SlotFitsCard`, `PublishedMeansReady`, types |
| `TransfersReturn` | `I2CDxe`, `SdCard` | `CallReturns`, `RequestReturns` |
| `SizeIsTheCards` | `Csd` | |
| `TablesAsPublished` | `Partitions` | `PartitionsAsPublished`, `AppsStartPublished`, `RamAsPublished` |
| `WaitForKeyIsHonest`, `WalkCallsEveryMatch`, `NoLostWakeup`, `ReadsAreOrderedAndFresh`, `NotificationsAreOrderedAndFresh` | `KeypadDxe` | |
| `AllAreServed` | `KeypadDxe`, `Interrupts` | `NotifyQueueDrains`, `ReadReturns`; `Served` |
| `NothingLost` | `Interrupts` | `NoneLost`, `PeriodInForce` |
| `ListsInStep` | `ConIn` | `BuffersSuffice`, `NotifyEverywhere`, `ListedOnce`, types |
| `InputAgrees` | `ConIn` | `TogglesAgree`, `KeysInOrder`, `SignalIsHonest` |
| `PointersAgree` | `ConPointers` | `ListsMatch`, `DueIsHonest`, `MovementShown`, `TouchInRange` |
| `ConsolesAgree` | `ConOut` | `ModeMapSound`, `DisplayedMode`, `CursorsAgree`, `SharedModesAgree`, types |
| `GraphicsAgree` | `ConGop` | `GopModesCommon`, `FrameBufferOfOne`, `GopsAgree`, `QueryIsTrue`, `InstalledMeansOne` |
| `HeldAsListed` | `ConBinding` | `HeldWhileListed`, `NothingLeaks` |
| `StylesKept` | `ConStyle` | `TextInItsColours`, `HiddenIsHidden` |
| `ScreenIsTerminal` | `GraphicsConsole` | `CursorShown`, `TextIsTerminals`, types |
| `ConsoleFits` | `GraphicsBinding` | `ResolutionInForce`, `ModesOnScreen`, `NothingHeld` |
| `LogIsSeen` | `FbCon` | `NewestShown`, `InsideScreen`, `FreeAhead`, `RowsShown`, `InterruptsKept`, `ColourRestored` |
| `MenuGoesOn` | `Menu` | `WhatIsLitRuns`, `NotBitten`, `ConsoleGivenBack`, `FoundMeansBooted`, and that `CountdownEnds` |
| `DumpAsEntered` | `MemoryDump` | `OncePerKey`, `NumbersAsShown`, `DigitsAgree`, `AllClosed` |
| `GameIsRight` | `Tetris` | `FieldsAreRight`, `PieceFits`, `PauseHolds`, and that the `GameGoesOn` |
| `UndisturbedAreServed` | `Pcom` | `OwnAnswer`, `DoneInOrder`, `StuckMeansDisturbed` |
| `ResetFindsReason`, `CallsReturn` | `Pcom` | |
| `SpeedForRate` | `Clock` | |
| `ClockedThroughout` | `Acpu` | `NeverWithoutClock`, `AsCurrentSpeed`, and that `ChangesEnd` |
| `PinsAsAsked` | `Gpio` | `AsAsked`, `BusReleased`, and that the `VibrationStops` |
| `DelayExact` | `GptTimer` | |
| `StopsInTime` | `Charging` | |
| `BoardGoesOn` | `GptTimer`, `Charging` | `DelayEnds`; `FollowsCable`, `LightTells` |

Why the bounds are enough:

- `devices`: 4 slots hold 3 keys, enough for wrapped and unwrapped, full and empty rings; the proofs remove the
  bound. The key order matters only between volume keys and dial; polls of 1 and 2 units meet each threshold
  and skip over it. Four light events let two callbacks be queued while a third timer runs. The I2C handler
  distinguishes the last and the last but one byte. Two card faults put one into initialisation and one into a
  transfer, or two into successive transfers; `ScanLimit` (50 in the code) is 1, so that a table lies before, at or
  behind the limit. Fields of the CSD are at the ends of their ranges and on both sides of a word. Tables have names that
  are full, missing and unsplittable, and are too short, exact and too long.
- `keypad`: two nodes are needed for a walk that passes one and stands on another, and for insertion at both ends; two
  strokes matching both registrations make four copies on a ring of two, so it overflows and drops. The theorems
  remove the bounds for all five properties. Callbacks nest without a bound of their own.
- `handlers`: a dispatch inside a dispatch is the only nesting there is, since only the timer's handler
  admits interrupts, and its own source again at most. One period is below the shortest match and one is cut. The theorem about `NothingLost` has no such bound.
- `splitter` (the theorems of part 4 about its seven properties have none of these bounds): three keyboards are a device that is listed before, at and behind one that goes; buffers grow by one
  device, so that every growth and its failure occur; two keys let a key be left over in one device while another
  is read. The keyboard part is split once more: keys, toggles and notifications. Three consoles give merged tables that lose modes
  twice, and keep mode 1 without a size, as present, and as lost. `Symmetry` permutes the two extended keyboards only in the values of
  `ConIn`, whose invariants treat them alike; the run has no temporal property.
- `screen`: two columns and three make wide characters fit and not fit; strings wrap once and twice and scroll.
  The frame buffer has three rows: with
  two, a new line would clear the screen again and again. A write has two characters, since only one that has had a new line can be
  interrupted in its next; the one inside of it has one (`ShortInside`), and the first write begins with interrupts on. The theorem
  has none of these bounds. The board of Tetris shows three rows, and its two pieces are one that turns and one that does not.
- `modem`: a third level adds only more disturbed calls (the theorems of part 4 hold for any number of them). A
  slot of one pin does what one of six does, six times. Two clocks show a number that comes to be another clock's.
- `board`: a counter of 4 bits, delays from none to one tick less than a turn and gaps of up to 3 ticks, so that targets are met, passed and missed at both ends of the counter; the gauge's two bytes around a carry. The theorems about
  delays and battery hold for every length of the turn and all voltages.

Deadlock is checked in `device_lost` and `i2c_done` only. In the others the system may really stop (boot
services that ended, a failed assertion (see part 6), a walk on freed memory, CpuDeadLoop, a call that waits for an answer it
has itself cleared), and in the runs with a focus a part may have done all it has to do.

Fairness:

- `KeypadDxe`: what the firmware runs to completion goes on (weak fairness of `Firmware`); a notification function
  returns however often it calls the driver (strong fairness of `FnReturns`); a poll takes less than the 20 ms timer
  period, so that application code is not starved by its own timer (strong fairness of `PollEndsInTime` and of
  `RepeatRead`, the loop of `ReadKeyStroke`).
- `KeypadLed`: time passes and queued callbacks run. Nothing forces a key to be let go.
- `I2CDxe`: the processor goes on and the handler runs when it may. Controller and device get none: the wait of 200
  looks ends by itself.
- `SdCard`: the driver's loops go on; a command gets an answer or the controller's own time-out. A card that stays busy
  for ever in PROG_DONE is not modelled.
- `Interrupts`: a dispatch runs on; a source that is ready again and again is taken in the end (strong fairness of
  `Take`), since the controller serves by priority and a handler does not start its own device again without bound.
- `Pcom`: the processor goes on, the modem comes up and answers a bell. `Acpu`: the processor goes on, a PLL settles.
- `Gpio`: the code of each level goes on after the handlers that interrupt it (strong fairness per level); the vibration's
  timer expires, and its function runs when the priority allows. `GptTimer`: the loop goes on, the counter counts; only a delay in sight is promised to end.
- `Charging`: the handler goes on; a transfer that is tried again and again succeeds in the end (strong fairness of
  `WriteLed(TRUE)` and `Probe(TRUE)`). Without that a broken bus refutes every promise about the light.
- `Menu`: the loop goes on. `Tetris`: the loop's turns and the timer function go on, since the loop polls and sleeps.

Each run with a focus combines conditions of different foci into one, `WF(A in focus a \/ B in focus b)`. The focus never
changes, so this says no more and no less than the two conditions.

## 4. The proofs

TLC checks an instance; the theorems hold for every value of the constants. Each proof has the form of an inductive
invariant: a conjunction that holds at the start, that every action keeps (one lemma per action), and that implies the
property. The property alone is hardly ever inductive; what has to be added is named below. The
invariants were checked by TLC before they were proved.

`KeypadProofs`, for every ring size from 2 and every set of keys:

- `TypeCorrect`, `PopsReturnPushedKeys`, `RingImplementsFifo`, `RingOperationsMatch` (each function of the ring is the
  `KeyFifo` operation of its name, so a push on a full ring costs the oldest key only, which the refinement alone does
  not say). The inductive invariant `IInv` adds to the types that the occupied slots hold keys. Occupied slots are those
  from head to tail around the ring, so its preservation needs the lemmas on `Succ` and `SlotAt`; the refinement maps the
  ring to the sequence of its occupied slots (`Contents`), and each action to the same action of `KeyFifo`, a pop
  advancing the head (`AdvanceHead`), a push the tail (`AdvanceTail`).

and for every board, all thresholds in their order and any time between two polls:

- `EveryPressIsReported` (`PressesReported` of `KeypadDevice`). A press that is not long yet has not been reported, and one that
  is long has been, or is held back by a dial that is down (`PressOf`, `LongIsReported`). A combination must be one of the keys
  that are down: the bit of a key with a scan code is its own (`BitsAreKeys`), but bit 0 is shared, and
  belongs to the dial until the scan comes to a key with a character. So the proof needs that the dial is read last and
  that every board has it, which `DeviceAssumption` says (each board's case has key 120). The lemma `ReadKeyIs` says
  what one call of `LibKeyUpdateKeyStatus` does to a key, in each of its phases; `PlaceFromIs` is where a scan goes on.
- `NothingEverDangles` (`NothingDangles` of `KeypadBinding`), whichever services fail: at each place of Start, its error exit and Stop,
  which events are closed already (`ClosedSoFar`), that the fields of the device are the events (`FieldsAreEvents`), what is
  released (`ReleasedSoFar`), and that users are there only while the protocols are (`UsersAreServed`). One lemma for each place.

`HandlersProofs`, for every number of codes, modifiers, functions, nodes, strokes and every capacity:

- `TypeCorrect`: `TypeOK` needs `WalkHasNode` (while a function is called, the walk stands on a node of the pool).
- `WakeupIsNeverLost` (`NoLostWakeup`): inductive given the types. The window is between the last pop of the handler and a
  push from inside a function.
- `ListIsThePool` (`ListMatchesPool`): inductive given the types; the work is in the removal from the middle of the list.
- `ReadsInOrder`, `NotificationsInOrder`: the action properties follow from `QueuesAreOrdered`: the read ring is strictly
  and the notification ring weakly increasing, both lie above the last reset and above the last stroke taken. The lemmas
  say that a suffix of an ordered sequence, a pop and a push of the newest stroke keep this. `ReadsInOrder` judges every read that finds
  a key (`KeyIsRead`), whether `lastRead` changes or not.
- `WaitForKeyTellsTrue` (`WaitForKeyIsHonest`): inductive given `QueuesAreOrdered`: a pop takes the oldest stroke only, so
  that the key an application was told of is still there unless it is the one that was read.
- `WalksAreComplete` (`WalkCallsEveryMatch`): inductive with `WalkIsSomewhere` (the walk stands on a node of the list, and
  the node whose function runs was called) and `ListMatchesPool`. A walk leaves only nodes that were called or do not match
  behind it; a node that a function registers or takes back changes the list before, at or behind the place of the walk.

for dispatches nested to any depth and all periods:

- `ControllerTypeCorrect` and `NothingIsLost` (`NothingLost`). The invariant is about what the interrupted code has yet to do (`todo`), since
  an interrupt may come between any two of its accesses: the controller is initialised before a handler is registered
  (`InitFirst`), the source of the timer is enabled, and its period noted, right after it was programmed
  (`NoteAfterEnable`), and the last step leaves the timer as it has to be (`LastDecides`).

and for a counter and delays of any length, all voltages and any number of retries:

- `DelaysTakeTheirTime` (`DelayExact`), for gaps between two reads of up to half a turn. Inductive is `GptInv`: the count that was read last is
  that of the tick it was read at (`Seen`), as long as this is within the delay or the target in sight (`CountTells`); a delay that does not wrap
  leaves the first loop with its first count, and one that does, in sight, before another gap beyond the end (`FirstLoop`); in the second loop a
  count from before the target is on its side of the counter's end (`SecondLoop`). Without that the comparison of the second loop would mean
  nothing. What a delay that is not in sight owes is only that it is not short: the last count read was beyond the delay when it returns.
- `BatteryIsSpared` (`StopsInTime`). The first byte is that of the voltage or of the one beside it (`FirstByteOf`), so that the
  two bytes together are less than the voltage by no more than one step of the first byte, 39 mV (`ReadAs`). The two
  thresholds of the code lie 100 mV apart.

`I2CDxeProofs`, for messages of any length, any number of attempts, and whatever the controller and the device do:

- `ResultTellsWhatMoved` (`ResultExplained`). `Places` says when the driver has a message and when an interrupt can be
  pending. The rest follows the phases of an undisturbed transfer: `Started`, `Addressing`, then `Writing`, `Turning`
  (the number of a register is written, the second address is next), `TurnedAround`, `Reading`, `Complete`; each relates
  the position and count of the driver to the registers of the controller and to the length of the log, whose i-th entry
  is `Item(i)`. `Failing` is a transfer that the device has refused. `FirstMessage` holds even of a disturbed one: the
  handler writes a byte only to a bus that takes it. `Judged` keeps the connection after the record was reset. The lemmas
  `FilledIs`, `EmptiedIs` and `EndOfMessage` say what the three parts of the handler do; `ExpectedItems` says that the items are
  the concatenation in `Expected`.

`SdCardProofs`, for all cards, requests of any size and any number of faults:

- `CardIsReady` (`CardReady`), `BlocksInPlace` (`TransfersInPlace`), `SuccessHasAReason` (`SuccessIsExplained`), from one
  invariant: the clocks follow the identification, whose last step sets the operations (`BroughtUp`); the media are the card's
  from the search on (`MediaAreTheCards`); the search stays within its limit (`SearchIsBounded`); while a
  request is under way the blocks moved are those done, or one more, and no flag is left behind a block that was
  done (`RequestInPlace`). The last part is what makes a failure of the first block blame an earlier request only. The lemma
  `OutcomesAreSound` covers the outcomes of a block.

and for all tables of the modem, with entries of any size:

- `TablesTellTheTruth` (`TablesAsPublished` of `Partitions`). The header is read before the table, and may be that of an entry that
  is still being written; what is copied is the modem's once its entry is allocated, which is set last (`Ordered`), so that a
  header that is read is that of a complete table (`HeaderIsTheirs`). `CopyIsTheirs` says that its partitions are the modem's too, until they are
  taken apart, `TableIsTheirs` that the caller's table is a number of copies of the list (`OneMore` adds one), `RamIsTheirs` what was
  copied of the RAM table.

`SplitterProofs`:

- `WhatIsListedIsHeld` (`HeldAsListed` of `ConBinding`), for any number of controllers, with and without SimpleTextInputEx:
  inductive with the types, by the ends of Start and Stop.
- `GraphicsTellTheTruth` (`GraphicsAgree` of `ConGop`), for any number of graphics devices with any modes, refusing any of them. Inductive are
  the numbers (a mode that is set is one of the list, the list is empty only without devices) and that the modes offered are those
  all devices have (`CommonModesAre`); what the devices show follows from the last call that all of them took
  (`TakersShow`, `NextGopKeeps`). The list is sorted by the order of the first device's modes, which `Enumerated` says of any set of places.
- `ConsolesShowWhatIsSaid` (`ConsolesAgree` of `ConOut`), for any number of consoles with up to 127 modes each. The inductive invariant
  `TextInv` needs more of a table than that its modes are right (`RowSound`): which rows the first console's modes stand in (`Shape`), because the
  size of a row is read through its entry; that mode 1 is without a size only where a console has none behind it (`Missing`), since
  SetMode skips that console, and would otherwise leave it showing something else; and that no console is listed twice (`Listed`), since a
  device finds its mode by its first place in the list. While a console is added the mode is 255, and the steps in between take the rows
  that go from it as from any mode: `Unset` says that it still stands behind the table, so that the mode set in the end
  is a new one. A table is right for the consoles it was built for (`SoundForThese`), also in the middle of being built anew
  (`BuiltIs`, by the least number of consoles for which it failed). `GetIntersectionIs` and the lemmas about `RowAt` say that the rows that stay
  keep their order and their places 0 and 1, `SyncOutputModeIs` that a console's modes are entered in rows of their size, `IntersectBothIs` that
  both splitters offer the same afterwards. `CallIs`, `SetModeIs` and `PutIs` say what a call on one splitter leaves of the other.
- `SplittersKeepTheirStyles` (`StylesKept` of `ConStyle`), for any number of consoles and any colours: inductive with the types.
  The lemma `CursorsStay` covers the actions that leave the cursors alone: they may neither end a splitter's hiding nor extend
  its list while it hides.

`ConInProofs`, for any number of keyboards, registrations and keystrokes, and every unit of growth:

- `ListsStayInStep` (`ListsInStep`): the property says that an index into one of the buffers is in range; inductive is `Fits`,
  that the device list is the smallest of the buffers it indexes, and that no other one is ahead of it by more than one unit. A
  growth that fails part-way enlarges some of them only. The places of the handles need that a registration is in the list once
  (`RegisteredOnce`) and that each handle is at the place of its device (`HandlesInPlace`) until a device is removed; the
  partial keys have room for one more (`QueueFits`). The lemmas `FirstIs`, `MaxIs` and `FirstReal` say that the selections of the
  module find what they look for (every set of numbers has a least one, by well-foundedness); `WithoutIs` and `GrownIs`
  are the lists with one entry taken out and with more room.
- `PointersTellTheTruth` (`PointersAgree` of `ConPointers`), for any number of mice and touch screens of any resolution and range: the
  lists match what is managed and lie within their room; a mouse has been shown all it moved but for less than one of its steps for each
  reading, which is division with remainder.
- `InputIsRight` (`InputAgrees`), on top of `ListsStayInStep`. `KeysRight`: what a device holds is ascending and newer than all that was read from
  it or reset (`HeldIsRight`); partial keys kept by the splitter are older than those the device still has, and while a reset goes over
  the list they are among the keys it clears (`QueueIsRight`). `TogglesRight`: the splitter's own registration
  is the first node of the list (`SyncFirst`), so that every extended device has it; a device shows the state, or its own change
  is still to be told (`Shows`), but for those that a SetState or Reset under way has not come to yet (`LampsAreRight`). `SignalIsHonest`
  is inductive given `KeysRight`: a key that is pressed is new, so that it makes no other one partial.

`PcomProofs`, for calls nested to any depth and slots of any number of pins:

- `ResetAlwaysFindsReason` (`ResetFindsReason`) and `UndisturbedServed` (`UndisturbedAreServed`), the latter from
  `OnlyTheDisturbedAreStuck`, `AnswersAreOwn` and `InsistentAreServed`: all from one inductive invariant `IInv`. `UndisturbedInPlace` is the heart: for each call that nobody has disturbed it says, place by
  place, what the four words hold, whether the bell rings, and how many commands of the client are done. That is inductive only
  with `Nesting`, which says who the words belong to when calls are nested: two calls under way have disturbed each
  other (`AloneOrDisturbed`); who wrote the request has no later writer above him (`RequestHasWriter`), and an answer still has its
  reader (`AnswerHasReader`), so that a call that returns leaves neither behind; a call that writes while an answer is there has
  interrupted the one that waits for it (`HalfFindsWaiter`); the bell rings for somebody who waits (`BellHasWaiter`), so
  that a call that finds the mailbox free finds the bell silent. The lemma `TopSteps` says what is left to show of a step of the innermost call;
  the calls below it stay in place (`OthersStay`), since they are disturbed, or have nothing in the mailbox (`AwayStays`).

and for all rates and any number of clocks at a time:

- `SpeedsSuffice` (`SpeedForRate` of `Clock`), for a modem that answers anything. A chain of comparisons finds the first bound that the rate is
  above, and the bounds are descending (`BoundsAre`). What a clock is given under its own number stays its own, since no two clocks have
  the same number to begin with (`NumbersDiffer`), and who uses another's number makes both of them `astray`.

`ScreenProofs`, for every size of the screen, numbers of any length, displays with any number of modes and texts of any length:

- `TheLogIsSeen` (`LogIsSeen` of `FbCon`), for writers inside of each other to any depth and between any two steps of a new line. That a glyph lies in a box of its own inside of the frame buffer (`GlyphInBox`) is division with
  remainder by the width: `DrawnIs` says that the walk of the pointer is twelve rows of five pixels. What is ahead of the position is
  empty (`FreeAhead`) and each row but the current one is in memory (`RowsShown`). Between the steps of a new line neither would be
  inductive alone: `Fresh` says what a writer that nobody came in on finds at each of them, `TornKnown` that `torn` is set as soon as
  one has come in. The position stays inside of the screen although a writer may find y past its last row but one: only one that
  came in there can (`RowBound`), it has interrupts off up to its first new line, and a row that waits to be stored while others may
  write leaves room for another (`RowsLeft`). The colour needs `ColoursNest`: each writer has found the colour of the one that it has
  interrupted, the first of them white, for any depth.
- `TheDumpIsAsEntered` (`DumpAsEntered` of `MemoryDump`): inductive with the types, with the key that is looked at being one that was pressed
  (`KeyIsPressed`), and with where files may be open (`OpenInPlace`).
- `TheConsoleFits` (`ConsoleFits` of `GraphicsBinding`): `PickModeIs` says that the mode picked is one of the display's, on each of the ways to it,
  with its resolution. A largest mode exists for any number of modes (`LargestModeIs`, from the boundedness of finitely many numbers). The
  text modes are built in three steps, each of which keeps the sizes different and on the screen (`WithSizeKeeps`).
- `TheScreenIsATerminal` (`ScreenIsTerminal` of `GraphicsConsole`), for any number of text modes of any size with two columns or more, any
  colours and strings of any length. The inductive invariant `ConInv` follows the loop. When the terminal has taken all that is written, it shows what the
  console does, or the console is one line ahead: it pads the last column as soon as a wide character is next, whereas the terminal does so when
  that character comes (`Followed`). What the terminal has yet to take is one control character, or text that fits on its line and
  brings it where the console is (`Behind`); `PutsFirst` takes the first of those characters off. Between the calls of a string no cursor is on
  the screen, but for one: the nested call that pads leaves it drawn at the start of the line, where the text that follows
  covers it (`InkKept`, `DrawsOver`). `CountIs` says what the loop at line 1095 finds, as the greatest of a finite set of numbers;
  `TypedIs`, `BackspaceIs`, `PaddingIs`, `TextTurns` and `ControlTurns` say what a turn does and that it is what the terminal does;
  `CursorIs` that an exclusive or done twice is undone.

The assumptions are those of the modules (`QueueAssumption`, `DeviceAssumption`, `KeypadAssumption`, `InterruptsAssumption`, `I2CAssumption`,
`SdAssumption`, `PartitionsAssumption`, `PcomAssumption`, `RatesAssumption`, `GptAssumption`, `ChargingAssumption`, `ConInAssumption`,
`PointersAssumption`, `GopAssumption`, `TextAssumption`, `FbAssumption`, `DumpAssumption`,
`BindingAssumption`, `ConsoleAssumption`); TLC evaluates them in the runs. They say that sizes and counts are numbers, and of
I2C what the driver's callers do: one message to the device, or the number of a register, which is one byte, and a read
behind it. Of the keyboards they say that those with SimpleTextInputEx are some of them, and that buffers grow by something.
Of graphics devices they say that they have a mode, and of text devices that their first mode is 40 by 12, that only the second may be
missing, and that they have no more than 127, half of what the number of no mode is.
Of screens they say that a row has room for two characters and that there are two rows, and of displays that they show the text mode 0,
which the driver adds without asking; of text modes, that each has two columns and a
row, and that there is one (the code's have 40 columns at least, and it refuses to set mode 1 when that has no size).
Of the boards they say that the thresholds are in their order and that the dial is there. Of the modem's tables they say that the older
entry has no more room than the newer, and that the RAM table has no more parts than its entry has room for. Of delays they say that
they are over within a turn of the counter, which at 32 bits is longer than any that can be asked for; of the gauge, that it has twelve bits; of
rates, that they are positive.
`KeypadBinding`, `ConBinding` and `ConStyle` need none.

Only model-checked, and why:

- Liveness under fairness, since the prover handles neither fairness nor ENABLED. That includes the properties that join a
  promise of safety with one of liveness: `ClockedThroughout`, `PinsAsAsked`, `MenuGoesOn`, `GameIsRight`. The other ones are `LedGoesDark`,
  `TransfersReturn`, `AllAreServed`, `CallsReturn` and `BoardGoesOn`.
- What folds and recursive operators compute, which needs induction over data: `SizeIsTheCards` of `Csd`
  and `Tetris`.
- `Acpu` and `Gpio` are finite and have no constants but the users of the pins: the runs cover them.

## 5. Disagreements between the code and its comments

Shown by a run:

1. `device_lost`: a long press of Back is never reported. Keys that report a character have scan code 0, and the
   bitmap is indexed by it, so Back finds the dial's bit set by itself (`KeypadDeviceHelperLib.h:55`).
2. `binding_stop`: a refused Stop leaves the keypad installed without its polling timer (`Keypad.c:390`).
3. `i2c_done`: a transfer whose busy wait gives up is reported as done although no byte moved (`I2CDxe.c:382`).
4. `sd_error`: the announced media is one block too long, and one read of that block, or any single data error, makes
   all later transfers fail, because the error flags are only cleared after a good block (`mmc.c:659`,
   `SdCardDxe.c:321`).
5. `menu_back`: the menu offers "Back key to boot from ESP" (`menu.c:321`) during the countdown, but the switch is on the
   scan code, and Back reports a character (340): the key does nothing.

Seen while modelling, contained in the models or in their assumptions, without a run of their own:

Keypad, I2C, SD

- A keystroke that matches N registrations is queued N times, and each copy visits all of them (`Keypad.c:161`).
- A freed registration's address may be reused by a new one, which an old handle then names (`KeypadTextIn.c:601`).
- A failed device allocation takes the error exit with a null device, and `KbdFreeNotifyList(&ConsoleIn->NotifyList)`
  does not see it (`Keypad.c:332`); `KeypadBinding` ends in `pc = "wild"`.
- WaitForKey's other half, that it does not stay silent when a full key lies behind partial ones, has no property: the poll looks for it
  (`KeypadDxe!EndWaitForKey`).
- Cancelling the light's timer leaves a queued callback, which darkens the keys at once
  (`KeypadDeviceImplLib.c:315`); each re-lighting creates an event that nobody closes (325), and so does each
  vibration.
- A transfer with one good block succeeds, however many were asked (`SdCardDxe.c:175`): the second disjunct of
  `SdCard!SuccessIsExplained`. On a card with 1024-byte blocks BlockIo announces 1024 and the driver moves half the data,
  from and to half the address (`mmc.c:519`, `1135`): `TransfersInPlace` holds only for `mult = 1`. A failed
  initialisation is ignored and leads to a call through a null pointer (`SdCardDxe.c:317`); a slot stays powered.
- 16 of the 22 bits of C_SIZE are taken, so a card of more than 32 GB appears modulo 32 GB: the bound in
  `Csd!SizeIsTheCards`.

Modem, clocks, pins

- `msm_proc_comm` returns 0 for every failure but one code; its retries send arguments that the reply has overwritten;
  `ClkSetRate` reports success when the modem refuses. A reply overwrites the number of the clock it was asked for (`ClockDxe.c:211`,
  `pcom.c:89`): from then on the clock's requests go to whatever the modem has answered. `Clock!SpeedForRate` leaves out the clocks that
  this has harmed (`astray`) and shows that it harms no others.
- The pins 95, 96 and 100 share a bank and are used at different priorities: a bus recovery interrupted by the end of a
  vibration can switch the motor on again, until the periodic timer switches it off (`Gpio!AsAsked` leaves out this bank,
  `VibrationStops` covers it). When the vibration's first timer event cannot be made or set, the ASSERT goes on and the motor stays on
  (`HtcLeoVibrationLib.c:49-58`): `VibrationStops` is about vibrations from the first event on. `gpio_get` makes the pin an input
  (`GpioDxe.c:239`), and so does `asked`, so that no property calls it wrong.
- `acpuclock`'s `find_speed` does not end for a source it does not know; the voltage is never set.
- A tick between the enabling of the timer and line 205 of `Timer.c` reports the old period; a period under 1 ms gives a match
  of 0; periods are cut to whole milliseconds, so that ticks come up to one early, whereas the comments (157-159, 286-287) say that a
  period is rounded up. `Interrupts!PeriodInForce` is about the period that the code sets (`InForce`). The match is 4800 for each millisecond, in a
  register of 32 bits: periods of 895 seconds and more wrap, which nobody asks for; the model's do not come near.
- `MicroSecondDelay` compares for order what it should compare for equality: a target at the counter's end that passes between two reads is
  seen only a turn later, which is more than a day, and so is one of a delay that wraps and begins within a gap of the counter's start
  (`GPTTimerLib.c:59-64`). `GptTimer!DelayExact` and `DelayEnds` exclude these by `InSight`. Ticks are edges and the first may come at once: a
  delay can be 30 us short.
- `InterruptDxe` accepts a source one beyond its table (88) and enables the source when a handler is unregistered
  (103); sources 0 and 32 are enabled with no handler.
- `ChargingDxe`: from off to USB the charger is enabled before its current is lowered; the timer is not cancelled at exit;
  the results of gauge reads are unchecked; a failed LED write at exit leaves the light on. A probe of
  `MicroPDxe` that fails means no protocol, and `ChargingDxe` then asserts. `ChargingDxe` and the charger application are in
  no build file.

Shared memory

- Header checks are not repeated after the second read of a table; a second parse without re-initialising adds to the first;
  the RAM table's length is unchecked; the ASSERT of a string in `get_ddr_start` never fires, and the one about alignment (`smem_ptable.c:273`) only prints; the address is returned either way.

Console

- Splitter, input: deleting an extended keyboard neither shifts the registrations' handle arrays nor unregisters (2073); a Start that fails after
  the keyboard was added leaves it listed (1198-1219); keys in the splitter's own queue are not
  announced by WaitForKey (3668); a key lock that changes while SetState is going over the keyboards, or before one that refuses it, leaves
  keyboards that show something else (3946: `TogglesAgree` leaves this out); an absolute pointer's position ignores the device's minimum and may overflow (4238, 4456-4490).
- Splitter, output: a growth that fails after the count was raised leaves the map's stride wrong (3152-3168); the result of
  `AddOutputMode` is ignored (3180); deleting a console keeps the mode number; SetMode with the recorded number only clears;
  graphics outputs without a common resolution read an uninitialised entry; the first mode is overwritten with 800x600 after a failed SetMode
  (3018); the cursor is recorded where a console has refused to move it (5063);
  ClearScreen reports a visible cursor (4980), and clears a shared console in the other splitter's colour.
- Graphics console: SetAttribute does not check for mode -1; a wide character without glyph leaves the cursor drawn at
  column 0 (1133-1136); mode 0 is offered even where it does not fit.
- Frame buffer: the jump over lines 146-147 leaves interrupts as they are in a new line and `intstate` uninitialised, so that they may come on in the
  middle of a write. A writer that then comes in between two rows (165-177) writes where the first one takes the position
  to next: its letters are written over, or stand ahead of the text on a screen that was just cleared. `FreeAhead` leaves out the screens
  to which this has happened, up to the next clear (`torn`); the text stays inside of the screen all the same. Each module that links
  the library has its own position.

Applications

- Menu: a shell started in the countdown gets an `InitialMode` of zeros; `ExitMenu` leaves the feeding event with unloaded
  code; a failure in the set-up leaves the watchdog armed with nobody feeding it; after an application returns
  the watchdog is off until the next feeding. `BootApp` keeps a loaded image if `HandleProtocol` fails.
- Memory dump: frees a static buffer; ignores the status of ReadKeyStroke, so that only the splitter's clearing of the key
  (`ConSplitter.c:3559`) keeps the last one from counting again.
- Tetris: a paused piece may fall once more; a new piece is not checked against the pile.

## 6. Left out, and the plan

Left out for good: the vendored EDK II parts that keep no state of interest (component names, SMBIOS, logo, the
exception handler, UGA code that this build switches off), constant tables, straight-line start-up, host tools, the
unreachable data-mover path of the SD driver, the virtual clock's calendar arithmetic, the log ring (an offset that counts up and
returns to zero), the boot manager (straight-line registration through libraries that are not in the repository). Abstracted inside modelled
components: wording and layout, glyphs and fonts, argument checks that return without a change of state, the lock-key flags, delays in
the I2C and SD drivers, the second parts of pointers' axes and buttons, Blt.

A failed assertion ends a model. In the firmware it does not end anything: `PcdDebugPropertyMask` (`CommonDsc.dsc.inc:322-324`) has neither the breakpoint
nor the dead-loop bit, so that a debug build prints and goes on. What the code does after an assertion that failed is not modelled, but
where a section says so (the vibration, the RAM table).

Not modelled because it is not reachable here: pin interrupts (no driver enables one), a second I2C caller inside a
transfer (the drivers that would are not in a build file).

Not modelled either: the memory that the memory dump's helpers allocate and may not get; the voltage of the processor, which the driver does not touch.

Assumptions about the outside: the modem sets `allocated` last and fills a table before; it answers a bell; the I2C controller and the
SD controller behave as their sections say; UEFI boot services keep their specification, and run notification functions at their
priority.

What remains to be done: an abstract block device and an abstract I2C transfer that the drivers implement.
