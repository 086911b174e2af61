---------------------------------- MODULE Menu ----------------------------------
(***************************************************************************)
(* The boot menu, HtcLeoMenuApp: the countdown before it, the two menus, the  *)
(* console that it hands to the applications, booting from the file systems, *)
(* and the watchdog that a timer event feeds meanwhile.                      *)
(***************************************************************************)
EXTENDS Naturals, Sequences, FiniteSets

CONSTANTS
  Countdown, \* Timeout: 400 in the code
  Volumes    \* bound: how many file systems there are

VARIABLES
  pc, back,      \* where the application is, and where an application it starts returns to
  pressed,       \* the key that the countdown has read last
  Timeout,
  MenuOptions,   \* the functions of the entries, "inactive" for those not in use
  MenuOptionCount, SelectedIndex,
  rows, lit,     \* the entries that the screen shows, and the one in yellow
  mode, InitialMode, before, \* the console's mode, its copy, and what it was before the menu
  files,         \* for each file system, what LoadImage finds: "none", or whether it comes back
  watchdog,      \* what is left of its period, 0 when it is off
  feed, due      \* the time to the next feeding, and whether its event waits

menuVars == <<pc, back, pressed, Timeout, MenuOptions, MenuOptionCount, SelectedIndex, rows, lit,
              mode, InitialMode, before, files, watchdog, feed, due>>
screen == <<rows, lit>>
console == <<mode, InitialMode, before>>
selection == <<MenuOptions, MenuOptionCount, SelectedIndex>>
time == <<watchdog, feed, due>>

Entries == 0..11   \* MAX_OPTIONS_COUNT
Blank == [i \in Entries |-> "blank"]

\* The keys of the keypad: a scan code or a character, the other one is 0.
NoKey == <<"none", "none">>
Home == <<"home", "none">>
Up == <<"up", "none">>
Down == <<"down", "none">>
Power == <<"escape", "none">>
Back == <<"none", "backspace">>
Windows == <<"none", "tab">>
Dial == <<"none", "return">>
Keys == {NoKey, Home, Up, Down, Power, Back, Windows, Dial}
\* The number of CHAR_BACKSPACE is a scan code too, that of a key named delete.
ScanCodeOf(char) == IF char = "backspace" THEN "delete" ELSE "none"

\* In units of 30 s: TimerPeriod, the period of the event, the boot manager's.
Period == 4
FeedEvery == 2
BootPeriod == 10

MenuInit ==
  /\ pc = "setup" /\ back = "count" /\ pressed = NoKey /\ Timeout = Countdown
  /\ MenuOptions = [i \in Entries |-> "inactive"] /\ MenuOptionCount = 0 /\ SelectedIndex = 0
  /\ rows = Blank /\ lit = 0
  /\ mode = [attribute |-> "boot", visible |-> TRUE]
  /\ InitialMode = [attribute |-> "black", visible |-> FALSE] /\ before = mode
  /\ files \in [1..Volumes -> {"none", "stays", "returns"}]
  /\ watchdog = 0 /\ feed = 0 /\ due = FALSE

-----------------------------------------------------------------------------
(* The watchdog.                                                           *)

\* The time to the event's next expiry: it is a periodic one.
Arm == FeedEvery

\* The watchdog is set first; when the event cannot be had it stays set.
Setup(possible) ==
  /\ pc = "setup"
  /\ watchdog' = Period
  /\ IF possible THEN pc' = "count" /\ feed' = FeedEvery /\ rows' = Blank ELSE pc' = "failed" /\ UNCHANGED <<feed, rows>>
  /\ UNCHANGED <<back, pressed, Timeout, selection, lit, console, files, due>>

Alive == pc \notin {"setup", "failed", "reset", "bitten", "exited", "os"}

\* An event that is due has run before the next unit is over.
Time ==
  /\ Alive /\ ~due
  /\ due' = (feed = 1)
  /\ feed' = IF feed = 1 THEN Arm ELSE IF feed = 0 THEN 0 ELSE feed - 1
  /\ watchdog' = IF watchdog = 0 THEN 0 ELSE watchdog - 1
  /\ pc' = IF watchdog = 1 THEN "bitten" ELSE pc
  /\ UNCHANGED <<back, pressed, Timeout, selection, screen, console, files>>

FeedWatchdogCallback ==
  /\ Alive /\ due
  /\ due' = FALSE /\ watchdog' = Period
  /\ UNCHANGED <<pc, back, pressed, Timeout, selection, screen, console, files, feed>>

-----------------------------------------------------------------------------
(* Applications.                                                           *)

\* StartApp: the boot manager knows the application or not.  It sets the
\* watchdog for the time of the boot, and switches it off afterwards.
StartApp(found, to) ==
  IF found
  THEN /\ pc' = "app" /\ back' = to
       /\ mode' = InitialMode /\ rows' = Blank /\ watchdog' = BootPeriod
       /\ UNCHANGED <<InitialMode, before, lit, feed, due>>
  ELSE pc' = to /\ UNCHANGED <<back, screen, console, time>>

\* It leaves the screen and the colours as it likes.
AppReturns ==
  /\ pc = "app" /\ pc' = back
  /\ mode' \in {mode, [mode EXCEPT !.attribute = "app"]}
  /\ watchdog' = 0
  /\ UNCHANGED <<back, pressed, Timeout, selection, screen, InitialMode, before, files, feed, due>>

\* DiscoverAndBootApp: the first file system with an image that can be loaded.
Bootable == {v \in 1..Volumes : files[v] # "none" /\ \A w \in 1..(v - 1) : files[w] = "none"}

BootDefault(to) ==
  pc' = IF \E v \in Bootable : files[v] = "stays" THEN "os" ELSE to

BootEsp ==
  /\ pc = "esp" /\ BootDefault("menu")
  /\ UNCHANGED <<back, pressed, Timeout, selection, screen, console, files, time>>

-----------------------------------------------------------------------------
(* ShellAppMain.                                                           *)

NextSecond(key) ==
  /\ Timeout' = Timeout - 1
  /\ pc' = IF Timeout = 1 THEN "esp" ELSE "count"

CountDown(key) ==
  /\ pc = "count" /\ pressed' = key
  /\ CASE key[1] = "home" ->
            pc' = "menu" /\ UNCHANGED <<back, Timeout, screen, console, time>>
       [] key[1] = ScanCodeOf("backspace") ->
            pc' = "esp" /\ UNCHANGED <<back, Timeout, screen, console, time>>
       [] key[1] = "escape" ->
            /\ Timeout' = Timeout - 1
            /\ \E found \in BOOLEAN : StartApp(found, IF Timeout = 1 THEN "esp" ELSE "count")
       [] OTHER -> NextSecond(key) /\ UNCHANGED <<back, screen, console, time>>
  /\ UNCHANGED <<selection, files>>

\* FillMenu writes its seven entries and leaves the others.
FillMenu ==
  LET functions == <<"boot", "tetris", "shell", "dmesg", "memory", "reboot menu", "exit">> IN
  MenuOptions' = [i \in Entries |-> IF i < 7 THEN functions[i + 1] ELSE MenuOptions[i]]

PrepareConsole ==
  /\ InitialMode' = mode
  /\ mode' = [attribute |-> "menu", visible |-> FALSE]

StartMenu ==
  /\ pc = "menu" /\ pc' = "draw"
  /\ FillMenu /\ PrepareConsole /\ before' = mode /\ rows' = Blank
  /\ pressed' = NoKey
  /\ UNCHANGED <<back, Timeout, MenuOptionCount, SelectedIndex, lit, files, time>>

\* All active entries are counted; the drawing stops at the first that is not.
DrawMenu ==
  /\ pc = "draw" /\ pc' = "key"
  /\ MenuOptionCount' = Cardinality({i \in Entries : MenuOptions[i] # "inactive"})
  /\ rows' = [i \in Entries |->
                IF \A j \in 0..i : MenuOptions[j] # "inactive" THEN MenuOptions[i] ELSE rows[i]]
  /\ lit' = SelectedIndex
  /\ UNCHANGED <<back, pressed, Timeout, MenuOptions, SelectedIndex, console, files, time>>

-----------------------------------------------------------------------------
(* HandleKeyInput.                                                         *)

MainMenu ==
  /\ SelectedIndex' = 0 /\ rows' = Blank /\ FillMenu /\ pc' = "draw"
  /\ UNCHANGED <<back, MenuOptionCount, lit, console, time>>

Move(to) ==
  /\ SelectedIndex' = to /\ pc' = "draw"
  /\ UNCHANGED <<back, MenuOptions, MenuOptionCount, screen, console, time>>

\* Mutant: the selection stays where it was.
RebootMenu_KeepsIndex ==
  /\ rows' = Blank /\ pc' = "draw"
  /\ MenuOptions' = [i \in Entries |-> IF i < 3 THEN <<"nothing", "cold", "shutdown">>[i + 1] ELSE "inactive"]
  /\ UNCHANGED <<back, MenuOptionCount, SelectedIndex, lit, console, time>>

RebootMenu ==
  /\ SelectedIndex' = 0 /\ rows' = Blank /\ pc' = "draw"
  /\ MenuOptions' = [i \in Entries |-> IF i < 3 THEN <<"nothing", "cold", "shutdown">>[i + 1] ELSE "inactive"]
  /\ UNCHANGED <<back, MenuOptionCount, lit, console, time>>

\* The function of the selected entry.  StartShell and the dump of the memory
\* clear the screen, a dump comes back whether it has succeeded or not.
Call(function) ==
  CASE function = "reboot menu" -> RebootMenu
    [] function = "boot" -> BootDefault("draw") /\ UNCHANGED <<back, selection, screen, console, time>>
    [] function \in {"tetris", "shell"} ->
         (\E found \in BOOLEAN : StartApp(found, "draw")) /\ UNCHANGED selection
    [] function = "memory" ->
         rows' = Blank /\ pc' = "draw" /\ UNCHANGED <<back, selection, lit, console, time>>
    [] function \in {"cold", "shutdown"} -> pc' = "reset" /\ UNCHANGED <<back, selection, screen, console, time>>
    [] function = "exit" ->
         pc' = "exited" /\ rows' = Blank /\ UNCHANGED <<back, selection, lit, console, time>>
    [] OTHER -> pc' = "draw" /\ UNCHANGED <<back, selection, screen, console, time>>

HandleKeyInput(key) ==
  /\ pc = "key"
  /\ CASE key = Home -> MainMenu
       [] key = Up -> Move(IF SelectedIndex = 0 THEN MenuOptionCount - 1 ELSE SelectedIndex - 1)
       [] key = Down -> Move(IF SelectedIndex = MenuOptionCount - 1 THEN 0 ELSE SelectedIndex + 1)
       [] key = Dial -> Call(MenuOptions[SelectedIndex])
       [] OTHER -> pc' = "draw" /\ UNCHANGED <<back, selection, screen, console, time>>
  /\ UNCHANGED <<pressed, Timeout, files>>

MenuStep ==
  BootEsp \/ StartMenu \/ DrawMenu \/ \E key \in Keys : CountDown(key) \/ HandleKeyInput(key)
MenuNext ==
  MenuStep \/ Time \/ FeedWatchdogCallback \/ AppReturns \/ \E possible \in BOOLEAN : Setup(possible)
MenuSpec == MenuInit /\ [][MenuNext]_menuVars /\ WF_menuVars(MenuStep)

-----------------------------------------------------------------------------
(* Properties.                                                             *)

\* When a key is read, the entry in yellow is the one that the dial key starts,
\* it exists, and the screen shows no entry that is not there (DrawMenu, lines
\* 73-104, HandleKeyInput, lines 116-173).
WhatIsLitRuns ==
  pc = "key" =>
    /\ lit = SelectedIndex /\ SelectedIndex < MenuOptionCount
    /\ MenuOptions[SelectedIndex] # "inactive"
    /\ \A i \in Entries : rows[i] \in {MenuOptions[i], "blank"}
    /\ rows[lit] = MenuOptions[lit]

\* An application that the menu starts gets the console as it was before the
\* menu (RestoreInitialConsoleMode, lines 46-60).
ConsoleGivenBack == pc = "key" /\ pc' = "app" => mode' = before

\* The watchdog does not bite while the application or one that it has started
\* runs (FeedWatchdogCallback, lines 262-275).
NotBitten == pc # "bitten"

\* The boot from the file systems comes back only if an application did, or if
\* none of them has one (DiscoverAndBootApp, BootApp.c, lines 20-59).
FoundMeansBooted ==
  pc = "esp" /\ pc' = "menu"
    => (\E v \in 1..Volumes : files[v] = "returns") \/ \A v \in 1..Volumes : files[v] = "none"

\* The countdown is over in the end, whatever keys are pressed (lines 326-357).
CountdownEnds == <>[](pc # "count")

\* What the menu shows runs, on a console as it was before, with the watchdog
\* fed, whatever was pressed, chosen and booted before.
MenuRuns == [][WhatIsLitRuns' /\ NotBitten' /\ ConsoleGivenBack /\ FoundMeansBooted]_menuVars

\* "Back key to boot from ESP" (menu.c, line 321).
BackBoots == pressed = Back => pc # "count"
=============================================================================
