----------------------------- MODULE GraphicsBinding -----------------------------
(***************************************************************************)
(* Start and Stop of GraphicsConsole.c on a Graphics Output protocol: the    *)
(* resolution it picks, the text modes it derives from it, and what it holds *)
(* of the protocol.  The phone has one such protocol, that of SimpleFbDxe.   *)
(***************************************************************************)
EXTENDS Integers, SequencesExt, FiniteSetsExt

CONSTANTS
  Resolution,   \* <<width, height>> of the modes a graphics protocol may have
  MostModes,    \* bound: of one protocol
  PcdVideo      \* the resolutions a build may prefer; <<0, 0>>: the largest

VARIABLES
  display,   \* the graphics protocol: its modes, the current one, those it cannot
             \* set (refused), and those it does not tell about (silent)
  pcd,       \* the resolution this build prefers
  console,   \* NoConsole, or its text modes and the resolution they are for
  held       \* what the driver has opened or allocated for the console

bindingVars == <<display, pcd, console, held>>

Modes(d) == 1..Len(d.modes)
Answered(d) == Modes(d) \ d.silent \* QueryMode tells about them
NoConsole == [res |-> <<0, 0>>, text |-> <<>>]

-----------------------------------------------------------------------------
(* The text modes.                                                         *)

GlyphWidth == 8
GlyphHeight == 19

Fits(size, res) == size[1] <= res[1] \div GlyphWidth /\ size[2] <= res[2] \div GlyphHeight
Hole == <<0, 0>>
FullScreen(res) == <<res[1] \div GlyphWidth, res[2] \div GlyphHeight>>
mGraphicsConsoleModeData(res) == <<<<100, 31>>, <<40, 12>>, FullScreen(res)>>

\* A size of the table follows if it fits and is not yet there.
WithSize(list, size, res) ==
  IF 0 \in {size[1], size[2]} \/ ~Fits(size, res) \/ size \in ToSet(list) THEN list ELSE Append(list, size)

\* Mode 0 is 40 by 12 whether it fits or not, mode 1 is 80 by 50 or a hole;
\* then the sizes of the table.
TextModes(res) ==
  LET first == <<<<40, 12>>, IF Fits(<<80, 50>>, res) THEN <<80, 50>> ELSE Hole>>
      size == mGraphicsConsoleModeData(res) IN
  WithSize(WithSize(WithSize(first, size[1], res), size[2], res), size[3], res)

\* Mode 0 does not ask whether it fits: it does on the phone's screen, and on
\* all that the driver is started on here.
ASSUME BindingAssumption ==
  /\ \A res \in Resolution : res \in Nat \X Nat /\ Fits(<<40, 12>>, res)
  /\ MostModes \in Nat

\* Where the text begins on the screen, so as to be in its middle.
Delta(size, res) == <<(res[1] - size[1] * GlyphWidth) \div 2, (res[2] - size[2] * GlyphHeight) \div 2>>

-----------------------------------------------------------------------------
(* The resolution.                                                         *)

\* The modes with a resolution that are, or can be, the current one.
Reachable(d, res) ==
  {n \in Answered(d) : d.modes[n] = res /\ (d.modes[d.current] = res \/ n \notin d.refused)}

\* CheckModeSupported sets the mode it finds, unless its resolution is in force.
CheckModeSupported(d, res) ==
  LET n == Min(Reachable(d, res)) IN
  [number |-> n, display |-> IF d.modes[d.current] = res THEN d ELSE [d EXCEPT !.current = n]]

LargestMode(d) ==
  CHOOSE n \in Answered(d) :
    /\ \A k \in Answered(d) : d.modes[k][1] < d.modes[n][1]
                           \/ (d.modes[k][1] = d.modes[n][1] /\ d.modes[k][2] <= d.modes[n][2])
    /\ \A k \in Answered(d) : d.modes[k] = d.modes[n] => n <= k

\* Mutant: the resolution stays 800 by 600 when the current mode is kept.
PickMode_KeepFallback(d) ==
  IF Reachable(d, pcd) # {} THEN [CheckModeSupported(d, pcd) EXCEPT !.number = <<@, pcd>>]
  ELSE IF Reachable(d, <<800, 600>>) # {}
       THEN [CheckModeSupported(d, <<800, 600>>) EXCEPT !.number = <<@, <<800, 600>>>>]
       ELSE [number |-> <<d.current, <<800, 600>>>>, display |-> d]

\* The preferred resolution, or 800 by 600, or what there is: the number of
\* the mode and the resolution the console believes it has.
PickMode(d) ==
  LET found(res) == [CheckModeSupported(d, res) EXCEPT !.number = <<@, res>>] IN
  IF pcd = <<0, 0>> THEN [number |-> <<LargestMode(d), d.modes[LargestMode(d)]>>, display |-> d]
  ELSE IF Reachable(d, pcd) # {} THEN found(pcd)
  ELSE IF Reachable(d, <<800, 600>>) # {} THEN found(<<800, 600>>)
  ELSE [number |-> <<d.current, d.modes[d.current]>>, display |-> d]

-----------------------------------------------------------------------------
(* The driver binding.                                                     *)

\* The display of SimpleFbDxe: one mode, and a SetMode that does nothing.
SimpleFb == [modes |-> <<<<480, 800>>>>, current |-> 1, refused |-> {}, silent |-> {}]

\* Any other, as the driver is written for.
OtherDisplays ==
  {d \in [modes : UNION {[1..n -> Resolution] : n \in 1..MostModes}, current : 1..MostModes,
          refused : SUBSET (1..MostModes), silent : SUBSET (1..MostModes)] :
     d.current \in Modes(d) /\ d.refused \cup d.silent \subseteq Modes(d)}

BindingInit ==
  /\ display \in {SimpleFb} \cup OtherDisplays
  /\ pcd \in PcdVideo
  /\ console = NoConsole /\ held = {}

\* The driver core calls Start where Supported has opened, and closed again,
\* the graphics protocol: nobody has it open for the driver.
Supported == "graphics" \notin held

\* What Start has acquired is given back: the protocol if it is open, the two
\* buffers if there are any, and the device.
ErrorExit(acquired) == acquired \ {"graphics", "line", "modes", "device"}

\* There is no memory for the device, or the protocol is not to be opened, or to
\* find the largest mode none is told about.
NotOpened ==
  /\ \/ held' = {} \/ held' = ErrorExit({"device"})
     \/ pcd = <<0, 0>> /\ Answered(display) = {} /\ held' = ErrorExit({"device", "graphics"})
  /\ UNCHANGED <<display, console>>

\* The mode is set if it is not the current one already; that, in the debug build
\* the first SetMode (with or without a line buffer yet) and the first string, or
\* the installation of the protocol may fail.
Opened ==
  /\ ~(pcd = <<0, 0>> /\ Answered(display) = {})
  /\ LET pick == PickMode(display)
         number == pick.number[1]
         res == pick.number[2]
         same == number = pick.display.current IN
     IF ~same /\ number \in pick.display.refused
     THEN display' = pick.display /\ held' = ErrorExit({"graphics", "device"}) /\ UNCHANGED console
     ELSE /\ display' = [pick.display EXCEPT !.current = number]
          /\ \E line \in {{}, {"line"}} :
               LET acquired == {"graphics", "device", "modes"} \cup line IN
               \/ console' = [res |-> res, text |-> TextModes(res)] /\ held' = acquired
               \/ UNCHANGED console /\ held' = ErrorExit(acquired)

ControllerDriverStart ==
  /\ Supported /\ console = NoConsole
  /\ NotOpened \/ Opened
  /\ UNCHANGED pcd

\* GraphicsConsoleConOutSetMode replaces the line buffer.
FirstSetMode ==
  /\ console # NoConsole
  /\ held' = held \cup {"line"}
  /\ UNCHANGED <<display, pcd, console>>

\* When the text protocol cannot be uninstalled, all stays as it is.
ControllerDriverStop ==
  /\ console # NoConsole
  /\ console' = NoConsole /\ held' = ErrorExit(held)
  /\ UNCHANGED <<display, pcd>>

\* Whoever else has the graphics protocol sets a mode while the driver does not have it.
OtherSetMode ==
  /\ console = NoConsole
  /\ \E n \in Modes(display) \ display.refused : display' = [display EXCEPT !.current = n]
  /\ UNCHANGED <<pcd, console, held>>

BindingNext == ControllerDriverStart \/ FirstSetMode \/ ControllerDriverStop \/ OtherSetMode
BindingSpec == BindingInit /\ [][BindingNext]_bindingVars

-----------------------------------------------------------------------------
(* Properties.                                                             *)

\* The text modes are for the resolution that is in force, whatever mode was
\* asked for, found, refused or kept (lines 442-523, 751-803).
ResolutionInForce ==
  console # NoConsole => console.res = display.modes[display.current]

\* Every mode but the hole has its own size and lies on the screen with the
\* same margin on both sides; the last is as large as the screen, or is one
\* that came before (lines 233-366).
ModesOnScreen ==
  console # NoConsole =>
    LET text == console.text
        res == console.res
        sizes == ToSet(text) \ {Hole} IN
    /\ \A i, j \in 1..Len(text) : text[i] = text[j] => i = j
    /\ \A s \in sizes :
         LET d == Delta(s, res) IN
         /\ d[1] >= 0 /\ d[2] >= 0
         /\ res[1] - s[1] * GlyphWidth - 2 * d[1] \in {0, 1}
         /\ res[2] - s[2] * GlyphHeight - 2 * d[2] \in {0, 1}
    /\ FullScreen(res) \in sizes

\* No console: nothing is held, after a failure as after Stop (lines 606-639, 695-727).
NothingHeld == console = NoConsole => held = {}

\* The console of a display fits it, and without one nothing is held.
ConsoleFits == ResolutionInForce /\ ModesOnScreen /\ NothingHeld
=============================================================================
