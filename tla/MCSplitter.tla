------------------------------ MODULE MCSplitter ------------------------------
(***************************************************************************)
(* The console splitter, each part on its own: keyboards, pointers, text   *)
(* consoles, graphics, colours and the driver bindings.                    *)
(***************************************************************************)
EXTENDS ConIn, ConPointers, ConBinding, ConStyle, ConGop, ConOut, TLC

CONSTANTS m1, m2, t1, t2

VARIABLE focus  \* what a behaviour is about

\* Keyboards and pointers, with buffers that grow by one device.
MCPointerKind == [p \in Pointer |-> IF p \in {m1, m2} THEN "simple" ELSE "absolute"]
MCResolution == (m1 :> 2) @@ (m2 :> 3)
MCLowest == [p \in {t1, t2} |-> 0]
MCHighest == (t1 :> 2) @@ (t2 :> 4)

MCSyncReg == [key |-> "partial", toggle |-> 0, fn |-> "sync"]
MCReg == {[key |-> "k", toggle |-> t, fn |-> "f"] : t \in {0, 1}}

\* Three consoles with different modes and resolutions; two controllers and two
\* consoles for the driver bindings and the colours.
MCModes ==
  [d \in {"a", "b", "c"} |-> CASE d = "a" -> <<"40x12", "0x0", "60x42">>
                      [] d = "b" -> <<"40x12", "80x50", "100x31", "60x42">>
                      [] OTHER -> <<"40x12", "80x50", "100x31">>]
MCRes ==
  [d \in {"a", "b", "c"} |-> CASE d = "a" -> <<"480x800", "480x800", "800x600">>
                   [] d = "b" -> <<"800x600", "1024x768", "480x800">>
                   [] OTHER -> <<"1024x768", "480x800">>]

inVars == <<vars, pvars>>
allVars == <<focus, inVars, textVars, gopVars, bindVars, styleVars>>

Keyboards == {"keys", "toggles", "notifications"}
Mice == {"mice", "touch screens"}
TextAbout == {"tables", "modes", "cursors"}

\* The parts a behaviour is not about stay in one initial state.
MCInit ==
  /\ focus \in Keyboards \cup Mice \cup TextAbout \cup {"graphics", "colours"} \cup Kind
  /\ Init /\ PointersInit /\ TextInit /\ GopInit /\ BindInit /\ StyleInit
  /\ focus # "graphics" => \A d \in Gop : shows[d] = 1
  /\ focus \notin Kind => virtual = {}
  /\ focus # "colours" => \A d \in {"a", "b"} : pen[d].visible

NoEx == Device \ ExDevice

\* No device fails to start, and the two keyboards have two keys together.
Smooth ==
  /\ open' \subseteq ToSet(textInEx')
  /\ \A d \in Device : made'[d] = 2 => \A e \in Device \ {d} : made'[e] = 0
  /\ setting'.value = 0

KeyStep ==
  /\ focus \in Keyboards /\ Next /\ UNCHANGED pvars
  /\ focus = "keys" => Smooth
  /\ focus # "notifications" => open' \cap NoEx = {} /\ \A d \in NoEx : made'[d] = 0
  /\ focus # "keys" => UNCHANGED <<made, exported, signalled>>
  /\ focus # "toggles" => UNCHANGED pending /\ (devToggle' = devToggle \/ open' # open)
  /\ focus = "notifications" => UNCHANGED torn /\ Idle'
  /\ focus # "notifications" => Len(notifyList') = 1

PointerStep ==
  /\ focus \in Mice /\ PointersNext /\ UNCHANGED vars
  /\ \/ focus = "mice" /\ managed' \subseteq {m1, m2} /\ UNCHANGED place
     \/ focus = "touch screens" /\ managed' \subseteq {t1, t2} /\ UNCHANGED moved

\* A behaviour of text consoles is about three that come and go, two to both
\* splitters; or about the modes, or the cursors, of two, one in both.  What a
\* console with graphics adds to that has state of its own.
InFocus(s, d) ==
  IF focus = "tables" THEN d # "c" \/ s = "ConOut" ELSE d = "a" \/ (d = "b" /\ s = "ConOut")

TextStep ==
  \E s \in TextSplitter :
    \/ \E d \in {"a", "b", "c"} : InFocus(s, d) /\ (TextOutAddDevice(s, d) \/ TextOutDeleteDevice(s, d))
    \/ focus = "modes" /\ ModeCall(s)
    \/ focus = "cursors" /\ CursorCall(s)

ConsoleStep == focus \in TextAbout /\ TextStep
GraphicsStep == focus = "graphics" /\ GopNext
BindStep ==
  \E h \in {"a", "b"} :
    Plug(focus, h) \/ Unplug(focus, h) \/ ConSplitterStart(focus, h) \/ ConSplitterStop(focus, h)

MCNext ==
  /\ UNCHANGED focus
  /\ \/ (KeyStep \/ PointerStep) /\ UNCHANGED <<textVars, gopVars, bindVars, styleVars>>
     \/ ConsoleStep /\ UNCHANGED <<inVars, gopVars, bindVars, styleVars>>
     \/ GraphicsStep /\ UNCHANGED <<inVars, textVars, bindVars, styleVars>>
     \/ focus = "colours" /\ StyleNext /\ UNCHANGED <<inVars, textVars, gopVars, bindVars>>
     \/ focus \in Kind /\ BindStep /\ UNCHANGED <<inVars, textVars, gopVars, styleVars>>

MCSpec == MCInit /\ [][MCNext]_allVars

Symmetry == Permutations(ExDevice)
=============================================================================
