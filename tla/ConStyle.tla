-------------------------------- MODULE ConStyle --------------------------------
(***************************************************************************)
(* Colours and the visible cursor of the console splitter's output: mConOut *)
(* and mStdErr each have an attribute of their own, and the consoles they    *)
(* write to, some of both, keep the one they were told last.                *)
(***************************************************************************)
EXTENDS Integers

CONSTANTS
  Screen,      \* the output devices
  Foregrounds, \* bound: the colours callers set; "lightgray" and "magenta" are
  Backgrounds  \* those of a new console; "black" among the backgrounds

VARIABLES
  style,   \* each splitter: its consoles, attribute, whether the cursor shows
  pen,     \* each device: the same of its own
  right    \* history: the last text of the device was drawn in the attribute of
           \* the splitter it came from

styleVars == <<style, pen, right>>

Splitter == {"ConOut", "StdErr"}
Attribute == [fg : Foregrounds, bg : Backgrounds]
Plain == [fg |-> "black", bg |-> "black"]

\* EFI_TEXT_ATTR(LIGHTGRAY, BLACK) and of magenta.
FirstColour(s) == [fg |-> IF s = "ConOut" THEN "lightgray" ELSE "magenta", bg |-> "black"]

\* The history hides: since the splitter hid the cursor, nobody else has.
StyleInit ==
  /\ style = [s \in Splitter |-> [list |-> {}, attribute |-> Plain, visible |-> TRUE, hides |-> FALSE]]
  /\ pen \in [Screen -> {[attribute |-> FirstColour("ConOut"), visible |-> v] : v \in BOOLEAN}]
  /\ right = [d \in Screen |-> TRUE]

Other(s) == CHOOSE t \in Splitter : t # s
Shares(s) == style["ConOut"].list \cap style["StdErr"].list # {}

-----------------------------------------------------------------------------
(* ConSplitterTextOutSetAttribute: every console of the splitter.           *)
Coloured(s, a, pens) == [d \in Screen |-> IF d \in style'[s].list THEN [pens[d] EXCEPT !.attribute = a] ELSE pens[d]]

SetAttribute(s, a) ==
  /\ style' = [style EXCEPT ![s].attribute = a]
  /\ pen' = Coloured(s, a, pen) /\ UNCHANGED right

\* Mutant: the consoles are trusted to have the splitter's attribute.
OutputString_Trusts(s) ==
  /\ style' = style /\ pen' = pen
  /\ right' = [d \in Screen |-> IF d \in style[s].list THEN pen[d].attribute = style[s].attribute ELSE right[d]]

\* The attribute is set anew before the text.
OutputString(s) ==
  /\ style' = style
  /\ pen' = Coloured(s, style[s].attribute, pen)
  /\ right' = [d \in Screen |-> IF d \in style[s].list THEN pen'[d].attribute = style[s].attribute ELSE right[d]]

\* Every console is reset, to mode 0 and a black background, and then has the
\* splitter's colour.
TextOutReset(s) ==
  LET a == [style[s].attribute EXCEPT !.bg = "black"] IN
  /\ style' = [style EXCEPT ![s].attribute = a, ![s].visible = TRUE, ![s].hides = FALSE]
  /\ pen' = Coloured(s, a, pen) /\ UNCHANGED right

EnableCursor(s, visible) ==
  /\ style' = [style EXCEPT ![s].visible = visible, ![s].hides = ~visible,
                            ![Other(s)].hides = @ /\ (visible => ~Shares(s))]
  /\ pen' = [d \in Screen |-> IF d \in style[s].list THEN [pen[d] EXCEPT !.visible = visible] ELSE pen[d]]
  /\ UNCHANGED right

\* The splitter takes the cursor for visible then; the consoles keep theirs.
ClearScreen(s) ==
  /\ style' = [style EXCEPT ![s].visible = TRUE, ![s].hides = FALSE]
  /\ UNCHANGED <<pen, right>>

\* ConSplitterConOutDriverBindingStart and that of StdErr: the new console has
\* its mode set, and all consoles get the first colour again.
AddDevice(s, d) ==
  /\ d \notin style[s].list
  /\ style' = [style EXCEPT ![s].list = @ \cup {d}, ![s].attribute = FirstColour(s),
                            ![s].visible = TRUE, ![s].hides = FALSE]
  /\ pen' = Coloured(s, FirstColour(s), pen) /\ UNCHANGED right

DeleteDevice(s, d) ==
  /\ d \in style[s].list
  /\ style' = [style EXCEPT ![s].list = @ \ {d}, ![s].visible = @ \/ style[s].list = {d},
                            ![s].hides = @ /\ style[s].list # {d}]
  /\ UNCHANGED <<pen, right>>

StyleNext ==
  \E s \in Splitter :
    \/ \E d \in Screen : AddDevice(s, d) \/ DeleteDevice(s, d)
    \/ \E a \in Attribute : SetAttribute(s, a)
    \/ OutputString(s) \/ TextOutReset(s) \/ ClearScreen(s)
    \/ \E visible \in BOOLEAN : EnableCursor(s, visible)
StyleSpec == StyleInit /\ [][StyleNext]_styleVars

-----------------------------------------------------------------------------
(* Properties.                                                             *)

\* Text is in the colours of the splitter it was written to, on every console,
\* whatever the other splitter has set on a console of both (ConSplitter.c,
\* lines 4626-4643, 4915-4932).
TextInItsColours == \A d \in Screen : right[d]

\* A splitter that has hidden the cursor and reports so has hidden it on every
\* console, until the other splitter shows it on one of both or a console comes
\* (lines 4980, 5096-5110).
HiddenIsHidden ==
  \A s \in Splitter :
    /\ style[s].hides => \A d \in style[s].list : ~pen[d].visible
    /\ style[s].hides => ~style[s].visible

\* Two splitters on one console do not spoil each other's colours, nor does one
\* show the cursor that the other has reported as hidden.
StylesKept == TextInItsColours /\ HiddenIsHidden
=============================================================================
