----------------------------- MODULE KeypadDevice -----------------------------
(***************************************************************************)
(* The keypad device behind KeypadDxe: KeypadDeviceImplGetKeys reads every *)
(* key once per poll and LibKeyUpdateKeyStatus turns presses into key      *)
(* reports: one when a short press ends, repeats while a key is held, and  *)
(* combinations of the dial key with a volume key.                         *)
(*                                                                         *)
(* The keys are read one after another, and a decision about one key looks *)
(* at bits that the other keys have set, in this poll or in the last one.  *)
(*                                                                         *)
(* Times are in units; they are kept up to LongTime, the largest threshold.*)
(***************************************************************************)
EXTENDS Naturals, Sequences

CONSTANTS
  Valid,        \* the keys the board has (IsValid)
  ReleaseTime,  \* MS2NS(10)
  RepeatTime,   \* MS2NS(200)
  LongTime,     \* MS2NS(500)
  Deltas        \* times that pass between two polls

KeyNames == {"Power", "VolumeUp", "VolumeDown", "Back", "Windows", "Home", "Dial"}

\* Every board has the key in the middle, the dial's or the camera's.
ASSUME DeviceAssumption ==
  /\ Valid \subseteq KeyNames /\ "Dial" \in Valid
  /\ {ReleaseTime, RepeatTime, LongTime} \subseteq Nat
  /\ 0 < ReleaseTime /\ ReleaseTime <= RepeatTime /\ RepeatTime <= LongTime
  /\ Deltas \subseteq Nat

\* The order in which GetKeys reads the keys.
KeyList ==
  <<"Power", "VolumeUp", "VolumeDown", "Back", "Windows", "Home", "Dial">>

\* The first place from i on that has a valid key; 0 behind the last.
PlaceFrom(i) ==
  LET places == {j \in i .. Len(KeyList) : KeyList[j] \in Valid} IN
  IF places = {} THEN 0 ELSE CHOOSE j \in places : \A l \in places : j <= l

\* Power, volume and home report a scan code, the others a character.
HasScanCode == {"Power", "VolumeUp", "VolumeDown", "Home"}

VARIABLES
  pos,       \* place in KeyList of the key to be read, 0 between polls
  delta,     \* Delta of this poll
  key,       \* EfiKeyContext of each key
  scanBits,  \* gBitmapScanCodes, as the keys whose bit is set
  charBit,   \* bit 0 of gBitmapUnicodeChars
  down,      \* history: the keys that were pressed when last read
  reports,   \* history: reports in this press of a key, up to 2
  since,     \* history: time since a key's last report, up to RepeatTime
  combo,     \* history: keys that were held together with the dial
  out,       \* history: what the last read of a key reported
  chord      \* history: the combination reported in this poll

deviceVars ==
  <<pos, delta, key, scanBits, charBit, down, reports, since, combo, out, chord>>

Nothing == "nothing"
Combos == {"s", "e", "space"}
Released == [time |-> 0, state |-> "RELEASED", repeat |-> FALSE, longpress |-> FALSE]
AtMost(n, bound) == IF n < bound THEN n ELSE bound

-----------------------------------------------------------------------------
(* The bits of the keys.                                                   *)

\* Both bitmaps are indexed by the scan code, which is 0 for the keys that
\* report a character: these share one bit.
KeySetState(k, pressed) ==
  IF k \in HasScanCode
  THEN /\ scanBits' = IF pressed THEN scanBits \cup {k} ELSE scanBits \ {k}
       /\ UNCHANGED charBit
  ELSE charBit' = pressed /\ UNCHANGED scanBits

\* KeyGetState(0, CHAR_CARRIAGE_RETURN), after KeySetState for the key in hand.
DialBit == charBit'

\* What a long press of the dial stands for.
DialReport ==
  IF "VolumeDown" \in scanBits' THEN "s"
  ELSE IF "VolumeUp" \in scanBits' THEN "e" ELSE "space"

-----------------------------------------------------------------------------
(* LibKeyUpdateKeyStatus, by the state of the key.  c is the context with   *)
(* its time brought up to date.                                            *)

Become(k, c, report) == key' = [key EXCEPT ![k] = c] /\ out' = report

FromReleased(k, c, pressed) ==
  /\ c.state = "RELEASED"
  /\ Become(k, IF pressed THEN [c EXCEPT !.time = 0, !.state = "PRESSED"] ELSE c,
            Nothing)

\* The key repeats.
Repeats(c) == c.repeat /\ c.time >= RepeatTime

\* The press has just become a long one.
BecomesLong(c) == ~Repeats(c) /\ ~c.longpress /\ c.time >= LongTime

StayPressed(k, c) ==
  \/ /\ Repeats(c)
     /\ Become(k, [c EXCEPT !.time = 0], k)
  \/ /\ BecomesLong(c)
     /\ IF k = "Dial"
        THEN Become(k, [c EXCEPT !.longpress = TRUE], DialReport)
        ELSE IF DialBit
        THEN Become(k, [c EXCEPT !.longpress = TRUE], Nothing)
        ELSE Become(k, [c EXCEPT !.longpress = TRUE, !.repeat = TRUE, !.time = 0], k)
  \/ /\ ~Repeats(c) /\ ~BecomesLong(c)
     /\ Become(k, c, Nothing)

\* Mutant: the end of a press goes straight to the released state.
EndPress_Silent(k, c) ==
  IF c.time >= ReleaseTime THEN Become(k, Released, Nothing)
  ELSE Become(k, c, Nothing)

\* A press that has not been long is reported now; after a long one the key is
\* released once ReleaseTime has passed.
EndPress(k, c) ==
  IF ~c.longpress THEN Become(k, [c EXCEPT !.state = "LONGPRESS_RELEASE"], k)
  ELSE IF c.time >= ReleaseTime THEN Become(k, Released, Nothing)
  ELSE Become(k, c, Nothing)

FromPressed(k, c, pressed) ==
  /\ c.state = "PRESSED"
  /\ IF pressed THEN StayPressed(k, c) ELSE EndPress(k, c)

FromReported(k, c) ==
  /\ c.state = "LONGPRESS_RELEASE"
  /\ Become(k, Released, Nothing)

-----------------------------------------------------------------------------
(* KeypadDeviceImplGetKeys and KeypadDeviceImplReset.                      *)

BeginScan(d) ==
  /\ pos = 0
  /\ pos' = PlaceFrom(1)
  /\ delta' = d
  /\ chord' = Nothing
  /\ UNCHANGED <<key, scanBits, charBit, down, reports, since, combo, out>>

Remember(k, pressed) ==
  LET dial == "Dial" \in down'
      held == {h \in Valid : h \in down' /\ key'[h].state = "PRESSED"}
  IN
  /\ down' = IF pressed THEN down \cup {k} ELSE down \ {k}
  /\ reports' = [reports EXCEPT ![k] =
       IF key[k].state = "RELEASED" THEN 0
       ELSE IF out' = Nothing THEN reports[k] ELSE AtMost(reports[k] + 1, 2)]
  /\ since' = [since EXCEPT ![k] =
       IF out' # Nothing THEN 0 ELSE AtMost(since[k] + delta, RepeatTime)]
  /\ combo' = {h \in combo : key'[h].state = "PRESSED"}
                \cup (IF dial THEN held ELSE {})
  /\ chord' = IF out' \in Combos THEN out' ELSE chord

\* One key is read: its line says whether it is pressed.
ReadKey(pressed) ==
  LET k == KeyList[pos]
      c == [key[k] EXCEPT !.time = AtMost(key[k].time + delta, LongTime)]
  IN
  /\ pos # 0
  /\ KeySetState(k, pressed)
  /\ FromReleased(k, c, pressed) \/ FromPressed(k, c, pressed) \/ FromReported(k, c)
  /\ Remember(k, pressed)
  /\ pos' = PlaceFrom(pos + 1)
  /\ UNCHANGED delta

\* The contexts start again, the bits stay.
Reset ==
  /\ pos = 0
  /\ key' = [k \in Valid |-> Released]
  /\ reports' = [k \in Valid |-> 0]
  /\ combo' = {}
  /\ out' = Nothing
  /\ UNCHANGED <<pos, delta, scanBits, charBit, down, since, chord>>

DeviceInit ==
  /\ pos = 0 /\ delta = 0
  /\ key = [k \in Valid |-> Released]
  /\ scanBits = {} /\ charBit = FALSE
  /\ down = {} /\ combo = {}
  /\ reports = [k \in Valid |-> 0]
  /\ since = [k \in Valid |-> RepeatTime]
  /\ out = Nothing /\ chord = Nothing

DeviceNext ==
  \/ \E d \in Deltas : BeginScan(d)
  \/ \E pressed \in BOOLEAN : ReadKey(pressed)
  \/ Reset

DeviceSpec == DeviceInit /\ [][DeviceNext]_deviceVars
-----------------------------------------------------------------------------
(* Properties.                                                             *)

DeviceTypeOK ==
  /\ pos \in 0 .. Len(KeyList)
  /\ delta \in Deltas \cup {0}
  /\ key \in [Valid -> [time : 0 .. LongTime,
                        state : {"RELEASED", "PRESSED", "LONGPRESS_RELEASE"},
                        repeat : BOOLEAN, longpress : BOOLEAN]]
  /\ scanBits \subseteq Valid \cap HasScanCode /\ charBit \in BOOLEAN
  /\ down \subseteq Valid /\ combo \subseteq Valid
  /\ reports \in [Valid -> 0 .. 2] /\ since \in [Valid -> 0 .. RepeatTime]
  /\ out \in Valid \cup Combos \cup {Nothing} /\ chord \in Combos \cup {Nothing}

\* The press of key k ends, and not by a Reset.
PressEnds(k) ==
  pos # 0 /\ key[k].state = "PRESSED" /\ key'[k].state # "PRESSED"

\* Keys read before the character keys lose no press: unless the key was held
\* together with the dial, it was reported when the press ends, however long
\* the press was and whatever the polls' distances were.
NoPressIsLost ==
  \A k \in Valid \ {"Back", "Windows", "Home"} : PressEnds(k) /\ k \notin combo => reports'[k] > 0

\* The same of every key.
NoPressIsLostOnAnyKey ==
  [][\A k \in Valid : PressEnds(k) /\ k \notin combo => reports'[k] > 0]_deviceVars

\* A combination stands for keys that the same poll found pressed, although a
\* bit of an earlier poll stays set until its key's turn comes.
ComboMatchesKeys ==
  pos = 0 =>
    /\ chord = "s" => "VolumeDown" \in down
    /\ chord = "e" => "VolumeUp" \in down /\ "VolumeDown" \notin down
    /\ chord = "space" => down \cap {"VolumeUp", "VolumeDown"} = {}

\* The dial reports once in a press, as a key or as a combination.
DialReportsOnce == "Dial" \in Valid => reports["Dial"] <= 1

\* Reports within a press are RepeatTime apart.
RepeatsArePaced ==
  \A k \in Valid : reports'[k] > reports[k] /\ reports[k] > 0 => since[k] + delta >= RepeatTime

\* Every press is reported, the dial's once and a held key's at its pace, and a
\* combination only for the keys that are down (KeypadDeviceHelperLib.h, lines
\* 54-176, KeypadDeviceImplLib.c, lines 221-301).
PressesReported ==
  [][NoPressIsLost /\ RepeatsArePaced /\ DeviceTypeOK' /\ ComboMatchesKeys' /\ DialReportsOnce']_deviceVars
=============================================================================
