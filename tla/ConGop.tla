-------------------------------- MODULE ConGop --------------------------------
(***************************************************************************)
(* The graphics half of mConOut (ConSplitter.c, ConSplitterGraphics.c): one *)
(* Graphics Output protocol for those of its consoles that have one.  A     *)
(* mode is a resolution; mode numbers count from one.                       *)
(***************************************************************************)
EXTENDS Integers, SequencesExt, FiniteSetsExt

CONSTANTS
  Gop,         \* the devices with a Graphics Output protocol
  Res,         \* Res[d]: the resolutions of d's modes
  Default      \* 800 by 600

ASSUME GopAssumption ==
  Default \in STRING /\ \A d \in Gop : Res[d] \in Seq(STRING) /\ Res[d] # <<>>

VARIABLES
  gops,        \* the consoles with a GraphicsOutput, CurrentNumberOfGraphicsOutput many
  gop,         \* the splitter's protocol
  shows        \* the mode each device is in

gopVars == <<gops, gop, shows>>

NoDevice == "none"
NoNumber == 0

FirstOf(seq, x) == Min({i \in DOMAIN seq : seq[i] = x})
Has(d, res) == res \in ToSet(Res[d])
Shown(d) == Res[d][shows[d]]

\* fb: the device whose frame buffer is exposed.  History: forced, the first
\* mode was overwritten with the default; settled, every device took the mode
\* that was set last; shrunk, a GOP has left since the modes were numbered.
GopInit ==
  /\ gop = [buffer |-> <<>>, mode |-> NoNumber, info |-> Default, fb |-> NoDevice,
            installed |-> FALSE, forced |-> FALSE, settled |-> FALSE, shrunk |-> FALSE]
  /\ gops = {}
  /\ shows \in [Gop -> UNION {DOMAIN Res[d] : d \in Gop}] /\ \A d \in Gop : shows[d] \in DOMAIN Res[d]

-----------------------------------------------------------------------------
(* ConSplitterGraphicsOutputSetMode; the devices in refusing fail.         *)

\* Each of the devices goes to its own first mode of that resolution.
AllSet(now, ds, res, refusing) ==
  [d \in Gop |-> IF d \in ds \ refusing /\ Has(d, res) THEN FirstOf(Res[d], res) ELSE now[d]]

Takes(ds, res, refusing) == ds \cap refusing = {} /\ \A d \in ds : Has(d, res)

\* The mode is recorded whether they take it or not; now is what they are in
\* then.  A single device lends its information and its frame buffer.
WithMode(g, now, ds, n, refusing) ==
  LET set == [g EXCEPT !.mode = n, !.settled = Takes(ds, g.buffer[n], refusing)] IN
  IF Cardinality(ds) = 1
  THEN LET only == CHOOSE d \in ds : TRUE IN [set EXCEPT !.info = Res[only][now[only]], !.fb = only]
  ELSE [set EXCEPT !.info = g.buffer[n]]

GopSetMode ==
  \E n \in DOMAIN gop.buffer, refusing \in SUBSET gops :
    /\ gop.installed
    /\ shows' = AllSet(shows, gops, gop.buffer[n], refusing)
    /\ gop' = WithMode(gop, shows', gops, n, refusing)
    /\ UNCHANGED gops

\* ConSplitterGraphicsOutputQueryMode
QueryGop(n) ==
  IF Cardinality(gops) = 1 THEN Res[CHOOSE d \in gops : TRUE][n] ELSE gop.buffer[n]

-----------------------------------------------------------------------------
(* ConSplitterAddGraphicsOutputMode, called as d joins gops.               *)

FirstGop(d) ==
  [gop EXCEPT !.buffer = Res[d], !.mode = shows[d], !.info = Shown(d), !.fb = d,
              !.forced = FALSE, !.shrunk = FALSE]

Distinct(seq) == {i \in DOMAIN seq : \A j \in 1..i - 1 : seq[j] # seq[i]}

\* The places of the modes the new device has, too, in their order.
CommonModes(d) ==
  LET common == {i \in Distinct(gop.buffer) : Has(d, gop.buffer[i])} IN
  CHOOSE f \in [1..Cardinality(common) -> common] : \A i, j \in DOMAIN f : i < j => f[i] < f[j]

NextGop(d) ==
  [gop EXCEPT !.buffer = [i \in DOMAIN CommonModes(d) |-> gop.buffer[CommonModes(d)[i]]],
              !.fb = NoDevice, !.shrunk = FALSE]

\* The mode the device is in, if it is still there; else the default; else the first.
CurrentIndex(g, d) ==
  IF Shown(d) \in ToSet(g.buffer) THEN FirstOf(g.buffer, Shown(d))
  ELSE IF Default \in ToSet(g.buffer) THEN FirstOf(g.buffer, Default) ELSE 1

\* When the mode that is set cannot be, the first one becomes the default's.
Forced(g) == [g EXCEPT !.buffer[1] = Default, !.forced = TRUE]

\* Mutant: a new device is taken to be in the mode of the others.
MayStay_Always(g, d, n) == TRUE

\* The others are in this mode already: only the new device may have to be set.
MayStay(g, d, n) == g.buffer[n] = g.info

\* Without a mode in common none can be set: either the mode is invalid, or
\* what lies in the empty buffer looks like the mode that is reported, and the
\* new device may take that.
NothingInCommon(g, d) ==
  \/ gop' = [g EXCEPT !.mode = NoNumber, !.settled = FALSE] /\ UNCHANGED shows
  \/ gop' = [g EXCEPT !.mode = 1, !.settled = FALSE] /\ shows' \in {shows, AllSet(shows, {d}, g.info, {})}

ForceMode(g, d) ==
  LET all == gops \cup {d}
      n == CurrentIndex(g, d)
      res == g.buffer[n] IN
  \E refusing \in SUBSET all :
    IF MayStay(g, d, n)
    THEN LET takes == Shown(d) = res \/ Takes({d}, res, refusing) IN
         /\ gop' = [g EXCEPT !.mode = n, !.settled = takes /\ (gops = {} \/ @),
                             !.installed = @ \/ gops = {}]
         /\ shows' = IF Shown(d) = res THEN shows ELSE AllSet(shows, {d}, res, refusing)
    ELSE LET once == AllSet(shows, all, res, refusing) IN
         IF Takes(all, res, refusing)
         THEN gop' = WithMode(g, once, all, n, refusing) /\ shows' = once
         ELSE /\ shows' = AllSet(once, all, Default, refusing)
              /\ gop' = WithMode(Forced(g), shows', all, 1, refusing)

AddGop(d) ==
  LET g == IF gops = {} THEN FirstGop(d) ELSE NextGop(d) IN
  /\ d \notin gops /\ gops' = gops \cup {d}
  /\ IF g.buffer = <<>> THEN NothingInCommon(g, d) ELSE ForceMode(g, d)

\* ConSplitterTextOutDeleteDevice: neither the modes nor the frame buffer are
\* looked at again.
DeleteGop(d) ==
  /\ d \in gops /\ gops' = gops \ {d}
  /\ gop' = [gop EXCEPT !.installed = @ /\ gops # {d}, !.shrunk = TRUE]
  /\ UNCHANGED shows

GopNext == GopSetMode \/ \E d \in Gop : AddGop(d) \/ DeleteGop(d)

GopSpec == GopInit /\ [][GopNext]_gopVars

-----------------------------------------------------------------------------
(* Properties.                                                             *)

\* Every resolution on offer is one that each device has, unless a device
\* failed to be set and the first mode was overwritten (lines 2834-2898, 3018).
GopModesCommon ==
  \A n \in DOMAIN gop.buffer, d \in gops :
    Has(d, gop.buffer[n]) \/ (gop.forced /\ n = 1)

\* The frame buffer that is exposed is that of the only device there is (lines
\* 2788, 2905-2907 and ConSplitterGraphics.c:184-191).
FrameBufferOfOne == gop.installed /\ gop.fb # NoDevice => gops = {gop.fb}

\* When every device took the mode that was set last, all of them show what the
\* protocol reports as its current mode (lines 2913-3022).
GopsAgree ==
  gop.settled => /\ gop.mode \in DOMAIN gop.buffer
                 /\ \A d \in gops : Shown(d) = gop.buffer[gop.mode] /\ Shown(d) = gop.info

\* QueryMode tells what SetMode would set, while no device has left (lines 62-89
\* of ConSplitterGraphics.c against 130-156).
QueryIsTrue ==
  gop.installed /\ ~gop.shrunk => \A n \in DOMAIN gop.buffer : QueryGop(n) = gop.buffer[n]

\* The protocol is there just when a device is (lines 3255-3281, 3358-3390).
InstalledMeansOne == gop.installed <=> gops # {}

\* What the protocol offers, exposes and reports is what its devices can and do
\* show, while they come, go and refuse.
GraphicsAgree ==
  /\ GopModesCommon /\ FrameBufferOfOne /\ GopsAgree
  /\ QueryIsTrue /\ InstalledMeansOne
=============================================================================
