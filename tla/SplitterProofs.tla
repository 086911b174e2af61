---------------------------- MODULE SplitterProofs ----------------------------
(***************************************************************************)
(* That the console splitter holds what it has listed and lists what it    *)
(* holds, for any number of controllers with or without SimpleTextInputEx; *)
(* that its graphics protocol tells the truth about its devices, for any   *)
(* number of them with any resolutions; and that the consoles behind its   *)
(* two text consoles show what those say, for any number of devices with   *)
(* any modes.                                                              *)
(***************************************************************************)
EXTENDS ConBinding, ConGop, ConOut, ConStyle, FiniteSetTheorems, FunctionTheorems, SequenceTheorems,
        WellFoundedInduction, TLAPS

-----------------------------------------------------------------------------
(* The driver bindings.                                                    *)

\* The records of the driver are sets for each kind of device.
BindTypes ==
  /\ there \in [Kind -> SUBSET Controller] /\ driver \in [Kind -> SUBSET Controller]
  /\ child \in [Kind -> SUBSET Controller] /\ listed \in [Kind -> SUBSET Controller]
  /\ failed \in [Kind -> SUBSET Controller] /\ listedEx \subseteq Controller

BindInv == BindTypes /\ HeldAsListed

LEMMA BindInitHolds == BindInit => BindInv
  BY DEF BindInit, BindInv, BindTypes, HeldAsListed, HeldWhileListed, NothingLeaks, Empty, Kind

LEMMA PlugKeeps ==
  ASSUME BindInv, NEW k \in Kind, NEW h \in Controller, Plug(k, h)
  PROVE  BindInv'
  BY DEF Plug, BindInv, BindTypes, HeldAsListed, HeldWhileListed, NothingLeaks

\* A protocol that the driver has open is not taken away, and what is listed is open.
LEMMA UnplugKeeps ==
  ASSUME BindInv, NEW k \in Kind, NEW h \in Controller, Unplug(k, h)
  PROVE  BindInv'
<1>1. BindTypes'
  BY DEF Unplug, BindInv, BindTypes
<1>2. HeldWhileListed'
  <2>1. h \notin driver[k] /\ UNCHANGED <<listed, listedEx, driver, child>>
    BY DEF Unplug
  <2>2. \A j \in Kind : there'[j] = IF j = k THEN there[j] \ {h} ELSE there[j]
    BY DEF Unplug, BindInv, BindTypes
  <2> QED
    BY <2>1, <2>2 DEF BindInv, HeldAsListed, HeldWhileListed
<1>3. NothingLeaks'
  BY DEF Unplug, BindInv, HeldAsListed, NothingLeaks
<1> QED
  BY <1>1, <1>2, <1>3 DEF BindInv, HeldAsListed

\* The ends of a Start: an error before anything is held or with it released again;
\* an error that keeps the controller open, listed or not; success, which is listed.
LEMMA StartKeeps ==
  ASSUME BindInv, NEW k \in Kind, NEW h \in Controller, ConSplitterStart(k, h)
  PROVE  BindInv'
<1>1. PICK interface, memory, memoryEx, graphics \in BOOLEAN :
        LET held == Opened(k, h) /\ interface
            ex == k = "ConIn" /\ h \in Extended
            good == held /\ memory /\ Reported(k, graphics, ex => memoryEx) IN
        /\ Supported(k, h)
        /\ HeldAfterStart(k, h, interface)
        /\ listed' = IF held /\ memory THEN [listed EXCEPT ![k] = @ \cup {h}] ELSE listed
        /\ listedEx' = IF held /\ memory /\ ex /\ memoryEx THEN listedEx \cup {h} ELSE listedEx
        /\ failed' = [failed EXCEPT ![k] = IF good THEN @ \ {h} ELSE @ \cup {h}]
        /\ UNCHANGED <<virtual, there>>
  BY DEF ConSplitterStart
<1> DEFINE held == Opened(k, h) /\ interface
           added == held /\ memory
<1>2. h \in there[k] /\ there' = there
  BY <1>1 DEF Supported
<1>3. /\ driver' = IF held THEN [driver EXCEPT ![k] = @ \cup {h}] ELSE driver
      /\ child' = IF held THEN [child EXCEPT ![k] = @ \cup {h}] ELSE child
      /\ listed' = IF added THEN [listed EXCEPT ![k] = @ \cup {h}] ELSE listed
  BY <1>1 DEF HeldAfterStart
<1>4. \/ listedEx' = listedEx
      \/ k = "ConIn" /\ added /\ listedEx' = listedEx \cup {h}
  BY <1>1
<1>5. \/ failed' = [failed EXCEPT ![k] = @ \cup {h}]
      \/ added /\ failed' = [failed EXCEPT ![k] = @ \ {h}]
  BY <1>1
<1> HIDE DEF held
<1>6. BindTypes'
  BY <1>2, <1>3, <1>4, <1>5 DEF BindInv, BindTypes
<1>7. HeldWhileListed'
  BY <1>2, <1>3, <1>4 DEF BindInv, BindTypes, HeldAsListed, HeldWhileListed
<1>8. NothingLeaks'
  <2> SUFFICES ASSUME NEW j \in Kind
               PROVE  driver'[j] = child'[j] /\ driver'[j] \subseteq listed'[j] \cup failed'[j]
    BY DEF NothingLeaks
  <2>1. driver[j] = child[j] /\ driver[j] \subseteq listed[j] \cup failed[j]
    BY DEF BindInv, HeldAsListed, NothingLeaks
  <2>2. CASE j # k
    BY <1>3, <1>5, <2>1, <2>2 DEF BindInv, BindTypes
  <2>3. CASE j = k
    <3>1. driver'[j] = child'[j] /\ driver'[j] = IF held THEN driver[j] \cup {h} ELSE driver[j]
      BY <1>3, <2>1, <2>3 DEF BindInv, BindTypes
    <3>2. listed'[j] = IF added THEN listed[j] \cup {h} ELSE listed[j]
      BY <1>3, <2>3 DEF BindInv, BindTypes
    <3>3. \/ failed'[j] = failed[j] \cup {h}
          \/ added /\ failed'[j] = failed[j] \ {h}
      BY <1>5, <2>3 DEF BindInv, BindTypes
    <3> QED
      BY <2>1, <3>1, <3>2, <3>3
  <2> QED
    BY <2>2, <2>3
<1> QED
  BY <1>6, <1>7, <1>8 DEF BindInv, HeldAsListed

\* A keyboard that is not found in the list of the extended ones stays as it is
\* in the other list, and stays open.
LEMMA StopKeeps ==
  ASSUME BindInv, NEW k \in Kind, NEW h \in Controller, ConSplitterStop(k, h)
  PROVE  BindInv'
<1>1. CASE FoundEx(k, h)
  <2>1. /\ driver' = [driver EXCEPT ![k] = @ \ {h}] /\ child' = [child EXCEPT ![k] = @ \ {h}]
        /\ listed' = [listed EXCEPT ![k] = @ \ {h}] /\ failed' = [failed EXCEPT ![k] = @ \ {h}]
        /\ there' = there /\ listedEx' = IF k = "ConIn" THEN listedEx \ {h} ELSE listedEx
    BY <1>1 DEF ConSplitterStop, Released
  <2>2. BindTypes'
    BY <2>1 DEF BindInv, BindTypes
  <2>3. HeldWhileListed'
    BY <2>1 DEF BindInv, BindTypes, HeldAsListed, HeldWhileListed
  <2>4. NothingLeaks'
    BY <2>1 DEF BindInv, BindTypes, HeldAsListed, NothingLeaks
  <2> QED
    BY <2>2, <2>3, <2>4 DEF BindInv, HeldAsListed
<1>2. CASE ~FoundEx(k, h)
  <2>1. UNCHANGED <<driver, child, listed, failed, there>> /\ listedEx' = listedEx \ {h}
    BY <1>2 DEF ConSplitterStop, Released, FoundEx
  <2> QED
    BY <2>1 DEF BindInv, BindTypes, HeldAsListed, HeldWhileListed, NothingLeaks
<1> QED
  BY <1>1, <1>2

\* A controller in a list of a virtual console is present and open for the driver
\* and for the child, and one that is open is in a list or its Start has reported
\* an error, whichever steps of Start and Stop fail (lines 1087-1149, 1531-1543).
THEOREM WhatIsListedIsHeld == BindSpec => []HeldAsListed
<1>1. BindInit => BindInv
  BY BindInitHolds
<1>2. BindInv /\ [BindNext]_bindVars => BindInv'
  <2> SUFFICES ASSUME BindInv, [BindNext]_bindVars
               PROVE  BindInv'
    OBVIOUS
  <2>1. CASE BindNext
    BY <2>1, PlugKeeps, UnplugKeeps, StartKeeps, StopKeeps DEF BindNext
  <2>2. CASE UNCHANGED bindVars
    BY <2>2 DEF bindVars, BindInv, BindTypes, HeldAsListed, HeldWhileListed, NothingLeaks
  <2> QED
    BY <2>1, <2>2
<1>3. BindInv => HeldAsListed
  BY DEF BindInv
<1> QED
  BY <1>1, <1>2, <1>3, PTL DEF BindSpec

-----------------------------------------------------------------------------
(* Places in a list, in order.                                              *)

LEMMA LeastExists ==
  ASSUME NEW S \in SUBSET Nat, S # {}
  PROVE  \E i \in S : \A j \in S : i <= j
<1>1. IsWellFoundedOn(OpToRel(<, Nat), Nat)
  BY NatLessThanWellFounded
<1>2. PICK x \in S : \A y \in S : ~ (<<y, x>> \in OpToRel(<, Nat))
  BY <1>1, WFMin
<1>3. \A y \in S : y \in Nat /\ x \in Nat
  OBVIOUS
<1>4. \A y \in S : ~ (y < x)
  BY <1>2, <1>3, Zenon DEF OpToRel
<1>5. \A y \in S : x <= y
  BY <1>3, <1>4
<1> QED
  BY <1>5

\* The places of a sequence can be named in order.
Rises(f) == \A i, j \in DOMAIN f : i < j => f[i] < f[j]

LEMMA Enumerated ==
  ASSUME NEW m \in Nat, NEW S \in SUBSET (1..m)
  PROVE  \E f \in [1..Cardinality(S) -> S] : Rises(f)
<1> DEFINE Fine(n) == \A T \in SUBSET (1..n) :
             IsFiniteSet(T) /\ \E f \in [1..Cardinality(T) -> T] : Rises(f)
           bad == {n \in Nat : ~Fine(n)}
<1>1. Fine(0)
  <2> SUFFICES ASSUME NEW T \in SUBSET (1..0)
               PROVE  IsFiniteSet(T) /\ \E f \in [1..Cardinality(T) -> T] : Rises(f)
    OBVIOUS
  <2>1. T = {}
    OBVIOUS
  <2>2. IsFiniteSet(T) /\ Cardinality(T) = 0
    BY <2>1, FS_EmptySet
  <2>3. <<>> \in [1..0 -> T] /\ Rises(<<>>)
    BY DEF Rises
  <2> QED
    BY <2>2, <2>3
<1>2. ASSUME NEW n \in Nat, Fine(n) PROVE Fine(n + 1)
  <2> SUFFICES ASSUME NEW T \in SUBSET (1..n + 1)
               PROVE  IsFiniteSet(T) /\ \E f \in [1..Cardinality(T) -> T] : Rises(f)
    OBVIOUS
  <2> DEFINE R == T \ {n + 1}
             c == Cardinality(R)
  <2>1. R \in SUBSET (1..n)
    OBVIOUS
  <2>2. IsFiniteSet(R) /\ \E f \in [1..c -> R] : Rises(f)
    BY <1>2, <2>1
  <2>3. PICK f \in [1..c -> R] : Rises(f)
    BY <2>2
  <2>4. c \in Nat
    BY <2>2, FS_CardinalityType
  <2>5. CASE n + 1 \notin T
    <3>1. T = R
      BY <2>5
    <3> QED
      BY <2>2, <3>1
  <2>6. CASE n + 1 \in T
    <3>1. T = R \cup {n + 1}
      BY <2>6
    <3>2. IsFiniteSet(T) /\ Cardinality(T) = c + 1
      <4>1. n + 1 \notin R
        OBVIOUS
      <4> HIDE DEF R
      <4>2. /\ IsFiniteSet(R \cup {n + 1})
            /\ Cardinality(R \cup {n + 1}) = IF n + 1 \in R THEN Cardinality(R) ELSE Cardinality(R) + 1
        BY <2>2, FS_AddElement
      <4> QED
        BY <3>1, <4>1, <4>2
    <3> HIDE DEF c, R
    <3> DEFINE g == [i \in 1..c + 1 |-> IF i = c + 1 THEN n + 1 ELSE f[i]]
    <3>3. \A i \in 1..c : i \in 1..c + 1 /\ i # c + 1 /\ f[i] \in R
      BY <2>4
    <3>4. g \in [1..c + 1 -> T]
      <4> SUFFICES ASSUME NEW i \in 1..c + 1 PROVE g[i] \in T
        OBVIOUS
      <4>1. i \in 1..c \/ i = c + 1
        BY <2>4
      <4> QED
        BY <3>1, <3>3, <4>1
    <3>5. Rises(g)
      <4> SUFFICES ASSUME NEW i \in 1..c + 1, NEW j \in 1..c + 1, i < j
                   PROVE  g[i] < g[j]
        BY DEF Rises
      <4>1. i \in 1..c /\ g[i] = f[i]
        BY <2>4
      <4>2. f[i] \in 1..n
        BY <2>1, <3>3, <4>1
      <4>3. CASE j = c + 1
        BY <4>1, <4>2, <4>3
      <4>4. CASE j # c + 1
        <5>1. j \in 1..c /\ g[j] = f[j]
          BY <2>4, <4>4
        <5> QED
          BY <2>3, <4>1, <5>1 DEF Rises
      <4> QED
        BY <4>3, <4>4
    <3> HIDE DEF g
    <3> QED
      BY <3>2, <3>4, <3>5
  <2> QED
    BY <2>5, <2>6
<1> HIDE DEF Fine
<1>3. bad = {}
  <2> SUFFICES ASSUME bad # {} PROVE FALSE
    OBVIOUS
  <2>1. PICK n \in bad : \A k \in bad : n <= k
    BY LeastExists
  <2>2. n # 0 /\ n \in Nat
    BY <1>1
  <2>3. n - 1 \in Nat /\ n - 1 \notin bad
    BY <2>1, <2>2
  <2>4. Fine(n - 1 + 1) /\ n - 1 + 1 = n
    BY <1>2, <2>2, <2>3
  <2> QED
    BY <2>4
<1>4. Fine(m)
  BY <1>3
<1> QED
  BY <1>4 DEF Fine

-----------------------------------------------------------------------------
(* The modes of a device.                                                  *)

GopState ==
  [buffer : Seq(STRING), mode : Nat, info : STRING, fb : Gop \cup {NoDevice},
   installed : BOOLEAN, forced : BOOLEAN, settled : BOOLEAN, shrunk : BOOLEAN]

InTheirModes(now) == now \in [Gop -> Nat] /\ \A d \in Gop : now[d] \in DOMAIN Res[d]

GopTypes ==
  /\ gops \subseteq Gop /\ IsFiniteSet(gops)
  /\ InTheirModes(shows)
  /\ gop \in GopState

\* The modes of a device that is alone, since none has left, are its own.
OwnModes == gop.installed /\ ~gop.shrunk => \A d \in gops : gops = {d} => gop.buffer = Res[d]

GopInv == GopTypes /\ OwnModes /\ GraphicsAgree

LEMMA FirstOfIs ==
  ASSUME NEW S, NEW q \in Seq(S), NEW x \in ToSet(q)
  PROVE  FirstOf(q, x) \in DOMAIN q /\ q[FirstOf(q, x)] = x
<1> DEFINE is == {i \in DOMAIN q : q[i] = x}
<1>1. Len(q) \in Nat /\ DOMAIN q = 1..Len(q)
  OBVIOUS
<1>2. is \in SUBSET Nat /\ is # {}
  BY <1>1 DEF ToSet
<1>3. \E i \in is : \A j \in is : i <= j
  <2> HIDE DEF is
  <2> QED
    BY <1>2, LeastExists
<1>4. Min(is) \in is
  BY <1>3 DEF Min
<1>5. FirstOf(q, x) = Min(is)
  BY DEF FirstOf
<1> QED
  BY <1>4, <1>5

LEMMA ResIs ==
  ASSUME NEW d \in Gop
  PROVE  Res[d] \in Seq(STRING) /\ Len(Res[d]) \in Nat /\ DOMAIN Res[d] = 1..Len(Res[d])
  BY GopAssumption

\* Those that take a resolution show it, the others what they did.
LEMMA AllSetIs ==
  ASSUME NEW now, InTheirModes(now), NEW ds, NEW res, NEW refusing
  PROVE  LET then == AllSet(now, ds, res, refusing) IN
         /\ InTheirModes(then)
         /\ \A d \in Gop : d \in ds \ refusing /\ Has(d, res) => Res[d][then[d]] = res
         /\ \A d \in Gop : d \notin ds => then[d] = now[d]
<1> DEFINE then == AllSet(now, ds, res, refusing)
<1>1. ASSUME NEW d \in Gop, Has(d, res)
      PROVE  FirstOf(Res[d], res) \in DOMAIN Res[d] /\ Res[d][FirstOf(Res[d], res)] = res
    BY <1>1, ResIs, FirstOfIs DEF Has
<1>2. ASSUME NEW d \in Gop
      PROVE  /\ then[d] = IF d \in ds \ refusing /\ Has(d, res) THEN FirstOf(Res[d], res) ELSE now[d]
             /\ then[d] \in DOMAIN Res[d]
  BY <1>1 DEF AllSet, InTheirModes
<1>3. \A d \in Gop : then[d] \in Nat
  BY <1>2, ResIs
<1>4. then = [d \in Gop |-> then[d]]
  BY DEF AllSet
<1> HIDE DEF then
<1>5. then \in [Gop -> Nat]
  BY <1>3, <1>4
<1> QED
  BY <1>1, <1>2, <1>5 DEF then, InTheirModes

\* The common modes are modes of the list in their order.
LEMMA CommonModesAre ==
  ASSUME gop.buffer \in Seq(STRING), NEW d \in Gop
  PROVE  /\ CommonModes(d) \in Seq(Nat) /\ Rises(CommonModes(d))
         /\ \A i \in DOMAIN CommonModes(d) :
              CommonModes(d)[i] \in DOMAIN gop.buffer /\ Has(d, gop.buffer[CommonModes(d)[i]])
<1> DEFINE common == {i \in Distinct(gop.buffer) : Has(d, gop.buffer[i])}
           n == Cardinality(common)
           f == CommonModes(d)
<1>1. Len(gop.buffer) \in Nat /\ DOMAIN gop.buffer = 1..Len(gop.buffer)
  OBVIOUS
<1>2. common \in SUBSET (1..Len(gop.buffer))
  BY <1>1 DEF Distinct
<1>3. \E g \in [1..n -> common] : Rises(g)
  <2> HIDE DEF common
  <2> QED
    BY <1>1, <1>2, Enumerated
<1>4. f = CHOOSE g \in [1..n -> common] : Rises(g)
  BY DEF CommonModes, Rises
<1> HIDE DEF f
<1>5. f \in [1..n -> common] /\ Rises(f)
  BY <1>3, <1>4
<1>6. n \in Nat
  <2>1. IsFiniteSet(1..Len(gop.buffer))
    BY <1>1, FS_Interval
  <2> HIDE DEF common
  <2> QED
    BY <1>2, <2>1, FS_Subset, FS_CardinalityType
<1>7. f \in Seq(Nat)
  <2>1. \A i \in 1..n : f[i] \in Nat
    BY <1>1, <1>2, <1>5
  <2>2. f = [i \in 1..n |-> f[i]]
    BY <1>5
  <2> HIDE DEF n
  <2> QED
    BY <1>6, <2>1, <2>2
<1>8. \A i \in DOMAIN f : f[i] \in common
  BY <1>5
<1>9. \A i \in common : i \in DOMAIN gop.buffer /\ Has(d, gop.buffer[i])
  BY DEF Distinct
<1> QED
  BY <1>5, <1>7, <1>8, <1>9 DEF f

\* Who takes a resolution shows it afterwards.
LEMMA TakersShow ==
  ASSUME NEW now, InTheirModes(now), NEW ds \in SUBSET Gop, NEW res, NEW refusing,
         Takes(ds, res, refusing)
  PROVE  \A d \in ds : Res[d][AllSet(now, ds, res, refusing)[d]] = res
<1> SUFFICES ASSUME NEW d \in ds PROVE Res[d][AllSet(now, ds, res, refusing)[d]] = res
  OBVIOUS
<1>1. d \in Gop /\ d \in ds \ refusing /\ Has(d, res)
  BY DEF Takes
<1>2. \A e \in Gop : e \in ds \ refusing /\ Has(e, res) => Res[e][AllSet(now, ds, res, refusing)[e]] = res
  BY AllSetIs
<1> QED
  BY <1>1, <1>2

\* What a mode that is set changes.
LEMMA WithModeIs ==
  ASSUME NEW g \in GopState, NEW now, InTheirModes(now), NEW ds \in SUBSET Gop,
         IsFiniteSet(ds), NEW n \in DOMAIN g.buffer, NEW refusing
  PROVE  LET w == WithMode(g, now, ds, n, refusing) IN
         /\ w \in GopState
         /\ w.buffer = g.buffer /\ w.installed = g.installed /\ w.forced = g.forced /\ w.shrunk = g.shrunk
         /\ w.mode = n /\ w.settled = Takes(ds, g.buffer[n], refusing)
         /\ \/ w.fb = g.fb /\ w.info = g.buffer[n] /\ Cardinality(ds) # 1
            \/ \E d \in ds : ds = {d} /\ w.fb = d /\ w.info = Res[d][now[d]]
<1> DEFINE w == WithMode(g, now, ds, n, refusing)
           takes == Takes(ds, g.buffer[n], refusing)
           set == [g EXCEPT !.mode = n, !.settled = takes]
<1>1. takes \in BOOLEAN
  BY DEF Takes
<1> HIDE DEF takes
<1>2. g.buffer \in Seq(STRING) /\ n \in Nat /\ g.buffer[n] \in STRING
  BY DEF GopState
<1>3. /\ set \in GopState /\ set.buffer = g.buffer /\ set.installed = g.installed /\ set.forced = g.forced
      /\ set.shrunk = g.shrunk /\ set.mode = n /\ set.settled = takes /\ set.fb = g.fb
  BY <1>1, <1>2 DEF GopState
<1>4. CASE Cardinality(ds) = 1
  <2> DEFINE only == CHOOSE d \in ds : TRUE
  <2>1. PICK d : ds = {d}
    BY <1>4, FS_Singleton
  <2>2. only = d /\ d \in Gop
    BY <2>1
  <2> HIDE DEF only
  <2>3. Res[d][now[d]] \in STRING
    BY <2>2, ResIs DEF InTheirModes
  <2>4. w = [set EXCEPT !.info = Res[only][now[only]], !.fb = only]
    BY <1>4 DEF WithMode, takes, only
  <2> HIDE DEF w, set
  <2>5. /\ w \in GopState /\ w.buffer = g.buffer /\ w.installed = g.installed /\ w.forced = g.forced
        /\ w.shrunk = g.shrunk /\ w.mode = n /\ w.settled = takes /\ w.fb = d /\ w.info = Res[d][now[d]]
    BY <1>3, <2>2, <2>3, <2>4 DEF GopState
  <2> QED
    BY <2>1, <2>5 DEF w, takes
<1>5. CASE Cardinality(ds) # 1
  <2>2. w = [set EXCEPT !.info = g.buffer[n]]
    BY <1>5 DEF WithMode, takes
  <2> HIDE DEF w, set
  <2>3. /\ w \in GopState /\ w.buffer = g.buffer /\ w.installed = g.installed /\ w.forced = g.forced
        /\ w.shrunk = g.shrunk /\ w.mode = n /\ w.settled = takes /\ w.fb = g.fb /\ w.info = g.buffer[n]
    BY <1>2, <1>3, <2>2 DEF GopState
  <2> QED
    BY <1>5, <2>3 DEF w, takes
<1> QED
  BY <1>4, <1>5

\* A device that is alone has the modes that are offered, so QueryMode, which
\* asks it, tells the truth.
LEMMA OwnModesTell ==
  ASSUME OwnModes, IsFiniteSet(gops)
  PROVE  QueryIsTrue
<1> SUFFICES ASSUME gop.installed, ~gop.shrunk, NEW n \in DOMAIN gop.buffer
             PROVE  QueryGop(n) = gop.buffer[n]
  BY DEF QueryIsTrue
<1>1. CASE Cardinality(gops) = 1
  <2> DEFINE only == CHOOSE d \in gops : TRUE
  <2>1. QueryGop(n) = Res[only][n]
    BY <1>1 DEF QueryGop
  <2>2. PICK d : gops = {d}
    BY <1>1, FS_Singleton
  <2>3. only = d /\ gop.buffer = Res[d]
    BY <2>2 DEF OwnModes
  <2> QED
    BY <2>1, <2>3
<1>2. CASE Cardinality(gops) # 1
  BY <1>2 DEF QueryGop
<1> QED
  BY <1>1, <1>2

-----------------------------------------------------------------------------
(* What the steps keep.                                                    *)

LEMMA GopInitHolds ==
  ASSUME GopInit
  PROVE  GopInv
<1>1. gops = {} /\ IsFiniteSet(gops)
  BY FS_EmptySet DEF GopInit
<1>2. InTheirModes(shows)
  <2>1. \A d \in Gop : shows[d] \in DOMAIN Res[d] /\ shows[d] \in Nat
    BY ResIs DEF GopInit
  <2>2. shows = [d \in Gop |-> shows[d]]
    BY DEF GopInit
  <2> QED
    BY <2>1, <2>2 DEF InTheirModes
<1>3. gop \in GopState
  BY GopAssumption DEF GopInit, GopState, NoNumber
<1>4. ~gop.installed /\ ~gop.settled /\ gop.buffer = <<>>
  BY DEF GopInit
<1>5. OwnModes /\ GopModesCommon /\ FrameBufferOfOne /\ GopsAgree /\ QueryIsTrue /\ InstalledMeansOne
  BY <1>1, <1>4 DEF OwnModes, GopModesCommon, FrameBufferOfOne, GopsAgree, QueryIsTrue, InstalledMeansOne
<1> QED
  BY <1>1, <1>2, <1>3, <1>5 DEF GopInv, GopTypes, GraphicsAgree

LEMMA GopSetModeKeeps ==
  ASSUME GopInv, GopSetMode
  PROVE  GopInv'
<1> USE DEF GopInv, GopTypes, GraphicsAgree
<1>1. PICK n \in DOMAIN gop.buffer, refusing \in SUBSET gops :
        /\ shows' = AllSet(shows, gops, gop.buffer[n], refusing)
        /\ gop' = WithMode(gop, shows', gops, n, refusing)
  BY DEF GopSetMode
<1>2. gop.installed /\ gops' = gops
  BY DEF GopSetMode
<1>3. InTheirModes(shows')
  BY <1>1, AllSetIs
<1>4. gop' \in GopState /\ gop'.buffer = gop.buffer /\ gop'.installed = gop.installed
      /\ gop'.forced = gop.forced /\ gop'.shrunk = gop.shrunk /\ gop'.mode = n
      /\ gop'.settled = Takes(gops, gop.buffer[n], refusing)
      /\ \/ gop'.fb = gop.fb /\ gop'.info = gop.buffer[n]
         \/ \E d \in gops : gops = {d} /\ gop'.fb = d /\ gop'.info = Res[d][shows'[d]]
  <2>1. gop \in GopState /\ gops \in SUBSET Gop /\ IsFiniteSet(gops)
    OBVIOUS
  <2> QED
    BY <1>1, <1>3, <2>1, WithModeIs
<1>5. GopTypes'
  BY <1>2, <1>3, <1>4
<1>6. OwnModes'
  BY <1>2, <1>4 DEF OwnModes
<1>7. GopModesCommon'
  BY <1>2, <1>4 DEF GopModesCommon, Has
<1>8. FrameBufferOfOne'
  BY <1>2, <1>4 DEF FrameBufferOfOne
<1>9. GopsAgree'
  <2> SUFFICES ASSUME gop'.settled
               PROVE  /\ n \in DOMAIN gop.buffer
                      /\ \A d \in gops : Res[d][shows'[d]] = gop.buffer[n] /\ Res[d][shows'[d]] = gop'.info
    BY <1>2, <1>4 DEF GopsAgree, Shown
  <2>1. \A d \in gops : Res[d][shows'[d]] = gop.buffer[n]
    BY <1>1, <1>4, TakersShow
  <2> QED
    BY <1>4, <2>1
<1>10. InstalledMeansOne'
  BY <1>2, <1>4 DEF InstalledMeansOne
<1>11. QueryIsTrue'
  BY <1>5, <1>6, OwnModesTell, PTL
<1> QED
  BY <1>5, <1>6, <1>7, <1>8, <1>9, <1>10, <1>11

LEMMA DeleteGopKeeps ==
  ASSUME GopInv, NEW d \in Gop, DeleteGop(d)
  PROVE  GopInv'
<1> USE DEF GopInv, GopTypes, GraphicsAgree
<1>1. d \in gops /\ gops' = gops \ {d} /\ shows' = shows
      /\ gop' = [gop EXCEPT !.installed = gop.installed /\ gops # {d}, !.shrunk = TRUE]
  BY DEF DeleteGop
<1> DEFINE stays == gop.installed /\ gops # {d}
<1>2. stays \in BOOLEAN
  BY DEF GopState
<1>3. gop' = [gop EXCEPT !.installed = stays, !.shrunk = TRUE]
  BY <1>1
<1> HIDE DEF stays
<1>4. /\ gop' \in GopState /\ gop'.buffer = gop.buffer /\ gop'.installed = stays
      /\ gop'.forced = gop.forced /\ gop'.shrunk /\ gop'.mode = gop.mode
      /\ gop'.settled = gop.settled /\ gop'.fb = gop.fb /\ gop'.info = gop.info
  BY <1>2, <1>3 DEF GopState
<1>5. GopTypes'
  BY <1>1, <1>4, FS_Subset
<1>6. OwnModes' /\ QueryIsTrue'
  BY <1>4 DEF OwnModes, QueryIsTrue
<1>7. GopModesCommon'
  BY <1>1, <1>4 DEF GopModesCommon, Has
<1>8. FrameBufferOfOne'
  BY <1>1, <1>4 DEF FrameBufferOfOne, stays
<1>9. GopsAgree'
  BY <1>1, <1>4 DEF GopsAgree, Shown
<1>10. InstalledMeansOne'
  BY <1>1, <1>4 DEF InstalledMeansOne, stays
<1> QED
  BY <1>5, <1>6, <1>7, <1>8, <1>9, <1>10

LEMMA CurrentIndexIs ==
  ASSUME NEW g, g.buffer \in Seq(STRING), g.buffer # <<>>, NEW d
  PROVE  CurrentIndex(g, d) \in DOMAIN g.buffer
<1> DEFINE b == g.buffer
<1>1. 1 \in DOMAIN b
  OBVIOUS
<1>2. \A x \in ToSet(b) : FirstOf(b, x) \in DOMAIN b
  BY FirstOfIs
<1>3. CurrentIndex(g, d) = IF Shown(d) \in ToSet(b) THEN FirstOf(b, Shown(d))
                           ELSE IF Default \in ToSet(b) THEN FirstOf(b, Default) ELSE 1
  BY DEF CurrentIndex
<1> HIDE DEF b
<1>4. CurrentIndex(g, d) \in DOMAIN b
  BY <1>1, <1>2, <1>3
<1> QED
  BY <1>4 DEF b

\* The first device brings its modes, the one it is in among them.
LEMMA FirstGopKeeps ==
  ASSUME GopInv, NEW d \in Gop, AddGop(d), gops = {}
  PROVE  GopInv'
<1> USE DEF GopInv, GopTypes, GraphicsAgree
<1> DEFINE g == FirstGop(d)
           n == CurrentIndex(g, d)
<1>1. Res[d] \in Seq(STRING) /\ Res[d] # <<>> /\ Len(Res[d]) \in Nat /\ DOMAIN Res[d] = 1..Len(Res[d])
  BY GopAssumption
<1>2. shows[d] \in DOMAIN Res[d] /\ shows[d] \in Nat /\ Shown(d) = Res[d][shows[d]]
      /\ Shown(d) \in STRING /\ Shown(d) \in ToSet(Res[d])
  BY <1>1 DEF InTheirModes, Shown, ToSet
<1>3. /\ g \in GopState /\ g.buffer = Res[d] /\ g.info = Shown(d) /\ g.fb = d
      /\ ~g.forced /\ ~g.shrunk
  BY <1>1, <1>2 DEF FirstGop, GopState
<1>4. n = FirstOf(Res[d], Shown(d)) /\ n \in DOMAIN Res[d] /\ Res[d][n] = Shown(d)
  BY <1>1, <1>2, <1>3, FirstOfIs DEF CurrentIndex
<1>5. MayStay(g, d, n)
  BY <1>3, <1>4 DEF MayStay
<1> HIDE DEF g, n
<1>6. gops' = {d} /\ g.buffer # <<>> /\ ForceMode(g, d)
  BY <1>1, <1>3 DEF AddGop, g
<1>7. /\ gop' = [g EXCEPT !.mode = n, !.settled = TRUE, !.installed = TRUE]
      /\ shows' = shows
  <2>1. PICK refusing :
          LET takes == Shown(d) = g.buffer[n] \/ Takes({d}, g.buffer[n], refusing) IN
          /\ gop' = [g EXCEPT !.mode = n, !.settled = takes /\ (gops = {} \/ @),
                              !.installed = @ \/ gops = {}]
          /\ shows' = IF Shown(d) = g.buffer[n] THEN shows ELSE AllSet(shows, {d}, g.buffer[n], refusing)
    BY <1>5, <1>6 DEF ForceMode, n
  <2> QED
    BY <1>3, <1>4, <2>1
<1>8. /\ gop' \in GopState /\ gop'.buffer = Res[d] /\ gop'.info = Shown(d) /\ gop'.fb = d
      /\ ~gop'.forced /\ gop'.installed /\ gop'.mode = n
  <2>1. n \in Nat
    BY <1>1, <1>4
  <2> QED
    BY <1>3, <1>7, <2>1 DEF GopState
<1>9. GopTypes'
  BY <1>6, <1>7, <1>8, FS_Singleton
<1>10. OwnModes'
  BY <1>6, <1>8 DEF OwnModes
<1>11. QueryIsTrue'
  BY <1>9, <1>10, OwnModesTell, PTL
<1>12. GopModesCommon'
  BY <1>6, <1>8 DEF GopModesCommon, Has, ToSet
<1>13. FrameBufferOfOne' /\ InstalledMeansOne'
  BY <1>6, <1>8 DEF FrameBufferOfOne, InstalledMeansOne
<1>14. GopsAgree'
  BY <1>4, <1>6, <1>7, <1>8 DEF GopsAgree, Shown
<1> QED
  BY <1>9, <1>10, <1>11, <1>12, <1>13, <1>14

\* What is left to offer is had by all of them, but for a first mode that was
\* overwritten: it stays the first, for the order is kept.
LEMMA NextGopIs ==
  ASSUME GopInv, NEW d \in Gop
  PROVE  LET g == NextGop(d) IN
         /\ g \in GopState /\ g.mode = gop.mode /\ g.info = gop.info /\ g.fb = NoDevice
         /\ g.installed = gop.installed /\ g.forced = gop.forced /\ g.settled = gop.settled
         /\ \A n \in DOMAIN g.buffer, e \in gops \cup {d} : Has(e, g.buffer[n]) \/ (g.forced /\ n = 1)
<1> USE DEF GopInv, GopTypes, GraphicsAgree
<1> DEFINE g == NextGop(d)
           f == CommonModes(d)
           b == [i \in DOMAIN f |-> gop.buffer[f[i]]]
<1>1. gop.buffer \in Seq(STRING)
  BY DEF GopState
<1>2. /\ f \in Seq(Nat) /\ Rises(f)
      /\ \A i \in DOMAIN f : f[i] \in DOMAIN gop.buffer /\ Has(d, gop.buffer[f[i]])
  BY <1>1, CommonModesAre
<1>3. g = [gop EXCEPT !.buffer = b, !.fb = NoDevice, !.shrunk = FALSE]
  BY DEF NextGop
<1> HIDE DEF f
<1>4. b \in Seq(STRING) /\ DOMAIN b = DOMAIN f
  <2>1. Len(f) \in Nat /\ DOMAIN f = 1..Len(f)
    BY <1>2
  <2>2. \A i \in 1..Len(f) : gop.buffer[f[i]] \in STRING
    BY <1>1, <1>2, <2>1
  <2> QED
    BY <2>1, <2>2
<1>5. \A i \in DOMAIN f : b[i] = gop.buffer[f[i]]
  OBVIOUS
<1> HIDE DEF b, g
<1>6. /\ g \in GopState /\ g.mode = gop.mode /\ g.info = gop.info /\ g.fb = NoDevice
      /\ g.installed = gop.installed /\ g.forced = gop.forced /\ g.settled = gop.settled /\ g.buffer = b
  BY <1>3, <1>4 DEF GopState
<1>7. ASSUME NEW n \in DOMAIN b, NEW e \in gops \cup {d}
      PROVE  Has(e, b[n]) \/ (gop.forced /\ n = 1)
  <2>1. n \in DOMAIN f /\ b[n] = gop.buffer[f[n]] /\ f[n] \in DOMAIN gop.buffer
    BY <1>2, <1>4, <1>5
  <2>2. CASE e = d
    BY <1>2, <2>1, <2>2
  <2>3. CASE e \in gops
    <3>1. Has(e, gop.buffer[f[n]]) \/ (gop.forced /\ f[n] = 1)
      BY <2>1, <2>3 DEF GopModesCommon
    <3>2. f[n] = 1 => n = 1
      <4>1. n \in 1..Len(f) /\ Len(f) \in Nat
        BY <1>2, <2>1
      <4>2. 1 \in DOMAIN f
        BY <1>2, <4>1
      <4>3. f[1] \in DOMAIN gop.buffer
        BY <1>2, <4>2
      <4>4. f[1] >= 1 /\ f[1] \in Nat
        BY <1>1, <4>3
      <4>5. 1 < n => f[1] < f[n]
        BY <1>2, <2>1, <4>2 DEF Rises
      <4> QED
        BY <4>1, <4>4, <4>5
    <3> QED
      BY <2>1, <3>1, <3>2
  <2> QED
    BY <2>2, <2>3
<1>8. \A n \in DOMAIN g.buffer, e \in gops \cup {d} : Has(e, g.buffer[n]) \/ (g.forced /\ n = 1)
  BY <1>6, <1>7
<1> QED
  BY <1>6, <1>8 DEF g

\* Of several devices none lends its frame buffer and none is asked alone.
LEMMA ManyAgree ==
  ASSUME GopInv, NEW d \in Gop, d \notin gops, gops # {}, gops' = gops \cup {d},
         InTheirModes(shows'), gop' \in GopState, gop'.installed, gop'.fb = NoDevice,
         GopModesCommon', GopsAgree'
  PROVE  GopInv'
<1> USE DEF GopInv, GopTypes, GraphicsAgree
<1>1. GopTypes'
  BY FS_AddElement
<1>2. \A e : gops' # {e}
  OBVIOUS
<1>3. OwnModes' /\ FrameBufferOfOne' /\ InstalledMeansOne'
  BY <1>2 DEF OwnModes, FrameBufferOfOne, InstalledMeansOne
<1>4. QueryIsTrue'
  BY <1>1, <1>3, OwnModesTell, PTL
<1> QED
  BY <1>1, <1>3, <1>4

\* Of several devices those that all took the mode show it.
LEMMA ManySet ==
  ASSUME NEW h \in GopState, NEW all \in SUBSET Gop, IsFiniteSet(all), Cardinality(all) # 1,
         NEW m \in DOMAIN h.buffer, NEW now, InTheirModes(now), NEW refusing
  PROVE  LET then == AllSet(now, all, h.buffer[m], refusing)
             w == WithMode(h, then, all, m, refusing) IN
         /\ InTheirModes(then)
         /\ w \in GopState /\ w.buffer = h.buffer /\ w.forced = h.forced
         /\ w.installed = h.installed /\ w.fb = h.fb
         /\ w.settled => /\ w.mode \in DOMAIN w.buffer
                         /\ \A d \in all : Res[d][then[d]] = w.buffer[w.mode] /\ Res[d][then[d]] = w.info
<1> DEFINE then == AllSet(now, all, h.buffer[m], refusing)
           w == WithMode(h, then, all, m, refusing)
<1>1. InTheirModes(then)
  BY AllSetIs
<1>2. Takes(all, h.buffer[m], refusing) => \A e \in all : Res[e][then[e]] = h.buffer[m]
  BY TakersShow
<1> HIDE DEF then
<1>3. /\ w \in GopState
      /\ w.buffer = h.buffer /\ w.installed = h.installed /\ w.forced = h.forced
      /\ w.mode = m /\ w.settled = Takes(all, h.buffer[m], refusing)
      /\ \/ w.fb = h.fb /\ w.info = h.buffer[m]
         \/ \E e \in all : all = {e}
  BY <1>1, WithModeIs
<1>4. \A e : all # {e}
  BY FS_Singleton
<1> HIDE DEF w
<1> QED
  BY <1>1, <1>2, <1>3, <1>4 DEF w, then

LEMMA SetsAll ==
  ASSUME NEW h \in GopState, NEW all \in SUBSET Gop, IsFiniteSet(all), Cardinality(all) # 1,
         NEW m \in DOMAIN h.buffer, NEW now, InTheirModes(now), NEW refusing
  PROVE  LET then == AllSet(now, all, h.buffer[m], refusing) IN
         gops' = all /\ shows' = then /\ gop' = WithMode(h, then, all, m, refusing)
         => /\ InTheirModes(shows') /\ gop' \in GopState /\ gop'.buffer = h.buffer
            /\ gop'.forced = h.forced /\ gop'.installed = h.installed /\ gop'.fb = h.fb /\ GopsAgree'
<1> DEFINE then == AllSet(now, all, h.buffer[m], refusing)
           w == WithMode(h, then, all, m, refusing)
<1>1. /\ InTheirModes(then)
      /\ w \in GopState /\ w.buffer = h.buffer /\ w.forced = h.forced
      /\ w.installed = h.installed /\ w.fb = h.fb
      /\ w.settled => /\ w.mode \in DOMAIN w.buffer
                      /\ \A d \in all : Res[d][then[d]] = w.buffer[w.mode] /\ Res[d][then[d]] = w.info
  BY ManySet
<1> SUFFICES ASSUME gops' = all, shows' = then, gop' = w
             PROVE  /\ InTheirModes(shows') /\ gop' \in GopState /\ gop'.buffer = h.buffer
                    /\ gop'.forced = h.forced /\ gop'.installed = h.installed /\ gop'.fb = h.fb /\ GopsAgree'
  OBVIOUS
<1> HIDE DEF then, w
<1> QED
  BY <1>1 DEF GopsAgree, Shown

\* The next devices leave the modes that all have.
LEMMA NextGopKeeps ==
  ASSUME GopInv, NEW d \in Gop, AddGop(d), gops # {}
  PROVE  GopInv'
<1> USE DEF GopInv, GopTypes, GraphicsAgree
<1> DEFINE g == NextGop(d)
           n == CurrentIndex(g, d)
           all == gops \cup {d}
           common(h) == \A i \in DOMAIN h.buffer, e \in all : Has(e, h.buffer[i]) \/ (h.forced /\ i = 1)
<1>1. /\ g \in GopState /\ g.mode = gop.mode /\ g.info = gop.info /\ g.fb = NoDevice
      /\ g.installed = gop.installed /\ g.forced = gop.forced /\ g.settled = gop.settled
      /\ common(g)
  BY NextGopIs, Zenon
<1>2. d \notin gops /\ gops' = all /\ gop.installed /\ g.installed
  BY <1>1 DEF AddGop, InstalledMeansOne
<1>3. InTheirModes(shows) /\ all \in SUBSET Gop /\ IsFiniteSet(all)
  BY FS_AddElement
<1>4. g.buffer \in Seq(STRING)
  BY <1>1 DEF GopState
<1>5. IF g.buffer = <<>> THEN NothingInCommon(g, d) ELSE ForceMode(g, d)
  BY DEF AddGop
<1> HIDE DEF g
<1> SUFFICES /\ InTheirModes(shows') /\ gop' \in GopState /\ gop'.installed /\ gop'.fb = NoDevice
             /\ common(gop') /\ GopsAgree'
  <2>1. common(gop') => GopModesCommon'
    BY <1>2 DEF GopModesCommon, Has
  <2> HIDE DEF common
  <2> QED
    BY <1>2, <2>1, ManyAgree
<1>6. CASE g.buffer = <<>>
  <2>1. NothingInCommon(g, d)
    BY <1>5, <1>6
  <2>2. PICK m \in {NoNumber, 1} : gop' = [g EXCEPT !.mode = m, !.settled = FALSE]
    BY <2>1 DEF NothingInCommon
  <2>3. m \in Nat
    BY DEF NoNumber
  <2>4. /\ gop' \in GopState /\ gop'.installed = g.installed /\ gop'.fb = g.fb
        /\ gop'.buffer = g.buffer /\ ~gop'.settled
    BY <1>1, <2>2, <2>3 DEF GopState
  <2>5. InTheirModes(shows')
    <3>1. InTheirModes(AllSet(shows, {d}, g.info, {}))
      BY <1>3, AllSetIs
    <3>2. shows' \in {shows, AllSet(shows, {d}, g.info, {})}
      BY <2>1 DEF NothingInCommon
    <3> QED
      BY <1>3, <3>1, <3>2
  <2> QED
    BY <1>1, <1>2, <1>6, <2>4, <2>5 DEF GopsAgree
<1>7. CASE g.buffer # <<>>
  <2> DEFINE res == g.buffer[n]
  <2>1. n \in DOMAIN g.buffer /\ n \in Nat
    <3>1. n \in DOMAIN g.buffer
      BY <1>4, <1>7, CurrentIndexIs
    <3> HIDE DEF n
    <3> QED
      BY <1>4, <3>1
  <2>2. ForceMode(g, d)
    BY <1>5, <1>7
  <2>3. PICK refusing \in SUBSET all :
          IF MayStay(g, d, n)
          THEN LET takes == Shown(d) = res \/ Takes({d}, res, refusing) IN
               /\ gop' = [g EXCEPT !.mode = n, !.settled = takes /\ (gops = {} \/ @),
                                   !.installed = @ \/ gops = {}]
               /\ shows' = IF Shown(d) = res THEN shows ELSE AllSet(shows, {d}, res, refusing)
          ELSE LET once == AllSet(shows, all, res, refusing) IN
               IF Takes(all, res, refusing)
               THEN gop' = WithMode(g, once, all, n, refusing) /\ shows' = once
               ELSE /\ shows' = AllSet(once, all, Default, refusing)
                    /\ gop' = WithMode(Forced(g), shows', all, 1, refusing)
    BY <2>2 DEF ForceMode
  <2> HIDE DEF n
  <2>4. CASE MayStay(g, d, n)
    <3> DEFINE takes == Shown(d) = res \/ Takes({d}, res, refusing)
               settled == takes /\ g.settled
    <3>1. /\ gop' = [g EXCEPT !.mode = n, !.settled = settled, !.installed = g.installed \/ gops = {}]
          /\ shows' = IF Shown(d) = res THEN shows ELSE AllSet(shows, {d}, res, refusing)
      BY <1>1, <2>3, <2>4 DEF GopState
    <3>2. settled \in BOOLEAN
      OBVIOUS
    <3>3. InTheirModes(shows') /\ \A e \in gops : shows'[e] = shows[e]
      <4>1. InTheirModes(AllSet(shows, {d}, res, refusing))
        BY <1>3, AllSetIs
      <4>2. \A e \in gops : AllSet(shows, {d}, res, refusing)[e] = shows[e]
        BY <1>2, <1>3, AllSetIs
      <4> QED
        BY <1>3, <3>1, <4>1, <4>2
    <3>4. takes => Res[d][shows'[d]] = res
      <4>1. CASE Shown(d) = res
        BY <3>1, <4>1 DEF Shown
      <4>2. CASE Shown(d) # res /\ Takes({d}, res, refusing)
        BY <1>3, <3>1, <4>2, TakersShow
      <4> QED
        BY <4>1, <4>2
    <3> HIDE DEF takes
    <3>5. settled => takes /\ gop.settled
      BY <1>1
    <3> HIDE DEF settled
    <3>6. /\ gop' \in GopState /\ gop'.mode = n /\ gop'.settled = settled /\ gop'.installed
          /\ gop'.fb = NoDevice /\ gop'.buffer = g.buffer /\ gop'.info = gop.info /\ gop'.forced = g.forced
      BY <1>1, <1>2, <2>1, <3>1, <3>2 DEF GopState
    <3>7. res = gop.info
      BY <1>1, <2>4 DEF MayStay
    <3>8. GopsAgree'
      BY <1>2, <2>1, <3>3, <3>4, <3>5, <3>6, <3>7 DEF GopsAgree, Shown
    <3> QED
      BY <1>1, <3>3, <3>6, <3>8
  <2>5. ASSUME NEW h \in GopState, NEW m \in DOMAIN h.buffer, NEW now, InTheirModes(now),
               h.installed, h.fb = NoDevice, common(h)
        PROVE  LET then == AllSet(now, all, h.buffer[m], refusing) IN
               shows' = then /\ gop' = WithMode(h, then, all, m, refusing)
               => /\ InTheirModes(shows') /\ gop' \in GopState /\ gop'.installed /\ gop'.fb = NoDevice
                  /\ common(gop') /\ GopsAgree'
    <3>1. Cardinality(all) # 1
      <4>1. \A e : all # {e}
        BY <1>2
      <4> HIDE DEF all
      <4> QED
        BY <1>3, <4>1, FS_Singleton
    <3>2. InTheirModes(now) /\ h.installed /\ h.fb = NoDevice /\ common(h)
      BY <2>5
    <3> DEFINE then == AllSet(now, all, h.buffer[m], refusing)
    <3> SUFFICES ASSUME shows' = then, gop' = WithMode(h, then, all, m, refusing)
                 PROVE  /\ InTheirModes(shows') /\ gop' \in GopState /\ gop'.installed
                        /\ gop'.fb = NoDevice /\ common(gop') /\ GopsAgree'
      OBVIOUS
    <3> HIDE DEF all, then
    <3>3. /\ InTheirModes(shows') /\ gop' \in GopState /\ gop'.buffer = h.buffer
          /\ gop'.forced = h.forced /\ gop'.installed = h.installed /\ gop'.fb = h.fb /\ GopsAgree'
      BY <1>2, <1>3, <3>1, <3>2, SetsAll DEF then
    <3> QED
      BY <3>2, <3>3 DEF common
  <2>6. CASE ~MayStay(g, d, n) /\ Takes(all, res, refusing)
    <3>1. shows' = AllSet(shows, all, res, refusing) /\ gop' = WithMode(g, shows', all, n, refusing)
      BY <2>3, <2>6
    <3> QED
      BY <1>1, <1>2, <1>3, <2>1, <2>5, <3>1
  <2>7. CASE ~MayStay(g, d, n) /\ ~Takes(all, res, refusing)
    <3> DEFINE once == AllSet(shows, all, res, refusing)
               h == Forced(g)
    <3>1. shows' = AllSet(once, all, Default, refusing) /\ gop' = WithMode(h, shows', all, 1, refusing)
      BY <2>3, <2>7
    <3>2. InTheirModes(once)
      BY <1>3, AllSetIs
    <3>3. 1 \in DOMAIN g.buffer
      BY <1>4, <1>7
    <3>4. [g.buffer EXCEPT ![1] = Default] \in Seq(STRING)
      <4>1. Default \in STRING
        BY GopAssumption
      <4> QED
        BY <1>4, <3>3, <4>1, ExceptSeq
    <3>5. /\ h \in GopState /\ h.installed /\ h.fb = NoDevice /\ h.forced
          /\ h.buffer = [g.buffer EXCEPT ![1] = Default]
      BY <1>1, <1>2, <3>4 DEF Forced, GopState
    <3>6. DOMAIN h.buffer = DOMAIN g.buffer /\ h.buffer[1] = Default
          /\ \A i \in DOMAIN g.buffer : i # 1 => h.buffer[i] = g.buffer[i]
      BY <3>3, <3>5
    <3> HIDE DEF h, once
    <3>7. common(h)
      BY <1>1, <3>5, <3>6
    <3> QED
      BY <2>5, <3>1, <3>2, <3>3, <3>5, <3>6, <3>7
  <2> QED
    BY <2>4, <2>6, <2>7
<1> QED
  BY <1>6, <1>7

\* The protocol on the consoles keeps the mode it reports, the modes it offers
\* and the frame buffer it exposes true of its devices, whatever resolutions
\* they have, however they come and go and whichever of them refuse a mode
\* (lines 2741-3022 and 3358-3390, ConSplitterGraphics.c:43-215).
THEOREM GraphicsTellTheTruth == GopSpec => []GraphicsAgree
<1>1. GopInit => GopInv
  BY GopInitHolds
<1>2. GopInv /\ [GopNext]_gopVars => GopInv'
  <2> SUFFICES ASSUME GopInv, [GopNext]_gopVars PROVE GopInv'
    OBVIOUS
  <2>1. CASE GopSetMode
    BY <2>1, GopSetModeKeeps
  <2>2. ASSUME NEW d \in Gop, AddGop(d) PROVE GopInv'
    BY <2>2, FirstGopKeeps, NextGopKeeps
  <2>3. ASSUME NEW d \in Gop, DeleteGop(d) PROVE GopInv'
    BY <2>3, DeleteGopKeeps
  <2>4. CASE UNCHANGED gopVars
    BY <2>4 DEF gopVars, GopInv, GopTypes, OwnModes, GraphicsAgree, GopModesCommon, FrameBufferOfOne,
                GopsAgree, QueryIsTrue, QueryGop, InstalledMeansOne, Has, Shown, InTheirModes
  <2> QED
    BY <2>1, <2>2, <2>3, <2>4 DEF GopNext
<1>3. GopInv => GraphicsAgree
  BY DEF GopInv
<1> QED
  BY <1>1, <1>2, <1>3, PTL DEF GopSpec

-----------------------------------------------------------------------------
(* The rows of a table that are kept, by what stands before them.          *)

LEMMA RowsAreFinite ==
  ASSUME NEW n \in Nat, NEW rows \in SUBSET (0..n - 1)
  PROVE  IsFiniteSet(rows) /\ Cardinality(rows) \in Nat /\ Cardinality(rows) <= n
<1>1. IsFiniteSet(0..n - 1) /\ Cardinality(0..n - 1) = n
  BY FS_Interval
<1> QED
  BY <1>1, FS_Subset, FS_CardinalityType

\* A row has fewer before it than there are, and fewer than a later one has.
LEMMA RowsInOrder ==
  ASSUME NEW n \in Nat, NEW rows \in SUBSET (0..n - 1), NEW m \in rows
  PROVE  /\ RowsBefore(rows, m) \in 0..Cardinality(rows) - 1
         /\ \A q \in rows : m < q => RowsBefore(rows, m) < RowsBefore(rows, q)
<1> DEFINE before(x) == {r \in rows : r < x}
<1>0. \A r \in rows : r \in Nat
  OBVIOUS
<1>1. ASSUME NEW T \in SUBSET rows, before(m) \subseteq T, m \in T
      PROVE  IsFiniteSet(T) /\ Cardinality(T) \in Nat /\ Cardinality(before(m)) \in Nat
             /\ Cardinality(before(m)) < Cardinality(T)
  <2>1. IsFiniteSet(T) /\ Cardinality(T) \in Nat
    BY RowsAreFinite
  <2>2. before(m) \subseteq T \ {m} /\ before(m) \in SUBSET (T \ {m})
    BY <1>1
  <2>3. IsFiniteSet(T \ {m}) /\ Cardinality(T \ {m}) = Cardinality(T) - 1
    BY <1>1, <2>1, FS_RemoveElement
  <2> HIDE DEF before
  <2>4. IsFiniteSet(before(m)) /\ Cardinality(before(m)) <= Cardinality(T \ {m})
    BY <2>2, <2>3, FS_Subset
  <2>5. Cardinality(before(m)) \in Nat
    BY <2>4, FS_CardinalityType
  <2> QED
    BY <2>1, <2>3, <2>4, <2>5
<1>2. Cardinality(before(m)) < Cardinality(rows) /\ Cardinality(before(m)) \in Nat /\ Cardinality(rows) \in Nat
  BY <1>1
<1>3. ASSUME NEW q \in rows, m < q
      PROVE  Cardinality(before(m)) < Cardinality(before(q))
  <2>1. before(m) \subseteq before(q) /\ m \in before(q) /\ before(q) \in SUBSET rows
    <3>1. \A r \in rows : r < m => r < q
      BY <1>0, <1>3
    <3> QED
      BY <1>3, <3>1, Zenon
  <2> HIDE DEF before
  <2> QED
    BY <1>1, <2>1
<1> QED
  BY <1>2, <1>3 DEF RowsBefore

\* Each number below theirs is that of one of them.
LEMMA RowsAreNumbered ==
  ASSUME NEW n \in Nat, NEW rows \in SUBSET (0..n - 1), NEW k \in 0..Cardinality(rows) - 1
  PROVE  \E m \in rows : RowsBefore(rows, m) = k
<1> DEFINE numbers == 0..Cardinality(rows) - 1
           f == [m \in rows |-> RowsBefore(rows, m)]
<1>1. IsFiniteSet(rows) /\ Cardinality(rows) \in Nat
  BY RowsAreFinite
<1>2. IsFiniteSet(numbers) /\ Cardinality(numbers) = Cardinality(rows)
  BY <1>1, FS_Interval
<1>3. f \in [rows -> numbers]
  BY RowsInOrder
<1>4. f \in Injection(rows, numbers)
  <2> SUFFICES ASSUME NEW a \in rows, NEW b \in rows, f[a] = f[b]
               PROVE  a = b
    BY <1>3 DEF Injection, IsInjective
  <2>1. a < b \/ b < a \/ a = b
    OBVIOUS
  <2>2. /\ a < b => RowsBefore(rows, a) < RowsBefore(rows, b)
        /\ b < a => RowsBefore(rows, b) < RowsBefore(rows, a)
        /\ RowsBefore(rows, a) \in Int /\ RowsBefore(rows, b) \in Int
    BY RowsInOrder
  <2> QED
    BY <2>1, <2>2
<1> HIDE DEF f
<1>5. f \in Surjection(rows, numbers)
  BY <1>2, <1>4, FS_Injection
<1>6. \A j \in numbers : \E m \in rows : f[m] = j
  BY <1>5 DEF Surjection
<1> QED
  BY <1>6 DEF f

\* The row with k of them before it.
RowAt(rows, k) == CHOOSE m \in rows : RowsBefore(rows, m) = k

LEMMA RowAtIs ==
  ASSUME NEW n \in Nat, NEW rows \in SUBSET (0..n - 1)
  PROVE  /\ \A k \in 0..Cardinality(rows) - 1 : RowAt(rows, k) \in rows /\ RowsBefore(rows, RowAt(rows, k)) = k
         /\ \A m \in rows : RowAt(rows, RowsBefore(rows, m)) = m
         /\ \A j, k \in 0..Cardinality(rows) - 1 : j < k => RowAt(rows, j) < RowAt(rows, k)
<1>1. ASSUME NEW k \in 0..Cardinality(rows) - 1
      PROVE  RowAt(rows, k) \in rows /\ RowsBefore(rows, RowAt(rows, k)) = k
  <2>1. \E m \in rows : RowsBefore(rows, m) = k
    BY RowsAreNumbered
  <2> QED
    BY <2>1 DEF RowAt
<1>2. ASSUME NEW a \in rows, NEW b \in rows, RowsBefore(rows, a) = RowsBefore(rows, b)
      PROVE  a = b
  <2>1. a < b \/ b < a \/ a = b
    OBVIOUS
  <2>2. /\ a < b => RowsBefore(rows, a) < RowsBefore(rows, b)
        /\ b < a => RowsBefore(rows, b) < RowsBefore(rows, a)
        /\ RowsBefore(rows, a) \in 0..Cardinality(rows) - 1
    BY RowsInOrder
  <2>3. RowsBefore(rows, a) \in Int
    BY <2>2, RowsAreFinite
  <2> QED
    BY <1>2, <2>1, <2>2, <2>3
<1>3. ASSUME NEW m \in rows
      PROVE  RowAt(rows, RowsBefore(rows, m)) = m
  <2>1. RowAt(rows, RowsBefore(rows, m)) \in rows
        /\ RowsBefore(rows, RowAt(rows, RowsBefore(rows, m))) = RowsBefore(rows, m)
    BY <1>1, RowsInOrder
  <2> QED
    BY <1>2, <2>1
<1>4. ASSUME NEW j \in 0..Cardinality(rows) - 1, NEW k \in 0..Cardinality(rows) - 1, j < k
      PROVE  RowAt(rows, j) < RowAt(rows, k)
  <2> DEFINE a == RowAt(rows, j)
             b == RowAt(rows, k)
  <2>1. a \in rows /\ b \in rows /\ RowsBefore(rows, a) = j /\ RowsBefore(rows, b) = k
    BY <1>1
  <2> HIDE DEF a, b
  <2>2. a < b \/ b < a \/ a = b
    BY <2>1
  <2>3. b < a => RowsBefore(rows, b) < RowsBefore(rows, a)
    BY <2>1, RowsInOrder
  <2>4. a < b
    BY <1>4, <2>1, <2>2, <2>3
  <2> QED
    BY <2>4 DEF a, b
<1> QED
  BY <1>1, <1>3, <1>4

\* The first two rows stay the first two.
LEMMA FirstRowsAre ==
  ASSUME NEW n \in Nat, NEW rows \in SUBSET (0..n - 1), 0 \in rows
  PROVE  /\ 0 < Cardinality(rows) /\ RowAt(rows, 0) = 0
         /\ 1 \in rows => 1 < Cardinality(rows) /\ RowAt(rows, 1) = 1
<1>1. Cardinality(rows) \in Nat
  BY RowsAreFinite
<1> DEFINE before(x) == {r \in rows : r < x}
<1>0. \A r \in rows : r \in Nat
  OBVIOUS
<1>2. RowsBefore(rows, 0) = 0
  <2>1. before(0) = {}
    <3>1. \A r \in rows : ~ (r < 0)
      BY <1>0
    <3> QED
      BY <3>1, Zenon
  <2> QED
    BY <2>1, FS_EmptySet DEF RowsBefore
<1>3. RowsBefore(rows, 1) = 1
  <2>1. before(1) = {0}
    <3>1. \A r \in rows : r < 1 <=> r = 0
      BY <1>0
    <3> QED
      BY <3>1, Zenon
  <2> QED
    BY <2>1, FS_Singleton DEF RowsBefore
<1> HIDE DEF before
<1>4. 0 \in 0..Cardinality(rows) - 1 /\ RowAt(rows, 0) = 0
  <2>1. RowsBefore(rows, 0) \in 0..Cardinality(rows) - 1
    BY RowsInOrder
  <2>2. RowAt(rows, RowsBefore(rows, 0)) = 0
    BY RowAtIs
  <2> QED
    BY <1>2, <2>1, <2>2
<1>5. 1 \in rows => 1 \in 0..Cardinality(rows) - 1 /\ RowAt(rows, 1) = 1
  <2> SUFFICES ASSUME 1 \in rows PROVE 1 \in 0..Cardinality(rows) - 1 /\ RowAt(rows, 1) = 1
    OBVIOUS
  <2>1. RowsBefore(rows, 1) \in 0..Cardinality(rows) - 1
    BY RowsInOrder
  <2>2. RowAt(rows, RowsBefore(rows, 1)) = 1
    BY RowAtIs
  <2> QED
    BY <1>3, <2>1, <2>2
<1> QED
  BY <1>1, <1>4, <1>5

\* What goes and what stays before a row make its number.
LEMMA RowsGoOrStay ==
  ASSUME NEW n \in Nat, NEW rows \in SUBSET (0..n - 1)
  PROVE  LET gone == (0..n - 1) \ rows IN
         /\ Cardinality(gone) = n - Cardinality(rows)
         /\ \A m \in 0..n - 1 : RowsBefore(rows, m) = m - RowsBefore(gone, m)
         /\ \A m \in Int : m >= n => RowsBefore(gone, m) = Cardinality(gone)
         /\ \A m \in Nat : RowsBefore(gone, m) \in 0..m
<1> DEFINE all == 0..n - 1
           gone == all \ rows
<1>1. IsFiniteSet(all) /\ Cardinality(all) = n
  BY FS_Interval
<1>2. Cardinality(gone) = n - Cardinality(rows)
  <2>1. all \cap rows = rows
    OBVIOUS
  <2> HIDE DEF all
  <2>2. Cardinality(all \ rows) = Cardinality(all) - Cardinality(all \cap rows)
    BY <1>1, FS_Difference
  <2> QED
    BY <1>1, <2>1, <2>2
<1>3. ASSUME NEW m \in 0..n - 1
      PROVE  RowsBefore(rows, m) = m - RowsBefore(gone, m)
  <2> DEFINE below == 0..m - 1
             stays == {r \in rows : r < m}
             goes == {r \in gone : r < m}
  <2>1. IsFiniteSet(below) /\ Cardinality(below) = m
    BY FS_Interval
  <2>2. below \cap stays = stays
    <3>1. \A r \in stays : r \in below
      OBVIOUS
    <3> HIDE DEF below, stays
    <3> QED
      BY <3>1
  <2>3. below \ stays = goes
    <3>1. ASSUME NEW r \in below \ stays PROVE r \in goes
      OBVIOUS
    <3>2. ASSUME NEW r \in goes PROVE r \in below \ stays
      OBVIOUS
    <3> QED
      BY <3>1, <3>2
  <2>6. Cardinality(goes) = m - Cardinality(stays)
    <3> HIDE DEF below, goes, stays
    <3>1. Cardinality(below \ stays) = Cardinality(below) - Cardinality(below \cap stays)
      BY <2>1, FS_Difference
    <3> QED
      BY <2>1, <2>2, <2>3, <3>1
  <2>4. Cardinality(stays) \in Nat
    BY RowsAreFinite
  <2> HIDE DEF stays, goes
  <2>5. Cardinality(stays) = m - Cardinality(goes)
    BY <2>4, <2>6
  <2> QED
    BY <2>5 DEF RowsBefore, stays, goes
<1>4. ASSUME NEW m \in Int, m >= n
      PROVE  RowsBefore(gone, m) = Cardinality(gone)
  <2>1. {r \in gone : r < m} = gone
    BY <1>4
  <2> QED
    BY <2>1 DEF RowsBefore
<1>5. ASSUME NEW m \in Nat
      PROVE  RowsBefore(gone, m) \in 0..m
  <2>1. {r \in gone : r < m} \in SUBSET (0..m - 1)
    OBVIOUS
  <2> HIDE DEF gone
  <2>2. Cardinality({r \in gone : r < m}) \in Nat /\ Cardinality({r \in gone : r < m}) <= m
    BY <2>1, RowsAreFinite
  <2> QED
    BY <2>2 DEF RowsBefore
<1> QED
  BY <1>2, <1>3, <1>4, <1>5
-----------------------------------------------------------------------------
(* The table of a splitter.                                                *)

AnyQuery == UNION {[0..n - 1 -> Sizes] : n \in 1..127}
AnyMap == UNION {[0..n - 1 -> Seq(Int)] : n \in 1..127}

ConState ==
  [slots : [ListPlaces -> TextDevice \cup {None}], count : 0..Cardinality(TextDevice), mode : -1..NoMode,
   cursor : Cell, query : AnyQuery, map : AnyMap, fresh : BOOLEAN, inStep : BOOLEAN]

\* The rows of k consoles: the first one's modes stand in order, modes 0 and 1
\* in the rows of their numbers, and only the size of mode 1 may be missing.
Shape(c, k) ==
  /\ DOMAIN c.query = ModesOf(c.slots[1])
  /\ \A m \in DOMAIN c.query : c.query[m] = Size(c.slots[1], m) \/ (m = 1 /\ c.query[m] = NoSize)
  /\ \A r \in DOMAIN c.map : Len(c.map[r]) = k /\ c.map[r][1] \in DOMAIN c.query
  /\ c.map[0][1] = 0 /\ (1 \in DOMAIN c.map => c.map[1][1] = 1)
  /\ \A r, q \in DOMAIN c.map : r < q => c.map[r][1] < c.map[q][1]

AllSound(c, k) == \A r \in DOMAIN c.map, p \in 1..k : RowSound(c, r, p)

\* Mode 1 is of no size where a console's mode behind it is.
Missing(c, k) ==
  1 \in DOMAIN c.map /\ SizeOf(c, 1) = NoSize => \E p \in 1..k : Size(c.slots[p], c.map[1][p]) = NoSize

\* The number stands for no mode and stays behind all of them.
Unset(c) == \E n \in 1..127 : DOMAIN c.map = 0..n - 1 /\ c.mode >= NoMode - 127 + n

LEMMA MapIs ==
  ASSUME NEW c \in ConState
  PROVE  /\ \E n \in 1..127 : DOMAIN c.map = 0..n - 1 /\ c.map \in [0..n - 1 -> Seq(Int)]
         /\ \E n \in 1..127 : DOMAIN c.query = 0..n - 1 /\ c.query \in [0..n - 1 -> Sizes]
<1>1. c.map \in AnyMap /\ c.query \in AnyQuery
  BY DEF ConState
<1> QED
  BY <1>1 DEF AnyMap, AnyQuery

\* The rows that are kept move up in their order, and the mode with its row.
LEMMA GetIntersectionIs ==
  ASSUME NEW c \in ConState, NEW keep
  PROVE  LET g == GetIntersection(c, keep)
             rows == Kept(c, keep) IN
         /\ g \in ConState
         /\ g.slots = c.slots /\ g.count = c.count /\ g.cursor = c.cursor /\ g.query = c.query
         /\ g.fresh = c.fresh /\ g.inStep = c.inStep
         /\ \A n \in DOMAIN g.map : RowAt(rows, n) \in rows /\ g.map[n] = c.map[RowAt(rows, n)]
         /\ \A n, m \in DOMAIN g.map : n < m => RowAt(rows, n) < RowAt(rows, m)
         /\ \A r \in rows : \E n \in DOMAIN g.map : RowAt(rows, n) = r
         /\ 0 \in DOMAIN g.map /\ RowAt(rows, 0) = 0
         /\ 1 \in DOMAIN c.map => 1 \in DOMAIN g.map /\ RowAt(rows, 1) = 1
         /\ c.mode \in rows => g.mode \in DOMAIN g.map /\ RowAt(rows, g.mode) = c.mode
         /\ c.mode \in DOMAIN c.map \ rows => g.mode = -1
         /\ c.mode = -1 => g.mode = -1
         /\ g.mode <= c.mode /\ (Unset(c) => Unset(g))
<1> DEFINE rows == Kept(c, keep)
           gone == DOMAIN c.map \ rows
           g == GetIntersection(c, keep)
           moved == [n \in 0..Cardinality(rows) - 1 |-> c.map[RowAt(rows, n)]]
           after == NumberAfter(c.mode, gone)
<1>1. PICK n \in 1..127 : DOMAIN c.map = 0..n - 1 /\ c.map \in [0..n - 1 -> Seq(Int)]
  BY MapIs
<1>2. rows \in SUBSET (0..n - 1) /\ 0 \in rows /\ (1 \in DOMAIN c.map => 1 \in rows)
  BY <1>1 DEF Kept
<1>3. g = [c EXCEPT !.map = moved, !.mode = after]
  BY DEF GetIntersection, RowAt
<1>4. c.mode \in -1..255
  BY DEF ConState, NoMode
<1> HIDE DEF rows, g
<1>5. Cardinality(rows) \in 1..n /\ (1 \in rows => 1 < Cardinality(rows))
  <2>0. n \in Nat /\ rows \in SUBSET (0..n - 1) /\ 0 \in rows
    BY <1>2
  <2>1. 0 < Cardinality(rows) /\ (1 \in rows => 1 < Cardinality(rows))
    BY <2>0, FirstRowsAre
  <2>2. Cardinality(rows) \in Nat /\ Cardinality(rows) <= n
    BY <2>0, RowsAreFinite
  <2> QED
    BY <2>1, <2>2
<1>6. /\ \A k \in 0..Cardinality(rows) - 1 : RowAt(rows, k) \in rows
      /\ \A m \in rows : RowAt(rows, RowsBefore(rows, m)) = m /\ RowsBefore(rows, m) \in 0..Cardinality(rows) - 1
      /\ \A j, k \in 0..Cardinality(rows) - 1 : j < k => RowAt(rows, j) < RowAt(rows, k)
  BY <1>2, RowAtIs, RowsInOrder
<1>7. moved \in AnyMap /\ DOMAIN moved = 0..Cardinality(rows) - 1
  <2>1. moved \in [0..Cardinality(rows) - 1 -> Seq(Int)]
    BY <1>1, <1>2, <1>6
  <2>2. Cardinality(rows) \in 1..127
    BY <1>5
  <2> HIDE DEF moved
  <2> QED
    BY <2>1, <2>2 DEF AnyMap
<1>8. /\ Cardinality(gone) = n - Cardinality(rows) /\ Cardinality(gone) \in 0..n
      /\ \A m \in 0..n - 1 : RowsBefore(rows, m) = m - RowsBefore(gone, m)
      /\ \A m \in Nat : m >= n => RowsBefore(gone, m) = Cardinality(gone)
      /\ \A m \in Nat : RowsBefore(gone, m) \in 0..m
  <2> DEFINE others == (0..n - 1) \ rows
  <2>1. gone = others
    BY <1>1
  <2>2. n \in Nat /\ rows \in SUBSET (0..n - 1)
    BY <1>2
  <2>3. /\ Cardinality(others) = n - Cardinality(rows)
        /\ \A m \in 0..n - 1 : RowsBefore(rows, m) = m - RowsBefore(others, m)
        /\ \A m \in Int : m >= n => RowsBefore(others, m) = Cardinality(others)
        /\ \A m \in Nat : RowsBefore(others, m) \in 0..m
    BY <2>2, RowsGoOrStay
  <2> HIDE DEF others, gone
  <2>4. Cardinality(gone) = n - Cardinality(rows) /\ Cardinality(gone) \in 0..n
    BY <1>5, <2>1, <2>3
  <2> QED
    BY <2>1, <2>3, <2>4
<1>9. /\ after \in -1..255 /\ after <= c.mode
      /\ c.mode \in rows => after = RowsBefore(rows, c.mode)
      /\ c.mode \in gone => after = -1
      /\ c.mode = -1 => after = -1
      /\ c.mode >= n => after = c.mode - (n - Cardinality(rows))
  <2>1. CASE c.mode \in gone
    <3>1. after = -1
      BY <2>1 DEF NumberAfter
    <3>2. c.mode \in 0..n - 1 /\ c.mode \notin rows
      BY <1>1, <2>1
    <3>3. ~ (c.mode >= n) /\ c.mode # -1
      BY <3>2
    <3> HIDE DEF after, gone
    <3>4. after <= c.mode
      BY <3>1, <3>2
    <3> QED
      BY <2>1, <3>1, <3>2, <3>3, <3>4
  <2>2. CASE c.mode \notin gone /\ c.mode \in Nat
    <3>1. after = c.mode - RowsBefore(gone, c.mode)
      BY <2>2 DEF NumberAfter
    <3>2. c.mode \in rows => c.mode \in 0..n - 1
      BY <1>2
    <3> HIDE DEF after, gone
    <3>3. after \in -1..255 /\ c.mode # -1 /\ after <= c.mode
      <4> DEFINE goes == RowsBefore(gone, c.mode)
      <4>1. goes \in 0..c.mode
        BY <1>8, <2>2
      <4>2. after = c.mode - goes
        BY <3>1
      <4> HIDE DEF goes
      <4>3. c.mode \in 0..255
        BY <1>4, <2>2
      <4>4. \A x \in 0..255 : \A y \in 0..x : x - y \in -1..255 /\ x # -1 /\ x - y <= x
        OBVIOUS
      <4> QED
        BY <4>1, <4>2, <4>3, <4>4
    <3>4. c.mode \in rows => after = RowsBefore(rows, c.mode)
      BY <1>8, <3>1, <3>2
    <3>5. c.mode >= n => after = c.mode - (n - Cardinality(rows))
      BY <1>8, <2>2, <3>1
    <3> QED
      BY <2>2, <3>3, <3>4, <3>5
  <2>3. CASE c.mode = -1
    <3>1. {r \in gone : r < -1} = {}
      <4>1. \A r \in gone : ~ (r < -1)
        BY <1>1
      <4> QED
        BY <4>1, Zenon
    <3>2. RowsBefore(gone, c.mode) = 0
      BY <2>3, <3>1, FS_EmptySet DEF RowsBefore
    <3>3. -1 \notin gone /\ -1 \notin rows
      BY <1>1, <1>2
    <3>4. after = -1
      BY <2>3, <3>2, <3>3 DEF NumberAfter
    <3> HIDE DEF after, gone
    <3>5. after \in -1..255 /\ after <= c.mode /\ ~ (c.mode >= n)
      BY <2>3, <3>4
    <3> QED
      BY <1>1, <2>3, <3>3, <3>4, <3>5
  <2> QED
    BY <1>4, <2>1, <2>2, <2>3
<1> HIDE DEF moved, after
<1>10. /\ g \in ConState
       /\ g.slots = c.slots /\ g.count = c.count /\ g.cursor = c.cursor /\ g.query = c.query
       /\ g.fresh = c.fresh /\ g.inStep = c.inStep /\ g.map = moved /\ g.mode = after
  BY <1>3, <1>7, <1>9 DEF ConState, NoMode
<1>11. Unset(c) => Unset(g)
  <2> SUFFICES ASSUME Unset(c) PROVE Unset(g)
    OBVIOUS
  <2>1. PICK k \in 1..127 : DOMAIN c.map = 0..k - 1 /\ c.mode >= NoMode - 127 + k
    BY DEF Unset
  <2>2. k = n
    <3>1. k - 1 \in 0..n - 1 /\ n - 1 \in 0..k - 1
      BY <1>1, <2>1
    <3> QED
      BY <3>1
  <2>3. c.mode >= 128 + n /\ c.mode \in Int
    BY <1>4, <2>1, <2>2 DEF NoMode
  <2>5. c.mode >= n
    BY <2>3
  <2>4. after >= 128 + Cardinality(rows) /\ Cardinality(rows) \in 1..127
    BY <1>5, <1>9, <2>3, <2>5
  <2>6. DOMAIN g.map = 0..Cardinality(rows) - 1 /\ g.mode >= 255 - 127 + Cardinality(rows)
    BY <1>7, <1>10, <2>4
  <2> QED
    BY <2>4, <2>6 DEF Unset, NoMode
<1>12. \A n1 \in DOMAIN g.map : RowAt(rows, n1) \in rows /\ g.map[n1] = c.map[RowAt(rows, n1)]
  <2> SUFFICES ASSUME NEW n1 \in DOMAIN g.map
               PROVE  RowAt(rows, n1) \in rows /\ g.map[n1] = c.map[RowAt(rows, n1)]
    OBVIOUS
  <2>1. n1 \in 0..Cardinality(rows) - 1
    BY <1>7, <1>10
  <2>2. moved[n1] = c.map[RowAt(rows, n1)]
    BY <2>1 DEF moved
  <2> QED
    BY <1>6, <1>10, <2>1, <2>2
<1>13. 0 \in DOMAIN g.map /\ RowAt(rows, 0) = 0 /\ (1 \in DOMAIN c.map => 1 \in DOMAIN g.map /\ RowAt(rows, 1) = 1)
  <2>1. n \in Nat /\ rows \in SUBSET (0..n - 1) /\ 0 \in rows
    BY <1>2
  <2>2. RowAt(rows, 0) = 0 /\ (1 \in rows => RowAt(rows, 1) = 1)
    BY <2>1, FirstRowsAre
  <2> QED
    BY <1>2, <1>5, <1>7, <1>10, <2>2
<1>14. /\ c.mode \in rows => g.mode \in DOMAIN g.map /\ RowAt(rows, g.mode) = c.mode
       /\ c.mode \in DOMAIN c.map \ rows => g.mode = -1
  BY <1>6, <1>7, <1>9, <1>10
<1>15. /\ \A n1, m1 \in DOMAIN g.map : n1 < m1 => RowAt(rows, n1) < RowAt(rows, m1)
       /\ \A r \in rows : \E n1 \in DOMAIN g.map : RowAt(rows, n1) = r
  BY <1>6, <1>7, <1>10
<1> QED
  BY <1>9, <1>10, <1>11, <1>12, <1>13, <1>14, <1>15 DEF rows, g

\* A row keeps its modes and its size as it moves up.
LEMMA IntersectionKeeps ==
  ASSUME NEW c \in ConState, NEW keep, NEW k \in Nat, k > 0, Shape(c, k), Missing(c, k),
         \A r \in Kept(c, keep), p \in 1..k : RowSound(c, r, p)
  PROVE  LET g == GetIntersection(c, keep) IN
         /\ Shape(g, k) /\ AllSound(g, k) /\ Missing(g, k)
         /\ \A n \in DOMAIN g.map : SizeOf(g, n) = SizeOf(c, RowAt(Kept(c, keep), n))
         /\ \A n \in DOMAIN g.map \ {0, 1} : \E r \in DOMAIN c.map : r \in keep /\ SizeOf(g, n) = SizeOf(c, r)
         /\ \A r \in DOMAIN c.map : r \in keep => \E n \in DOMAIN g.map : SizeOf(g, n) = SizeOf(c, r)
<1> DEFINE rows == Kept(c, keep)
           g == GetIntersection(c, keep)
<1>1. /\ g \in ConState /\ g.slots = c.slots /\ g.query = c.query
      /\ \A n \in DOMAIN g.map : RowAt(rows, n) \in rows /\ g.map[n] = c.map[RowAt(rows, n)]
      /\ \A n, m \in DOMAIN g.map : n < m => RowAt(rows, n) < RowAt(rows, m)
      /\ \A r \in rows : \E n \in DOMAIN g.map : RowAt(rows, n) = r
      /\ 0 \in DOMAIN g.map /\ RowAt(rows, 0) = 0
      /\ 1 \in DOMAIN c.map => 1 \in DOMAIN g.map /\ RowAt(rows, 1) = 1
  BY GetIntersectionIs
<1>2. rows \subseteq DOMAIN c.map
  BY DEF Kept
<1> HIDE DEF rows, g
<1>3. \E n \in 1..127 : DOMAIN c.map = 0..n - 1
  BY MapIs
<1>4. \E n \in 1..127 : DOMAIN g.map = 0..n - 1
  BY <1>1, MapIs
<1>5. \A n \in DOMAIN g.map : RowAt(rows, n) = 1 <=> n = 1
  <2> SUFFICES ASSUME NEW n \in DOMAIN g.map PROVE RowAt(rows, n) = 1 <=> n = 1
    OBVIOUS
  <2>1. CASE n = 0
    BY <1>1, <2>1
  <2>2. CASE n # 0
    <3>1. n >= 1 /\ 1 \in DOMAIN g.map /\ 0 < 1
      BY <1>4, <2>2
    <3>2. RowAt(rows, 0) < RowAt(rows, 1)
      BY <1>1, <3>1
    <3>3. RowAt(rows, 1) \in DOMAIN c.map /\ RowAt(rows, 1) > 0
      BY <1>1, <1>2, <3>1, <3>2
    <3>4. 1 \in DOMAIN c.map
      BY <1>3, <3>3
    <3>5. RowAt(rows, 1) = 1
      BY <1>1, <3>4
    <3>6. n > 1 => RowAt(rows, n) > 1
      BY <1>1, <3>1, <3>5
    <3> QED
      BY <1>4, <3>1, <3>5, <3>6
  <2> QED
    BY <2>1, <2>2
<1>6. \A n \in DOMAIN g.map : SizeOf(g, n) = SizeOf(c, RowAt(rows, n))
  BY <1>1 DEF SizeOf
<1>7. Shape(g, k)
  <2>1. /\ DOMAIN g.query = ModesOf(g.slots[1])
        /\ \A m \in DOMAIN g.query : g.query[m] = Size(g.slots[1], m) \/ (m = 1 /\ g.query[m] = NoSize)
    BY <1>1 DEF Shape
  <2>2. \A r \in DOMAIN g.map : Len(g.map[r]) = k /\ g.map[r][1] \in DOMAIN g.query
    BY <1>1, <1>2 DEF Shape
  <2>3. g.map[0][1] = 0 /\ (1 \in DOMAIN g.map => g.map[1][1] = 1)
    <3>1. g.map[0][1] = 0
      BY <1>1 DEF Shape
    <3>2. ASSUME 1 \in DOMAIN g.map PROVE g.map[1][1] = 1
      <4>1. RowAt(rows, 1) = 1 /\ 1 \in DOMAIN c.map
        BY <1>1, <1>2, <1>5, <3>2
      <4> QED
        BY <1>1, <3>2, <4>1 DEF Shape
    <3> QED
      BY <3>1, <3>2
  <2>4. \A r, q \in DOMAIN g.map : r < q => g.map[r][1] < g.map[q][1]
    <3> SUFFICES ASSUME NEW r \in DOMAIN g.map, NEW q \in DOMAIN g.map, r < q
                 PROVE  g.map[r][1] < g.map[q][1]
      OBVIOUS
    <3>1. RowAt(rows, r) < RowAt(rows, q) /\ RowAt(rows, r) \in DOMAIN c.map /\ RowAt(rows, q) \in DOMAIN c.map
      BY <1>1, <1>2
    <3> QED
      BY <1>1, <3>1 DEF Shape
  <2> QED
    BY <2>1, <2>2, <2>3, <2>4 DEF Shape
<1>8. AllSound(g, k)
  <2> SUFFICES ASSUME NEW n \in DOMAIN g.map, NEW p \in 1..k PROVE RowSound(g, n, p)
    BY DEF AllSound
  <2>1. RowSound(c, RowAt(rows, n), p)
    BY <1>1 DEF rows
  <2>2. SizeOf(g, n) = SizeOf(c, RowAt(rows, n)) /\ g.map[n] = c.map[RowAt(rows, n)] /\ g.slots = c.slots
        /\ (RowAt(rows, n) = 1 <=> n = 1)
    BY <1>1, <1>5, <1>6
  <2> QED
    BY <2>1, <2>2 DEF RowSound
<1>9. Missing(g, k)
  <2> SUFFICES ASSUME 1 \in DOMAIN g.map, SizeOf(g, 1) = NoSize
               PROVE  \E p \in 1..k : Size(g.slots[p], g.map[1][p]) = NoSize
    BY DEF Missing
  <2>1. RowAt(rows, 1) = 1 /\ 1 \in DOMAIN c.map
    BY <1>1, <1>2, <1>5
  <2>2. g.map[1] = c.map[1] /\ SizeOf(g, 1) = SizeOf(c, 1)
    BY <1>1, <1>6, <2>1
  <2> QED
    BY <1>1, <2>1, <2>2 DEF Missing
<1>10. ASSUME NEW n \in DOMAIN g.map \ {0, 1}
       PROVE  \E r \in DOMAIN c.map : r \in keep /\ SizeOf(g, n) = SizeOf(c, r)
  <2> DEFINE r == RowAt(rows, n)
  <2>1. r \in rows /\ r \in DOMAIN c.map /\ SizeOf(g, n) = SizeOf(c, r) /\ r # 1
    BY <1>1, <1>2, <1>5, <1>6
  <2>2. 0 < n
    BY <1>4
  <2>3. 0 < r
    BY <1>1, <2>2
  <2> HIDE DEF r
  <2>4. r < 2 \/ r \in keep
    BY <2>1 DEF rows, Kept
  <2>5. r \in Nat
    <3>1. PICK m \in 1..127 : DOMAIN c.map = 0..m - 1
      BY <1>3
    <3>2. r \in 0..m - 1
      BY <2>1, <3>1
    <3> QED
      BY <3>2
  <2> QED
    BY <2>1, <2>3, <2>4, <2>5
<1>11. ASSUME NEW r \in DOMAIN c.map, r \in keep
       PROVE  \E n \in DOMAIN g.map : SizeOf(g, n) = SizeOf(c, r)
  <2>1. r \in rows
    BY <1>11 DEF rows, Kept
  <2>2. PICK n \in DOMAIN g.map : RowAt(rows, n) = r
    BY <1>1, <2>1
  <2> QED
    BY <1>6, <2>2
<1> QED
  BY <1>6, <1>7, <1>8, <1>9, <1>10, <1>11 DEF rows, g

LEMMA SizesAre == /\ Base \in Sizes /\ NoSize \in Sizes
                  /\ \A d \in TextDevice : ToSet(ModeSizes[d]) \subseteq Sizes
  BY Zenon DEF Sizes

LEMMA ModesAre ==
  /\ Cardinality(TextDevice) \in Nat /\ IsFiniteSet(TextDevice)
  /\ \A d \in TextDevice :
       /\ Len(ModeSizes[d]) \in 1..127 /\ Size(d, 0) = Base /\ Base # NoSize
       /\ \A m \in ModesOf(d) : Size(d, m) \in Sizes /\ (Size(d, m) = NoSize => m = 1)
       /\ \A m : Size(d, m) # NoSize => m \in ModesOf(d)
<1>0. Cardinality(TextDevice) \in Nat /\ IsFiniteSet(TextDevice)
  BY FS_CardinalityType, TextAssumption
<1>1. ASSUME NEW d \in TextDevice
      PROVE  /\ Len(ModeSizes[d]) \in 1..127 /\ Size(d, 0) = Base /\ Base # NoSize
             /\ \A m \in ModesOf(d) : Size(d, m) \in Sizes /\ (Size(d, m) = NoSize => m = 1)
             /\ \A m : Size(d, m) # NoSize => m \in ModesOf(d)
  <2>1. Len(ModeSizes[d]) \in 1..127 /\ DOMAIN ModeSizes[d] = 1..Len(ModeSizes[d]) /\ ModeSizes[d][1] = Base
        /\ \A i \in DOMAIN ModeSizes[d] : ModeSizes[d][i] = NoSize => i = 2
    BY Zenon, TextAssumption
  <2>2. Size(d, 0) = Base
    BY <2>1 DEF Size, ModesOf
  <2>3. ASSUME NEW m \in ModesOf(d)
        PROVE  Size(d, m) \in Sizes /\ (Size(d, m) = NoSize => m = 1)
    <3>1. m + 1 \in DOMAIN ModeSizes[d] /\ Size(d, m) = ModeSizes[d][m + 1]
      BY <2>1 DEF ModesOf, Size
    <3>2. ModeSizes[d][m + 1] \in ToSet(ModeSizes[d])
      BY <3>1 DEF ToSet
    <3>3. Size(d, m) \in Sizes
      BY <3>1, <3>2, SizesAre
    <3>4. Size(d, m) = NoSize => m = 1
      <4>1. Size(d, m) = NoSize => m + 1 = 2
        BY <2>1, <3>1
      <4>2. m \in Int
        BY <2>1 DEF ModesOf
      <4> QED
        BY <4>1, <4>2
    <3> QED
      BY <3>3, <3>4
  <2>4. \A m : Size(d, m) # NoSize => m \in ModesOf(d)
    BY DEF Size, ModesOf
  <2>5. Base # NoSize
    BY <2>1
  <2> QED
    BY <2>1, <2>2, <2>3, <2>4, <2>5
<1> QED
  BY <1>0, <1>1

LEMMA GreatestIs ==
  ASSUME NEW n \in Nat, NEW S \in SUBSET (0..n - 1), S # {}
  PROVE  Max(S) \in S
<1> DEFINE above == {k \in Nat : \A m \in S : m <= k}
<1>1. n \in above
  OBVIOUS
<1>2. PICK k \in above : \A j \in above : k <= j
  <2>1. above \in SUBSET Nat /\ above # {}
    BY <1>1
  <2> HIDE DEF above
  <2> QED
    BY <2>1, LeastExists
<1>3. k \in S
  <2> SUFFICES ASSUME k \notin S PROVE FALSE
    OBVIOUS
  <2>1. PICK m \in S : TRUE
    OBVIOUS
  <2>2. \A q \in S : q \in Nat /\ q < k
    BY <1>2
  <2>3. k - 1 \in Nat
    BY <2>2
  <2>4. k - 1 \in above
    BY <2>2, <2>3
  <2> QED
    BY <1>2, <2>4
<1>4. \A m \in S : k >= m
  BY <1>2
<1> QED
  BY <1>3, <1>4 DEF Max

\* A table that is sound for its first k consoles.
Sound(c, k) == Shape(c, k) /\ AllSound(c, k) /\ Missing(c, k)

\* What a change of the table leaves alone.
Kindred(c, g) ==
  /\ g.slots = c.slots /\ g.count = c.count
  /\ g.cursor = c.cursor /\ g.fresh = c.fresh /\ g.inStep = c.inStep

LEMMA FirstModeIs ==
  ASSUME NEW c \in ConState, NEW k, Shape(c, k)
  PROVE  0 \in DOMAIN c.map /\ \A n \in DOMAIN c.map : c.map[n][1] \in Int /\ (c.map[n][1] = 1 <=> n = 1)
<1>1. PICK m \in 1..127 : DOMAIN c.map = 0..m - 1
  BY MapIs
<1>2. PICK j \in 1..127 : DOMAIN c.query = 0..j - 1
  BY MapIs
<1>3. \A n \in DOMAIN c.map : c.map[n][1] \in Int
  BY <1>2 DEF Shape
<1>4. ASSUME NEW n \in DOMAIN c.map PROVE c.map[n][1] = 1 <=> n = 1
  <2>1. CASE n = 0
    BY <2>1 DEF Shape
  <2>2. CASE n = 1
    BY <2>2 DEF Shape
  <2>3. CASE n > 1
    <3>1. 1 \in DOMAIN c.map
      <4>1. n \in 0..m - 1
        BY <1>1
      <4>2. 1 \in 0..m - 1
        BY <2>3, <4>1
      <4> QED
        BY <1>1, <4>2
    <3>2. c.map[1][1] = 1 /\ c.map[1][1] < c.map[n][1]
      BY <2>3, <3>1 DEF Shape
    <3> QED
      BY <1>3, <2>3, <3>2
  <2> QED
    BY <1>1, <2>1, <2>2, <2>3
<1> QED
  BY <1>1, <1>3, <1>4

LEMMA AddOutputModeIs ==
  ASSUME NEW c \in ConState, NEW d \in TextDevice, c.slots[1] = d
  PROVE  LET g == AddOutputMode(c, d) IN
         /\ g \in ConState /\ Kindred(c, g) /\ Sound(g, 1) /\ g.mode = c.mode
         /\ c.mode = NoMode => Unset(g)
<1> DEFINE g == AddOutputMode(c, d)
           n == Len(ModeSizes[d])
           sizes == [m \in ModesOf(d) |-> Size(d, m)]
           rows == [m \in ModesOf(d) |-> <<m>>]
<1>1. n \in 1..127 /\ ModesOf(d) = 0..n - 1 /\ \A m \in ModesOf(d) : Size(d, m) \in Sizes
  BY ModesAre DEF ModesOf
<1>2. g = [c EXCEPT !.query = sizes, !.map = rows]
  BY DEF AddOutputMode
<1>3. sizes \in AnyQuery
  <2>1. sizes \in [0..n - 1 -> Sizes]
    BY <1>1
  <2> HIDE DEF sizes, n
  <2> QED
    BY <1>1, <2>1 DEF AnyQuery
<1>4. rows \in AnyMap
  <2>1. \A m \in ModesOf(d) : <<m>> \in Seq(Int)
    BY <1>1
  <2>2. rows \in [0..n - 1 -> Seq(Int)]
    BY <1>1, <2>1
  <2> HIDE DEF rows, n
  <2> QED
    BY <1>1, <2>2 DEF AnyMap
<1>5. /\ DOMAIN sizes = ModesOf(d) /\ DOMAIN rows = ModesOf(d)
      /\ \A m \in ModesOf(d) : sizes[m] = Size(d, m) /\ Len(rows[m]) = 1 /\ rows[m][1] = m
  OBVIOUS
<1> HIDE DEF g, sizes, rows, n
<1>6. /\ g \in ConState /\ Kindred(c, g)
      /\ g.slots = c.slots /\ g.query = sizes /\ g.map = rows /\ g.mode = c.mode
  BY <1>2, <1>3, <1>4 DEF ConState, Kindred
<1>7. \A m \in ModesOf(d) : m \in Int
  BY <1>1
<1>8. Shape(g, 1)
  <2>1. 0 \in ModesOf(d)
    BY <1>1
  <2> QED
    BY <1>5, <1>6, <1>7, <2>1 DEF Shape
<1>9. \A m \in ModesOf(d) : SizeOf(g, m) = Size(d, m)
  BY <1>5, <1>6 DEF SizeOf
<1>10. AllSound(g, 1) /\ Missing(g, 1)
  <2>1. \A m \in DOMAIN g.map : SizeOf(g, m) = Size(g.slots[1], g.map[m][1])
    BY <1>5, <1>6, <1>9
  <2>2. AllSound(g, 1)
    <3> SUFFICES ASSUME NEW m \in DOMAIN g.map PROVE RowSound(g, m, 1)
      BY DEF AllSound
    <3>1. m = 1 => g.map[m][1] = 1
      BY <1>5, <1>6
    <3> QED
      BY <2>1, <3>1 DEF RowSound
  <2>3. Missing(g, 1)
    BY <2>1 DEF Missing
  <2> QED
    BY <2>2, <2>3
<1>11. c.mode = NoMode => Unset(g)
  <2>1. DOMAIN g.map = 0..n - 1 /\ n \in 1..127
    BY <1>1, <1>5, <1>6
  <2>2. NoMode >= NoMode - 127 + n
    BY <1>1 DEF NoMode
  <2> QED
    BY <1>6, <2>1, <2>2 DEF Unset
<1> QED
  BY <1>6, <1>8, <1>10, <1>11 DEF g, Sound

LEMMA WithoutMode1Is ==
  ASSUME NEW c \in ConState, NEW d \in TextDevice, NEW k \in Nat, Shape(c, k)
  PROVE  LET b == WithoutMode1(c, d) IN
         /\ b \in ConState /\ Kindred(c, b) /\ b.map = c.map /\ b.mode = c.mode
         /\ DOMAIN b.query = DOMAIN c.query
         /\ \A m \in DOMAIN c.query : m # 1 => b.query[m] = c.query[m]
         /\ LacksMode1(c, d) => 1 \in DOMAIN c.map /\ 1 \in DOMAIN c.query /\ b.query[1] = NoSize
         /\ ~LacksMode1(c, d) => b = c
<1> DEFINE b == WithoutMode1(c, d)
           sizes == [c.query EXCEPT ![1] = NoSize]
<1>1. CASE ~LacksMode1(c, d)
  BY <1>1 DEF WithoutMode1, Kindred
<1>2. CASE LacksMode1(c, d)
  <2>1. 1 \in DOMAIN c.map
    BY <1>2 DEF LacksMode1
  <2>2. 1 \in DOMAIN c.query
    BY <2>1 DEF Shape
  <2>3. PICK n \in 1..127 : DOMAIN c.query = 0..n - 1 /\ c.query \in [0..n - 1 -> Sizes]
    BY MapIs
  <2>4. sizes \in AnyQuery
    <3>1. NoSize \in Sizes
      BY SizesAre
    <3>2. sizes \in [0..n - 1 -> Sizes]
      BY <2>3, <3>1
    <3> HIDE DEF sizes
    <3> QED
      BY <3>2 DEF AnyQuery
  <2>5. DOMAIN sizes = DOMAIN c.query /\ sizes[1] = NoSize
        /\ \A m \in DOMAIN c.query : m # 1 => sizes[m] = c.query[m]
    BY <2>2, <2>3
  <2>6. b = [c EXCEPT !.query = sizes]
    BY <1>2 DEF WithoutMode1
  <2> HIDE DEF sizes, b
  <2>7. b \in ConState /\ Kindred(c, b) /\ b.map = c.map /\ b.mode = c.mode /\ b.query = sizes
    BY <2>4, <2>6 DEF ConState, Kindred
  <2> QED
    BY <1>2, <2>1, <2>2, <2>5, <2>7 DEF b
<1> QED
  BY <1>1, <1>2

LEMMA SyncOutputModeIs ==
  ASSUME NEW c0 \in ConState, NEW d \in TextDevice, NEW k \in Nat, k > 0, Sound(c0, k),
         c0.slots[k + 1] = d, c0.slots[1] \in TextDevice
  PROVE  LET g == SyncOutputMode(c0, d) IN
         /\ g \in ConState /\ Kindred(c0, g) /\ Sound(g, k + 1)
         /\ g.mode <= c0.mode /\ (Unset(c0) => Unset(g))
<1> DEFINE c == WithoutMode1(c0, d)
           entry == [r \in DOMAIN c.map |->
                       IF Entered(c, d, r) # {} THEN Max(Entered(c, d, r))
                       ELSE IF r = 1 /\ LacksMode1(c0, d) THEN 1 ELSE -1]
           longer == [r \in DOMAIN c.map |-> Append(c.map[r], entry[r])]
           b == [c EXCEPT !.map = longer]
           keep == {r \in DOMAIN c.map : entry[r] # -1}
           g == SyncOutputMode(c0, d)
<1>1. g = GetIntersection(b, keep)
  BY DEF SyncOutputMode
<1>2. Shape(c0, k) /\ AllSound(c0, k) /\ Missing(c0, k)
  BY DEF Sound
<1>3. /\ c \in ConState /\ Kindred(c0, c) /\ c.map = c0.map /\ c.mode = c0.mode
      /\ DOMAIN c.query = DOMAIN c0.query
      /\ \A m \in DOMAIN c0.query : m # 1 => c.query[m] = c0.query[m]
      /\ LacksMode1(c0, d) => 1 \in DOMAIN c0.map /\ 1 \in DOMAIN c0.query /\ c.query[1] = NoSize
      /\ ~LacksMode1(c0, d) => c = c0
  BY <1>2, WithoutMode1Is
<1>4. 0 \in DOMAIN c0.map /\ \A n \in DOMAIN c0.map : c0.map[n][1] \in DOMAIN c0.query /\ (c0.map[n][1] = 1 <=> n = 1)
  BY <1>2, FirstModeIs DEF Shape
<1> HIDE DEF c
<1>5. \A n \in DOMAIN c.map : n # 1 => SizeOf(c, n) = SizeOf(c0, n)
  BY <1>3, <1>4 DEF SizeOf
<1>6. LacksMode1(c0, d) => SizeOf(c, 1) = NoSize
  BY <1>3, <1>4 DEF SizeOf
<1>7. \A r : \A m \in Entered(c, d, r) : m \in ModesOf(d) /\ Size(d, m) = SizeOf(c, r) /\ SizeOf(c, r) # NoSize
  BY DEF Entered, FirstRow
<1>8. 0 \in Entered(c, d, 0)
  <2>1. SizeOf(c, 0) = Base
    <3>1. SizeOf(c, 0) = c0.query[0] /\ 0 \in DOMAIN c0.query
      BY <1>2, <1>3, <1>4, <1>5 DEF SizeOf, Shape
    <3>2. c0.query[0] = Size(c0.slots[1], 0)
      BY <1>2, <3>1 DEF Shape
    <3> QED
      BY <3>1, <3>2, ModesAre
  <2>2. Size(d, 0) = Base /\ Base # NoSize /\ 0 \in ModesOf(d)
    BY ModesAre DEF ModesOf
  <2>3. 0 \in FirstRow(c, Base)
    BY <1>3, <1>4, <2>1 DEF FirstRow
  <2> QED
    BY <2>2, <2>3 DEF Entered
<1>9. \A r \in DOMAIN c.map :
        /\ Entered(c, d, r) # {} => entry[r] \in Entered(c, d, r)
        /\ Entered(c, d, r) = {} => entry[r] = IF r = 1 /\ LacksMode1(c0, d) THEN 1 ELSE -1
        /\ entry[r] \in Int
  <2> SUFFICES ASSUME NEW r \in DOMAIN c.map
               PROVE  /\ Entered(c, d, r) # {} => entry[r] \in Entered(c, d, r)
                      /\ Entered(c, d, r) = {} => entry[r] = IF r = 1 /\ LacksMode1(c0, d) THEN 1 ELSE -1
                      /\ entry[r] \in Int
    OBVIOUS
  <2> DEFINE n == Len(ModeSizes[d])
  <2>1. n \in Nat /\ ModesOf(d) = 0..n - 1
    BY ModesAre DEF ModesOf
  <2>2. Entered(c, d, r) \in SUBSET (0..n - 1)
    BY <1>7, <2>1
  <2> HIDE DEF n
  <2>3. Entered(c, d, r) # {} => Max(Entered(c, d, r)) \in Entered(c, d, r)
    BY <2>1, <2>2, GreatestIs
  <2>4. \A m \in Entered(c, d, r) : m \in Int
    BY <2>1, <2>2
  <2> QED
    BY <2>3, <2>4
<1> HIDE DEF entry
<1>10. \A r \in DOMAIN c.map :
         /\ longer[r] \in Seq(Int) /\ Len(longer[r]) = k + 1 /\ longer[r][k + 1] = entry[r]
         /\ \A p \in 1..k : longer[r][p] = c0.map[r][p]
  <2> SUFFICES ASSUME NEW r \in DOMAIN c.map
               PROVE  /\ longer[r] \in Seq(Int) /\ Len(longer[r]) = k + 1 /\ longer[r][k + 1] = entry[r]
                      /\ \A p \in 1..k : longer[r][p] = c0.map[r][p]
    OBVIOUS
  <2>1. c0.map[r] \in Seq(Int) /\ Len(c0.map[r]) = k
    <3>1. r \in DOMAIN c0.map
      BY <1>3
    <3>2. c0.map[r] \in Seq(Int)
      BY <3>1, MapIs
    <3> QED
      BY <1>2, <3>1, <3>2 DEF Shape
  <2>2. longer[r] = Append(c0.map[r], entry[r]) /\ entry[r] \in Int
    BY <1>3, <1>9
  <2> HIDE DEF longer
  <2> QED
    BY <2>1, <2>2
<1>11. longer \in AnyMap /\ DOMAIN longer = DOMAIN c0.map
  <2>1. PICK n \in 1..127 : DOMAIN c0.map = 0..n - 1
    BY MapIs
  <2>2. longer \in [0..n - 1 -> Seq(Int)]
    BY <1>3, <1>10, <2>1
  <2>3. DOMAIN longer = DOMAIN c0.map
    BY <1>3
  <2> HIDE DEF longer
  <2> QED
    BY <2>2, <2>3 DEF AnyMap
<1> HIDE DEF longer
<1>12. /\ b \in ConState /\ Kindred(c0, b) /\ b.map = longer /\ b.mode = c0.mode /\ b.query = c.query
       /\ b.slots = c0.slots
  BY <1>3, <1>11 DEF ConState, Kindred
<1> HIDE DEF b
<1>13. \A n \in DOMAIN c0.map : SizeOf(b, n) = SizeOf(c, n) /\ b.map[n][1] = c0.map[n][1]
  <2>1. \A n \in DOMAIN c0.map : b.map[n][1] = c0.map[n][1]
    BY <1>3, <1>10, <1>12
  <2> QED
    BY <1>3, <1>12, <2>1 DEF SizeOf
<1>14. Shape(b, k + 1)
  <2>1. \A m \in DOMAIN b.query : b.query[m] = Size(b.slots[1], m) \/ (m = 1 /\ b.query[m] = NoSize)
    <3> SUFFICES ASSUME NEW m \in DOMAIN c0.query
                 PROVE  c.query[m] = Size(c0.slots[1], m) \/ (m = 1 /\ c.query[m] = NoSize)
      BY <1>3, <1>12
    <3>1. c0.query[m] = Size(c0.slots[1], m) \/ (m = 1 /\ c0.query[m] = NoSize)
      BY <1>2 DEF Shape
    <3> QED
      BY <1>3, <3>1
  <2>2. DOMAIN b.query = ModesOf(b.slots[1]) /\ DOMAIN b.query = DOMAIN c0.query
    BY <1>2, <1>3, <1>12 DEF Shape
  <2>3. \A r \in DOMAIN b.map : Len(b.map[r]) = k + 1 /\ b.map[r][1] \in DOMAIN b.query
    BY <1>3, <1>4, <1>10, <1>11, <1>12, <1>13
  <2>4. b.map[0][1] = 0 /\ (1 \in DOMAIN b.map => b.map[1][1] = 1)
    BY <1>2, <1>4, <1>11, <1>12, <1>13 DEF Shape
  <2>5. \A r, q \in DOMAIN b.map : r < q => b.map[r][1] < b.map[q][1]
    BY <1>2, <1>11, <1>12, <1>13 DEF Shape
  <2> QED
    BY <2>1, <2>2, <2>3, <2>4, <2>5 DEF Shape
<1>15. \A r \in Kept(b, keep), p \in 1..k + 1 : RowSound(b, r, p)
  <2> SUFFICES ASSUME NEW r \in Kept(b, keep), NEW p \in 1..k + 1
               PROVE  RowSound(b, r, p)
    OBVIOUS
  <2>1. r \in DOMAIN c0.map /\ r \in DOMAIN c.map /\ (r < 2 \/ entry[r] # -1) /\ r \in Nat
    <3>1. r \in DOMAIN c0.map /\ (r < 2 \/ r \in keep)
      BY <1>11, <1>12 DEF Kept
    <3>2. PICK n \in 1..127 : DOMAIN c0.map = 0..n - 1
      BY MapIs
    <3>3. r \in 0..n - 1
      BY <3>1, <3>2
    <3>4. r \in Nat
      BY <3>3
    <3> QED
      BY <1>3, <3>1, <3>4
  <2>2. CASE p \in 1..k
    <3>1. RowSound(c0, r, p) /\ b.map[r][p] = c0.map[r][p]
      BY <1>2, <1>10, <1>12, <2>1, <2>2 DEF AllSound
    <3>2. r # 1 => SizeOf(b, r) = SizeOf(c0, r)
      BY <1>5, <1>13, <2>1
    <3>3. r = 1 => SizeOf(b, r) = NoSize \/ SizeOf(b, r) = SizeOf(c0, r)
      BY <1>3, <1>6, <1>13, <2>1
    <3> QED
      BY <1>12, <3>1, <3>2, <3>3 DEF RowSound
  <2>3. CASE p = k + 1
    <3>1. b.slots[p] = d /\ b.map[r][p] = entry[r]
      BY <1>10, <1>12, <2>1, <2>3
    <3>2. SizeOf(b, r) = SizeOf(c, r)
      BY <1>13, <2>1
    <3>3. Entered(c, d, r) # {} => Size(d, entry[r]) = SizeOf(c, r)
      BY <1>7, <1>9, <2>1
    <3>4. CASE r # 1
      <4>1. Entered(c, d, r) # {}
        <5>1. CASE r = 0
          BY <1>8, <5>1
        <5>2. CASE r # 0
          <6>1. entry[r] # -1
            <7>1. ~ (r < 2)
              BY <2>1, <3>4, <5>2
            <7> QED
              BY <2>1, <7>1
          <6> QED
            BY <1>9, <2>1, <3>4, <6>1
        <5> QED
          BY <5>1, <5>2
      <4> QED
        BY <3>1, <3>2, <3>3, <3>4, <4>1 DEF RowSound
    <3>5. CASE r = 1 /\ SizeOf(c, 1) # NoSize
      <4>1. ~LacksMode1(c0, d)
        BY <1>6, <3>5
      <4>2. Len(ModeSizes[d]) > 1 => Size(d, 1) # NoSize
        BY <2>1, <3>5, <4>1 DEF LacksMode1
      <4>3. entry[r] = -1 \/ Size(d, entry[r]) = SizeOf(c, r)
        BY <1>9, <2>1, <3>3, <4>1
      <4> QED
        BY <3>1, <3>2, <3>5, <4>2, <4>3 DEF RowSound
    <3>6. CASE r = 1 /\ SizeOf(c, 1) = NoSize
      BY <3>2, <3>6 DEF RowSound
    <3> QED
      BY <3>4, <3>5, <3>6
  <2> QED
    BY <2>2, <2>3
<1>16. Missing(b, k + 1)
  <2> SUFFICES ASSUME 1 \in DOMAIN b.map, SizeOf(b, 1) = NoSize
               PROVE  \E p \in 1..k + 1 : Size(b.slots[p], b.map[1][p]) = NoSize
    BY DEF Missing
  <2>1. 1 \in DOMAIN c0.map /\ 1 \in DOMAIN c.map /\ SizeOf(c, 1) = NoSize
    BY <1>3, <1>11, <1>12, <1>13
  <2>2. CASE LacksMode1(c0, d)
    <3>1. Entered(c, d, 1) = {}
      BY <1>7, <2>1
    <3>2. entry[1] = 1 /\ Size(d, 1) = NoSize
      BY <1>9, <2>1, <2>2, <3>1 DEF LacksMode1
    <3>3. k + 1 \in 1..k + 1 /\ Size(b.slots[k + 1], b.map[1][k + 1]) = NoSize
      BY <1>10, <1>12, <2>1, <3>2
    <3> QED
      BY <3>3
  <2>3. CASE ~LacksMode1(c0, d)
    <3>1. SizeOf(c0, 1) = NoSize
      BY <1>3, <2>1, <2>3
    <3>2. PICK p \in 1..k : Size(c0.slots[p], c0.map[1][p]) = NoSize
      BY <1>2, <2>1, <3>1 DEF Missing
    <3>3. p \in 1..k + 1 /\ Size(b.slots[p], b.map[1][p]) = NoSize
      BY <1>10, <1>12, <2>1, <3>2
    <3> QED
      BY <3>3
  <2> QED
    BY <2>2, <2>3
<1>17. Unset(c0) => Unset(b)
  BY <1>11, <1>12 DEF Unset
<1> HIDE DEF g, keep
<1>18. Sound(g, k + 1)
  <2>1. k + 1 \in Nat /\ k + 1 > 0
    OBVIOUS
  <2> QED
    BY <1>1, <1>12, <1>14, <1>15, <1>16, <2>1, IntersectionKeeps DEF Sound
<1>19. g \in ConState /\ Kindred(b, g) /\ g.mode <= b.mode /\ (Unset(b) => Unset(g))
  BY <1>1, <1>12, GetIntersectionIs DEF Kindred
<1> QED
  BY <1>12, <1>17, <1>18, <1>19 DEF g, Kindred

\* A table is sound for what stands in it.
LEMMA SoundDepends ==
  ASSUME NEW b, NEW g, NEW k, b.slots = g.slots, b.query = g.query, b.map = g.map, Sound(b, k)
  PROVE  Sound(g, k) /\ \A n : SizeOf(g, n) = SizeOf(b, n)
<1>1. \A n : SizeOf(g, n) = SizeOf(b, n)
  BY DEF SizeOf
<1>2. Shape(g, k)
  BY DEF Sound, Shape
<1>3. AllSound(g, k)
  BY <1>1 DEF Sound, AllSound, RowSound
<1>4. Missing(g, k)
  BY <1>1 DEF Sound, Missing
<1> QED
  BY <1>1, <1>2, <1>3, <1>4 DEF Sound

LEMMA JoinedIs ==
  ASSUME NEW c \in ConState, NEW d \in TextDevice, c.count < Cardinality(TextDevice),
         c.slots[c.count + 1] = d, c.count > 0 => Sound(c, c.count) /\ c.slots[1] \in TextDevice
  PROVE  LET g == Joined(c, d) IN
         /\ g \in ConState /\ g.slots = c.slots /\ g.count = c.count + 1
         /\ g.cursor = c.cursor /\ g.fresh = c.fresh /\ g.inStep = c.inStep
         /\ Sound(g, g.count)
         /\ g.mode <= c.mode /\ (c.mode = NoMode /\ (c.count > 0 => Unset(c)) => Unset(g))
<1> DEFINE k == c.count
           b == IF c.count = 0 THEN AddOutputMode(c, d) ELSE SyncOutputMode(c, d)
           g == Joined(c, d)
<1>1. k \in Nat /\ Cardinality(TextDevice) \in Nat /\ k + 1 \in 0..Cardinality(TextDevice)
  BY ModesAre DEF ConState
<1>2. /\ b \in ConState /\ Kindred(c, b) /\ Sound(b, k + 1) /\ b.mode <= c.mode
      /\ c.mode = NoMode /\ (k > 0 => Unset(c)) => Unset(b)
  <2>1. CASE k = 0
    <3>1. /\ b \in ConState /\ Kindred(c, b) /\ Sound(b, 1) /\ b.mode = c.mode
          /\ c.mode = NoMode => Unset(b)
      BY <2>1, AddOutputModeIs
    <3>2. c.mode <= c.mode
      BY DEF ConState
    <3> QED
      BY <2>1, <3>1, <3>2
  <2>2. CASE k > 0
    BY <1>1, <2>2, SyncOutputModeIs
  <2> QED
    BY <1>1, <2>1, <2>2
<1>3. g = [b EXCEPT !.count = @ + 1]
  BY DEF Joined
<1> HIDE DEF b, g
<1>4. /\ g \in ConState /\ g.slots = b.slots /\ g.count = k + 1 /\ g.mode = b.mode
      /\ g.cursor = b.cursor /\ g.fresh = b.fresh /\ g.inStep = b.inStep /\ g.query = b.query /\ g.map = b.map
  BY <1>1, <1>2, <1>3 DEF ConState, Kindred
<1>5. Sound(g, k + 1)
  BY <1>2, <1>4, SoundDepends
<1>6. Unset(b) => Unset(g)
  BY <1>4 DEF Unset
<1> QED
  BY <1>2, <1>4, <1>5, <1>6 DEF g, Kindred

\* The table that is built anew for the first n consoles of c's list.
Start(c) == [c EXCEPT !.count = 0, !.fresh = FALSE, !.inStep = FALSE]
Built(c, f, m) == f = [n \in 0..m |-> IF n = 0 THEN Start(c) ELSE Joined(f[n - 1], c.slots[n])]
Anew(c, b, n) ==
  /\ b \in ConState /\ b.slots = c.slots /\ b.count = n /\ b.cursor = c.cursor
  /\ b.fresh = FALSE /\ b.inStep = FALSE /\ b.mode <= c.mode /\ (n > 0 => Sound(b, n))

LEMMA BuiltIs ==
  ASSUME NEW c \in ConState, NEW m \in 0..Cardinality(TextDevice),
         \A p \in 1..m : c.slots[p] \in TextDevice, NEW f, Built(c, f, m)
  PROVE  \A n \in 0..m : Anew(c, f[n], n)
<1> DEFINE bad == {n \in 0..m : ~Anew(c, f[n], n)}
<1>0. m \in Nat /\ m <= Cardinality(TextDevice) /\ Cardinality(TextDevice) \in Nat
  BY ModesAre
<1>1. SUFFICES ASSUME bad # {} PROVE FALSE
  OBVIOUS
<1>2. PICK n \in bad : \A j \in bad : n <= j
  <2>1. bad \in SUBSET Nat
    BY <1>0
  <2> HIDE DEF bad
  <2> QED
    BY <1>1, <2>1, LeastExists
<1>3. n \in 0..m /\ ~Anew(c, f[n], n)
  BY <1>2
<1>4. f[n] = IF n = 0 THEN Start(c) ELSE Joined(f[n - 1], c.slots[n])
  BY <1>3 DEF Built
<1>5. CASE n = 0
  <2>0. 0 \in 0..Cardinality(TextDevice)
    BY <1>0
  <2>1. Anew(c, Start(c), 0)
    <3>1. Start(c) \in ConState
      BY <2>0 DEF Start, ConState
    <3>2. /\ Start(c).slots = c.slots /\ Start(c).count = 0 /\ Start(c).cursor = c.cursor
          /\ Start(c).fresh = FALSE /\ Start(c).inStep = FALSE /\ Start(c).mode <= c.mode
      BY DEF Start, ConState
    <3>3. ~ (0 > 0)
      OBVIOUS
    <3> QED
      BY <3>1, <3>2, <3>3 DEF Anew
  <2> QED
    BY <1>3, <1>4, <1>5, <2>1
<1>6. CASE n # 0
  <2> DEFINE b == f[n - 1]
  <2>1. n - 1 \in 0..m /\ n \in 1..m /\ n - 1 < n
    BY <1>0, <1>3, <1>6
  <2>2. Anew(c, b, n - 1)
    <3>1. n - 1 \notin bad
      BY <1>2, <2>1
    <3> QED
      BY <2>1, <3>1
  <2> HIDE DEF b
  <2>3. b \in ConState /\ b.slots = c.slots /\ b.count = n - 1 /\ b.count + 1 = n /\ b.count < Cardinality(TextDevice)
    BY <1>0, <2>1, <2>2 DEF Anew
  <2>4. b.count > 0 => Sound(b, b.count) /\ b.slots[1] \in TextDevice
    BY <1>0, <2>1, <2>2, <2>3 DEF Anew
  <2>5. LET g == Joined(b, c.slots[n]) IN
        /\ g \in ConState /\ g.slots = b.slots /\ g.count = b.count + 1
        /\ g.cursor = b.cursor /\ g.fresh = b.fresh /\ g.inStep = b.inStep /\ Sound(g, g.count)
        /\ g.mode <= b.mode
    <3>1. c.slots[n] \in TextDevice /\ b.slots[b.count + 1] = c.slots[n]
      BY <2>1, <2>3
    <3> QED
      BY <2>3, <2>4, <3>1, JoinedIs
  <2> DEFINE g == Joined(b, c.slots[n])
  <2>6. Anew(c, g, n)
    <3>1. g \in ConState /\ g.mode <= b.mode /\ b.mode <= c.mode
      BY <2>2, <2>5 DEF Anew
    <3>2. g.mode <= c.mode
      <4>1. g.mode \in Int /\ b.mode \in Int /\ c.mode \in Int
        BY <2>3, <3>1 DEF ConState
      <4> QED
        BY <3>1, <4>1
    <3> HIDE DEF g
    <3> QED
      BY <2>2, <2>3, <2>5, <3>1, <3>2 DEF Anew, g
  <2> QED
    BY <1>3, <1>4, <1>6, <2>6 DEF b
<1> QED
  BY <1>5, <1>6

LEMMA CanBeBuilt ==
  ASSUME NEW c, NEW count \in Nat
  PROVE  \E f : Built(c, f, count)
<1> DEFINE bad == {m \in 0..count : ~ \E f : Built(c, f, m)}
<1>1. SUFFICES ASSUME bad # {} PROVE FALSE
  <2>1. count \in 0..count
    OBVIOUS
  <2> QED
    BY <1>1, <2>1
<1>2. PICK m \in bad : \A j \in bad : m <= j
  <2>1. bad \in SUBSET Nat
    OBVIOUS
  <2> HIDE DEF bad
  <2> QED
    BY <1>1, <2>1, LeastExists
<1>3. m \in 0..count /\ ~ \E f : Built(c, f, m)
  BY <1>2
<1>4. CASE m = 0
  <2> DEFINE f == [n \in 0..0 |-> Start(c)]
  <2>1. f = [n \in 0..0 |-> IF n = 0 THEN Start(c) ELSE Joined(f[n - 1], c.slots[n])]
    OBVIOUS
  <2> HIDE DEF f
  <2> QED
    BY <1>3, <1>4, <2>1 DEF Built
<1>5. CASE m # 0
  <2>1. m - 1 \in 0..count /\ m - 1 < m /\ m - 1 \notin bad
    BY <1>2, <1>3, <1>5
  <2>2. PICK f : Built(c, f, m - 1)
    BY <2>1
  <2> DEFINE g == [n \in 0..m |-> IF n = m THEN Joined(f[m - 1], c.slots[m]) ELSE f[n]]
  <2>3. \A n \in 0..m : g[n] = IF n = 0 THEN Start(c) ELSE Joined(g[n - 1], c.slots[n])
    <3> SUFFICES ASSUME NEW n \in 0..m
                 PROVE  g[n] = IF n = 0 THEN Start(c) ELSE Joined(g[n - 1], c.slots[n])
      OBVIOUS
    <3>1. CASE n = m
      <4>1. g[n - 1] = f[m - 1] /\ g[n] = Joined(f[m - 1], c.slots[m])
        BY <1>3, <1>5, <3>1
      <4> QED
        BY <1>3, <1>5, <3>1, <4>1
    <3>2. CASE n # m
      <4>1. n \in 0..m - 1 /\ g[n] = f[n] /\ (n # 0 => n - 1 \in 0..m /\ n - 1 # m)
        BY <1>3, <3>2
      <4>2. n # 0 => g[n - 1] = f[n - 1]
        BY <4>1
      <4>3. f[n] = IF n = 0 THEN Start(c) ELSE Joined(f[n - 1], c.slots[n])
        BY <2>2, <4>1 DEF Built
      <4> HIDE DEF g
      <4> QED
        BY <4>1, <4>2, <4>3
    <3> QED
      BY <3>1, <3>2
  <2>4. g = [n \in 0..m |-> g[n]]
    OBVIOUS
  <2> HIDE DEF g
  <2>5. g = [n \in 0..m |-> IF n = 0 THEN Start(c) ELSE Joined(g[n - 1], c.slots[n])]
    BY <2>3, <2>4
  <2> QED
    BY <1>3, <2>5 DEF Built
<1> QED
  BY <1>4, <1>5

LEMMA RebuildIs ==
  ASSUME NEW c \in ConState, NEW count \in 1..Cardinality(TextDevice),
         \A p \in 1..count : c.slots[p] \in TextDevice
  PROVE  Anew(c, Rebuild(c, count), count)
<1> DEFINE built == CHOOSE f : f = [n \in 0..count |-> IF n = 0 THEN Start(c) ELSE Joined(f[n - 1], c.slots[n])]
<1>0. Cardinality(TextDevice) \in Nat
  BY ModesAre
<1>1. Rebuild(c, count) = built[count]
  BY DEF Rebuild, Start
<1>2. \E f : f = [n \in 0..count |-> IF n = 0 THEN Start(c) ELSE Joined(f[n - 1], c.slots[n])]
  <2>1. \E f : Built(c, f, count)
    BY CanBeBuilt
  <2> QED
    BY <2>1 DEF Built
<1>3. Built(c, built, count)
  BY <1>2 DEF Built
<1> HIDE DEF built
<1>4. count \in 0..Cardinality(TextDevice) /\ count \in 0..count
  BY <1>0
<1> QED
  BY <1>1, <1>3, <1>4, BuiltIs

-----------------------------------------------------------------------------
(* The two splitters with the devices.                                     *)

\* No device is in a list twice.
Listed(c) ==
  /\ \A p \in 1..c.count : c.slots[p] \in TextDevice
  /\ \A p, q \in 1..c.count : c.slots[p] = c.slots[q] => p = q

Coherent(c) ==
  /\ c \in ConState /\ Listed(c)
  /\ IF c.count = 0 THEN c.query = NoTable.query /\ c.map = NoTable.map ELSE Sound(c, c.count)

DevState == [mode : Nat, cursor : Cell]
Worlds == [con : [TextSplitter -> ConState], dev : [TextDevice -> DevState]]

Sane(w) ==
  /\ w \in Worlds
  /\ \A s \in TextSplitter : Coherent(w.con[s])
  /\ \A d \in TextDevice : w.dev[d].mode \in ModesOf(d)

\* The list and the table are the same.
SameList(c, g) == g.slots = c.slots /\ g.count = c.count /\ g.query = c.query /\ g.map = c.map

LEMMA OtherIs ==
  \A s \in TextSplitter :
    OtherSplitter(s) \in TextSplitter /\ OtherSplitter(s) # s /\ \A t \in TextSplitter : t = s \/ t = OtherSplitter(s)
<1> SUFFICES ASSUME NEW s \in TextSplitter
             PROVE  OtherSplitter(s) \in TextSplitter /\ OtherSplitter(s) # s /\ \A t \in TextSplitter : t = s \/ t = OtherSplitter(s)
  OBVIOUS
<1>1. \E t \in TextSplitter : t # s
  BY DEF TextSplitter
<1>2. OtherSplitter(s) \in TextSplitter /\ OtherSplitter(s) # s
  BY <1>1 DEF OtherSplitter
<1>3. s \in {"ConOut", "StdErr"} /\ OtherSplitter(s) \in {"ConOut", "StdErr"}
  BY <1>2 DEF TextSplitter
<1>4. \A t \in TextSplitter : t = s \/ t = OtherSplitter(s)
  BY <1>2, <1>3 DEF TextSplitter
<1> QED
  BY <1>2, <1>4

LEMMA CoherentDepends ==
  ASSUME NEW c, NEW g \in ConState, Coherent(c), SameList(c, g)
  PROVE  /\ Coherent(g) /\ Consoles(g) = Consoles(c)
         /\ \A n : SizeOf(g, n) = SizeOf(c, n)
<1>1. \A n : SizeOf(g, n) = SizeOf(c, n)
  BY DEF SameList, SizeOf
<1>2. Consoles(g) = Consoles(c)
  BY DEF SameList, Consoles
<1>3. Listed(g)
  BY DEF SameList, Listed, Coherent
<1>4. IF g.count = 0 THEN g.query = NoTable.query /\ g.map = NoTable.map ELSE Sound(g, g.count)
  <2>1. CASE c.count = 0
    BY <2>1 DEF SameList, Coherent
  <2>2. CASE c.count # 0
    <3>1. Sound(c, c.count)
      BY <2>2 DEF Coherent
    <3> QED
      BY <2>2, <3>1, SoundDepends DEF SameList
  <2> QED
    BY <2>1, <2>2
<1> QED
  BY <1>1, <1>2, <1>3, <1>4 DEF Coherent

\* The consoles are devices, and modes 0 and 1 come before the others.
LEMMA ConsolesAre ==
  ASSUME NEW c, Coherent(c)
  PROVE  /\ Consoles(c) \subseteq TextDevice /\ 0 \in DOMAIN c.map /\ c.count \in Nat
         /\ \A n \in DOMAIN c.map : n \in 0..126
         /\ \A d \in Consoles(c) : \E p \in 1..c.count : c.slots[p] = d
<1>0. c \in ConState /\ Listed(c)
  BY DEF Coherent
<1>1. Consoles(c) \subseteq TextDevice /\ \A d \in Consoles(c) : \E p \in 1..c.count : c.slots[p] = d
  BY <1>0 DEF Consoles, Listed
<1>2. PICK m \in 1..127 : DOMAIN c.map = 0..m - 1
  BY <1>0, MapIs
<1>3. c.count \in Nat
  BY <1>0 DEF ConState
<1>5. 0 \in DOMAIN c.map /\ \A n \in DOMAIN c.map : n \in 0..126
  <2>1. 0 \in 0..m - 1 /\ \A n \in 0..m - 1 : n \in 0..126
    OBVIOUS
  <2> QED
    BY <1>2, <2>1, Zenon
<1> QED
  BY <1>1, <1>3, <1>5

LEMMA BehindIs ==
  ASSUME NEW c, Coherent(c), NEW n, NEW p \in 1..c.count
  PROVE  c.slots[p] \in Consoles(c) /\ Behind(c, n)[c.slots[p]] = c.map[n][p]
<1> DEFINE place == CHOOSE q \in 1..c.count : c.slots[q] = c.slots[p]
<1>1. place \in 1..c.count /\ c.slots[place] = c.slots[p]
  OBVIOUS
<1>2. place = p
  BY <1>1 DEF Coherent, Listed
<1>3. c.slots[p] \in Consoles(c)
  BY DEF Consoles
<1>4. Behind(c, n)[c.slots[p]] = c.map[n][place]
  BY <1>3 DEF Behind
<1> HIDE DEF place
<1> QED
  BY <1>2, <1>3, <1>4

\* Where each console takes its mode behind mode n, all show its size.
LEMMA BehindShows ==
  ASSUME NEW c, Coherent(c), NEW n \in DOMAIN c.map,
         \A d \in Consoles(c) : Size(d, Behind(c, n)[d]) # NoSize
  PROVE  \A d \in Consoles(c) : Size(d, Behind(c, n)[d]) = SizeOf(c, n)
<1>1. \A p \in 1..c.count : c.slots[p] \in Consoles(c) /\ Behind(c, n)[c.slots[p]] = c.map[n][p]
  BY BehindIs
<1>2. \A p \in 1..c.count : Size(c.slots[p], c.map[n][p]) # NoSize
  BY <1>1
<1>3. ASSUME NEW p \in 1..c.count PROVE Size(c.slots[p], c.map[n][p]) = SizeOf(c, n)
  <2>1. Sound(c, c.count)
    <3>1. c.count # 0
      BY <1>3, ConsolesAre
    <3> QED
      BY <3>1 DEF Coherent
  <2>2. RowSound(c, n, p)
    BY <2>1 DEF Sound, AllSound
  <2>3. CASE n # 1
    BY <2>2, <2>3 DEF RowSound
  <2>4. CASE n = 1
    <3>1. SizeOf(c, 1) # NoSize
      BY <1>2, <2>1, <2>4 DEF Sound, Missing
    <3>2. c.map[n][p] = -1 => Size(c.slots[p], c.map[n][p]) = NoSize
      BY DEF Size, ModesOf
    <3> QED
      BY <1>2, <2>2, <2>4, <3>1, <3>2 DEF RowSound
  <2> QED
    BY <2>3, <2>4
<1>4. \A d \in Consoles(c) : \E p \in 1..c.count : c.slots[p] = d
  BY ConsolesAre
<1> QED
  BY <1>1, <1>3, <1>4

LEMMA SaneIs ==
  ASSUME NEW w, Sane(w)
  PROVE  /\ w = [con |-> w.con, dev |-> w.dev]
         /\ w.con \in [TextSplitter -> ConState] /\ w.dev \in [TextDevice -> DevState]
         /\ \A s \in TextSplitter : Coherent(w.con[s]) /\ w.con[s] \in ConState
         /\ \A d \in TextDevice : w.dev[d] \in DevState /\ w.dev[d].mode \in ModesOf(d) /\ w.dev[d].cursor \in Cell
<1>1. w \in Worlds
  BY DEF Sane
<1>2. w = [con |-> w.con, dev |-> w.dev] /\ w.con \in [TextSplitter -> ConState] /\ w.dev \in [TextDevice -> DevState]
  BY <1>1 DEF Worlds
<1>3. \A s \in TextSplitter : Coherent(w.con[s]) /\ w.con[s] \in ConState
  BY <1>2 DEF Sane
<1>4. \A d \in TextDevice : w.dev[d] \in DevState /\ w.dev[d].mode \in ModesOf(d) /\ w.dev[d].cursor \in Cell
  BY <1>2 DEF Sane, DevState
<1> QED
  BY <1>2, <1>3, <1>4

\* A splitter's state is put in the place of another.
LEMMA PutIs ==
  ASSUME NEW w, Sane(w), NEW s \in TextSplitter, NEW g, Coherent(g)
  PROVE  LET v == [w EXCEPT !.con[s] = g] IN
         /\ Sane(v) /\ v.con[s] = g /\ v.con[OtherSplitter(s)] = w.con[OtherSplitter(s)] /\ v.dev = w.dev
         /\ Displayed(w, OtherSplitter(s)) => Displayed(v, OtherSplitter(s))
         /\ Together(w, OtherSplitter(s)) => Together(v, OtherSplitter(s))
<1> DEFINE v == [w EXCEPT !.con[s] = g]
           t == OtherSplitter(s)
<1>1. g \in ConState
  BY DEF Coherent
<1>2. t \in TextSplitter /\ t # s /\ \A q \in TextSplitter : q = s \/ q = t
  BY OtherIs
<1>3. v = [con |-> [w.con EXCEPT ![s] = g], dev |-> w.dev]
  BY SaneIs
<1> HIDE DEF v, t
<1>4. v.con \in [TextSplitter -> ConState] /\ v.con[s] = g /\ v.con[t] = w.con[t] /\ v.dev = w.dev
  BY <1>1, <1>2, <1>3, SaneIs
<1>5. Sane(v)
  <2>1. v \in Worlds
    BY <1>3, <1>4, SaneIs DEF Worlds
  <2>2. \A q \in TextSplitter : Coherent(v.con[q])
    BY <1>2, <1>4, SaneIs
  <2> QED
    BY <1>4, <2>1, <2>2 DEF Sane
<1>6. Displayed(w, t) => Displayed(v, t)
  BY <1>4 DEF Displayed
<1>7. Together(w, t) => Together(v, t)
  BY <1>4 DEF Together
<1> QED
  BY <1>4, <1>5, <1>6, <1>7 DEF v, t

LEMMA OnDevicesIs ==
  ASSUME NEW w, Sane(w), NEW s \in TextSplitter, NEW new, DOMAIN new \subseteq TextDevice,
         \A d \in DOMAIN new : new[d] \in DevState /\ new[d].mode \in ModesOf(d)
  PROVE  LET v == OnDevices(w, s, new)
             t == OtherSplitter(s) IN
         /\ Sane(v) /\ v.con[s] = w.con[s]
         /\ SameList(w.con[t], v.con[t]) /\ v.con[t].mode = w.con[t].mode
         /\ \A d \in TextDevice : v.dev[d] = IF d \in DOMAIN new THEN new[d] ELSE w.dev[d]
         /\ Displayed(w, t) => Displayed(v, t)
         /\ Together(w, t) => Together(v, t)
<1> DEFINE v == OnDevices(w, s, new)
           t == OtherSplitter(s)
           c == w.con[t]
           theirs == DOMAIN new \cap Consoles(c)
           fresh == c.fresh /\ \A d \in theirs : new[d].mode = w.dev[d].mode
           inStep == c.inStep /\ \A d \in theirs : new[d].cursor = w.dev[d].cursor
           g == [c EXCEPT !.fresh = fresh, !.inStep = inStep]
           devs == [d \in TextDevice |-> IF d \in DOMAIN new THEN new[d] ELSE w.dev[d]]
<1>1. t \in TextSplitter /\ t # s /\ \A q \in TextSplitter : q = s \/ q = t
  BY OtherIs
<1>2. c \in ConState /\ Coherent(c)
  BY <1>1, SaneIs
<1>3. v = [con |-> [w.con EXCEPT ![t] = g], dev |-> devs]
  BY DEF OnDevices
<1>4. fresh \in BOOLEAN /\ inStep \in BOOLEAN
  BY <1>2 DEF ConState
<1> HIDE DEF fresh, inStep, c
<1>5. g \in ConState /\ SameList(c, g) /\ g.mode = c.mode /\ g.cursor = c.cursor /\ g.fresh = fresh /\ g.inStep = inStep
  BY <1>2, <1>4 DEF ConState, SameList
<1> HIDE DEF g, t
<1>6. Coherent(g) /\ Consoles(g) = Consoles(c) /\ \A n : SizeOf(g, n) = SizeOf(c, n)
  BY <1>2, <1>5, CoherentDepends
<1>7. devs \in [TextDevice -> DevState] /\ \A d \in TextDevice : devs[d].mode \in ModesOf(d)
  BY SaneIs
<1>8. \A d \in TextDevice : devs[d] = IF d \in DOMAIN new THEN new[d] ELSE w.dev[d]
  OBVIOUS
<1> HIDE DEF devs, v
<1>9. v.con \in [TextSplitter -> ConState] /\ v.con[s] = w.con[s] /\ v.con[t] = g /\ v.dev = devs
  BY <1>1, <1>3, <1>5, SaneIs
<1>10. Sane(v)
  <2>1. v \in Worlds
    BY <1>3, <1>7, <1>9 DEF Worlds
  <2>2. \A q \in TextSplitter : Coherent(v.con[q])
    BY <1>1, <1>6, <1>9, SaneIs
  <2> QED
    BY <1>7, <1>9, <2>1, <2>2 DEF Sane
<1>11. \A d \in Consoles(c) : d \in TextDevice /\ (d \notin DOMAIN new => devs[d] = w.dev[d])
  <2>1. Consoles(c) \subseteq TextDevice
    BY <1>2, ConsolesAre
  <2> QED
    BY <1>8, <2>1
<1>12. Displayed(w, t) => Displayed(v, t)
  <2> SUFFICES ASSUME Displayed(w, t), fresh
               PROVE  /\ g.mode \in DOMAIN g.map
                      /\ \A d \in Consoles(g) : Size(d, devs[d].mode) = SizeOf(g, g.mode)
    BY <1>5, <1>9 DEF Displayed
  <2>1. c.fresh /\ \A d \in Consoles(c) : d \in DOMAIN new => new[d].mode = w.dev[d].mode
    BY DEF fresh
  <2>2. c.mode \in DOMAIN c.map /\ \A d \in Consoles(c) : Size(d, w.dev[d].mode) = SizeOf(c, c.mode)
    BY <2>1 DEF Displayed, c
  <2>3. \A d \in Consoles(c) : devs[d].mode = w.dev[d].mode
    BY <1>8, <1>11, <2>1
  <2> QED
    BY <1>5, <1>6, <2>2, <2>3 DEF SameList
<1>13. Together(w, t) => Together(v, t)
  <2> SUFFICES ASSUME Together(w, t), inStep
               PROVE  \A d \in Consoles(g) : devs[d].cursor = g.cursor
    BY <1>5, <1>9 DEF Together
  <2>1. c.inStep /\ \A d \in Consoles(c) : d \in DOMAIN new => new[d].cursor = w.dev[d].cursor
    BY DEF inStep
  <2>2. \A d \in Consoles(c) : w.dev[d].cursor = c.cursor
    BY <2>1 DEF Together, c
  <2>3. \A d \in Consoles(c) : devs[d].cursor = w.dev[d].cursor
    BY <1>8, <1>11, <2>1
  <2> QED
    BY <1>5, <1>6, <2>2, <2>3
<1> QED
  BY <1>5, <1>8, <1>9, <1>10, <1>12, <1>13 DEF v, t, c

\* A splitter sets devices and changes what it says of itself.
LEMMA CallIs ==
  ASSUME NEW w, Sane(w), NEW s \in TextSplitter, NEW new, DOMAIN new \subseteq TextDevice,
         \A d \in DOMAIN new : new[d] \in DevState /\ new[d].mode \in ModesOf(d),
         NEW g \in ConState, SameList(w.con[s], g)
  PROVE  LET v == [OnDevices(w, s, new) EXCEPT !.con[s] = g]
             t == OtherSplitter(s) IN
         /\ Sane(v) /\ v.con[s] = g
         /\ SameList(w.con[t], v.con[t]) /\ v.con[t].mode = w.con[t].mode
         /\ \A d \in TextDevice : v.dev[d] = IF d \in DOMAIN new THEN new[d] ELSE w.dev[d]
         /\ Displayed(w, t) => Displayed(v, t)
         /\ Together(w, t) => Together(v, t)
<1> DEFINE u == OnDevices(w, s, new)
           t == OtherSplitter(s)
           v == [u EXCEPT !.con[s] = g]
<1>1. /\ Sane(u) /\ u.con[s] = w.con[s]
      /\ SameList(w.con[t], u.con[t]) /\ u.con[t].mode = w.con[t].mode
      /\ \A d \in TextDevice : u.dev[d] = IF d \in DOMAIN new THEN new[d] ELSE w.dev[d]
      /\ Displayed(w, t) => Displayed(u, t)
      /\ Together(w, t) => Together(u, t)
  BY OnDevicesIs
<1>2. Coherent(g)
  BY SaneIs, CoherentDepends
<1> HIDE DEF u
<1>3. /\ Sane(v) /\ v.con[s] = g /\ v.con[t] = u.con[t] /\ v.dev = u.dev
      /\ Displayed(u, t) => Displayed(v, t)
      /\ Together(u, t) => Together(v, t)
  BY <1>1, <1>2, PutIs
<1> HIDE DEF v
<1> QED
  BY <1>1, <1>3 DEF v, u

LEMMA AllToIs ==
  ASSUME NEW w, Sane(w), NEW s \in TextSplitter, NEW cell \in Cell, NEW refusing
  PROVE  LET v == AllTo(w, s, cell, refusing)
             t == OtherSplitter(s) IN
         /\ Sane(v)
         /\ \A q \in TextSplitter : SameList(w.con[q], v.con[q]) /\ v.con[q].mode = w.con[q].mode
         /\ \A q \in TextSplitter : Displayed(w, q) => Displayed(v, q)
         /\ Together(w, t) => Together(v, t)
         /\ Together(v, s)
<1> DEFINE c == w.con[s]
           t == OtherSplitter(s)
           taking == Consoles(c) \ refusing
           new == [d \in taking |-> [w.dev[d] EXCEPT !.cursor = cell]]
           g == [c EXCEPT !.cursor = cell, !.inStep = Succeeds(refusing)]
           v == AllTo(w, s, cell, refusing)
<1>1. c \in ConState /\ Coherent(c) /\ Consoles(c) \subseteq TextDevice
  BY SaneIs, ConsolesAre
<1>2. Succeeds(refusing) \in BOOLEAN /\ (Succeeds(refusing) => taking = Consoles(c)) /\ taking \subseteq Consoles(c)
  BY DEF Succeeds
<1>3. /\ DOMAIN new = taking
      /\ \A d \in taking : /\ new[d] \in DevState /\ new[d].mode = w.dev[d].mode /\ new[d].cursor = cell
                           /\ new[d].mode \in ModesOf(d)
  <2>1. \A d \in Consoles(c) : w.dev[d] \in DevState /\ w.dev[d].mode \in ModesOf(d)
    BY <1>1, SaneIs
  <2> QED
    BY <2>1 DEF DevState
<1>4. v = [OnDevices(w, s, new) EXCEPT !.con[s] = g]
  BY DEF AllTo
<1> HIDE DEF c, new, taking
<1>5. g \in ConState /\ SameList(c, g) /\ g.mode = c.mode /\ g.cursor = cell /\ g.fresh = c.fresh /\ g.inStep = Succeeds(refusing)
  BY <1>1, <1>2 DEF ConState, SameList
<1> HIDE DEF g, v, t
<1>6. /\ Sane(v) /\ v.con[s] = g
      /\ SameList(w.con[t], v.con[t]) /\ v.con[t].mode = w.con[t].mode
      /\ \A d \in TextDevice : v.dev[d] = IF d \in DOMAIN new THEN new[d] ELSE w.dev[d]
      /\ Displayed(w, t) => Displayed(v, t)
      /\ Together(w, t) => Together(v, t)
  <2>1. SameList(w.con[s], g)
    BY <1>5 DEF c
  <2> QED
    BY <1>1, <1>2, <1>3, <1>4, <1>5, <2>1, CallIs DEF t
<1>7. Consoles(g) = Consoles(c) /\ \A n : SizeOf(g, n) = SizeOf(c, n)
  BY <1>1, <1>5, CoherentDepends
<1>8. \A d \in Consoles(c) : v.dev[d] = IF d \in taking THEN new[d] ELSE w.dev[d]
  BY <1>1, <1>3, <1>6
<1>9. Together(v, s)
  BY <1>2, <1>3, <1>5, <1>6, <1>7, <1>8 DEF Together
<1>10. Displayed(w, s) => Displayed(v, s)
  <2> SUFFICES ASSUME Displayed(w, s), c.fresh
               PROVE  g.mode \in DOMAIN g.map /\ \A d \in Consoles(g) : Size(d, v.dev[d].mode) = SizeOf(g, g.mode)
    BY <1>5, <1>6 DEF Displayed
  <2>1. c.mode \in DOMAIN c.map /\ \A d \in Consoles(c) : Size(d, w.dev[d].mode) = SizeOf(c, c.mode)
    BY DEF Displayed, c
  <2> QED
    BY <1>3, <1>5, <1>7, <1>8, <2>1 DEF SameList
<1>11. \A q \in TextSplitter : q = s \/ q = t
  BY OtherIs DEF t
<1>12. \A q \in TextSplitter : SameList(w.con[q], v.con[q]) /\ v.con[q].mode = w.con[q].mode
  BY <1>5, <1>6, <1>11 DEF c
<1>13. \A q \in TextSplitter : Displayed(w, q) => Displayed(v, q)
  BY <1>6, <1>10, <1>11
<1> QED
  BY <1>6, <1>9, <1>12, <1>13 DEF v, t

\* The mode is recorded.  When it is another one, either some console does not
\* take it or all show its size.
LEMMA SetModeIs ==
  ASSUME NEW w, Sane(w), NEW s \in TextSplitter, NEW n \in DOMAIN w.con[s].map, NEW refusing
  PROVE  LET v == SetMode(w, s, n, refusing)
             t == OtherSplitter(s) IN
         /\ Sane(v) /\ \A q \in TextSplitter : SameList(w.con[q], v.con[q])
         /\ v.con[s].mode = n /\ v.con[t].mode = w.con[t].mode
         /\ Displayed(w, t) => Displayed(v, t)
         /\ Together(w, t) => Together(v, t)
         /\ n # w.con[s].mode \/ Displayed(w, s) => Displayed(v, s)
         /\ Together(v, s)
<1> DEFINE c == w.con[s]
           t == OtherSplitter(s)
           v == SetMode(w, s, n, refusing)
<1>1. CASE n = c.mode
  <2>1. v = AllTo(w, s, 0, refusing)
    BY <1>1 DEF SetMode, TextOutClearScreen
  <2>2. t \in TextSplitter /\ 0 \in Cell
    BY OtherIs, TextAssumption
  <2> QED
    BY <1>1, <2>1, <2>2, AllToIs
<1>2. CASE n # c.mode
  <2> DEFINE mode == Behind(c, n)
             taking == {d \in DOMAIN mode \ refusing : Size(d, mode[d]) # NoSize}
             all == taking = DOMAIN mode
             new == [d \in taking |-> [mode |-> mode[d], cursor |-> 0]]
             g == [c EXCEPT !.mode = n, !.cursor = 0, !.fresh = all, !.inStep = all]
  <2>1. v = [OnDevices(w, s, new) EXCEPT !.con[s] = g]
    BY <1>2 DEF SetMode
  <2>2. c \in ConState /\ Coherent(c) /\ Consoles(c) \subseteq TextDevice /\ n \in 0..126
    <3>1. c \in ConState /\ Coherent(c)
      BY SaneIs
    <3>2. Consoles(c) \subseteq TextDevice /\ \A m \in DOMAIN c.map : m \in 0..126
      BY <3>1, ConsolesAre
    <3> QED
      BY <3>1, <3>2
  <2>3. 0 \in Cell
    BY TextAssumption
  <2>4. DOMAIN mode = Consoles(c)
    BY DEF Behind
  <2>5. all \in BOOLEAN
    OBVIOUS
  <2>6. (all => \A d \in Consoles(c) : d \in taking /\ Size(d, mode[d]) # NoSize) /\ taking \subseteq Consoles(c)
    BY <2>4
  <2>7. \A d \in taking : Size(d, mode[d]) # NoSize
    OBVIOUS
  <2> HIDE DEF c, v, all, mode, taking
  <2>8. g \in ConState /\ SameList(c, g) /\ g.mode = n /\ g.cursor = 0 /\ g.fresh = all /\ g.inStep = all
    <3>1. n \in -1..NoMode
      BY <2>2 DEF NoMode
    <3> QED
      BY <2>2, <2>3, <2>5, <3>1 DEF ConState, SameList
  <2>9. \A d \in taking : new[d] \in DevState /\ new[d].mode \in ModesOf(d) /\ new[d].mode = mode[d] /\ new[d].cursor = 0
    <3> SUFFICES ASSUME NEW d \in taking
                 PROVE  new[d] \in DevState /\ new[d].mode \in ModesOf(d) /\ new[d].mode = mode[d] /\ new[d].cursor = 0
      OBVIOUS
    <3>1. d \in TextDevice /\ mode[d] \in ModesOf(d)
      BY <2>2, <2>6, <2>7, ModesAre
    <3>2. mode[d] \in Nat
      BY <3>1, ModesAre DEF ModesOf
    <3> QED
      BY <2>3, <3>1, <3>2 DEF DevState
  <2>10. DOMAIN new = taking
    OBVIOUS
  <2> HIDE DEF g, new, t
  <2>11. /\ Sane(v) /\ v.con[s] = g
         /\ SameList(w.con[t], v.con[t]) /\ v.con[t].mode = w.con[t].mode
         /\ \A d \in TextDevice : v.dev[d] = IF d \in DOMAIN new THEN new[d] ELSE w.dev[d]
         /\ Displayed(w, t) => Displayed(v, t)
         /\ Together(w, t) => Together(v, t)
    <3>1. SameList(w.con[s], g) /\ DOMAIN new \subseteq TextDevice
      BY <2>2, <2>6, <2>8, <2>10 DEF c
    <3> QED
      BY <2>1, <2>8, <2>9, <2>10, <3>1, CallIs DEF t
  <2>12. Consoles(g) = Consoles(c) /\ \A m : SizeOf(g, m) = SizeOf(c, m)
    BY <2>2, <2>8, CoherentDepends
  <2>13. Displayed(v, s) /\ Together(v, s)
    <3> SUFFICES ASSUME all
                 PROVE  /\ n \in DOMAIN g.map /\ \A d \in Consoles(c) : Size(d, v.dev[d].mode) = SizeOf(c, n)
                        /\ \A d \in Consoles(c) : v.dev[d].cursor = 0
      BY <2>8, <2>11, <2>12 DEF Displayed, Together
    <3>1. \A d \in Consoles(c) : d \in taking /\ Size(d, mode[d]) # NoSize
      BY <2>6
    <3>2. \A d \in Consoles(c) : v.dev[d] = new[d] /\ new[d].mode = mode[d] /\ new[d].cursor = 0
      BY <2>2, <2>9, <2>10, <2>11, <3>1
    <3>3. n \in DOMAIN c.map
      BY DEF c
    <3>4. \A d \in Consoles(c) : Size(d, mode[d]) = SizeOf(c, n)
      BY <2>2, <3>1, <3>3, BehindShows DEF mode
    <3> QED
      BY <2>8, <3>2, <3>3, <3>4 DEF SameList
  <2>14. \A q \in TextSplitter : SameList(w.con[q], v.con[q])
    <3>1. \A q \in TextSplitter : q = s \/ q = t
      BY OtherIs DEF t
    <3> QED
      BY <2>8, <2>11, <3>1 DEF c
  <2> QED
    BY <2>8, <2>11, <2>13, <2>14 DEF v, t
<1> QED
  BY <1>1, <1>2

\* What a splitter's table offers stands for every use of it.
LEMMA AgreeDepends ==
  ASSUME NEW w, NEW v, \A q \in TextSplitter : SameList(w.con[q], v.con[q]), Agree(w)
  PROVE  Agree(v)
<1> DEFINE out == w.con["ConOut"]
           err == w.con["StdErr"]
           out2 == v.con["ConOut"]
           err2 == v.con["StdErr"]
<1>1. SameList(out, out2) /\ SameList(err, err2)
  BY DEF TextSplitter
<1> HIDE DEF out, err, out2, err2
<1>2. /\ \A n : SizeOf(out2, n) = SizeOf(out, n) /\ SizeOf(err2, n) = SizeOf(err, n)
      /\ Consoles(err2) = Consoles(err)
  BY <1>1 DEF SameList, SizeOf, Consoles
<1>3. out.count > 0 /\ out.slots[1] \in Consoles(err) => OffersAll(out, err) /\ OffersAll(err, out)
  BY DEF Agree, out, err
<1>4. out2.count > 0 /\ out2.slots[1] \in Consoles(err2) => OffersAll(out2, err2) /\ OffersAll(err2, out2)
  BY <1>1, <1>2, <1>3 DEF SameList, OffersAll
<1> QED
  BY <1>4 DEF Agree, out2, err2

\* One splitter's table is cut down.
Cut(w, s, keep) == [w EXCEPT !.con[s] = GetIntersection(w.con[s], keep)]

LEMMA IntersectOneIs ==
  ASSUME NEW w, Sane(w), NEW s \in TextSplitter, w.con[s].count > 0, NEW keep
  PROVE  LET c == w.con[s]
             v == Cut(w, s, keep)
             g == v.con[s]
             t == OtherSplitter(s) IN
         /\ Sane(v) /\ v.con[t] = w.con[t]
         /\ g.slots = c.slots /\ g.count = c.count /\ g.mode <= c.mode /\ (Unset(c) => Unset(g))
         /\ Displayed(w, t) => Displayed(v, t)
         /\ \A q \in TextSplitter : Together(w, q) => Together(v, q)
         /\ Displayed(w, s) => Displayed(v, s) \/ g.mode = -1
         /\ \A n \in DOMAIN g.map \ {0, 1} : \E r \in DOMAIN c.map : r \in keep /\ SizeOf(g, n) = SizeOf(c, r)
         /\ \A r \in DOMAIN c.map : r \in keep => \E n \in DOMAIN g.map : SizeOf(g, n) = SizeOf(c, r)
<1> DEFINE c == w.con[s]
           g == GetIntersection(c, keep)
           v == [w EXCEPT !.con[s] = g]
           t == OtherSplitter(s)
           rows == Kept(c, keep)
<1>1. c \in ConState /\ Coherent(c)
  BY SaneIs
<1>2. Sound(c, c.count) /\ Listed(c) /\ c.count \in Nat
  BY <1>1, ConsolesAre DEF Coherent
<1>13. v = Cut(w, s, keep)
  BY DEF Cut
<1> HIDE DEF c
<1>3. /\ g \in ConState
      /\ g.slots = c.slots /\ g.count = c.count /\ g.cursor = c.cursor /\ g.query = c.query
      /\ g.fresh = c.fresh /\ g.inStep = c.inStep /\ g.mode <= c.mode /\ (Unset(c) => Unset(g))
      /\ c.mode \in rows => g.mode \in DOMAIN g.map /\ RowAt(rows, g.mode) = c.mode
      /\ c.mode \in DOMAIN c.map \ rows => g.mode = -1
  BY <1>1, GetIntersectionIs
<1>4. c.count > 0
  BY DEF c
<1>5. /\ Sound(g, c.count)
      /\ \A n \in DOMAIN g.map : SizeOf(g, n) = SizeOf(c, RowAt(rows, n))
      /\ \A n \in DOMAIN g.map \ {0, 1} : \E r \in DOMAIN c.map : r \in keep /\ SizeOf(g, n) = SizeOf(c, r)
      /\ \A r \in DOMAIN c.map : r \in keep => \E n \in DOMAIN g.map : SizeOf(g, n) = SizeOf(c, r)
  <2>1. Shape(c, c.count) /\ Missing(c, c.count) /\ \A r \in rows, p \in 1..c.count : RowSound(c, r, p)
    <3>1. rows \subseteq DOMAIN c.map
      BY DEF Kept
    <3> QED
      BY <1>2, <3>1 DEF Sound, AllSound
  <2> HIDE DEF g
  <2> QED
    BY <1>1, <1>2, <1>4, <2>1, IntersectionKeeps DEF Sound, g
<1> HIDE DEF g, rows
<1>6. Coherent(g)
  <2>1. Listed(g)
    BY <1>2, <1>3 DEF Listed
  <2> QED
    BY <1>3, <1>4, <1>5, <2>1 DEF Coherent
<1>7. Consoles(g) = Consoles(c)
  BY <1>3 DEF Consoles
<1>8. /\ Sane(v) /\ v.con[s] = g /\ v.con[t] = w.con[t] /\ v.dev = w.dev
      /\ Displayed(w, t) => Displayed(v, t)
      /\ Together(w, t) => Together(v, t)
  BY <1>6, PutIs
<1> HIDE DEF v, t
<1>9. Together(w, s) => Together(v, s)
  BY <1>3, <1>7, <1>8 DEF Together, c
<1>10. Displayed(w, s) => Displayed(v, s) \/ g.mode = -1
  <2> SUFFICES ASSUME Displayed(w, s), g.fresh, g.mode # -1
               PROVE  g.mode \in DOMAIN g.map /\ \A d \in Consoles(g) : Size(d, v.dev[d].mode) = SizeOf(g, g.mode)
    BY <1>8 DEF Displayed
  <2>1. c.mode \in DOMAIN c.map /\ \A d \in Consoles(c) : Size(d, w.dev[d].mode) = SizeOf(c, c.mode)
    BY <1>3 DEF Displayed, c
  <2>2. c.mode \in rows
    BY <1>3, <2>1
  <2>3. g.mode \in DOMAIN g.map /\ SizeOf(g, g.mode) = SizeOf(c, c.mode)
    BY <1>3, <1>5, <2>2
  <2> QED
    BY <1>7, <1>8, <2>1, <2>3
<1>11. \A q \in TextSplitter : q = s \/ q = t
  BY OtherIs DEF t
<1>12. \A q \in TextSplitter : Together(w, q) => Together(v, q)
  BY <1>8, <1>9, <1>11
<1> QED
  BY <1>3, <1>5, <1>8, <1>10, <1>12, <1>13 DEF t, c

\* One splitter's table is cut down; a mode that goes with it becomes mode 0.
CutDown(w, s, keep) ==
  LET v == Cut(w, s, keep) IN
  IF v.con[s].mode < 0 THEN SetMode(v, s, 0, {}) ELSE v

LEMMA CutDownIs ==
  ASSUME NEW w, Sane(w), NEW s \in TextSplitter, w.con[s].count > 0, NEW keep
  PROVE  LET c == w.con[s]
             u == CutDown(w, s, keep)
             g == u.con[s]
             t == OtherSplitter(s) IN
         /\ Sane(u) /\ g.slots = c.slots /\ g.count = c.count /\ SameList(w.con[t], u.con[t])
         /\ \A q \in TextSplitter : w.con[q].mode < NoMode => u.con[q].mode < NoMode
         /\ \A q \in TextSplitter : Unset(w.con[q]) => Unset(u.con[q])
         /\ \A q \in TextSplitter : Displayed(w, q) => Displayed(u, q)
         /\ \A q \in TextSplitter : Together(w, q) => Together(u, q)
         /\ \A n \in DOMAIN g.map \ {0, 1} : \E r \in DOMAIN c.map : r \in keep /\ SizeOf(g, n) = SizeOf(c, r)
         /\ \A r \in DOMAIN c.map : r \in keep => \E n \in DOMAIN g.map : SizeOf(g, n) = SizeOf(c, r)
<1> DEFINE c == w.con[s]
           t == OtherSplitter(s)
           v == Cut(w, s, keep)
           b == v.con[s]
           u == CutDown(w, s, keep)
           g == u.con[s]
<1>1. /\ Sane(v) /\ v.con[t] = w.con[t]
      /\ b.slots = c.slots /\ b.count = c.count /\ b.mode <= c.mode /\ (Unset(c) => Unset(b))
      /\ Displayed(w, t) => Displayed(v, t)
      /\ \A q \in TextSplitter : Together(w, q) => Together(v, q)
      /\ Displayed(w, s) => Displayed(v, s) \/ b.mode = -1
      /\ \A n \in DOMAIN b.map \ {0, 1} : \E r \in DOMAIN c.map : r \in keep /\ SizeOf(b, n) = SizeOf(c, r)
      /\ \A r \in DOMAIN c.map : r \in keep => \E n \in DOMAIN b.map : SizeOf(b, n) = SizeOf(c, r)
  BY IntersectOneIs
<1>2. u = IF v.con[s].mode < 0 THEN SetMode(v, s, 0, {}) ELSE v
  BY DEF CutDown
<1>3. t \in TextSplitter /\ \A q \in TextSplitter : q = s \/ q = t
  BY OtherIs
<1>8. b = v.con[s]
  OBVIOUS
<1> HIDE DEF c, t, b, u, v
<1>4. b \in ConState /\ Coherent(b) /\ 0 \in DOMAIN b.map /\ b.mode \in -1..255 /\ c.mode \in -1..255
  <2>1. b \in ConState /\ Coherent(b) /\ c \in ConState
    BY <1>1, <1>8, SaneIs DEF c
  <2> QED
    BY <2>1, ConsolesAre DEF ConState, NoMode
<1>5. Unset(b) => b.mode >= 0
  <2> SUFFICES ASSUME Unset(b) PROVE b.mode >= 0
    OBVIOUS
  <2>1. PICK n \in 1..127 : b.mode >= NoMode - 127 + n
    BY DEF Unset
  <2> QED
    BY <1>4, <2>1 DEF NoMode
<1>6. CASE b.mode < 0
  <2>1. u = SetMode(v, s, 0, {}) /\ 0 \in DOMAIN v.con[s].map /\ 0 # v.con[s].mode
    BY <1>1, <1>2, <1>4, <1>6, <1>8
  <2>2. /\ Sane(u) /\ \A q \in TextSplitter : SameList(v.con[q], u.con[q])
        /\ u.con[s].mode = 0 /\ u.con[t].mode = v.con[t].mode
        /\ Displayed(v, t) => Displayed(u, t)
        /\ Together(v, t) => Together(u, t)
        /\ Displayed(u, s) /\ Together(u, s)
    BY <1>1, <2>1, SetModeIs DEF t
  <2>3. SameList(b, g) /\ SameList(w.con[t], u.con[t])
    BY <1>1, <1>3, <1>8, <2>2
  <2>4. \A n : SizeOf(g, n) = SizeOf(b, n)
    BY <2>3 DEF SizeOf, SameList
  <2>5. \A q \in TextSplitter : w.con[q].mode < NoMode => u.con[q].mode < NoMode
    BY <1>1, <1>3, <2>2 DEF NoMode
  <2>6. \A q \in TextSplitter : Unset(w.con[q]) => Unset(u.con[q])
    <3>1. ~Unset(w.con[s])
      BY <1>1, <1>4, <1>5, <1>6 DEF c
    <3>2. Unset(w.con[t]) => Unset(u.con[t])
      BY <1>1, <2>2, <2>3 DEF Unset, SameList
    <3> QED
      BY <1>3, <3>1, <3>2
  <2>7. \A q \in TextSplitter : Displayed(w, q) => Displayed(u, q)
    BY <1>1, <1>3, <2>2
  <2>8. \A q \in TextSplitter : Together(w, q) => Together(u, q)
    BY <1>1, <1>3, <2>2
  <2>9. g.slots = c.slots /\ g.count = c.count /\ DOMAIN g.map = DOMAIN b.map
    BY <1>1, <2>3 DEF SameList
  <2> HIDE DEF g
  <2>10. /\ \A n \in DOMAIN g.map \ {0, 1} : \E r \in DOMAIN c.map : r \in keep /\ SizeOf(g, n) = SizeOf(c, r)
         /\ \A r \in DOMAIN c.map : r \in keep => \E n \in DOMAIN g.map : SizeOf(g, n) = SizeOf(c, r)
    BY <1>1, <2>4, <2>9
  <2> QED
    BY <2>2, <2>3, <2>5, <2>6, <2>7, <2>8, <2>9, <2>10 DEF u, g, c, t
<1>7. CASE ~(b.mode < 0)
  <2>1. u = v /\ g = b /\ b.mode # -1
    BY <1>1, <1>2, <1>4, <1>7, <1>8
  <2>2. SameList(w.con[t], u.con[t])
    BY <1>1, <2>1 DEF SameList
  <2>3. \A q \in TextSplitter : w.con[q].mode < NoMode => u.con[q].mode < NoMode
    <3>1. c.mode < NoMode => b.mode < NoMode
      BY <1>1, <1>4 DEF NoMode
    <3> QED
      BY <1>1, <1>3, <2>1, <3>1 DEF c
  <2>4. \A q \in TextSplitter : Unset(w.con[q]) => Unset(u.con[q])
    BY <1>1, <1>3, <2>1 DEF c
  <2>5. \A q \in TextSplitter : Displayed(w, q) => Displayed(u, q)
    BY <1>1, <1>3, <2>1
  <2> HIDE DEF g
  <2> QED
    BY <1>1, <2>1, <2>2, <2>3, <2>4, <2>5 DEF u, g, c, t
<1> QED
  BY <1>6, <1>7

\* Both tables are cut down where the search finds a console of both.
LEMMA IntersectBothIs ==
  ASSUME NEW w, Sane(w)
  PROVE  LET v == IntersectBoth(w) IN
         /\ Sane(v) /\ Agree(v)
         /\ \A q \in TextSplitter : v.con[q].slots = w.con[q].slots /\ v.con[q].count = w.con[q].count
         /\ \A q \in TextSplitter : w.con[q].mode < NoMode => v.con[q].mode < NoMode
         /\ \A q \in TextSplitter : Unset(w.con[q]) => Unset(v.con[q])
         /\ \A q \in TextSplitter : Displayed(w, q) => Displayed(v, q)
         /\ \A q \in TextSplitter : Together(w, q) => Together(v, q)
<1> DEFINE out == w.con["ConOut"]
           err == w.con["StdErr"]
           keepOut == {m \in DOMAIN out.map : FirstRow(err, SizeOf(out, m)) # {}}
           keepErr == UNION {FirstRow(err, SizeOf(out, m)) : m \in DOMAIN out.map}
           u == CutDown(w, "ConOut", keepOut)
           v == CutDown(u, "StdErr", keepErr)
<1>0. "ConOut" \in TextSplitter /\ "StdErr" \in TextSplitter /\ OtherSplitter("ConOut") = "StdErr" /\ OtherSplitter("StdErr") = "ConOut"
      /\ \A q \in TextSplitter : q = "ConOut" \/ q = "StdErr"
  <2>1. "ConOut" \in TextSplitter /\ "StdErr" \in TextSplitter /\ \A q \in TextSplitter : q = "ConOut" \/ q = "StdErr"
    BY DEF TextSplitter
  <2>2. OtherSplitter("ConOut") \in TextSplitter /\ OtherSplitter("StdErr") \in TextSplitter /\ OtherSplitter("ConOut") # "ConOut" /\ OtherSplitter("StdErr") # "StdErr"
    BY <2>1, OtherIs
  <2> QED
    BY <2>1, <2>2
<1>1. out \in ConState /\ err \in ConState /\ Coherent(out) /\ Coherent(err) /\ out.count \in Nat /\ err.count \in Nat
      /\ err.count \in 0..Cardinality(TextDevice) /\ Cardinality(TextDevice) \in Nat
  <2>1. out \in ConState /\ err \in ConState /\ Coherent(out) /\ Coherent(err)
    BY <1>0, SaneIs
  <2> QED
    BY <2>1, ConsolesAre, ModesAre DEF ConState
<1>2. IntersectBoth(w) = IF ~SharedFound(w) THEN w ELSE v
  BY DEF IntersectBoth, CutDown, Cut
<1> HIDE DEF keepOut, keepErr, out, err
<1>3. CASE ~SharedFound(w)
  <2>1. ~ (out.count > 0 /\ out.slots[1] \in Consoles(err))
    <3> SUFFICES ASSUME out.count > 0, out.slots[1] \in Consoles(err) PROVE SharedFound(w)
      BY <1>3
    <3>1. PICK j \in 1..err.count : err.slots[j] = out.slots[1]
      BY <1>1, ConsolesAre
    <3>2. 1 \in 1..out.count /\ (1 - 1) * err.count + j = j /\ j \in ListPlaces
      BY <1>1 DEF ListPlaces
    <3> QED
      BY <3>1, <3>2 DEF SharedFound, out, err
  <2>2. Agree(w)
    BY <2>1 DEF Agree, out, err
  <2> QED
    BY <1>2, <1>3, <2>2
<1>4. CASE SharedFound(w)
  <2>1. out.count > 0 /\ err.count > 0
    BY <1>1, <1>4 DEF SharedFound, out, err
  <2> DEFINE out2 == u.con["ConOut"]
  <2>2. /\ Sane(u) /\ out2.slots = out.slots /\ out2.count = out.count /\ SameList(err, u.con["StdErr"])
        /\ \A q \in TextSplitter : w.con[q].mode < NoMode => u.con[q].mode < NoMode
        /\ \A q \in TextSplitter : Unset(w.con[q]) => Unset(u.con[q])
        /\ \A q \in TextSplitter : Displayed(w, q) => Displayed(u, q)
        /\ \A q \in TextSplitter : Together(w, q) => Together(u, q)
        /\ \A n \in DOMAIN out2.map \ {0, 1} : \E r \in DOMAIN out.map : r \in keepOut /\ SizeOf(out2, n) = SizeOf(out, r)
        /\ \A r \in DOMAIN out.map : r \in keepOut => \E n \in DOMAIN out2.map : SizeOf(out2, n) = SizeOf(out, r)
    BY <1>0, <2>1, CutDownIs DEF out, err
  <2> HIDE DEF u
  <2> DEFINE err1 == u.con["StdErr"]
             err2 == v.con["StdErr"]
             out3 == v.con["ConOut"]
  <2>3. err1.count > 0 /\ DOMAIN err1.map = DOMAIN err.map /\ \A n : SizeOf(err1, n) = SizeOf(err, n)
    BY <2>1, <2>2 DEF SameList, SizeOf
  <2>4. /\ Sane(v) /\ err2.slots = err1.slots /\ err2.count = err1.count /\ SameList(out2, out3)
        /\ \A q \in TextSplitter : u.con[q].mode < NoMode => v.con[q].mode < NoMode
        /\ \A q \in TextSplitter : Unset(u.con[q]) => Unset(v.con[q])
        /\ \A q \in TextSplitter : Displayed(u, q) => Displayed(v, q)
        /\ \A q \in TextSplitter : Together(u, q) => Together(v, q)
        /\ \A n \in DOMAIN err2.map \ {0, 1} : \E r \in DOMAIN err1.map : r \in keepErr /\ SizeOf(err2, n) = SizeOf(err1, r)
        /\ \A r \in DOMAIN err1.map : r \in keepErr => \E n \in DOMAIN err2.map : SizeOf(err2, n) = SizeOf(err1, r)
    BY <1>0, <2>2, <2>3, CutDownIs
  <2> HIDE DEF v
  <2>5. DOMAIN out3.map = DOMAIN out2.map /\ \A n : SizeOf(out3, n) = SizeOf(out2, n)
    BY <2>4 DEF SameList, SizeOf
  <2> HIDE DEF out2, err1, err2, out3
  <2>6. OffersAll(out3, err2)
    <3> SUFFICES ASSUME NEW n \in DOMAIN out3.map \ {0, 1}
                 PROVE  \E k \in DOMAIN err2.map : SizeOf(out3, n) = SizeOf(err2, k)
      BY DEF OffersAll
    <3>1. PICK r \in DOMAIN out.map : r \in keepOut /\ SizeOf(out2, n) = SizeOf(out, r)
      BY <2>2, <2>5
    <3>2. PICK k \in FirstRow(err, SizeOf(out, r)) : TRUE
      BY <3>1 DEF keepOut
    <3>3. k \in DOMAIN err.map /\ SizeOf(err, k) = SizeOf(out, r)
      BY DEF FirstRow
    <3>4. k \in keepErr
      <4>1. FirstRow(err, SizeOf(out, r)) \in {FirstRow(err, SizeOf(out, m)) : m \in DOMAIN out.map}
        OBVIOUS
      <4> QED
        BY <4>1, Zenon DEF keepErr
    <3>5. PICK j \in DOMAIN err2.map : SizeOf(err2, j) = SizeOf(err1, k)
      BY <2>3, <2>4, <3>3, <3>4
    <3> QED
      BY <2>3, <2>5, <3>1, <3>3, <3>5
  <2>7. OffersAll(err2, out3)
    <3> SUFFICES ASSUME NEW n \in DOMAIN err2.map \ {0, 1}
                 PROVE  \E k \in DOMAIN out3.map : SizeOf(err2, n) = SizeOf(out3, k)
      BY DEF OffersAll
    <3>1. PICK r \in DOMAIN err1.map : r \in keepErr /\ SizeOf(err2, n) = SizeOf(err1, r)
      BY <2>4
    <3>2. PICK m \in DOMAIN out.map : r \in FirstRow(err, SizeOf(out, m))
      BY <3>1 DEF keepErr
    <3>3. m \in keepOut /\ SizeOf(err, r) = SizeOf(out, m)
      BY <3>2 DEF keepOut, FirstRow
    <3>4. PICK k \in DOMAIN out2.map : SizeOf(out2, k) = SizeOf(out, m)
      BY <2>2, <3>3
    <3> QED
      BY <2>3, <2>5, <3>1, <3>3, <3>4
  <2>8. Agree(v)
    BY <2>6, <2>7 DEF Agree, out3, err2
  <2>9. \A q \in TextSplitter : v.con[q].slots = w.con[q].slots /\ v.con[q].count = w.con[q].count
    <3>1. out3.slots = out.slots /\ out3.count = out.count
      BY <2>2, <2>4 DEF SameList, out2
    <3>2. err2.slots = err.slots /\ err2.count = err.count
      BY <2>2, <2>4 DEF SameList, err1
    <3> QED
      BY <1>0, <3>1, <3>2 DEF out3, out, err2, err
  <2> QED
    BY <1>2, <1>4, <2>2, <2>4, <2>8, <2>9
<1> QED
  BY <1>3, <1>4

-----------------------------------------------------------------------------
(* Every step keeps the consoles as they are said to be.                   *)

Good(w) ==
  /\ Sane(w)
  /\ \A s \in TextSplitter : w.con[s].mode < NoMode /\ Displayed(w, s) /\ Together(w, s)
  /\ Agree(w)

TextInv == Good(World) /\ preferred \in {Preferred, Base}

LEMMA BecomesGood ==
  ASSUME NEW w, Becomes(w), Good(w)
  PROVE  Good(World)'
<1>1. w = [con |-> w.con, dev |-> w.dev]
  BY SaneIs DEF Good
<1>2. World' = w
  BY <1>1 DEF Becomes, World
<1>3. Good(World')
  BY <1>2
<1> QED
  BY <1>3

LEMMA WorldIs ==
  ASSUME Good(World), NEW s \in TextSplitter
  PROVE  /\ World.con = con /\ World.dev = dev /\ OtherSplitter(s) \in TextSplitter
         /\ con \in [TextSplitter -> ConState] /\ Coherent(con[s]) /\ con[s] \in ConState /\ con[s].mode < NoMode
         /\ \A d \in TextDevice : dev[d] \in DevState /\ dev[d].mode \in ModesOf(d) /\ dev[d].cursor \in Cell
         /\ Consoles(con[s]) \subseteq TextDevice
<1>1. World.con = con /\ World.dev = dev
  BY DEF World
<1>2. Sane(World) /\ World.con[s].mode < NoMode
  BY DEF Good
<1>3. /\ World.con \in [TextSplitter -> ConState] /\ Coherent(World.con[s]) /\ World.con[s] \in ConState
      /\ \A d \in TextDevice : World.dev[d] \in DevState /\ World.dev[d].mode \in ModesOf(d) /\ World.dev[d].cursor \in Cell
  BY <1>2, SaneIs
<1> QED
  BY <1>1, <1>2, <1>3, ConsolesAre, OtherIs

\* The calls of the text console.
LEMMA CallGood ==
  ASSUME Good(World), NEW s \in TextSplitter, NEW new, DOMAIN new \subseteq TextDevice,
         \A d \in DOMAIN new : new[d] \in DevState /\ new[d].mode \in ModesOf(d),
         NEW g \in ConState, SameList(con[s], g), g.mode < NoMode,
         Becomes([OnDevices(World, s, new) EXCEPT !.con[s] = g]),
         Displayed([OnDevices(World, s, new) EXCEPT !.con[s] = g], s),
         Together([OnDevices(World, s, new) EXCEPT !.con[s] = g], s)
  PROVE  Good(World)'
<1> DEFINE v == [OnDevices(World, s, new) EXCEPT !.con[s] = g]
           t == OtherSplitter(s)
<1>1. World.con[s] = con[s] /\ Sane(World)
  BY WorldIs DEF Good
<1>2. /\ Sane(v) /\ v.con[s] = g
      /\ SameList(World.con[t], v.con[t]) /\ v.con[t].mode = World.con[t].mode
      /\ Displayed(World, t) => Displayed(v, t)
      /\ Together(World, t) => Together(v, t)
  BY <1>1, CallIs
<1>3. Becomes(v) /\ Displayed(v, s) /\ Together(v, s)
  OBVIOUS
<1> HIDE DEF v
<1>4. t \in TextSplitter /\ \A q \in TextSplitter : q = s \/ q = t
  BY OtherIs
<1>5. \A q \in TextSplitter : SameList(World.con[q], v.con[q])
  BY <1>1, <1>2, <1>4
<1>6. Agree(World) /\ World.con[t].mode < NoMode /\ Displayed(World, t) /\ Together(World, t)
  BY <1>4 DEF Good
<1>7. Agree(v)
  BY <1>5, <1>6, AgreeDepends
<1>8. Good(v)
  BY <1>2, <1>3, <1>4, <1>6, <1>7 DEF Good
<1> QED
  BY <1>3, <1>8, BecomesGood

LEMMA BaseIs ==
  ASSUME NEW c, Coherent(c)
  PROVE  SizeOf(c, 0) = Base
<1>1. CASE c.count = 0
  BY <1>1 DEF Coherent, SizeOf, NoTable
<1>2. CASE c.count # 0
  <2>1. Shape(c, c.count) /\ c.slots[1] \in TextDevice /\ 0 \in DOMAIN c.map
    <3>1. c.count \in Nat /\ 0 \in DOMAIN c.map
      BY ConsolesAre
    <3> QED
      BY <1>2, <3>1 DEF Coherent, Sound, Listed
  <2>2. c.map[0][1] = 0 /\ 0 \in DOMAIN c.query
    BY <2>1 DEF Shape
  <2>3. c.query[0] = Size(c.slots[1], 0)
    BY <2>1, <2>2 DEF Shape
  <2> QED
    BY <2>1, <2>2, <2>3, ModesAre DEF SizeOf
<1> QED
  BY <1>1, <1>2

LEMMA SetModeKeeps ==
  ASSUME Good(World), NEW s \in TextSplitter, CallSetMode(s)
  PROVE  Good(World)'
<1> PICK n \in DOMAIN con[s].map, refusing \in Refusals(con[s]) : Becomes(SetMode(World, s, n, refusing))
  BY DEF CallSetMode
<1> DEFINE v == SetMode(World, s, n, refusing)
           t == OtherSplitter(s)
<1>1. World.con[s] = con[s] /\ Sane(World) /\ con[s] \in ConState /\ Coherent(con[s])
  BY WorldIs DEF Good
<1>2. n < NoMode
  <2>1. n \in 0..126
    BY <1>1, ConsolesAre
  <2> QED
    BY <2>1 DEF NoMode
<1>3. t \in TextSplitter /\ \A q \in TextSplitter : q = s \/ q = t
  BY OtherIs
<1>4. /\ Sane(v) /\ \A q \in TextSplitter : SameList(World.con[q], v.con[q])
      /\ v.con[s].mode = n /\ v.con[t].mode = World.con[t].mode
      /\ Displayed(World, t) => Displayed(v, t)
      /\ Together(World, t) => Together(v, t)
      /\ Displayed(World, s) => Displayed(v, s)
      /\ Together(v, s)
  BY <1>1, SetModeIs
<1> HIDE DEF v, t
<1>5. Agree(v)
  BY <1>4, AgreeDepends DEF Good
<1>6. \A q \in {s, t} : World.con[q].mode < NoMode /\ Displayed(World, q) /\ Together(World, q)
  BY <1>3 DEF Good
<1>7. Good(v)
  BY <1>2, <1>3, <1>4, <1>5, <1>6 DEF Good
<1> QED
  BY <1>7, BecomesGood DEF v

LEMMA AllToKeeps ==
  ASSUME Good(World), NEW s \in TextSplitter, NEW cell \in Cell, NEW refusing,
         Becomes(AllTo(World, s, cell, refusing))
  PROVE  Good(World)'
<1> DEFINE v == AllTo(World, s, cell, refusing)
           t == OtherSplitter(s)
<1>1. Sane(World) /\ Agree(World)
      /\ \A q \in TextSplitter : World.con[q].mode < NoMode /\ Displayed(World, q) /\ Together(World, q)
  BY DEF Good
<1>2. t \in TextSplitter /\ \A q \in TextSplitter : q = s \/ q = t
  BY OtherIs
<1>3. /\ Sane(v)
      /\ \A q \in TextSplitter : SameList(World.con[q], v.con[q]) /\ v.con[q].mode = World.con[q].mode
      /\ \A q \in TextSplitter : Displayed(World, q) => Displayed(v, q)
      /\ Together(World, t) => Together(v, t)
      /\ Together(v, s)
  BY <1>1, AllToIs
<1>4. Becomes(v)
  OBVIOUS
<1> HIDE DEF v, t
<1>5. Agree(v)
  BY <1>1, <1>3, AgreeDepends
<1>6. Good(v)
  BY <1>1, <1>2, <1>3, <1>5 DEF Good
<1> QED
  BY <1>4, <1>6, BecomesGood

LEMMA ClearScreenKeeps ==
  ASSUME Good(World), NEW s \in TextSplitter, CallClearScreen(s)
  PROVE  Good(World)'
<1>1. PICK refusing \in Refusals(con[s]) : Becomes(AllTo(World, s, 0, refusing))
  BY DEF CallClearScreen, TextOutClearScreen
<1> QED
  BY <1>1, AllToKeeps, TextAssumption

LEMMA SetCursorKeeps ==
  ASSUME Good(World), NEW s \in TextSplitter, SetCursorPosition(s)
  PROVE  Good(World)'
  BY AllToKeeps DEF SetCursorPosition

LEMMA ResetKeeps ==
  ASSUME Good(World), NEW s \in TextSplitter, ResetConsoles(s)
  PROVE  Good(World)'
<1> PICK refusing \in Refusals(con[s]) :
      Becomes([OnDevices(World, s, [d \in Consoles(con[s]) \ refusing |-> [mode |-> 0, cursor |-> 0]])
                 EXCEPT !.con[s] = [con[s] EXCEPT !.mode = 0, !.cursor = 0, !.fresh = Succeeds(refusing),
                                                  !.inStep = Succeeds(refusing)]])
  BY DEF ResetConsoles
<1> DEFINE c == con[s]
           taking == Consoles(c) \ refusing
           new == [d \in taking |-> [mode |-> 0, cursor |-> 0]]
           g == [c EXCEPT !.mode = 0, !.cursor = 0, !.fresh = Succeeds(refusing), !.inStep = Succeeds(refusing)]
           v == [OnDevices(World, s, new) EXCEPT !.con[s] = g]
<1>1. c \in ConState /\ Coherent(c) /\ Consoles(c) \subseteq TextDevice /\ Sane(World) /\ World.con[s] = c
  BY WorldIs DEF Good
<1>2. 0 \in Cell /\ \A d \in TextDevice : 0 \in ModesOf(d) /\ Size(d, 0) = Base
  BY ModesAre, TextAssumption DEF ModesOf
<1>3. Becomes(v)
  OBVIOUS
<1>4. DOMAIN new = taking /\ \A d \in taking : new[d] = [mode |-> 0, cursor |-> 0]
  OBVIOUS
<1>11. Succeeds(refusing) \in BOOLEAN /\ (Succeeds(refusing) => taking = Consoles(c)) /\ taking \subseteq Consoles(c)
  BY DEF Succeeds
<1> HIDE DEF c, new, taking
<1>5. /\ g \in ConState /\ SameList(c, g) /\ g.mode = 0 /\ g.cursor = 0
      /\ g.fresh = Succeeds(refusing) /\ g.inStep = Succeeds(refusing)
  <2>1. 0 \in -1..NoMode
    BY DEF NoMode
  <2> QED
    BY <1>1, <1>2, <1>11, <2>1 DEF ConState, SameList
<1>6. DOMAIN new \subseteq TextDevice /\ \A d \in DOMAIN new : new[d] \in DevState /\ new[d].mode \in ModesOf(d)
  BY <1>1, <1>2, <1>4, <1>11 DEF DevState
<1> HIDE DEF g
<1>7. /\ v.con[s] = g
      /\ \A d \in TextDevice : v.dev[d] = IF d \in DOMAIN new THEN new[d] ELSE World.dev[d]
  <2>1. SameList(World.con[s], g)
    BY <1>1, <1>5
  <2>2. v = [OnDevices(World, s, new) EXCEPT !.con[s] = g]
    OBVIOUS
  <2> HIDE DEF v
  <2> QED
    BY <1>1, <1>5, <1>6, <2>1, <2>2, CallIs
<1> HIDE DEF v
<1>8. Succeeds(refusing) =>
        \A d \in Consoles(g) : v.dev[d].mode = 0 /\ v.dev[d].cursor = 0 /\ d \in TextDevice
  BY <1>1, <1>4, <1>5, <1>7, <1>11, CoherentDepends
<1>9. Displayed(v, s) /\ Together(v, s)
  <2>1. 0 \in DOMAIN g.map /\ SizeOf(g, 0) = Base
    BY <1>1, <1>5, CoherentDepends, ConsolesAre, BaseIs
  <2> QED
    BY <1>2, <1>5, <1>7, <1>8, <2>1 DEF Displayed, Together
<1>10. g.mode < NoMode /\ SameList(con[s], g)
  BY <1>5 DEF NoMode, c
<1> QED
  BY <1>3, <1>5, <1>6, <1>9, <1>10, CallGood DEF v

\* Where only cursors move, what is displayed stays.
LEMMA CursorsMove ==
  ASSUME Good(World), NEW s \in TextSplitter, NEW new, DOMAIN new = Consoles(con[s]),
         \A d \in Consoles(con[s]) : \E cell \in Cell : new[d] = [dev[d] EXCEPT !.cursor = cell],
         NEW g \in ConState, SameList(con[s], g), g.mode = con[s].mode, g.fresh = con[s].fresh,
         g.inStep => \A d \in Consoles(con[s]) : new[d].cursor = g.cursor,
         Becomes([OnDevices(World, s, new) EXCEPT !.con[s] = g])
  PROVE  Good(World)'
<1> DEFINE c == con[s]
           v == [OnDevices(World, s, new) EXCEPT !.con[s] = g]
<1>1. c \in ConState /\ Coherent(c) /\ Consoles(c) \subseteq TextDevice /\ Sane(World) /\ World.con[s] = c /\ World.dev = dev
      /\ c.mode < NoMode /\ Displayed(World, s)
  BY WorldIs DEF Good
<1>2. \A d \in Consoles(c) : /\ new[d] \in DevState /\ new[d].mode \in ModesOf(d) /\ new[d].mode = dev[d].mode
  BY WorldIs DEF DevState
<1>3. Becomes(v)
  OBVIOUS
<1>4. /\ v.con[s] = g
      /\ \A d \in TextDevice : v.dev[d] = IF d \in DOMAIN new THEN new[d] ELSE World.dev[d]
  <2>1. SameList(World.con[s], g) /\ DOMAIN new \subseteq TextDevice
    BY <1>1
  <2>2. \A d \in DOMAIN new : new[d] \in DevState /\ new[d].mode \in ModesOf(d)
    BY <1>2
  <2>3. v = [OnDevices(World, s, new) EXCEPT !.con[s] = g]
    OBVIOUS
  <2> HIDE DEF c, v
  <2> QED
    BY <1>1, <2>1, <2>2, <2>3, CallIs
<1> HIDE DEF v, c
<1>5. SameList(c, g) /\ g.mode = c.mode /\ g.fresh = c.fresh /\ DOMAIN new = Consoles(c)
  BY DEF c
<1>6. Consoles(g) = Consoles(c) /\ \A n : SizeOf(g, n) = SizeOf(c, n)
  BY <1>1, <1>5, CoherentDepends
<1>7. \A d \in Consoles(c) : v.dev[d] = new[d]
  BY <1>1, <1>4, <1>5
<1>8. Displayed(v, s)
  BY <1>1, <1>2, <1>4, <1>5, <1>6, <1>7 DEF Displayed, SameList
<1>9. Together(v, s)
  BY <1>4, <1>6, <1>7 DEF Together, c
<1> QED
  BY <1>1, <1>2, <1>3, <1>5, <1>8, <1>9, CallGood DEF v, c

LEMMA OutputStringKeeps ==
  ASSUME Good(World), NEW s \in TextSplitter, TextOutOutputString(s)
  PROVE  Good(World)'
<1> DEFINE c == con[s]
           new(to) == [d \in Consoles(c) |-> [dev[d] EXCEPT !.cursor = to[d]]]
           g(refusing, cell) == [c EXCEPT !.cursor = cell, !.inStep = @ /\ Succeeds(refusing) /\ OneSize(c)]
<1>1. PICK refusing \in Refusals(c), cell \in Cell : \E to \in Typed(c, refusing) :
        /\ c.count > 0 => cell = to[c.slots[1]]
        /\ Becomes([OnDevices(World, s, new(to)) EXCEPT !.con[s] = g(refusing, cell)])
  BY DEF TextOutOutputString
<1>2. PICK to \in Typed(c, refusing) :
        /\ c.count > 0 => cell = to[c.slots[1]]
        /\ Becomes([OnDevices(World, s, new(to)) EXCEPT !.con[s] = g(refusing, cell)])
  BY <1>1
<1> DEFINE n == new(to)
           h == g(refusing, cell)
<1>3. c \in ConState /\ Consoles(c) \subseteq TextDevice /\ Together(World, s) /\ World.con[s] = c /\ World.dev = dev
      /\ c.count \in Nat /\ (Consoles(c) # {} => c.count > 0) /\ (c.count > 0 => c.slots[1] \in Consoles(c))
  <2>1. c \in ConState /\ Coherent(c) /\ Together(World, s) /\ World.con[s] = c /\ World.dev = dev
    BY WorldIs DEF Good
  <2>2. Consoles(c) \subseteq TextDevice /\ c.count \in Nat
    BY <2>1, ConsolesAre
  <2> HIDE DEF c
  <2> QED
    BY <2>1, <2>2 DEF Consoles
<1>4. to \in [Consoles(c) -> Cell]
  BY DEF Typed
<1>5. DOMAIN n = Consoles(c) /\ \A d \in Consoles(c) : n[d] = [dev[d] EXCEPT !.cursor = to[d]]
  OBVIOUS
<1>6. \A d \in Consoles(c) : n[d].cursor = to[d] /\ to[d] \in Cell
  BY <1>3, <1>4, <1>5, WorldIs DEF DevState
<1>7. Becomes([OnDevices(World, s, n) EXCEPT !.con[s] = h])
  BY <1>2
<1>8. /\ h \in ConState /\ SameList(c, h) /\ h.mode = c.mode /\ h.fresh = c.fresh /\ h.cursor = cell
      /\ h.inStep => c.inStep /\ Succeeds(refusing) /\ OneSize(c)
  BY <1>3 DEF ConState, SameList
<1>9. c.count > 0 => cell = to[c.slots[1]]
  BY <1>2
<1> HIDE DEF n, h, c
<1>10. h.inStep => \A d \in Consoles(c) : n[d].cursor = h.cursor
  <2> SUFFICES ASSUME h.inStep, NEW d \in Consoles(c) PROVE n[d].cursor = cell
    BY <1>8
  <2> DEFINE e == c.slots[1]
  <2>1. c.count > 0 /\ e \in Consoles(c) /\ cell = to[e]
    BY <1>3, <1>9
  <2>2. dev[d].cursor = c.cursor /\ dev[e].cursor = c.cursor
    BY <1>3, <1>8, <2>1 DEF Together
  <2>3. Size(d, dev[d].mode) = Size(e, dev[e].mode) /\ refusing = {}
    BY <1>8, <2>1 DEF OneSize, Succeeds
  <2> HIDE DEF e
  <2>4. Stand(d) = Stand(e)
    BY <2>2, <2>3 DEF Stand
  <2>5. to[d] = to[e]
    BY <2>1, <2>3, <2>4 DEF Typed
  <2> QED
    BY <1>6, <2>1, <2>5
<1>12. \A d \in Consoles(c) : \E x \in Cell : n[d] = [dev[d] EXCEPT !.cursor = x]
  BY <1>5, <1>6
<1> QED
  BY <1>5, <1>7, <1>8, <1>10, <1>12, CursorsMove DEF c

\* While a device is not in the list there is a place for it.
LEMMA PlaceForIt ==
  ASSUME NEW c, Coherent(c), NEW d \in TextDevice, d \notin Consoles(c)
  PROVE  c.count < Cardinality(TextDevice) /\ c.count + 1 \in ListPlaces
<1> DEFINE k == c.count
           rest == TextDevice \ {d}
           f == [p \in 1..k |-> c.slots[p]]
<1>1. k \in Nat /\ Cardinality(TextDevice) \in Nat /\ IsFiniteSet(TextDevice) /\ Listed(c)
  BY ConsolesAre, ModesAre DEF Coherent
<1>2. IsFiniteSet(rest) /\ Cardinality(rest) = Cardinality(TextDevice) - 1
  BY <1>1, FS_RemoveElement
<1>3. \A p \in 1..k : c.slots[p] \in rest
  BY <1>1 DEF Listed, Consoles
<1> HIDE DEF rest
<1>4. f \in Injection(1..k, rest)
  <2>1. f \in [1..k -> rest]
    BY <1>3
  <2>2. \A p, q \in 1..k : f[p] = f[q] => p = q
    BY <1>1 DEF Listed
  <2> HIDE DEF f
  <2> QED
    BY <2>1, <2>2 DEF Injection, IsInjective
<1> HIDE DEF f
<1>5. Cardinality(1..k) <= Cardinality(rest)
  BY <1>2, <1>4, FS_Injection
<1>6. Cardinality(1..k) = k
  <2>1. k = 0 => 1..k = {}
    OBVIOUS
  <2>2. k > 0 => Cardinality(1..k) = k
    BY <1>1, FS_Interval
  <2> QED
    BY <1>1, <2>1, <2>2, FS_EmptySet
<1> HIDE DEF k
<1>7. k < Cardinality(TextDevice) /\ k + 1 \in 1..Cardinality(TextDevice)
  BY <1>1, <1>2, <1>5, <1>6
<1> QED
  BY <1>7 DEF ListPlaces, k

\* A table is sound for the consoles it is a table of.
LEMMA SoundForThese ==
  ASSUME NEW b, NEW g, NEW k \in Nat, k > 0, \A p \in 1..k : g.slots[p] = b.slots[p],
         b.query = g.query, b.map = g.map, Sound(b, k)
  PROVE  Sound(g, k)
<1>1. \A n : SizeOf(g, n) = SizeOf(b, n)
  BY DEF SizeOf
<1>2. g.slots[1] = b.slots[1]
  OBVIOUS
<1>3. Shape(g, k)
  BY <1>2 DEF Sound, Shape
<1>4. AllSound(g, k)
  BY <1>1 DEF Sound, AllSound, RowSound
<1>5. Missing(g, k)
  BY <1>1 DEF Sound, Missing
<1> QED
  BY <1>3, <1>4, <1>5 DEF Sound

\* The list with one console more and no mode yet.
LEMMA NextConsoleIs ==
  ASSUME NEW c, Coherent(c), NEW d \in TextDevice, d \notin Consoles(c)
  PROVE  LET c0 == [c EXCEPT !.mode = NoMode, !.slots[c.count + 1] = d]
             g == Joined(c0, d) IN
         Coherent(g) /\ Unset(g) /\ g.count > 0
<1> DEFINE c0 == [c EXCEPT !.mode = NoMode, !.slots[c.count + 1] = d]
           k == c.count
           longer == [c.slots EXCEPT ![k + 1] = d]
           g == Joined(c0, d)
<1>1. c \in ConState /\ Listed(c) /\ k \in Nat /\ k < Cardinality(TextDevice) /\ k + 1 \in ListPlaces
      /\ Cardinality(TextDevice) \in Nat
  BY PlaceForIt, ConsolesAre, ModesAre DEF Coherent
<1>2. c0 = [c EXCEPT !.mode = NoMode, !.slots = longer]
  BY <1>1 DEF ConState
<1>3. longer \in [ListPlaces -> TextDevice \cup {None}] /\ longer[k + 1] = d /\ \A p \in 1..k : longer[p] = c.slots[p]
  <2>1. c.slots \in [ListPlaces -> TextDevice \cup {None}]
    BY <1>1 DEF ConState
  <2>2. \A p \in 1..k : p \in ListPlaces /\ p # k + 1
    BY <1>1 DEF ListPlaces
  <2> QED
    BY <1>1, <2>1, <2>2
<1> HIDE DEF longer, c0
<1>4. /\ c0 \in ConState /\ c0.slots = longer /\ c0.count = k /\ c0.mode = NoMode /\ c0.query = c.query /\ c0.map = c.map
  <2>1. NoMode \in -1..NoMode
    BY DEF NoMode
  <2> QED
    BY <1>1, <1>2, <1>3, <2>1 DEF ConState
<1>5. k > 0 => Sound(c0, k) /\ c0.slots[1] \in TextDevice /\ Unset(c0)
  <2> SUFFICES ASSUME k > 0 PROVE Sound(c0, k) /\ c0.slots[1] \in TextDevice /\ Unset(c0)
    OBVIOUS
  <2>1. Sound(c, k)
    BY DEF Coherent
  <2>2. \A p \in 1..k : c0.slots[p] = c.slots[p]
    BY <1>3, <1>4
  <2>3. c0.slots[1] \in TextDevice
    BY <1>1, <2>2 DEF Listed
  <2>4. Unset(c0)
    <3>1. PICK n \in 1..127 : DOMAIN c.map = 0..n - 1
      BY <1>1, MapIs
    <3>2. NoMode >= NoMode - 127 + n
      BY DEF NoMode
    <3> QED
      BY <1>4, <3>1, <3>2 DEF Unset
  <2>5. Sound(c0, k)
    BY <1>1, <1>4, <2>1, <2>2, SoundForThese
  <2> QED
    BY <2>3, <2>4, <2>5
<1>6. /\ g \in ConState /\ g.slots = longer /\ g.count = k + 1 /\ Sound(g, g.count) /\ Unset(g)
  <2>1. c0.count > 0 => Sound(c0, c0.count) /\ c0.slots[1] \in TextDevice
    BY <1>4, <1>5
  <2>2. c0.count < Cardinality(TextDevice) /\ c0.slots[c0.count + 1] = d
    BY <1>1, <1>3, <1>4
  <2>3. c0.mode = NoMode /\ (c0.count > 0 => Unset(c0))
    BY <1>4, <1>5
  <2>4. /\ g \in ConState /\ g.slots = c0.slots /\ g.count = c0.count + 1 /\ Sound(g, g.count) /\ Unset(g)
    BY <1>4, <2>1, <2>2, <2>3, JoinedIs
  <2> HIDE DEF g
  <2> QED
    BY <1>4, <2>4
<1> HIDE DEF g
<1>7. Listed(g)
  <2>1. \A p \in 1..k + 1 : p \in 1..k \/ p = k + 1
    BY <1>1
  <2>2. \A p \in 1..k : longer[p] \in TextDevice /\ longer[p] # d /\ longer[p] = c.slots[p]
    BY <1>1, <1>3 DEF Listed, Consoles
  <2>3. \A p, q \in 1..k : longer[p] = longer[q] => p = q
    BY <1>1, <2>2 DEF Listed
  <2>4. \A p \in 1..k + 1 : longer[p] \in TextDevice
    BY <1>3, <2>1, <2>2
  <2>5. \A p, q \in 1..k + 1 : longer[p] = longer[q] => p = q
    BY <1>3, <2>1, <2>2, <2>3
  <2> QED
    BY <1>6, <2>4, <2>5 DEF Listed
<1>8. g.count # 0 /\ g.count > 0
  BY <1>1, <1>6
<1>9. Coherent(g)
  BY <1>6, <1>7, <1>8 DEF Coherent
<1> QED
  BY <1>6, <1>8, <1>9 DEF g, c0

LEMMA LastOneIs ==
  ASSUME NEW c \in ConState, NEW S \in SUBSET DOMAIN c.map
  PROVE  /\ S = {} => Last0(S) = NoMode
         /\ S # {} => Last0(S) \in S /\ Last0(S) # NoMode
<1>1. CASE S = {}
  BY <1>1 DEF Last0
<1>2. CASE S # {}
  <2>1. PICK n \in 1..127 : DOMAIN c.map = 0..n - 1
    BY MapIs
  <2>2. n \in Nat /\ S \in SUBSET (0..n - 1)
    <3>1. S \subseteq 0..n - 1
      BY <2>1, Zenon
    <3> QED
      BY <3>1
  <2>3. Max(S) \in S
    BY <1>2, <2>2, GreatestIs
  <2>4. Max(S) \in 0..n - 1
    BY <2>2, <2>3
  <2>5. Max(S) # NoMode
    BY <2>4 DEF NoMode
  <2> QED
    BY <1>2, <2>3, <2>5 DEF Last0
<1> QED
  BY <1>1, <1>2

\* The mode that is set when the list has changed is one of the table.
LEMMA ModeForListIs ==
  ASSUME NEW c, Coherent(c), NEW d \in TextDevice
  PROVE  /\ PreferMode(c) # NoMode => PreferMode(c) \in DOMAIN c.map
         /\ BaseMode(c) \in DOMAIN c.map
<1> DEFINE prefers == {m \in Offered(c) : SizeOf(c, m) = preferred}
           bases == {m \in Offered(c) : SizeOf(c, m) = Base}
<1>1. c \in ConState
  BY DEF Coherent
<1>2. prefers \in SUBSET DOMAIN c.map /\ bases \in SUBSET DOMAIN c.map
  BY DEF Offered
<1>3. 0 \in bases
  <2>1. 0 \in DOMAIN c.map /\ SizeOf(c, 0) = Base /\ Base # NoSize
    BY ConsolesAre, BaseIs, ModesAre
  <2> QED
    BY <2>1 DEF Offered
<1>4. PreferMode(c) = Last0(prefers) /\ BaseMode(c) = Last0(bases)
  BY DEF PreferMode, BaseMode
<1> HIDE DEF prefers, bases
<1>5. /\ prefers = {} => Last0(prefers) = NoMode
      /\ prefers # {} => Last0(prefers) \in prefers
      /\ Last0(bases) \in bases
  <2>1. bases # {}
    BY <1>3
  <2>2. Last0(bases) \in bases
    BY <1>1, <1>2, <2>1, LastOneIs
  <2> QED
    BY <1>1, <1>2, <2>2, LastOneIs
<1> QED
  BY <1>2, <1>4, <1>5

LEMMA UnsetIs ==
  ASSUME NEW c \in ConState, Unset(c)
  PROVE  c.mode \notin DOMAIN c.map
<1>1. PICK n \in 1..127 : DOMAIN c.map = 0..n - 1 /\ c.mode >= NoMode - 127 + n
  BY DEF Unset
<1>2. c.mode \in -1..NoMode
  BY DEF ConState
<1>3. ~ (c.mode \in 0..n - 1)
  BY <1>1, <1>2 DEF NoMode
<1> QED
  BY <1>1, <1>3

\* What is well with both splitters once one of them has another list.
Now(s, g) == [con |-> [con EXCEPT ![s] = g], dev |-> dev]

LEMMA NowIs ==
  ASSUME Good(World), NEW s \in TextSplitter, NEW g, Coherent(g)
  PROVE  LET w == Now(s, g) IN
         /\ Sane(w) /\ w.con[s] = g
         /\ w.con[OtherSplitter(s)].mode < NoMode /\ Displayed(w, OtherSplitter(s)) /\ Together(w, OtherSplitter(s))
         /\ ~g.fresh => Displayed(w, s)
         /\ ~g.inStep => Together(w, s)
<1> DEFINE t == OtherSplitter(s)
           v == [World EXCEPT !.con[s] = g]
           w == Now(s, g)
<1>1. Sane(World) /\ t \in TextSplitter
  BY OtherIs DEF Good
<1>2. World.con[t].mode < NoMode /\ Displayed(World, t) /\ Together(World, t)
  BY <1>1 DEF Good
<1>3. /\ Sane(v) /\ v.con[s] = g /\ v.con[t] = World.con[t]
      /\ Displayed(World, t) => Displayed(v, t)
      /\ Together(World, t) => Together(v, t)
  BY <1>1, PutIs
<1>4. v = w
  BY DEF World, Now
<1> HIDE DEF v, w
<1>5. ~g.fresh => Displayed(w, s)
  BY <1>3, <1>4 DEF Displayed
<1>6. ~g.inStep => Together(w, s)
  BY <1>3, <1>4 DEF Together
<1> QED
  BY <1>2, <1>3, <1>4, <1>5, <1>6 DEF w

LEMMA AddDeviceKeeps ==
  ASSUME TextInv, NEW s \in TextSplitter, NEW d \in TextDevice, TextOutAddDevice(s, d)
  PROVE  TextInv'
<1> DEFINE c0 == [con[s] EXCEPT !.mode = NoMode, !.slots[con[s].count + 1] = d]
           g == Joined(c0, d)
           w1 == Now(s, g)
           w2 == IntersectBoth(w1)
           c == w2.con[s]
           prefers == PreferMode(c) # NoMode
           n == IF prefers THEN PreferMode(c) ELSE BaseMode(c)
           v == SetMode(w2, s, n, {})
           t == OtherSplitter(s)
<1>1. d \notin Consoles(con[s]) /\ Becomes(v) /\ preferred' = IF prefers THEN preferred ELSE Base
  BY DEF TextOutAddDevice, Now
<1>2. Good(World) /\ preferred \in {Preferred, Base}
  BY DEF TextInv
<1>3. Coherent(g) /\ Unset(g) /\ g.count > 0
  <2>1. Coherent(con[s])
    BY <1>2, WorldIs
  <2> QED
    BY <1>1, <2>1, NextConsoleIs
<1> HIDE DEF g
<1>4. /\ Sane(w1) /\ w1.con[s] = g /\ t \in TextSplitter /\ \A q \in TextSplitter : q = s \/ q = t
      /\ w1.con[t].mode < NoMode /\ Displayed(w1, t) /\ Together(w1, t)
  <2>2. /\ Sane(w1) /\ w1.con[s] = g
        /\ w1.con[t].mode < NoMode /\ Displayed(w1, t) /\ Together(w1, t)
    BY <1>2, <1>3, NowIs
  <2> QED
    BY <2>2, OtherIs
<1> HIDE DEF w1, t
<1>5. /\ Sane(w2) /\ Agree(w2)
      /\ \A q \in TextSplitter : w1.con[q].mode < NoMode => w2.con[q].mode < NoMode
      /\ \A q \in TextSplitter : Unset(w1.con[q]) => Unset(w2.con[q])
      /\ \A q \in TextSplitter : Displayed(w1, q) => Displayed(w2, q)
      /\ \A q \in TextSplitter : Together(w1, q) => Together(w2, q)
  BY <1>4, IntersectBothIs
<1>6. c = w2.con[s]
  OBVIOUS
<1> HIDE DEF w2, c
<1>7. c \in ConState /\ Coherent(c) /\ Unset(c)
  BY <1>3, <1>4, <1>5, <1>6, SaneIs
<1>8. n \in DOMAIN c.map /\ n \in 0..126
  <2>1. n \in DOMAIN c.map
    BY <1>7, ModeForListIs
  <2> HIDE DEF n
  <2> QED
    BY <1>7, <2>1, ConsolesAre
<1>9. n # c.mode /\ n < NoMode
  <2> HIDE DEF n
  <2>1. c.mode \notin DOMAIN c.map
    BY <1>7, UnsetIs
  <2> QED
    BY <1>8, <2>1 DEF NoMode
<1>15. v = SetMode(w2, s, n, {})
  OBVIOUS
<1> HIDE DEF n, v
<1>10. /\ Sane(v) /\ \A q \in TextSplitter : SameList(w2.con[q], v.con[q])
       /\ v.con[s].mode = n /\ v.con[t].mode = w2.con[t].mode
       /\ Displayed(w2, t) => Displayed(v, t)
       /\ Together(w2, t) => Together(v, t)
       /\ Displayed(v, s) /\ Together(v, s)
  <2>1. n \in DOMAIN w2.con[s].map /\ n # w2.con[s].mode
    BY <1>6, <1>8, <1>9
  <2> QED
    BY <1>5, <1>15, <2>1, SetModeIs DEF t
<1>11. Agree(v)
  BY <1>5, <1>10, AgreeDepends
<1>12. v.con[t].mode < NoMode /\ Displayed(v, t) /\ Together(v, t)
  BY <1>4, <1>5, <1>10
<1>13. Good(v)
  BY <1>4, <1>9, <1>10, <1>11, <1>12 DEF Good
<1>14. Good(World)'
  BY <1>1, <1>13, BecomesGood
<1> QED
  BY <1>1, <1>2, <1>14 DEF TextInv

LEMMA WithoutIs ==
  ASSUME NEW c, Coherent(c), NEW d \in Consoles(c)
  PROVE  LET b == WithoutPlace(c, d) IN
         /\ b \in ConState /\ b.count = c.count /\ b.mode = c.mode
         /\ c.count \in 1..Cardinality(TextDevice)
         /\ \A p \in 1..c.count - 1 : b.slots[p] \in TextDevice
         /\ \A p, q \in 1..c.count - 1 : b.slots[p] = b.slots[q] => p = q
<1> DEFINE k == c.count
           at == CHOOSE p \in 1..k : c.slots[p] = d
           slots == [p \in ListPlaces |-> IF at <= p /\ p < k THEN c.slots[p + 1] ELSE c.slots[p]]
           b == WithoutPlace(c, d)
<1>1. c \in ConState /\ Listed(c) /\ k \in Nat /\ k <= Cardinality(TextDevice) /\ Cardinality(TextDevice) \in Nat
      /\ c.slots \in [ListPlaces -> TextDevice \cup {None}]
  BY ConsolesAre, ModesAre DEF Coherent, ConState
<1>2. at \in 1..k
  <2>1. \E p \in 1..k : c.slots[p] = d
    BY ConsolesAre
  <2> QED
    BY <2>1
<1>3. b = [c EXCEPT !.slots = slots]
  BY DEF WithoutPlace
<1> HIDE DEF at, b
<1>4. \A p \in 1..k - 1 : slots[p] = c.slots[IF at <= p THEN p + 1 ELSE p]
  <2> SUFFICES ASSUME NEW p \in 1..k - 1 PROVE slots[p] = c.slots[IF at <= p THEN p + 1 ELSE p]
    OBVIOUS
  <2>1. p \in ListPlaces /\ p < k
    BY <1>1 DEF ListPlaces
  <2> QED
    BY <2>1
<1>5. slots \in [ListPlaces -> TextDevice \cup {None}]
  <2> SUFFICES ASSUME NEW p \in ListPlaces
               PROVE  (IF at <= p /\ p < k THEN c.slots[p + 1] ELSE c.slots[p]) \in TextDevice \cup {None}
    OBVIOUS
  <2>1. p \in 1..Cardinality(TextDevice)
    BY DEF ListPlaces
  <2>2. p < k => p + 1 \in ListPlaces
    BY <1>1, <2>1 DEF ListPlaces
  <2> QED
    BY <1>1, <2>2
<1> HIDE DEF slots, k
<1>6. \A p \in 1..k - 1 : slots[p] \in TextDevice
  <2> SUFFICES ASSUME NEW p \in 1..k - 1 PROVE slots[p] \in TextDevice
    OBVIOUS
  <2>1. (IF at <= p THEN p + 1 ELSE p) \in 1..k
    BY <1>1, <1>2
  <2> QED
    BY <1>1, <1>4, <2>1 DEF Listed, k
<1>7. \A p, q \in 1..k - 1 : slots[p] = slots[q] => p = q
  <2> SUFFICES ASSUME NEW p \in 1..k - 1, NEW q \in 1..k - 1, slots[p] = slots[q] PROVE p = q
    OBVIOUS
  <2> DEFINE i == IF at <= p THEN p + 1 ELSE p
             j == IF at <= q THEN q + 1 ELSE q
  <2>1. i \in 1..k /\ j \in 1..k /\ (i = j => p = q)
    BY <1>1, <1>2
  <2>2. slots[p] = c.slots[i] /\ slots[q] = c.slots[j]
    BY <1>4
  <2> HIDE DEF i, j
  <2>3. i = j
    BY <1>1, <2>1, <2>2 DEF Listed, k
  <2> QED
    BY <2>1, <2>3
<1>8. b \in ConState /\ b.slots = slots /\ b.count = c.count /\ b.mode = c.mode
  BY <1>1, <1>3, <1>5 DEF ConState
<1>9. k \in 1..Cardinality(TextDevice)
  BY <1>1, <1>2
<1> QED
  BY <1>6, <1>7, <1>8, <1>9 DEF b, k

LEMMA NoTableIs == NoTable.query \in AnyQuery /\ NoTable.map \in AnyMap /\ DOMAIN NoTable.map = {0}
<1>1. 1 \in 1..127 /\ 0..1 - 1 = {0}
  OBVIOUS
<1>2. NoTable.query \in [{0} -> Sizes] /\ NoTable.map \in [{0} -> Seq(Int)] /\ DOMAIN NoTable.map = {0}
  BY SizesAre DEF NoTable
<1>3. NoTable.query \in [0..1 - 1 -> Sizes] /\ NoTable.map \in [0..1 - 1 -> Seq(Int)]
  BY <1>1, <1>2
<1> QED
  BY <1>1, <1>2, <1>3 DEF AnyQuery, AnyMap

LEMMA EmptyIs ==
  ASSUME NEW b \in ConState
  PROVE  LET g == Emptied(b) IN
         /\ Coherent(g) /\ g.count = 0 /\ Consoles(g) = {} /\ g.mode = 0 /\ 0 \in DOMAIN g.map
<1> DEFINE g == Emptied(b)
<1>1. NoTable.query \in AnyQuery /\ NoTable.map \in AnyMap /\ DOMAIN NoTable.map = {0}
  BY NoTableIs
<1>2. 0 \in 0..Cardinality(TextDevice) /\ 0 \in -1..NoMode /\ 0 \in Cell
  BY ModesAre, TextAssumption DEF NoMode
<1>3. g = [b EXCEPT !.count = 0, !.query = NoTable.query, !.map = NoTable.map, !.mode = 0, !.cursor = 0]
  BY DEF Emptied
<1> HIDE DEF g
<1>4. g \in ConState /\ g.count = 0 /\ g.query = NoTable.query /\ g.map = NoTable.map /\ g.mode = 0
  <2> DEFINE q == NoTable.query
             m == NoTable.map
  <2>1. g = [b EXCEPT !.count = 0, !.query = q, !.map = m, !.mode = 0, !.cursor = 0] /\ q \in AnyQuery /\ m \in AnyMap
    BY <1>1, <1>3
  <2> HIDE DEF q, m
  <2>2. g \in ConState /\ g.count = 0 /\ g.query = q /\ g.map = m /\ g.mode = 0
    BY <1>2, <2>1 DEF ConState
  <2> QED
    BY <2>2 DEF q, m
<1>5. Listed(g) /\ Consoles(g) = {}
  <2>1. 1..g.count = {}
    BY <1>4
  <2> QED
    BY <2>1 DEF Listed, Consoles
<1> QED
  BY <1>1, <1>4, <1>5 DEF g, Coherent

LEMMA NewTableIs ==
  ASSUME NEW c, Coherent(c), NEW d \in Consoles(c), c.count # 1
  PROVE  LET g == Rebuild(WithoutPlace(c, d), c.count - 1) IN
         Coherent(g) /\ g.fresh = FALSE /\ g.inStep = FALSE /\ g.mode <= c.mode
<1> DEFINE b == WithoutPlace(c, d)
           n == c.count - 1
           g == Rebuild(b, n)
<1>1. /\ b \in ConState /\ b.mode = c.mode /\ c.count \in 1..Cardinality(TextDevice)
      /\ \A p \in 1..n : b.slots[p] \in TextDevice
      /\ \A p, q \in 1..n : b.slots[p] = b.slots[q] => p = q
  BY WithoutIs
<1> HIDE DEF b
<1>2. n \in 1..Cardinality(TextDevice) /\ n > 0
  <2>1. Cardinality(TextDevice) \in Nat
    BY ModesAre
  <2> QED
    BY <1>1, <2>1
<1>3. Anew(b, g, n)
  BY <1>1, <1>2, RebuildIs
<1> HIDE DEF g, n
<1>4. g \in ConState /\ g.slots = b.slots /\ g.count = n /\ g.fresh = FALSE /\ g.inStep = FALSE /\ g.mode <= b.mode /\ Sound(g, n)
  BY <1>2, <1>3 DEF Anew
<1>5. Listed(g)
  BY <1>1, <1>4 DEF Listed
<1>6. g.count # 0
  BY <1>2, <1>4
<1>7. Coherent(g)
  BY <1>4, <1>5, <1>6 DEF Coherent
<1> QED
  BY <1>1, <1>4, <1>7 DEF g, b, n

LEMMA DeleteDeviceKeeps ==
  ASSUME Good(World), NEW s \in TextSplitter, NEW d \in TextDevice, TextOutDeleteDevice(s, d)
  PROVE  Good(World)'
<1> DEFINE c == con[s]
           left == WithoutPlace(c, d)
           t == OtherSplitter(s)
<1>1. /\ d \in Consoles(c)
      /\ Becomes(IF left.count = 1 THEN Now(s, Emptied(left)) ELSE IntersectBoth(Now(s, Rebuild(left, left.count - 1))))
  BY DEF TextOutDeleteDevice, Now
<1>2. Coherent(c) /\ c \in ConState /\ c.mode < NoMode
  BY WorldIs
<1>3. left \in ConState /\ left.count = c.count
  BY <1>1, <1>2, WithoutIs
<1>4. t \in TextSplitter /\ \A q \in TextSplitter : q = s \/ q = t
  BY OtherIs
<1>5. CASE c.count = 1
  <2> DEFINE g == Emptied(left)
             w == Now(s, g)
  <2>1. Becomes(w)
    BY <1>1, <1>3, <1>5
  <2>2. Coherent(g) /\ g.count = 0 /\ Consoles(g) = {} /\ g.mode = 0 /\ 0 \in DOMAIN g.map
    BY <1>3, EmptyIs
  <2> HIDE DEF g, c, left
  <2>3. Sane(w) /\ w.con[s] = g /\ w.con[t].mode < NoMode /\ Displayed(w, t) /\ Together(w, t)
    BY <2>2, NowIs
  <2> HIDE DEF w, t
  <2>4. Displayed(w, s) /\ Together(w, s) /\ w.con[s].mode < NoMode
    BY <2>2, <2>3 DEF Displayed, Together, NoMode
  <2>5. Agree(w)
    <3>1. CASE s = "ConOut"
      BY <2>2, <2>3, <3>1 DEF Agree
    <3>2. CASE s = "StdErr"
      BY <2>2, <2>3, <3>2 DEF Agree
    <3> QED
      BY <3>1, <3>2 DEF TextSplitter
  <2>6. Good(w)
    BY <1>4, <2>3, <2>4, <2>5 DEF Good
  <2> QED
    BY <2>1, <2>6, BecomesGood
<1>6. CASE c.count # 1
  <2> DEFINE g == Rebuild(left, left.count - 1)
             w == Now(s, g)
             v == IntersectBoth(w)
  <2>1. Becomes(v)
    BY <1>1, <1>3, <1>6
  <2>2. Coherent(g) /\ g.fresh = FALSE /\ g.inStep = FALSE /\ g.mode <= c.mode
    <3> DEFINE h == Rebuild(left, c.count - 1)
    <3>1. Coherent(h) /\ h.fresh = FALSE /\ h.inStep = FALSE /\ h.mode <= c.mode
      BY <1>1, <1>2, <1>6, NewTableIs
    <3>2. g = h
      BY <1>3
    <3> HIDE DEF h, g
    <3> QED
      BY <3>1, <3>2
  <2> HIDE DEF g
  <2>3. g.mode < NoMode
    <3>1. g.mode \in -1..NoMode /\ c.mode \in -1..NoMode
      BY <1>2, <2>2 DEF Coherent, ConState
    <3> QED
      BY <1>2, <2>2, <3>1 DEF NoMode
  <2>4. /\ Sane(w) /\ w.con[s] = g /\ w.con[t].mode < NoMode /\ Displayed(w, t) /\ Together(w, t)
        /\ Displayed(w, s) /\ Together(w, s)
    BY <2>2, NowIs
  <2> HIDE DEF w, t
  <2>5. \A q \in TextSplitter : w.con[q].mode < NoMode /\ Displayed(w, q) /\ Together(w, q)
    BY <1>4, <2>3, <2>4
  <2>6. Good(v)
    BY <2>4, <2>5, IntersectBothIs DEF Good
  <2> QED
    BY <2>1, <2>6, BecomesGood
<1> QED
  BY <1>5, <1>6

LEMMA TextInitIs ==
  ASSUME TextInit
  PROVE  TextInv
<1>1. con = [s \in TextSplitter |-> Fresh0] /\ dev = [d \in TextDevice |-> [mode |-> 0, cursor |-> 0]] /\ preferred = Preferred
  BY DEF TextInit
<1>2. 0 \in 0..Cardinality(TextDevice) /\ 0 \in -1..NoMode /\ 0 \in Cell
  BY ModesAre, TextAssumption DEF NoMode
<1> DEFINE c == Fresh0
<1>3. c \in ConState /\ c.count = 0 /\ c.query = NoTable.query /\ c.map = NoTable.map /\ c.mode = 0 /\ c.cursor = 0
  <2> DEFINE q == NoTable.query
             m == NoTable.map
             none == [p \in ListPlaces |-> None]
  <2>1. q \in AnyQuery /\ m \in AnyMap
    BY NoTableIs
  <2>2. none \in [ListPlaces -> TextDevice \cup {None}]
    OBVIOUS
  <2>3. c = [slots |-> none, count |-> 0, mode |-> 0, cursor |-> 0, query |-> q, map |-> m,
             fresh |-> TRUE, inStep |-> TRUE]
    BY DEF Fresh0
  <2> HIDE DEF q, m, none, c
  <2>4. c \in ConState /\ c.count = 0 /\ c.query = q /\ c.map = m /\ c.mode = 0 /\ c.cursor = 0
    BY <1>2, <2>1, <2>2, <2>3 DEF ConState
  <2> QED
    BY <2>4 DEF q, m
<1> HIDE DEF c
<1>4. Coherent(c) /\ Consoles(c) = {} /\ 0 \in DOMAIN c.map
  <2>1. 1..c.count = {}
    BY <1>3
  <2>2. Listed(c) /\ Consoles(c) = {}
    BY <2>1 DEF Listed, Consoles
  <2> QED
    BY <1>3, <2>2, NoTableIs DEF Coherent
<1>5. World.con \in [TextSplitter -> ConState] /\ \A s \in TextSplitter : World.con[s] = c
  <2>1. World.con = [s \in TextSplitter |-> c]
    BY <1>1 DEF World, c
  <2> QED
    BY <1>3, <2>1
<1>6. World.dev \in [TextDevice -> DevState] /\ \A d \in TextDevice : World.dev[d].mode \in ModesOf(d)
  <2>1. World.dev = [d \in TextDevice |-> [mode |-> 0, cursor |-> 0]]
    BY <1>1 DEF World
  <2>2. \A d \in TextDevice : 0 \in ModesOf(d)
    BY ModesAre DEF ModesOf
  <2> QED
    BY <1>2, <2>1, <2>2 DEF DevState
<1>7. World \in Worlds
  <2>1. World = [con |-> World.con, dev |-> World.dev]
    BY DEF World
  <2> QED
    BY <1>5, <1>6, <2>1 DEF Worlds
<1>8. Sane(World)
  BY <1>4, <1>5, <1>6, <1>7 DEF Sane
<1>9. \A s \in TextSplitter : World.con[s].mode < NoMode /\ Displayed(World, s) /\ Together(World, s)
  BY <1>3, <1>4, <1>5 DEF Displayed, Together, NoMode
<1>10. Agree(World)
  BY <1>3, <1>5 DEF Agree, TextSplitter
<1> QED
  BY <1>1, <1>8, <1>9, <1>10 DEF TextInv, Good

LEMMA TextStepKeeps ==
  ASSUME TextInv, [TextNext]_textVars
  PROVE  TextInv'
<1>1. Good(World) /\ preferred \in {Preferred, Base}
  BY DEF TextInv
<1>2. CASE TextNext
  <2> PICK s \in TextSplitter :
        (\E d \in TextDevice : TextOutAddDevice(s, d) \/ TextOutDeleteDevice(s, d)) \/ ModeCall(s) \/ CursorCall(s)
    BY <1>2 DEF TextNext
  <2>1. CASE \E d \in TextDevice : TextOutAddDevice(s, d)
    BY <2>1, AddDeviceKeeps
  <2>2. CASE \E d \in TextDevice : TextOutDeleteDevice(s, d)
    <3>1. Good(World)'
      BY <1>1, <2>2, DeleteDeviceKeeps
    <3>2. preferred' = preferred
      BY <2>2 DEF TextOutDeleteDevice
    <3> QED
      BY <1>1, <3>1, <3>2 DEF TextInv
  <2>3. CASE ModeCall(s)
    <3>1. preferred' = preferred /\ (CallSetMode(s) \/ ResetConsoles(s))
      BY <2>3 DEF ModeCall
    <3>2. Good(World)'
      BY <1>1, <3>1, SetModeKeeps, ResetKeeps
    <3> QED
      BY <1>1, <3>1, <3>2 DEF TextInv
  <2>4. CASE CursorCall(s)
    <3>1. preferred' = preferred /\ (CallClearScreen(s) \/ TextOutOutputString(s) \/ SetCursorPosition(s))
      BY <2>4 DEF CursorCall
    <3>2. Good(World)'
      BY <1>1, <3>1, ClearScreenKeeps, OutputStringKeeps, SetCursorKeeps
    <3> QED
      BY <1>1, <3>1, <3>2 DEF TextInv
  <2> QED
    BY <2>1, <2>2, <2>3, <2>4
<1>3. CASE UNCHANGED textVars
  <2>1. con' = con /\ dev' = dev /\ preferred' = preferred
    BY <1>3 DEF textVars
  <2>2. World' = World
    BY <2>1 DEF World
  <2>3. Good(World')
    BY <1>1, <2>2
  <2> QED
    BY <1>1, <2>1, <2>3 DEF TextInv
<1> QED
  BY <1>2, <1>3

LEMMA TextTypeIs ==
  ASSUME TextInv
  PROVE  TextTypeOK /\ ModeMapSound
<1>1. Good(World) /\ preferred \in {Preferred, Base}
  BY DEF TextInv
<1>2. DOMAIN con = TextSplitter
  <2>1. Sane(World)
    BY <1>1 DEF Good
  <2>2. World.con \in [TextSplitter -> ConState]
    BY <2>1, SaneIs
  <2> QED
    BY <2>2 DEF World
<1>3. ASSUME NEW s \in TextSplitter
      PROVE  /\ con[s].slots \in [ListPlaces -> TextDevice \cup {None}]
             /\ con[s].count \in 0..Cardinality(TextDevice)
             /\ con[s].mode \in -1..NoMode - 1
             /\ con[s].cursor \in Cell
             /\ Range(con[s].query) \subseteq Sizes
             /\ con[s].fresh \in BOOLEAN /\ con[s].inStep \in BOOLEAN
             /\ \A n \in DOMAIN con[s].map : Len(con[s].map[n]) = IF con[s].count = 0 THEN 1 ELSE con[s].count
             /\ \A n \in DOMAIN con[s].map, p \in 1..con[s].count : RowSound(con[s], n, p)
  <2> DEFINE c == con[s]
  <2>1. Coherent(c) /\ c \in ConState /\ c.mode < NoMode
    BY <1>1, WorldIs
  <2> HIDE DEF c
  <2>2. /\ c.slots \in [ListPlaces -> TextDevice \cup {None}] /\ c.count \in 0..Cardinality(TextDevice)
        /\ c.mode \in -1..NoMode /\ c.cursor \in Cell /\ c.fresh \in BOOLEAN /\ c.inStep \in BOOLEAN
    BY <2>1 DEF ConState
  <2>3. c.mode \in -1..NoMode - 1
    BY <2>1, <2>2 DEF NoMode
  <2>4. Range(c.query) \subseteq Sizes
    <3>1. PICK n \in 1..127 : DOMAIN c.query = 0..n - 1 /\ c.query \in [0..n - 1 -> Sizes]
      BY <2>1, MapIs
    <3>2. \A m \in DOMAIN c.query : c.query[m] \in Sizes
      BY <3>1
    <3> QED
      BY <3>2 DEF Range
  <2>5. CASE c.count = 0
    <3>1. \A n \in DOMAIN c.map : Len(c.map[n]) = 1
      <4>1. \A n \in DOMAIN NoTable.map : Len(NoTable.map[n]) = 1
        BY DEF NoTable
      <4>2. c.map = NoTable.map
        BY <2>1, <2>5 DEF Coherent
      <4> QED
        BY <4>1, <4>2
    <3>2. 1..c.count = {}
      BY <2>5
    <3>3. \A n \in DOMAIN c.map, p \in 1..c.count : RowSound(c, n, p)
      BY <3>2
    <3> QED
      BY <2>2, <2>3, <2>4, <2>5, <3>1, <3>3 DEF c
  <2>6. CASE c.count # 0
    <3>1. Sound(c, c.count)
      BY <2>1, <2>6 DEF Coherent
    <3>2. /\ \A n \in DOMAIN c.map : Len(c.map[n]) = c.count
          /\ \A n \in DOMAIN c.map, p \in 1..c.count : RowSound(c, n, p)
      BY <3>1 DEF Sound, Shape, AllSound
    <3> QED
      BY <2>2, <2>3, <2>4, <2>6, <3>2 DEF c
  <2> QED
    BY <2>5, <2>6
<1>4. \A d \in TextDevice : dev[d].mode \in ModesOf(d) /\ dev[d].cursor \in Cell
  <2>1. "ConOut" \in TextSplitter
    BY DEF TextSplitter
  <2> QED
    BY <1>1, <2>1, WorldIs
<1>5. TextTypeOK
  BY <1>1, <1>2, <1>3, <1>4 DEF TextTypeOK
<1>6. ModeMapSound
  BY <1>3 DEF ModeMapSound
<1> QED
  BY <1>5, <1>6

\* The consoles behind a splitter show what it reports: every mode it offers is
\* one of each console (lines 2384-2402, 2450-2481, 2526-2555, 3405-3430), the
\* mode and the cursor are those it says (3192, 3302, 4584-4589, 4645-4647,
\* 4862-4875, 4978-4980, 5046-5063), and two splitters with a console in common
\* offer the same sizes beyond mode 1 (2618-2716 of ConSplitter.c).
THEOREM ConsolesShowWhatIsSaid == TextSpec => []ConsolesAgree
<1>1. TextInit => TextInv
  BY TextInitIs
<1>2. TextInv /\ [TextNext]_textVars => TextInv'
  BY TextStepKeeps
<1>3. TextInv => ConsolesAgree
  <2> SUFFICES ASSUME TextInv PROVE ConsolesAgree
    OBVIOUS
  <2>1. TextTypeOK /\ ModeMapSound
    BY TextTypeIs
  <2>2. DisplayedMode /\ CursorsAgree /\ SharedModesAgree
    BY DEF TextInv, Good, DisplayedMode, CursorsAgree, SharedModesAgree
  <2> QED
    BY <2>1, <2>2 DEF ConsolesAgree
<1> QED
  BY <1>1, <1>2, <1>3, PTL DEF TextSpec

-----------------------------------------------------------------------------
(* Colours and cursors.                                                    *)

\* Those that callers set and those the driver sets.
Attributes == [fg : Foregrounds \cup {"lightgray", "magenta", "black"}, bg : Backgrounds \cup {"black"}]
Pens == [attribute : Attributes, visible : BOOLEAN]
Styles == [list : SUBSET Screen, attribute : Attributes, visible : BOOLEAN, hides : BOOLEAN]

StyleTypes ==
  /\ style \in [Splitter -> Styles]
  /\ pen \in [Screen -> Pens]
  /\ right \in [Screen -> BOOLEAN]

StyleInv == StyleTypes /\ StylesKept

-----------------------------------------------------------------------------
(* Lemmas about the operators.                                             *)

LEMMA OtherIsTheOther ==
  ASSUME NEW s \in Splitter
  PROVE  Other(s) \in Splitter /\ Other(s) # s /\ \A t \in Splitter : t = s \/ t = Other(s)
  BY DEF Other, Splitter

LEMMA FirstIsColour ==
  ASSUME NEW s \in Splitter
  PROVE  FirstColour(s) \in Attributes
  BY DEF FirstColour, Attributes

\* A console that is coloured keeps its cursor.
LEMMA ColouredPens ==
  ASSUME StyleTypes, NEW s \in Splitter, NEW a \in Attributes
  PROVE  /\ Coloured(s, a, pen) \in [Screen -> Pens]
         /\ \A d \in Screen : Coloured(s, a, pen)[d].visible = pen[d].visible
         /\ \A d \in Screen : d \in style'[s].list => Coloured(s, a, pen)[d].attribute = a
  BY DEF Coloured, StyleTypes, Pens

LEMMA StyleInitHolds == StyleInit => StyleInv
<1> SUFFICES ASSUME StyleInit
             PROVE  StyleInv
  OBVIOUS
<1>1. Plain \in Attributes /\ FirstColour("ConOut") \in Attributes
  BY DEF Plain, FirstColour, Attributes
<1>2. StyleTypes
  BY <1>1 DEF StyleInit, StyleTypes, Styles, Pens
<1>3. TextInItsColours
  BY DEF StyleInit, TextInItsColours
<1>4. HiddenIsHidden
  BY DEF StyleInit, HiddenIsHidden
<1> QED
  BY <1>2, <1>3, <1>4 DEF StyleInv, StylesKept

-----------------------------------------------------------------------------
(* One step per action.                                                    *)

\* A step that leaves the cursors alone, and hides none: no list grows but that
\* of a splitter that hides nothing afterwards.
LEMMA CursorsStay ==
  ASSUME StyleInv, StyleTypes', UNCHANGED right,
         \A d \in Screen : pen'[d].visible = pen[d].visible,
         \A t \in Splitter : style'[t].hides =>
            style[t].hides /\ style'[t].list \subseteq style[t].list /\ style'[t].visible = style[t].visible
  PROVE  StyleInv'
<1>1. TextInItsColours'
  BY DEF StyleInv, StylesKept, TextInItsColours
<1>2. HiddenIsHidden'
  <2> SUFFICES ASSUME NEW t \in Splitter, style'[t].hides
               PROVE  (\A d \in style'[t].list : ~pen'[d].visible) /\ ~style'[t].visible
    BY DEF HiddenIsHidden
  <2>1. (\A d \in style[t].list : ~pen[d].visible) /\ ~style[t].visible
    BY DEF StyleInv, StylesKept, HiddenIsHidden
  <2>2. style[t].list \subseteq Screen
    BY DEF StyleInv, StyleTypes, Styles
  <2> QED
    BY <2>1, <2>2
<1> QED
  BY <1>1, <1>2 DEF StyleInv, StylesKept

LEMMA SetAttributeKeeps ==
  ASSUME StyleInv, NEW s \in Splitter, NEW a \in Attribute, SetAttribute(s, a)
  PROVE  StyleInv'
<1>1. a \in Attributes
  BY DEF Attribute, Attributes
<1>2. pen' \in [Screen -> Pens] /\ \A d \in Screen : pen'[d].visible = pen[d].visible
  BY <1>1, ColouredPens DEF SetAttribute, StyleInv
<1>3. style' = [style EXCEPT ![s].attribute = a] /\ UNCHANGED right
  BY DEF SetAttribute
<1>4. StyleTypes'
  BY <1>1, <1>2, <1>3 DEF StyleInv, StyleTypes, Styles
<1>5. \A t \in Splitter : style'[t].hides = style[t].hides /\ style'[t].list = style[t].list
                          /\ style'[t].visible = style[t].visible
  BY <1>3 DEF StyleInv, StyleTypes, Styles
<1> QED
  BY <1>2, <1>3, <1>4, <1>5, CursorsStay

\* Every console of the splitter has its attribute when the text comes.
LEMMA StyleOutputStringKeeps ==
  ASSUME StyleInv, NEW s \in Splitter, OutputString(s)
  PROVE  StyleInv'
<1>1. style[s].attribute \in Attributes /\ style' = style
  BY DEF StyleInv, StyleTypes, Styles, OutputString
<1>2. /\ pen' \in [Screen -> Pens]
      /\ \A d \in Screen : pen'[d].visible = pen[d].visible
      /\ \A d \in Screen : d \in style[s].list => pen'[d].attribute = style[s].attribute
  BY <1>1, ColouredPens DEF OutputString, StyleInv
<1>3. right' = [d \in Screen |-> IF d \in style[s].list THEN pen'[d].attribute = style[s].attribute ELSE right[d]]
  BY DEF OutputString
<1>4. \A d \in Screen : right'[d] = TRUE
  <2> TAKE d \in Screen
  <2>1. CASE d \in style[s].list
    <3>1. right'[d] = (pen'[d].attribute = style[s].attribute)
      BY <1>3, <2>1, Zenon
    <3> QED
      BY <1>2, <2>1, <3>1
  <2>2. CASE d \notin style[s].list
    <3>1. right'[d] = right[d]
      BY <1>3, <2>2, Zenon
    <3>2. right[d] = TRUE
      BY DEF StyleInv, StylesKept, TextInItsColours, StyleTypes
    <3> QED
      BY <3>1, <3>2
  <2> QED
    BY <2>1, <2>2
<1>5. right' \in [Screen -> BOOLEAN]
  <2>1. right' = [d \in Screen |-> right'[d]]
    BY <1>3, Zenon
  <2> QED
    BY <1>4, <2>1
<1>6. StyleTypes' /\ TextInItsColours'
  BY <1>1, <1>2, <1>4, <1>5 DEF StyleInv, StyleTypes, TextInItsColours
<1>7. HiddenIsHidden'
  <2>1. \A t \in Splitter : style[t].list \subseteq Screen
    BY DEF StyleInv, StyleTypes, Styles
  <2> QED
    BY <1>1, <1>2, <2>1 DEF StyleInv, StylesKept, HiddenIsHidden
<1> QED
  BY <1>6, <1>7 DEF StyleInv, StylesKept

LEMMA StyleResetKeeps ==
  ASSUME StyleInv, NEW s \in Splitter, TextOutReset(s)
  PROVE  StyleInv'
<1> DEFINE a == [style[s].attribute EXCEPT !.bg = "black"]
<1>1. a \in Attributes
  BY DEF StyleInv, StyleTypes, Styles, Attributes
<1>2. /\ style' = [style EXCEPT ![s].attribute = a, ![s].visible = TRUE, ![s].hides = FALSE]
      /\ pen' = Coloured(s, a, pen) /\ UNCHANGED right
  BY DEF TextOutReset
<1> HIDE DEF a
<1>3. pen' \in [Screen -> Pens] /\ \A d \in Screen : pen'[d].visible = pen[d].visible
  BY <1>1, <1>2, ColouredPens DEF StyleInv
<1>4. StyleTypes'
  <2>1. style'[s] = [style[s] EXCEPT !.attribute = a, !.visible = TRUE, !.hides = FALSE] /\ style[s] \in Styles
    BY <1>2 DEF StyleInv, StyleTypes
  <2>2. style'[s] \in Styles
    BY <1>1, <2>1 DEF Styles
  <2> QED
    BY <1>2, <1>3, <2>2 DEF StyleInv, StyleTypes
<1>5. \A t \in Splitter : style'[t].hides => style'[t] = style[t]
  BY <1>2 DEF StyleInv, StyleTypes, Styles
<1> QED
  BY <1>2, <1>3, <1>4, <1>5, CursorsStay

\* The splitter takes the cursor for visible then, and hides none.
LEMMA StyleClearScreenKeeps ==
  ASSUME StyleInv, NEW s \in Splitter, ClearScreen(s)
  PROVE  StyleInv'
<1>1. style' = [style EXCEPT ![s].visible = TRUE, ![s].hides = FALSE] /\ UNCHANGED <<pen, right>>
  BY DEF ClearScreen
<1>2. StyleTypes'
  BY <1>1 DEF StyleInv, StyleTypes, Styles
<1>3. \A t \in Splitter : style'[t].hides => style'[t] = style[t]
  BY <1>1 DEF StyleInv, StyleTypes, Styles
<1> QED
  BY <1>1, <1>2, <1>3, CursorsStay

\* The new console may show its cursor: the splitter hides none from then on,
\* the other one has not got the console by this.
LEMMA StyleAddDeviceKeeps ==
  ASSUME StyleInv, NEW s \in Splitter, NEW d \in Screen, AddDevice(s, d)
  PROVE  StyleInv'
<1>1. /\ style' = [style EXCEPT ![s].list = @ \cup {d}, ![s].attribute = FirstColour(s),
                                ![s].visible = TRUE, ![s].hides = FALSE]
      /\ pen' = Coloured(s, FirstColour(s), pen) /\ UNCHANGED right
  BY DEF AddDevice
<1>2. pen' \in [Screen -> Pens] /\ \A e \in Screen : pen'[e].visible = pen[e].visible
  BY <1>1, FirstIsColour, ColouredPens DEF StyleInv
<1>3. StyleTypes'
  <2>1. /\ style'[s] = [style[s] EXCEPT !.list = @ \cup {d}, !.attribute = FirstColour(s), !.visible = TRUE, !.hides = FALSE]
        /\ style[s] \in Styles
    BY <1>1 DEF StyleInv, StyleTypes
  <2>2. style'[s] \in Styles
    BY <2>1, FirstIsColour DEF Styles
  <2> QED
    BY <1>1, <1>2, <2>2 DEF StyleInv, StyleTypes
<1>4. \A t \in Splitter : style'[t].hides => style'[t] = style[t]
  BY <1>1 DEF StyleInv, StyleTypes, Styles
<1> QED
  BY <1>1, <1>2, <1>3, <1>4, CursorsStay

LEMMA StyleDeleteDeviceKeeps ==
  ASSUME StyleInv, NEW s \in Splitter, NEW d \in Screen, DeleteDevice(s, d)
  PROVE  StyleInv'
<1> DEFINE lastOne == style[s].list = {d}
<1>1. /\ style' = [style EXCEPT ![s].list = @ \ {d}, ![s].visible = @ \/ lastOne, ![s].hides = @ /\ ~lastOne]
      /\ UNCHANGED <<pen, right>>
  BY DEF DeleteDevice
<1> HIDE DEF lastOne
<1>2. style[s] \in Styles /\ \A t \in Splitter \ {s} : style'[t] = style[t]
  BY <1>1 DEF StyleInv, StyleTypes
<1>3. style'[s] = [style[s] EXCEPT !.list = @ \ {d}, !.visible = @ \/ lastOne, !.hides = @ /\ ~lastOne]
  BY <1>1 DEF StyleInv, StyleTypes
<1>4. CASE lastOne
  <2>1. style'[s] = [style[s] EXCEPT !.list = @ \ {d}, !.visible = TRUE, !.hides = FALSE]
    BY <1>2, <1>3, <1>4 DEF Styles
  <2>2. style'[s] \in Styles /\ ~style'[s].hides
    BY <1>2, <2>1 DEF Styles
  <2>3. StyleTypes'
    BY <1>1, <2>2 DEF StyleInv, StyleTypes
  <2> QED
    BY <1>1, <1>2, <2>2, <2>3, CursorsStay
<1>5. CASE ~lastOne
  <2>1. style'[s] = [style[s] EXCEPT !.list = @ \ {d}]
    BY <1>2, <1>3, <1>5 DEF Styles
  <2>2. style'[s] \in Styles /\ style'[s].hides = style[s].hides /\ style'[s].visible = style[s].visible
        /\ style'[s].list \subseteq style[s].list
    BY <1>2, <2>1 DEF Styles
  <2>3. StyleTypes'
    BY <1>1, <2>2 DEF StyleInv, StyleTypes
  <2> QED
    BY <1>1, <1>2, <2>2, <2>3, CursorsStay
<1> QED
  BY <1>4, <1>5

\* A splitter hides the cursor on all its consoles; one that shows it ends the
\* other's hiding if they have a console in common, and touches none of the other's if not.
LEMMA EnableCursorKeeps ==
  ASSUME StyleInv, NEW s \in Splitter, NEW visible \in BOOLEAN, EnableCursor(s, visible)
  PROVE  StyleInv'
<1> DEFINE o == Other(s)
           stay == visible => ~Shares(s)
<1>1. o \in Splitter /\ o # s /\ \A t \in Splitter : t = s \/ t = o
  BY OtherIsTheOther
<1>2. style' = [style EXCEPT ![s].visible = visible, ![s].hides = ~visible, ![o].hides = @ /\ stay]
      /\ pen' = [d \in Screen |-> IF d \in style[s].list THEN [pen[d] EXCEPT !.visible = visible] ELSE pen[d]]
      /\ UNCHANGED right
  BY DEF EnableCursor
<1>3. style[s].list \cap style[o].list = {} \/ Shares(s)
  BY <1>1 DEF Shares, Splitter
<1> HIDE DEF o, stay
<1>4. style[s] \in Styles /\ style[o] \in Styles
  BY <1>1 DEF StyleInv, StyleTypes
<1>5. style'[s] = [style[s] EXCEPT !.visible = visible, !.hides = ~visible]
  BY <1>1, <1>2 DEF StyleInv, StyleTypes
<1>6. style'[o] = [style[o] EXCEPT !.hides = @ /\ stay]
  BY <1>1, <1>2 DEF StyleInv, StyleTypes
<1>7. \/ style'[o] = [style[o] EXCEPT !.hides = FALSE]
      \/ stay /\ style'[o] = style[o]
  <2>1. CASE stay
    BY <1>4, <1>6, <2>1 DEF Styles
  <2>2. CASE ~stay
    BY <1>4, <1>6, <2>2 DEF Styles
  <2> QED
    BY <2>1, <2>2
<1>8. style'[s] \in Styles /\ style'[o] \in Styles
  BY <1>4, <1>5, <1>7 DEF Styles
<1>9. pen' \in [Screen -> Pens] /\ \A d \in Screen : pen'[d].visible = IF d \in style[s].list THEN visible ELSE pen[d].visible
  BY <1>2 DEF StyleInv, StyleTypes, Pens
<1>10. StyleTypes'
  BY <1>1, <1>2, <1>8, <1>9 DEF StyleInv, StyleTypes
<1>11. TextInItsColours'
  BY <1>2 DEF StyleInv, StylesKept, TextInItsColours
<1>12. style'[s].hides => (\A d \in style'[s].list : ~pen'[d].visible) /\ ~style'[s].visible
  BY <1>4, <1>5, <1>9 DEF Styles
<1>13. style'[o].hides => (\A d \in style'[o].list : ~pen'[d].visible) /\ ~style'[o].visible
  <2> SUFFICES ASSUME style'[o].hides
               PROVE  (\A d \in style'[o].list : ~pen'[d].visible) /\ ~style'[o].visible
    OBVIOUS
  <2>1. stay /\ style'[o] = style[o]
    BY <1>4, <1>7 DEF Styles
  <2>2. (\A d \in style[o].list : ~pen[d].visible) /\ ~style[o].visible /\ style[o].list \subseteq Screen
    BY <1>1, <1>4, <2>1 DEF StyleInv, StylesKept, HiddenIsHidden, Styles
  <2>3. visible => style[s].list \cap style[o].list = {}
    BY <1>3, <2>1 DEF stay
  <2> QED
    BY <1>9, <2>1, <2>2, <2>3
<1> QED
  BY <1>1, <1>10, <1>11, <1>12, <1>13 DEF StyleInv, StylesKept, HiddenIsHidden

-----------------------------------------------------------------------------
\* Text is in the colours of the splitter it was written to, on every console, and
\* a hidden cursor that is reported so is hidden on every console of the
\* splitter, whatever the other one does with those they share (lines
\* 4626-4643, 4915-4932, 4980, 5096-5110).
THEOREM SplittersKeepTheirStyles == StyleSpec => []StylesKept
<1>1. StyleInit => StyleInv
  BY StyleInitHolds
<1>2. StyleInv /\ [StyleNext]_styleVars => StyleInv'
  <2> SUFFICES ASSUME StyleInv, [StyleNext]_styleVars
               PROVE  StyleInv'
    OBVIOUS
  <2>1. CASE StyleNext
    BY <2>1, StyleAddDeviceKeeps, StyleDeleteDeviceKeeps, SetAttributeKeeps, StyleOutputStringKeeps, StyleResetKeeps,
       StyleClearScreenKeeps, EnableCursorKeeps DEF StyleNext
  <2>2. CASE UNCHANGED styleVars
    BY <2>2 DEF styleVars, StyleInv, StyleTypes, StylesKept, TextInItsColours, HiddenIsHidden
  <2> QED
    BY <2>1, <2>2
<1>3. StyleInv => StylesKept
  BY DEF StyleInv
<1> QED
  BY <1>1, <1>2, <1>3, PTL DEF StyleSpec
===============================================================================
