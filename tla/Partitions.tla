------------------------------- MODULE Partitions -------------------------------
(***************************************************************************)
(* The tables the modem leaves in shared memory (smem.c) and the copies the  *)
(* protocol of SmemPtableDxe makes of them: the flash partitions, handed on  *)
(* to a caller's table (ptable.c), and the usable RAM.  A client calls the    *)
(* protocol while the modem writes; the modem sets the allocated flag of an   *)
(* entry last.  Sizes of entries are counted in partitions.                  *)
(***************************************************************************)
EXTENDS Integers, SequencesExt, FiniteSets

CONSTANTS
  FlashTables,       \* bound: tables the modem may write; a record of version,
  RamTables,         \* magic, parts, and size, the room of the entry
  PartsV3, PartsV4,  \* 16 and 32 in the code
  MAX_PTABLE_PARTS   \* bound: 32 in the code

\* A name is the sequence of its words, what stands between the colons.  The
\* modem's RAM table has the parts that there is room for.
Partition == [name : Seq(STRING), start : Nat, kind : {"system", "none"}]
ASSUME PartitionsAssumption ==
  /\ PartsV3 \in Nat /\ PartsV4 \in Nat /\ PartsV3 <= PartsV4 /\ MAX_PTABLE_PARTS \in Nat
  /\ \A t \in FlashTables \cup RamTables :
       t.version \in Nat /\ t.magic \in BOOLEAN /\ t.size \in Nat /\ t.parts \in Seq(Partition)
  /\ \A t \in RamTables : Len(t.parts) <= PartsV4

VARIABLES
  smem,          \* shared memory: an entry for each table
  partPc,        \* where the client's call is
  smem_ptable,   \* the copy of the flash table
  appsStart,     \* smem_apps_flash_start
  flash,         \* the caller's partition table
  untouched,     \* history: the copy's names have not been taken apart
  clean,         \* history: nor had they when partitions were added
  version,       \* the version smem_ram_ptable_init_v1 has read
  ram,           \* ptable, the copy of the RAM table
  ramLoaded      \* history: smem_ram_ptable_init_v1 has returned 1

flashVars == <<smem_ptable, appsStart, flash, untouched, clean>>
ramVars == <<version, ram, ramLoaded>>
partVars == <<smem, partPc, flashVars, ramVars>>

Entries == {"flash", "ram"}
NoStart == -1

Unnamed == [name |-> <<>>, start |-> 0, kind |-> "none"]
Apps == <<"0", "APPS">>

\* Zeroed memory, of one more word: which halves the modem has written.
Blank == [version |-> 0, magic |-> FALSE, parts |-> <<>>, size |-> 0,
          header |-> FALSE, filled |-> FALSE, allocated |-> FALSE]
NoTable == [magic |-> FALSE, version |-> 0, len |-> 0, parts |-> [i \in 1..PartsV4 |-> Unnamed]]

PartInit ==
  /\ smem = [e \in Entries |-> Blank] /\ partPc = "idle"
  /\ smem_ptable = NoTable /\ appsStart = NoStart
  /\ flash = <<>> /\ untouched = TRUE /\ clean = TRUE
  /\ version = 0 /\ ram = NoTable /\ ramLoaded = FALSE

-----------------------------------------------------------------------------
(* The modem.                                                              *)

Tables(e) == IF e = "flash" THEN FlashTables ELSE RamTables

Modem(e) ==
  /\ \/ /\ ~smem[e].header
        /\ \E t \in Tables(e) : smem' = [smem EXCEPT ![e] = [version |-> t.version, magic |-> t.magic,
              parts |-> t.parts, size |-> t.size, header |-> TRUE, filled |-> FALSE, allocated |-> FALSE]]
     \/ smem[e].header /\ ~smem[e].filled /\ smem' = [smem EXCEPT ![e].filled = TRUE]
     \/ smem[e].filled /\ ~smem[e].allocated /\ smem' = [smem EXCEPT ![e].allocated = TRUE]
  /\ UNCHANGED <<partPc, flashVars, ramVars>>

-----------------------------------------------------------------------------
(* smem.c.                                                                 *)

Readable(e) == smem[e].allocated

\* smem_read_alloc_entry_offset does not look at the size, smem_read_alloc_entry
\* does.
ReadHeader(e) == Readable(e)
ReadEntry(e, parts) == Readable(e) /\ smem[e].size >= parts

Length(e) == Len(smem[e].parts)
Part(e, i) == IF smem[e].filled /\ i <= Length(e) THEN smem[e].parts[i] ELSE Unnamed

-----------------------------------------------------------------------------
(* The flash partitions.                                                   *)

\* Where an ASSERT fails the model ends: past it the code reads and writes beyond
\* a table, or uses a length that was never set.
Dead == partPc' = "assert"

PartsOf(v) == IF v <= 3 THEN PartsV3 ELSE PartsV4

\* smem_ptable_init, to line 93: the header.
InitHeader ==
  /\ partPc = "idle"
  /\ IF ReadHeader("flash")
     THEN /\ smem_ptable' = [smem_ptable EXCEPT !.magic = smem["flash"].magic,
                               !.version = smem["flash"].version, !.len = Length("flash")]
          /\ IF ~smem["flash"].magic THEN UNCHANGED partPc
             ELSE IF Length("flash") > PartsV4 \/ smem["flash"].version > 4 THEN Dead ELSE partPc' = "table"
     ELSE UNCHANGED <<partPc, smem_ptable>>
  /\ UNCHANGED <<smem, appsStart, flash, untouched, clean, ramVars>>

\* The start of the first APPS partition of a table of this length.
StartIn(parts, len, former) ==
  LET apps == {i \in 1..len : parts[i].name = Apps} IN
  IF apps = {} THEN former ELSE parts[CHOOSE i \in apps : \A j \in apps : i <= j].start

\* Mutant: a table that was read before is not read again.
InitTable_Cached ==
  /\ partPc = "table" /\ partPc' = "idle"
  /\ IF appsStart # NoStart THEN UNCHANGED <<smem_ptable, appsStart>>
     ELSE /\ smem_ptable' = [smem_ptable EXCEPT !.parts =
                [i \in 1..PartsV4 |-> IF i <= PartsOf(smem_ptable.version) THEN Part("flash", i) ELSE @[i]]]
          /\ appsStart' = StartIn(smem_ptable'.parts, smem_ptable.len, appsStart)
  /\ untouched' = TRUE
  /\ UNCHANGED <<smem, flash, clean, ramVars>>

\* The rest: the table with its header once more, and the search.
InitTable ==
  /\ partPc = "table"
  /\ IF ReadEntry("flash", PartsOf(smem_ptable.version))
     THEN /\ smem_ptable' = [smem_ptable EXCEPT !.len = Length("flash"), !.version = smem["flash"].version,
               !.parts = [i \in 1..PartsV4 |->
                            IF i <= PartsOf(smem_ptable.version) THEN Part("flash", i) ELSE @[i]]]
          /\ appsStart' = StartIn(smem_ptable'.parts, smem_ptable'.len, appsStart)
          /\ partPc' = "idle" /\ untouched' = TRUE
     ELSE Dead /\ UNCHANGED <<smem_ptable, appsStart, untouched>>
  /\ UNCHANGED <<smem, flash, clean, ramVars>>

\* strtok puts a zero behind each word it returns, and what is left of the name
\* is its first word.
PartitionName(p) == Last(p.name)
TakenApart(p) == IF p.name = <<>> THEN p ELSE [p EXCEPT !.name = <<p.name[1]>>]

\* ptable_add: its entry for a partition.
PtableAdd(p) == [name |-> PartitionName(p), start |-> p.start]

\* The entries of the partitions with a name, one after the other.
Listed(parts, len) ==
  LET named == {i \in 1..len : parts[i].name # <<>>}
      place == CHOOSE f \in [1..Cardinality(named) -> named] : \A i, j \in DOMAIN f : i < j => f[i] < f[j] IN
  [i \in 1..Cardinality(named) |-> PtableAdd(parts[place[i]])]

\* smem_add_modem_partitions
AddModemPartitions ==
  LET new == Listed(smem_ptable.parts, smem_ptable.len) IN
  /\ partPc = "idle" /\ smem_ptable.magic
  /\ IF Len(flash) + Len(new) > MAX_PTABLE_PARTS THEN Dead /\ UNCHANGED flashVars
     ELSE /\ flash' = flash \o new
          /\ smem_ptable' = [smem_ptable EXCEPT !.parts =
               [i \in 1..PartsV4 |-> IF i <= smem_ptable.len THEN TakenApart(@[i]) ELSE @[i]]]
          /\ clean' = (clean /\ untouched) /\ untouched' = FALSE
          /\ UNCHANGED <<partPc, appsStart>>
  /\ UNCHANGED <<smem, ramVars>>

\* ptable_init, by the client that owns the table.
PtableInit ==
  /\ partPc = "idle" /\ flash' = <<>> /\ clean' = TRUE
  /\ UNCHANGED <<smem, partPc, smem_ptable, appsStart, untouched, ramVars>>

-----------------------------------------------------------------------------
(* The usable RAM.                                                         *)

\* smem_ram_ptable_init_v1, to line 228.
RamVersion ==
  /\ partPc = "idle"
  /\ IF ReadHeader("ram")
     THEN /\ version' = smem["ram"].version
          /\ IF version' > 2 THEN Dead ELSE partPc' = "ram"
     ELSE UNCHANGED <<partPc, version>>
  /\ UNCHANGED <<smem, flashVars, ram, ramLoaded>>

\* The parts smem_copy_ram_ptable copies: the last form of the table as a whole.
Copied(v, len) == IF v = 2 THEN PartsV4 ELSE len

CopyRamTable ==
  LET len == Length("ram") IN
  ram' = [magic |-> TRUE, version |-> smem["ram"].version, len |-> len,
          parts |-> [i \in 1..PartsV4 |->
                       IF i <= Copied(smem["ram"].version, len) THEN Part("ram", i) ELSE ram.parts[i]]]

RamTable ==
  /\ partPc = "ram" /\ partPc' = "idle"
  /\ IF ReadEntry("ram", PartsV4) /\ smem["ram"].magic
     THEN CopyRamTable /\ ramLoaded' = TRUE
     ELSE UNCHANGED <<ram, ramLoaded>>
  /\ UNCHANGED <<smem, flashVars, version>>

\* get_ddr_start: the first system memory, aligned to 1 MB or not, for an ASSERT
\* of the builds prints and goes on; 0 without any.
DdrStart(table) ==
  LET system == {i \in 1..table.len : table.parts[i].kind = "system"} IN
  IF system = {} THEN 0 ELSE table.parts[CHOOSE i \in system : \A j \in system : i <= j].start

-----------------------------------------------------------------------------
ClientStep == InitHeader \/ InitTable \/ AddModemPartitions \/ PtableInit \/ RamVersion \/ RamTable
PartNext == ClientStep \/ \E e \in Entries : Modem(e)
PartSpec == PartInit /\ [][PartNext]_partVars

-----------------------------------------------------------------------------
(* Properties.                                                             *)

\* The modem's partitions, as far as the entry of its version goes.
Published ==
  [i \in 1..PartsV4 |->
     IF i <= PartsOf(smem["flash"].version) /\ i <= Length("flash") THEN smem["flash"].parts[i] ELSE Unnamed]
Wanted == Listed(Published, Length("flash"))

\* The caller's table holds the modem's partitions, each under the last word of
\* its name, if the copy was made anew before each call that takes the names
\* apart (smem_add_modem_partitions, lines 127-143).
PartitionsAsPublished ==
  clean => \A i \in DOMAIN flash : flash[i] = Wanted[((i - 1) % Len(Wanted)) + 1]

\* The flash of the applications starts where the modem says, however early the
\* table was asked for (smem_ptable_init, lines 59-115).
AppsStartPublished ==
  partPc = "idle" /\ smem_ptable.magic => appsStart = StartIn(Published, Length("flash"), NoStart)

\* RAM starts where the modem says, in every form of its table (lines 146-198,
\* 259-280).
RamAsPublished ==
  ramLoaded => DdrStart(ram) = DdrStart([parts |-> smem["ram"].parts, len |-> Length("ram")])

\* What the drivers and applications find is what the modem has published, in
\* both tables, in every form, and whenever they ask.
TablesAsPublished == PartitionsAsPublished /\ AppsStartPublished /\ RamAsPublished
=============================================================================
