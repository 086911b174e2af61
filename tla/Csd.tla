---------------------------------- MODULE Csd ----------------------------------
(***************************************************************************)
(* The size of an SD card from its CSD register (mmc_decode_csd).  The card  *)
(* sends 128 bits as four words of 32, the most significant first.  A word   *)
(* is kept as the set of its bits that are one.                             *)
(***************************************************************************)
EXTENDS Integers, FiniteSetsExt

CONSTANTS
  Structures,  \* bound: CSD_STRUCTURE, 0 for standard and 1 for high capacity
  Lengths,     \* bound: READ_BL_LEN
  Sizes,       \* bound: C_SIZE, Sizes[structure]
  Multipliers, \* bound: C_SIZE_MULT, of a standard card
  Noises       \* bound: what all other bits are, a set of Booleans

VARIABLES
  csd,      \* the fields of the card's register
  resp,     \* the four words of the response
  mmc_dev,  \* what the driver makes of them
  csdPc

csdVars == <<csd, resp, mmc_dev, csdPc>>

\* The places of the fields in the register: first bit and width.
Field(structure) ==
  [structure |-> <<126, 2>>, length |-> <<80, 4>>,
   size |-> IF structure = 0 THEN <<62, 12>> ELSE <<48, 22>>, multiplier |-> <<47, 3>>]

BitsOf(value, width) == {b \in 0..width - 1 : (value \div 2^b) % 2 = 1}
ValueOf(bits) == SumSet({2^b : b \in bits})

\* The register of a card: its fields, and noise for the rest.
Register(c) ==
  LET names == {"structure", "length", "size"} \cup IF c.structure = 0 THEN {"multiplier"} ELSE {}
      at(n) == Field(c.structure)[n]
      places(n) == at(n)[1]..at(n)[1] + at(n)[2] - 1
      ones(n) == {at(n)[1] + b : b \in BitsOf(c[n], at(n)[2])}
  IN UNION {ones(n) : n \in names} \cup
     IF c.noise THEN 0..127 \ UNION {places(n) : n \in names} ELSE {}

CsdInit ==
  /\ csd \in UNION {[structure : {s}, length : Lengths, size : Sizes[s + 1],
                     multiplier : Multipliers, noise : Noises] : s \in Structures}
  /\ LET register == Register(csd) IN
     resp = [w \in 0..3 |-> {b \in 0..31 : 32 * (3 - w) + b \in register}]
  /\ mmc_dev = [set |-> FALSE, blksz |-> 0, lba |-> 0]
  /\ csdPc = "decode"

-----------------------------------------------------------------------------
(* The decoding.                                                           *)

ShiftRight(word, n) == {b - n : b \in {c \in word : c >= n}}
ShiftLeft(word, n) == {b + n : b \in {c \in word : c + n < 32}}

\* Mutant: a field is looked for in one word only.
UNSTUFF_BITS_OneWord(start, size) ==
  {b \in ShiftRight(resp[3 - start \div 32], start % 32) : b < size}

\* UNSTUFF_BITS: a field of up to 32 bits, which may go on in the next word.
UNSTUFF_BITS(start, size) ==
  LET off == 3 - start \div 32
      shft == start % 32
      word == ShiftRight(resp[off], shft) \cup
              IF size + shft > 32 THEN ShiftLeft(resp[off - 1], (32 - shft) % 32) ELSE {}
  IN {b \in word : b < size}

Unstuff(start, size) == ValueOf(UNSTUFF_BITS(start, size))

Mult == 2^(Unstuff(47, 3) + 2)

IsHighCapacity == Unstuff(126, 2) = 1

\* mmc_decode_csd.  The 16 bits it takes of a high capacity card's 22 are those
\* that a card of up to 32 GB has.
mmc_decode_csd ==
  /\ csdPc = "decode" /\ csdPc' = "done"
  /\ mmc_dev' =
       CASE Unstuff(126, 2) = 0 -> [set |-> TRUE, blksz |-> 2^Unstuff(80, 4), lba |-> (1 + Unstuff(62, 12)) * Mult]
         [] IsHighCapacity -> [set |-> TRUE, blksz |-> 2^Unstuff(80, 4), lba |-> (1 + Unstuff(48, 16)) * 1024]
         [] OTHER -> mmc_dev
  /\ UNCHANGED <<csd, resp>>

CsdNext == mmc_decode_csd
CsdSpec == CsdInit /\ [][CsdNext]_csdVars

-----------------------------------------------------------------------------
(* Properties.                                                             *)

\* The blocks of the card, by the SD specification.
Blocks == IF csd.structure = 0 THEN (csd.size + 1) * 2^(csd.multiplier + 2) ELSE (csd.size + 1) * 1024

\* The driver's size is the card's, wherever the fields lie in the words, for
\* every card of up to 65536 units; no card at all is taken for larger than it is,
\* and none of an unknown structure is used (mmc.c, lines 379-391, 482-541).
SizeIsTheCards ==
  /\ csdPc = "done" /\ csd.structure \in {0, 1} /\ csd.size < 2^16 =>
       mmc_dev = [set |-> TRUE, blksz |-> 2^csd.length, lba |-> Blocks]
  /\ mmc_dev.lba <= Blocks /\ (csd.structure > 1 => ~mmc_dev.set)
=============================================================================
