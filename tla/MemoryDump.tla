------------------------------- MODULE MemoryDump -------------------------------
(***************************************************************************)
(* Dumping memory to a file from the menu: the hexadecimal input of          *)
(* HexInput.c, first for the address and then for the length, with three     *)
(* keys, and the file of MemoryTools.c.                                     *)
(***************************************************************************)
EXTENDS Naturals, FiniteSets

CONSTANTS
  HEX_LENGTH, \* digits of a number: 8 in the code
  Digits      \* bound: how many digits the Windows key goes through, 16 in the code

ASSUME DumpAssumption == {HEX_LENGTH, Digits} \subseteq Nat \ {0}

VARIABLES
  stage,
  number,    \* which number is entered: "address", then "length"
  Key, got,  \* the key that was read, and whether one was pressed
  Index, HexCharIndex, OldHexCharIndex, HexBuffer,
  result,    \* the numbers that were entered
  open       \* the handles of the file system that are open

dumpVars == <<stage, number, Key, got, Index, HexCharIndex, OldHexCharIndex, HexBuffer, result, open>>
input == <<Index, HexCharIndex, OldHexCharIndex, HexBuffer>>

Keys == {"escape", "return", "tab", "backspace", "other"}
Zeros == [i \in 0..HEX_LENGTH - 1 |-> 0]

DumpInit ==
  /\ stage = "menu" /\ number = "address" /\ Key = "null" /\ got = FALSE
  /\ Index = 0 /\ HexCharIndex = 0 /\ OldHexCharIndex = Zeros /\ HexBuffer = Zeros
  /\ result = [address |-> Zeros, length |-> Zeros] /\ open = {}

\* GetHexInput's beginning: the static buffer is filled with zeros again.
GetHexInput(which) ==
  /\ number' = which /\ stage' = "read"
  /\ Index' = 0 /\ HexCharIndex' = 0 /\ OldHexCharIndex' = Zeros /\ HexBuffer' = Zeros

DumpMemory2Sdcard ==
  /\ stage = "menu" /\ GetHexInput("address")
  /\ result' = [address |-> Zeros, length |-> Zeros]
  /\ UNCHANGED <<Key, got, open>>

\* ConSplitter.c clears the caller's key before it asks the devices: what
\* ReadKeyStroke returns is not looked at.
NoKey == "null"

ReadKeyStroke(pressed) ==
  /\ stage = "read" /\ stage' = "handle"
  /\ got' = (pressed # "none")
  /\ Key' = IF pressed = "none" THEN NoKey ELSE pressed
  /\ UNCHANGED <<number, input, result, open>>

\* The digit of the next place is the one that it has.
NextDigit ==
  /\ Key = "escape" /\ stage' = "read"
  /\ IF Index < HEX_LENGTH - 1
     THEN /\ OldHexCharIndex' = [OldHexCharIndex EXCEPT ![Index] = HexCharIndex]
          /\ Index' = Index + 1 /\ HexCharIndex' = OldHexCharIndex'[Index + 1]
     ELSE UNCHANGED <<OldHexCharIndex, Index, HexCharIndex>>
  /\ UNCHANGED <<number, HexBuffer, result, open>>

Cycle ==
  /\ Key = "tab" /\ stage' = "read"
  /\ HexCharIndex' = (HexCharIndex + 1) % Digits
  /\ HexBuffer' = [HexBuffer EXCEPT ![Index] = HexCharIndex']
  /\ OldHexCharIndex' = [OldHexCharIndex EXCEPT ![Index] = HexCharIndex']
  /\ UNCHANGED <<number, Index, result, open>>

\* Mutant: the digit that is cycled from is not that of the place before.
PreviousDigit_Stays ==
  /\ Key = "backspace" /\ stage' = "read"
  /\ Index' = IF Index > 0 THEN Index - 1 ELSE 0
  /\ HexBuffer' = [HexBuffer EXCEPT ![Index'] = OldHexCharIndex[Index']]
  /\ UNCHANGED <<number, OldHexCharIndex, HexCharIndex, result, open>>

PreviousDigit ==
  /\ Key = "backspace" /\ stage' = "read"
  /\ Index' = IF Index > 0 THEN Index - 1 ELSE 0
  /\ HexBuffer' = [HexBuffer EXCEPT ![Index'] = OldHexCharIndex[Index']]
  /\ HexCharIndex' = OldHexCharIndex[Index']
  /\ UNCHANGED <<number, OldHexCharIndex, result, open>>

\* DumpMemory2SdcardHelper takes the number out of the buffer at once.
Complete ==
  /\ Key = "return"
  /\ result' = [result EXCEPT ![number] = HexBuffer]
  /\ IF number = "address" THEN GetHexInput("length")
     ELSE stage' = "locate" /\ UNCHANGED <<number, input>>
  /\ UNCHANGED open

HandleKey ==
  /\ stage = "handle" /\ UNCHANGED <<Key, got>>
  /\ \/ NextDigit \/ Cycle \/ PreviousDigit \/ Complete
     \/ /\ Key \notin {"escape", "tab", "backspace", "return"}
        /\ stage' = "read" /\ UNCHANGED <<number, input, result, open>>

\* DumpDmesg writes its file without any input.
DumpDmesg ==
  /\ stage = "menu" /\ stage' = "locate"
  /\ UNCHANGED <<number, Key, got, input, result, open>>

-----------------------------------------------------------------------------
(* ReadMemoryAndWriteToFile: each call may fail.                            *)

Locate(works) ==
  /\ stage = "locate" /\ stage' = IF works THEN "volume" ELSE "menu"
  /\ UNCHANGED <<number, Key, got, input, result, open>>

OpenVolume(works) ==
  /\ stage = "volume" /\ stage' = IF works THEN "file" ELSE "menu"
  /\ open' = IF works THEN {"root"} ELSE open
  /\ UNCHANGED <<number, Key, got, input, result>>

Open(works) ==
  /\ stage = "file" /\ stage' = IF works THEN "write" ELSE "menu"
  /\ open' = IF works THEN open \cup {"file"} ELSE {}
  /\ UNCHANGED <<number, Key, got, input, result>>

\* A write that fails is logged; both are closed either way.
WriteFile ==
  /\ stage = "write" /\ stage' = "menu" /\ open' = {}
  /\ UNCHANGED <<number, Key, got, input, result>>

DumpNext ==
  \/ DumpMemory2Sdcard \/ DumpDmesg \/ HandleKey \/ WriteFile
  \/ \E pressed \in Keys \cup {"none"} : ReadKeyStroke(pressed)
  \/ \E works \in BOOLEAN : Locate(works) \/ OpenVolume(works) \/ Open(works)
DumpSpec == DumpInit /\ [][DumpNext]_dumpVars

-----------------------------------------------------------------------------
(* Properties.                                                             *)

\* What the screen shows at a place is where the Windows key goes on from when
\* one comes back to it (GetHexInput, lines 31-66).
DigitsAgree ==
  stage \in {"read", "handle"} =>
    HexBuffer = OldHexCharIndex /\ HexCharIndex = HexBuffer[Index]

\* The number changes only by a key that was pressed, once for each (line 29).
OncePerKey == stage = "handle" /\ stage' = "read" /\ ~got => UNCHANGED input

\* The two numbers share a buffer and are those that were shown when Dial was
\* pressed (DumpMemory2SdcardHelper, lines 82-106).
NumbersAsShown ==
  stage = "handle" /\ Key = "return" =>
    result'[number] = HexBuffer /\ (number = "length" => result'.address = result.address)

\* No handle stays open (ReadMemoryAndWriteToFile, lines 3-65).
AllClosed == stage = "menu" => open = {}

\* The dump takes the two numbers that were entered, key by key, and leaves no
\* handle open, whatever the file system refuses.
DumpAsEntered == [][OncePerKey /\ NumbersAsShown /\ DigitsAgree' /\ AllClosed']_dumpVars
=============================================================================
