SPECIFICATION MCSpec
CONSTANTS
  Keys = {k1, k2, k3}
  NoKey = NoKey
  MaxCount <- MCMaxCount
  Valid = {"VolumeUp", "VolumeDown", "Dial"}
  ReleaseTime = 1
  RepeatTime = 2
  LongTime = 3
  Deltas = {1, 2}
  Transfers <- MCTransfers
  Retries = 1
  Cards <- MCCards
  ScanLimit = 1
  MaxFaults = 2
  MaxSize = 3
  FlashTables <- MCFlash
  RamTables <- MCRam
  PartsV3 = 2
  PartsV4 = 3
  MAX_PTABLE_PARTS = 5
INVARIANTS
  NothingDangles
  ResultExplained
  TransfersInPlace
  SuccessIsExplained
  CardReady
  SizeIsTheCards
  TablesAsPublished
PROPERTIES
  ImplementsFifo
  PressesReported
  LedGoesDark
  TransfersReturn
CHECK_DEADLOCK FALSE
