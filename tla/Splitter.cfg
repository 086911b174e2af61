CONSTANTS
  Device = {d1, d2, d3}
  ExDevice = {d1, d2}
  Unit = 1
  KeyBound = 2
  Reg <- MCReg
  SyncReg <- MCSyncReg
  PointerKind <- MCPointerKind
  Resolution <- MCResolution
  Lowest <- MCLowest
  Highest <- MCHighest
  Pointer = {m1, m2, t1, t2}
  m1 = m1
  m2 = m2
  t1 = t1
  t2 = t2
  PointerUnit = 1
  Travel = 1
  VirtualResolution = 4
  VirtualMax = 8
  Gop = {"a", "b", "c"}
  Res <- MCRes
  Default = "800x600"
  Controller = {"a", "b"}
  Extended = {"a"}
  Screen = {"a", "b"}
  TextDevice = {"a", "b", "c"}
  ModeSizes <- MCModes
  NoSize = "0x0"
  Base = "40x12"
  Preferred = "60x42"
  Cell = {0, 1}
  Foregrounds = {"lightgray", "magenta"}
  Backgrounds = {"black", "blue"}
SPECIFICATION MCSpec
SYMMETRY Symmetry
INVARIANTS
  ListsInStep
  InputAgrees
  PointersAgree
  ConsolesAgree
  GraphicsAgree
  HeldAsListed
  StylesKept
CHECK_DEADLOCK FALSE
