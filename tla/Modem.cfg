SPECIFICATION MCSpec
CONSTANTS
  Levels = 2
  Pins = 1
  Rates <- MCRates
  Together = 2
INVARIANTS
  UndisturbedAreServed
  ResetFindsReason
  SpeedForRate
PROPERTIES
  CallsReturn
  ClockedThroughout
CHECK_DEADLOCK FALSE
