SPECIFICATION MCSpec
CONSTANTS
  Turn = 16
  Gap = 3
  Delays <- MCDelays
  Raws <- MCRaws
  Retries = 1
INVARIANTS
  DelayExact
PROPERTIES
  PinsAsAsked
  StopsInTime
  BoardGoesOn
CHECK_DEADLOCK FALSE
