SPECIFICATION SdSpec
CONSTANTS
  Cards <- MCPlain
  ScanLimit = 1
  MaxFaults = 0
  MaxSize = 2
INVARIANT DeviceErrorMeansError
CHECK_DEADLOCK FALSE
