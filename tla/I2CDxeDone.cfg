SPECIFICATION I2CSpec
CONSTANTS
  Transfers <- MCShort
  Retries = 1
INVARIANT SuccessMeansDone
