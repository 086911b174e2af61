SPECIFICATION MCSpec
CONSTANTS
  a = a
  null = null
  Free = Free
  Codes <- MCCodes
  NullCode = null
  Modifiers = {0}
  DeviceKeys <- MCDeviceKeys
  Fns = {f}
  Handles = {h1}
  Capacity = 2
  MaxStrokes = 2
  Depth = 2
  Periods <- MCPeriods

  
PROPERTIES
  AllAreServed
CHECK_DEADLOCK FALSE
