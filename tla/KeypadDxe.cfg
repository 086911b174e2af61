SPECIFICATION Spec
CONSTANTS
  a = a
  null = null
  Free = Free
  Codes <- MCCodes
  NullCode = null
  Modifiers = {0, 1}
  DeviceKeys <- MCDeviceModifiedKeys
  Fns = {f, g}
  Handles = {h1, h2}
  Capacity = 2
  MaxStrokes = 2
INVARIANTS
  WaitForKeyIsHonest
  WalkCallsEveryMatch
  NoLostWakeup
PROPERTIES
  ReadsAreOrderedAndFresh
  NotificationsAreOrderedAndFresh
CHECK_DEADLOCK FALSE
