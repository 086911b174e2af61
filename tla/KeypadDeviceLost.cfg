SPECIFICATION DeviceSpec
CONSTANTS
  Valid = {"VolumeDown", "Back", "Dial"}
  ReleaseTime = 1
  RepeatTime = 2
  LongTime = 3
  Deltas = {1, 2}
PROPERTY NoPressIsLostOnAnyKey
