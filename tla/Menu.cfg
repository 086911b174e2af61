SPECIFICATION MenuSpec
CONSTANTS
  Countdown = 2
  Volumes = 1
INVARIANT BackBoots
CHECK_DEADLOCK FALSE
