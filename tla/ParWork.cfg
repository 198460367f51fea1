CONSTANTS
  Items = {a, b, c}
  NoItem = none
  MaxRunners = 3
SPECIFICATION FairSpec
CHECK_DEADLOCK FALSE
INVARIANTS
  AtMostOnce
  NoEarlyReturn
  NoLostWakeup
PROPERTIES
  Implements
  AllReturn
