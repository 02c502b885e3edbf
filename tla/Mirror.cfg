SPECIFICATION FairSpec
CONSTANTS
  s1 = s1  s2 = s2
  Serials = {s1}
  MaxStarts = 3
  PortRangeMax = 3
CHECK_DEADLOCK FALSE
INVARIANTS SessionsInv NoZombie
PROPERTIES StartingCleared CancelledEnds
