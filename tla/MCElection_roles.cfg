CONSTANTS
  b1 = b1
  b2 = b2
  b3 = b3
  none = none
  Brokers = {b1, b2, b3}
  Phantom = none
  Leaders = {b1, none}
  MaxOffset = 1
  MaxEpoch = 5
  MaxFaults = 2
SPECIFICATION FairSpec
CHECK_DEADLOCK FALSE
  
PROPERTIES  FollowerActs
