CONSTANTS
  Replicas = {b0, b1, b2}
  Leader = b0
  Live = {b1, b2}
  Evictable = {b2}
  acks = "all"
  max_lag = 1
  Attached = {TRUE, FALSE}
  MaxOffset = 2
SPECIFICATION FairSpec
INVARIANTS
  ManagerInv
  ReleasedHasQuorum
  AnsweredOnce
  EarlyIsReleased
PROPERTIES
  EarlyIsCommitted
CHECK_DEADLOCK FALSE
