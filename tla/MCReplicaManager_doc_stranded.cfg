CONSTANTS
  Replicas = {b0, b1, b2}
  Leader = b0
  Live = {b1, b2}
  Evictable = {}
  acks = "all"
  max_lag = 1
  Attached = {TRUE, FALSE}
  MaxOffset = 2
SPECIFICATION Spec
INVARIANTS
  ReadyIsReleased
CHECK_DEADLOCK FALSE
