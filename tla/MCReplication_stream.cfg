CONSTANTS
  f1 = f1
  Followers = {f1}
  Conns = {c1, c2}
  c1 = c1
  c2 = c2
  NotifyWorks = TRUE
  ShortSends = TRUE
  EraseLeaves = {"run", "lost"}
  MaxOffset = 2
  MaxQueued = 2
  MaxFaults = 1
SPECIFICATION Spec
CHECK_DEADLOCK FALSE
INVARIANTS FollowerInOrder AckedIsHeld InFlightGenuine
PROPERTIES ImplementsReplicaLog
