CONSTANTS
  f1 = f1
  Followers = {f1}
  Conns = {c1}
  c1 = c1
  c2 = c2
  NotifyWorks = TRUE
  ShortSends = FALSE
  EraseLeaves = {"run"}
  MaxOffset = 3
  MaxQueued = 2
  MaxFaults = 0
SPECIFICATION Spec
CHECK_DEADLOCK FALSE
INVARIANT AckedIsStored
