CONSTANTS
  f1 = f1
  Followers = {f1}
  Conns = {c1, c2}
  c1 = c1
  c2 = c2
  NotifyWorks = TRUE
  ShortSends = FALSE
  EraseLeaves = {"run", "lost"}
  MaxOffset = 2
  MaxQueued = 1
  MaxFaults = 0
SPECIFICATION FairSpec
CHECK_DEADLOCK FALSE
PROPERTIES FollowerCatchesUp 
