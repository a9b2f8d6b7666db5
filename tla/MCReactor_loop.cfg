CONSTANTS
  Clients = {c1, c2}
  Fds = {1}
  Kinds = {"now", "later", "bad"}
  HighWater = 0
  SocketBuffer = 1
  MaxRequests = 2
  Wakes = {TRUE, FALSE}
  Unreliable = {c1, c2}
SPECIFICATION FairSpec
INVARIANTS
  InterestExact
  AnsweredOnce
  ImmediateInOrder
PROPERTIES
  EventuallyAnswered
  ReadAgain
CHECK_DEADLOCK FALSE
