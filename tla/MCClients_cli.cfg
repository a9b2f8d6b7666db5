CONSTANTS
  latest = latest
  no_key = no_key
  NumBrokers = 3
  MaxParts = 2
  MaxFaults = 1
  Messages = 2
  MaxQueued = 1
  Offsets = {0, latest}
  Latest = latest
  Keys = {no_key, 1}
  NoKey = no_key
  Asked = {2}
  RetryOnBusy = TRUE
  Bootstrap = 0
  Part = 1
SPECIFICATION FairSpec
INVARIANTS
  
  ReportedIsLogged
  KeyedTogether
  CreatedComplete
PROPERTIES
  ProducerEnds
  
\* The producer ends, and the consumer waits for a topic that nobody creates.
CHECK_DEADLOCK FALSE
