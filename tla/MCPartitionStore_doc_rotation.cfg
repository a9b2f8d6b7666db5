CONSTANTS
  Torn = Torn
  Garbage = Garbage
  Values = {v1}
  Sizes = {1}
  LOG_RECORD_HEADER_SIZE = 1
  INDEX_INTERVAL = 2
  LOG_SEGMENT_MAX_BYTES = 4
  queue_capacity = 2
  max_pending_bytes = 2
  max_batch_records = 2
  max_batch_bytes = 8
  flush_every_records = 2
  Callbacks = {}
  Consumers = {k1}
  FetchSizes = {1}
  MaxOffset = 4
  MaxCrashes = 0
  TailFaults = {"torn"}
SPECIFICATION Spec
INVARIANTS
  CommittedIsFetchable
