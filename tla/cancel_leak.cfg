SPECIFICATION FairSpec
CONSTANTS
  Backends = {b1}
  SlotCount = 3
  QueueCapacity = 4
  MaxBatch = 2
  MaxRequests = 2
  Ops = {"check"}
  Answers = {"allow"}
  Env = {"cancel"}
  NULL = NULL
PROPERTY CanceledReturned
CHECK_DEADLOCK FALSE
