SPECIFICATION Spec
CONSTANTS
  Backends = {b1, b2, b3}
  SlotCount = 3
  QueueCapacity = 4
  MaxBatch = 2
  MaxRequests = 3
  Ops = {"check"}
  Answers = {"allow"}
  Env = {"exit"}
  NULL = NULL
PROPERTY WaitAssert
