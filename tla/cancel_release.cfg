SPECIFICATION Spec
CONSTANTS
  Backends = {b1, b2}
  SlotCount = 3
  QueueCapacity = 4
  MaxBatch = 2
  MaxRequests = 2
  Ops = {"write"}
  Answers = {"ok"}
  Env = {"cancel"}
  NULL = NULL
PROPERTY CanceledLeftToBgw
