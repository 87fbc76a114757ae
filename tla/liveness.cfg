SPECIFICATION FairSpec
CONSTANTS
  Backends = {b1, b2}
  SlotCount = 3
  QueueCapacity = 4
  MaxBatch = 1
  MaxRequests = 2
  Ops = {"check", "write"}
  Answers = {"deny", "fail"}
  Env = {"signal"}
  NULL = NULL
INVARIANTS NoStrandedRequest
PROPERTIES CallReturns ImplementsService
