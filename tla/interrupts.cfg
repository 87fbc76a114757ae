SPECIFICATION Spec
CONSTANTS
  Backends = {b1, b2}
  SlotCount = 1
  QueueCapacity = 2
  MaxBatch = 1
  MaxRequests = 3
  Ops = {"check"}
  Answers = {"fail"}
  Env = {"cancel", "die", "exit"}
  NULL = NULL
SYMMETRY Symmetry
INVARIANTS NoLostCompletion
CHECK_DEADLOCK FALSE
