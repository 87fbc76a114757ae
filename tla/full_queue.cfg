SPECIFICATION Spec
CONSTANTS
  Backends = {b1, b2, b3}
  SlotCount = 2
  QueueCapacity = 2
  MaxBatch = 2
  MaxRequests = 3
  Ops = {"check"}
  Answers = {"allow"}
  Env = {}
  NULL = NULL
SYMMETRY Symmetry
INVARIANTS IInv TypeOK SlotExclusive FreeListExact
