SPECIFICATION Spec
CONSTANTS
  Backends = {b1, b2}
  SlotCount = 2
  QueueCapacity = 4
  MaxBatch = 2
  MaxRequests = 3
  Ops = {"check", "write"}
  Answers = {"allow", "ok"}
  Env = {"nostore"}
  NULL = NULL
SYMMETRY Symmetry
INVARIANTS SlotExclusive FreeListExact RequestInOnePlace NoOrphan AnswerIsMine NoLostWakeup LostOnlyByCheck ExhaustedOnlyByLoss
PROPERTIES RpcWritesOwnRequest ImplementsService
