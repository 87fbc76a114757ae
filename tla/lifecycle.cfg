SPECIFICATION FairSpec
CONSTANTS
  Backends = {b1, b2}
  Types = {"check", "write"}
  Stores = {"s"}
  Settings = {"A", "empty"}
  Unset = {"empty"}
  MaxBatch = 2
  MaxCalls = 2
  MaxFaults = 1
  MaxReloads = 1
  Env = {"error", "reload", "term", "crash"}
  NULL = NULL
INVARIANTS TypeOK OkIsDecided SighupHarmless NoLatchOnlyOutsideService
PROPERTIES QueuedServed
