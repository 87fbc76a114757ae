SPECIFICATION Spec
CONSTANTS
  Backends = {b1}
  Types = {"check"}
  Stores = {"s"}
  Settings = {"A", "B"}
  Unset = {}
  MaxBatch = 1
  MaxCalls = 1
  MaxFaults = 0
  MaxReloads = 2
  Env = {"reload"}
  NULL = NULL
INVARIANT ReloadApplied
