SPECIFICATION Spec
CONSTANTS
  Backends = {b1, b2}
  Types = {"check"}
  Stores = {"s1", "s2"}
  Settings = {"A"}
  Unset = {}
  MaxBatch = 2
  MaxCalls = 2
  MaxFaults = 0
  MaxReloads = 0
  Env = {}
  NULL = NULL
INVARIANT OwnStore
