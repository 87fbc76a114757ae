SPECIFICATION Spec
CONSTANTS
  Backends = {b1, b2}
  Hashes = {h1, h2, h3}
  Low <- MCLow
  Garbage = {p}
  L1NumSets = 1
  Capacity = 2
  UsageMax = 1
  UsageModulus = 256
  HandModulus = 3
  Verdicts = {TRUE}
  TTLs = {1}
  MaxTime = 1
  MaxStores = 3
  NULL = NULL
SYMMETRY Symmetry
INVARIANTS TypeOK IndexExact L1Unique UsageBounded SweepBounded
PROPERTIES ImplementsPromise SweepUndisturbed
