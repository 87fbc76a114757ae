SPECIFICATION MCSpec
CONSTANTS
  Values = {0, 1, 2}
  Capacity = 4
  Modulus = 16
  MaxDrain = 4
  MaxConnections = 17000
INVARIANTS RingFits RoomForAll
PROPERTY ImplementsFifo
