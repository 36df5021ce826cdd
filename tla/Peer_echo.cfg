SPECIFICATION Spec
CONSTANTS
  NoClient = NoClient
  NoData = NoData
  Clients = {c1}
  NumSlots = 1
  Data = {d1, d2}
  SerialSize = 1
  ScatterSize = 1
  ScatterDistance = 1
  ChunksPerPacket = 1
  Elapsed = {0}
  Timeout = 1
  NDEBUG = FALSE
  Stops = FALSE
  AppendFails = FALSE
  PackFails = FALSE
  TimeMax = 0
  MaxQueue = 1
  Garbage <- MCNoGarbage
  MaxOut = 2
SYMMETRY MCSymmetry
INVARIANTS OrderKept
CHECK_DEADLOCK FALSE
