SPECIFICATION Spec
CONSTANTS
  NoClient = NoClient
  NoData = NoData
  Clients = {c1}
  NumSlots = 1
  Data = {d1, d2}
  SerialSize = 1
  ScatterSize = 1
  ScatterDistance = 1
  ChunksPerPacket = 1
  Elapsed = {0}
  Timeout = 1
  NDEBUG = TRUE
  Stops = FALSE
  AppendFails = TRUE
  PackFails = TRUE
  TimeMax = 0
  MaxQueue = 1
  Garbage <- MCGarbage
  MaxOut = 2
SYMMETRY MCSymmetry
INVARIANTS ClientSubsequence
PROPERTIES ImplementsMutualLog
CHECK_DEADLOCK FALSE
