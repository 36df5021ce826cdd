SPECIFICATION Spec
CONSTANTS
  NoClient = NoClient
  NoData = NoData
  Clients = {c1}
  NumSlots = 1
  Data = {d1}
  SerialSize = 1
  ScatterSize = 1
  ScatterDistance = 1
  ChunksPerPacket = 2
  Elapsed = {1}
  Timeout = 1
  NDEBUG = FALSE
  Stops = FALSE
  AppendFails = FALSE
  PackFails = FALSE
  TimeMax = 2
  MaxQueue = 0
  Garbage <- MCNoGarbage
  MaxOut = 1
SYMMETRY MCSymmetry
INVARIANTS TrailIndexInQueue
CHECK_DEADLOCK FALSE
