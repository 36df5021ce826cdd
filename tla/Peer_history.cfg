SPECIFICATION Spec
CONSTANTS
  NoClient = NoClient
  NoData = NoData
  Clients = {c1}
  NumSlots = 1
  Data = {d1, d2}
  SerialSize = 1
  ScatterSize = 1
  ScatterDistance = 1
  ChunksPerPacket = 1
  Elapsed = {0, 1}
  Timeout = 1
  NDEBUG = FALSE
  Stops = FALSE
  AppendFails = TRUE
  PackFails = FALSE
  TimeMax = 1
  MaxQueue = 1
  Garbage <- MCNoGarbage
  MaxOut = 2
SYMMETRY MCSymmetry
INVARIANTS Agreement TimeOrder InFlight ClientOrder EchoCause Attributed
PROPERTIES ImplementsMutualLog
CHECK_DEADLOCK FALSE
