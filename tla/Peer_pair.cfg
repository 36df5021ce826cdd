SPECIFICATION Spec
CONSTANTS
  NoClient = NoClient
  NoData = NoData
  Clients = {c1, c2}
  NumSlots = 2
  Data = {d1, d2}
  SerialSize = 1
  ScatterSize = 1
  ScatterDistance = 1
  ChunksPerPacket = 2
  Elapsed = {1}
  Timeout = 1
  NDEBUG = FALSE
  Stops = FALSE
  AppendFails = FALSE
  PackFails = FALSE
  TimeMax = 3
  MaxQueue = 0
  Garbage <- MCNoGarbage
  MaxOut = 1
SYMMETRY MCSymmetry
INVARIANTS TypeOK SessionsRouted ClientOrder
PROPERTIES SessionSticky
CHECK_DEADLOCK FALSE
