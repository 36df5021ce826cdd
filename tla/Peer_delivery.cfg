SPECIFICATION LossySpec
CONSTANTS
  NoClient = NoClient
  NoData = NoData
  Clients = {c1}
  NumSlots = 1
  Data = {d1}
  SerialSize = 1
  ScatterSize = 1
  ScatterDistance = 1
  ChunksPerPacket = 2
  Elapsed = {0}
  Timeout = 0
  NDEBUG = FALSE
  Stops = TRUE
  AppendFails = FALSE
  PackFails = FALSE
  TimeMax = 0
  MaxQueue = 2
  Garbage <- MCNoGarbage
  MaxOut = 0
PROPERTIES RecentDelivered
CHECK_DEADLOCK FALSE
