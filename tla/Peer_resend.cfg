SPECIFICATION LossySpec
CONSTANTS
  NoClient = NoClient
  NoData = NoData
  Clients = {c1}
  NumSlots = 1
  Data = {d1}
  SerialSize = 1
  ScatterSize = 1
  ScatterDistance = 1
  ChunksPerPacket = 2
  Elapsed = {0}
  Timeout = 0
  NDEBUG = TRUE
  Stops = FALSE
  AppendFails = FALSE
  PackFails = FALSE
  TimeMax = 0
  MaxQueue = 1
  Garbage <- MCNoGarbage
  MaxOut = 1
PROPERTIES ClientMessagesResent
CHECK_DEADLOCK FALSE
