SPECIFICATION Spec
CONSTANTS
  PacketSize = 400
  PacketHeader = 15
  MessageHeader = 30
  SizeRange = 1024
  Sizes <- MCSizes
  MaxChunks = 4
  MaxPrior = 1
  Builds = {TRUE, FALSE}
  AllocFails = TRUE
INVARIANTS RoundTrip PacketsFit PackedPrefix InOrder
CHECK_DEADLOCK FALSE
