SPECIFICATION Spec
CONSTANTS
  PacketSize = 400
  PacketHeader = 15
  MessageHeader = 30
  SizeRange = 1024
  Sizes <- MCLegalSizes
  MaxChunks = 2
  MaxPrior = 1
  Builds = {FALSE}
  AllocFails = FALSE
INVARIANTS NeverAborts
CHECK_DEADLOCK FALSE
