SPECIFICATION Spec
CONSTANTS
  U32 = 1024
  U64 = 8192
  Packet <- MCPacket
  Job = {j1, j2}
  Concurrent = FALSE
  Captures <- PlainCaptures
  ParquetSizes = {5}
  TornSizes = {36}
  MaxFaults = 1
  MaxReplaced = 0
INVARIANTS PacketsSurvive
CHECK_DEADLOCK FALSE
