SPECIFICATION Spec
CONSTANTS
  U32 = 1024
  U64 = 8192
  Packet <- MCPacket
  Job = {j1, j2}
  Concurrent = FALSE
  Captures <- LoopbackCaptures
  ParquetSizes = {5}
  TornSizes = {}
  MaxFaults = 0
  MaxReplaced = 0
INVARIANTS LinkTypesIndexed
CHECK_DEADLOCK FALSE
