SPECIFICATION Spec
CONSTANTS
  U32 = 1024
  U64 = 8192
  Packet <- MCPacket
  Job = {j1, j2}
  Concurrent = TRUE
  Captures <- PlainCaptures
  ParquetSizes = {5}
  TornSizes = {36}
  MaxFaults = 0
  MaxReplaced = 0
INVARIANTS OneIndex
CHECK_DEADLOCK FALSE
