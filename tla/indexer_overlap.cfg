SPECIFICATION Spec
CONSTANTS
  U32 = 1024
  U64 = 8192
  Packet <- MCPacket
  Job = {j1, j2, j3}
  Concurrent = TRUE
  Captures <- WholeCaptures
  ParquetSizes = {5, 8}
  TornSizes = {}
  MaxFaults = 0
  MaxReplaced = 0
INVARIANTS IndexNeverForeign SomeJobSucceeds
SYMMETRY JobSymmetry
CHECK_DEADLOCK FALSE
