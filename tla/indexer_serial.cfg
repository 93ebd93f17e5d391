SPECIFICATION Spec
CONSTANTS
  U32 = 1024
  U64 = 8192
  Packet <- MCPacket
  Job = {j1, j2, j3}
  Concurrent = FALSE
  Captures <- SerialCaptures
  ParquetSizes = {5, 1100}
  TornSizes = {36}
  MaxFaults = 2
  MaxReplaced = 1
INVARIANTS TypeOK IndexListsPackets OneIndex CaptureKept ClassicRefused IndexedOnReturn
SYMMETRY JobSymmetry
CHECK_DEADLOCK FALSE
