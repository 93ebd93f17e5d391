SPECIFICATION Spec
CONSTANTS
  U16 = 16
  U32 = 1024
  U64 = 4096
  Packet <- MCPacket
  Thread = {t1, t2}
  MainThread = main
  NoThread = none
  Chunk <- FaultChunks
  NoChunk = "no chunk"
  RowsOf <- FaultRows
  CopyStatements <- LegalStatements
  SHBSize = 28
  TornSizes = {12, 32, 36, 40}
  Misreads = {3}
  ParquetSizes = {1, 1100}
  MaxFaults = 2
INVARIANTS IndexDescribesPackets IndexIffSucceeded NoSilentLoss
PROPERTIES ImplementsPromise
CHECK_DEADLOCK FALSE
