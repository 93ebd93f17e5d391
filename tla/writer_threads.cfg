SPECIFICATION FairSpec
CONSTANTS
  U16 = 16
  U32 = 1024
  U64 = 4096
  Packet <- MCPacket
  Thread = {t1, t2}
  MainThread = main
  NoThread = none
  Chunk <- ThreadChunks
  NoChunk = "no chunk"
  RowsOf <- ThreadRows
  CopyStatements <- AllStatements
  SHBSize = 28
  TornSizes = {}
  Misreads = {3}
  ParquetSizes = {5}
  MaxFaults = 0
INVARIANTS TypeOK RowsShadowBlocks ChunksContiguous FailureHasCause NoSilentLoss
PROPERTIES Terminates
CHECK_DEADLOCK FALSE
