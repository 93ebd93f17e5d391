SPECIFICATION QuerySpec
CONSTANTS
  U32 = 1024
  U64 = 8192
  Packet = {1, 2, 3, 4, 5, 6}
  Job = {j1, j2}
  Concurrent = TRUE
  Captures <- QueryCaptures
  ParquetSizes = {5}
  TornSizes = {36}
  MaxFaults = 1
  MaxReplaced = 2
  Query = {q1}
  Suffix = {"pqcap", "pqcapng", "pcap", "parquet"}
INVARIANTS AnswerIsOneIndex PacketPlaneIsPrefix LocatedIsReadable
CONSTRAINT Awaited
SYMMETRY JobSymmetry
CHECK_DEADLOCK FALSE
