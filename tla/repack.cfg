SPECIFICATION FairRepack
CONSTANTS
  ByteBase = 4
  Captures <- RepackCaptures
  Payload = {"p", "q"}
  NULL = NULL
  Linktype = 2
  VectorSize = 2
  MaxReplaced = 1
INVARIANTS TypeOK HandleClosed RepackFaithful RepackWhole
PROPERTIES ImplementsStream LeakHasCause RepackEnds
CHECK_DEADLOCK FALSE
