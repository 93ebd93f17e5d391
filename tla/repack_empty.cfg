SPECIFICATION RepackSpec
CONSTANTS
  ByteBase = 4
  Captures <- RepackCaptures
  Payload = {"p", "q"}
  NULL = NULL
  Linktype = 2
  VectorSize = 2
  MaxReplaced = 0
INVARIANTS RepackSucceeds
CHECK_DEADLOCK FALSE
