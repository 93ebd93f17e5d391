SPECIFICATION Spec
CONSTANTS
  U32 = 45
  U64 = 60
  Packet = {}
  FileSize = 6
  FooterRange <- AllFooters
  UserRange <- UserRanges
  Count = {0, 1, 2, 5}
  Location = {0, 1, 2, 4, 7, 15}
INVARIANTS TypeOK LocatedNeverFails
PROPERTIES ImplementsFile
