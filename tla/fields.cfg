SPECIFICATION Spec
CONSTANTS
  Frames <- MCFrames
  Links = {1, 101, 105, 113}
INVARIANTS CarrierIndependent
PROPERTIES OnlyCapturedBytes SnapMonotone
CHECK_DEADLOCK FALSE
