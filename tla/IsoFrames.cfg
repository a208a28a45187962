SPECIFICATION Spec
CONSTANTS
  activeUrbs = 2
  MaxFrame = 4
  MaxParts = 2
INVARIANTS
  TypeOK
  WholeFrames
  DroppedForCause
CHECK_DEADLOCK FALSE
