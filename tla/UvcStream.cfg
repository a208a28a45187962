SPECIFICATION FairSpec
CONSTANTS
  activeUrbs = 2
  MaxFrame = 2
  SizeBuf = 3
INVARIANTS
  TypeOK
  CleanFrame
  StaleOnlyIfOvertaken
  QuietAfterClose
PROPERTY KeepsPromise
CHECK_DEADLOCK FALSE
