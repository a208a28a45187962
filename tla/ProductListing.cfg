SPECIFICATION FairSpec
CONSTANTS
  MaxLoads = 4
  LastPage = 3
  MaxFilter = 1
  MaxOpens = 2
INVARIANTS
  TypeOK
  ListSound
  OneMore
  BrandImagesOnce
PROPERTIES
  OneInitialLoad
  WaitingEnds
CHECK_DEADLOCK FALSE
