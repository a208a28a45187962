SPECIFICATION FairSpec
CONSTANTS
  activeUrbs = 2
  MaxScreens = 2
  MaxStreams = 2
  MaxOpens = 2
  MaxFds = 2
INVARIANTS
  TypeOK
  Accounted
  OwnRequestsOnly
  OneStream
PROPERTY StreamEnds
CHECK_DEADLOCK FALSE
