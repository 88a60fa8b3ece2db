CONSTANTS
  None = None
  MaxTurns = 3
  MaxQueue = 3
SPECIFICATION FairSpec
CHECK_DEADLOCK FALSE
INVARIANTS
  TypeOK
  NoGhost
PROPERTIES
  PageTrueInTheEnd
