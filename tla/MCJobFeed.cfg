CONSTANTS
  None = None
  Coarse = FALSE
  MaxEvents = 1
  MaxWrites = 3
  MaxBreaks = 2
  MaxQueue = 2
SPECIFICATION FairSpec
CHECK_DEADLOCK FALSE
PROPERTIES
  ListedInTheEnd
