CONSTANTS
  p1 = p1
  Procs = {p1}
  MaxSets = 5
  MaxDay = 4
  Start <- MCStart
  Local <- MCLocal
  Offsite <- MCOffsite
  WeekLength = 2
  MonthLength = 4
  SafetyDays = 2
  SafetyMax = 1
  CopyOnBackup = TRUE
  Parallel = FALSE
  ByName = {1, 3, 4}
  MaxOps = 4
  MaxFaults = 1
SPECIFICATION Spec
CHECK_DEADLOCK FALSE
INVARIANTS
  TypeOK
  NothingLost
  OffsiteTrue
PROPERTIES
  GoodSurvives
  RetentionExact
