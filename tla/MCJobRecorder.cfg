CONSTANTS
  None = None
  t1 = t1
  t2 = t2
  Timers <- TwoTimers
  Coarse = FALSE
  MaxEvents = 5
SPECIFICATION Spec
CHECK_DEADLOCK FALSE
INVARIANTS
  TypeOK

  
