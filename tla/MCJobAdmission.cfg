CONSTANTS
  t1 = t1
  t2 = t2
  p1 = p1
  k1 = k1
  MaxJobs = 3
  Keys <- OneKey
  Callers <- TwoThreads
  Processes <- OneProcess
  ProcOf <- Together
  Retention = 1
  Endings <- EndsBadly
  Passwords = TRUE
  PromptStart = TRUE
SYMMETRY Symmetry
SPECIFICATION Spec
INVARIANTS
  TypeOK
  OneActivePerKey
  WorkingIsActive
  SecretsForgotten
PROPERTIES
  HistoryKept
  
