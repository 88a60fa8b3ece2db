CONSTANTS
  b1 = b1
  b2 = b2
  a1 = a1
  a2 = a2
  None = None
  Elsewhere = Elsewhere
  Benches = {b1, b2}
  Addresses = {a1, a2}
  MaxOps = 3
  MaxFaults = 1
  MaxHands = 2
SPECIFICATION Spec
SYMMETRY Symmetry
CHECK_DEADLOCK FALSE
INVARIANTS
  TypeOK
  NamedUntilRemoved
PROPERTIES
  
  DoneTrue
