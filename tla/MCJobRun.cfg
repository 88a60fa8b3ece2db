CONSTANTS
  c1 = c1
  c2 = c2
  Callers <- TwoCallers
  Creator = c1
  Reaps = TRUE
  Mortal <- OneMortal
SPECIFICATION FairSpec
INVARIANTS
  TypeOK
  RegisteredNeverLost
PROPERTIES
  
  
  VanishedIsNoticed
  InterruptEnds
