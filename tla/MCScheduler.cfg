CONSTANTS
  ui = ui
  service = service
  nightly = nightly
  other = other
  Schedules <- One
  Schedulers <- Both
  Kind <- Crons
  SlotsOf <- TwoMinutes
  Steps <- TwoSteps
  Skips <- Nobody
  StartsFirst <- Nobody
  Rare <- Nobody
  BadSteps <- Nothing
  May <- EditsAndCrashes
  Prompt = FALSE
  Horizon = 3
  MaxJobs = 3
  MaxAsked = 1
  MaxBoots = 0
  MaxLost = 1
SYMMETRY Symmetry
SPECIFICATION Spec
INVARIANTS
  TypeOK
  
  RecipeInOrder
