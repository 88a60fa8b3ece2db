CONSTANTS
  ui = ui
  service = service
  nightly = nightly
  other = other
  Schedules <- One
  Schedulers <- Alone
  Kind <- OnStarts
  SlotsOf <- NoSlots
  Steps <- TwoSteps
  Skips <- Nobody
  StartsFirst <- Nobody
  Rare <- Nobody
  BadSteps <- AnyStep
  May <- StopsGuardsRunsErrors
  Prompt = FALSE
  Horizon = 3
  MaxJobs = 4
  MaxAsked = 1
  MaxBoots = 2
  MaxLost = 1
SPECIFICATION Spec
INVARIANTS
  OnStartOnce
  RecipeInOrder
