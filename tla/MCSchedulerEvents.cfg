CONSTANTS
  ui = ui
  service = service
  nightly = nightly
  other = other
  Schedules <- One
  Schedulers <- Both
  Kind <- AfterJobs
  SlotsOf <- NoSlots
  Steps <- NoSteps
  Skips <- Nobody
  StartsFirst <- Nobody
  Rare <- Nobody
  BadSteps <- Nothing
  May <- OthersAndCrashes
  Prompt = FALSE
  Horizon = 2
  MaxJobs = 3
  MaxAsked = 1
  MaxBoots = 1
  MaxLost = 1
SPECIFICATION FairSpec
INVARIANTS
  AfterJobOnce

  
