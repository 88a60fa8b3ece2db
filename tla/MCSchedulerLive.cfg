CONSTANTS
  ui = ui
  service = service
  nightly = nightly
  other = other
  Schedules <- Two
  Schedulers <- Alone
  Kind <- RecipeAndOnce
  SlotsOf <- FirstMinute
  Steps <- RecipeAndOnceSteps
  Skips <- JustOther
  StartsFirst <- JustOther
  Rare <- Nobody
  BadSteps <- Nothing
  May <- OnlyStops
  Prompt = FALSE
  Horizon = 4
  MaxJobs = 4
  MaxAsked = 1
  MaxBoots = 1
  MaxLost = 1
SPECIFICATION FairSpec
PROPERTIES
  RecipeEnds
  SlotServed
