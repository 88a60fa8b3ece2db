CONSTANTS
  o1 = o1
  o2 = o2
  w1 = w1
  s1 = s1
  s2 = s2
  core = core
  app = app
  NoOp = NoOp
  Workers = {o1, o2}
  Watchers = {w1}
  Sites = {s1, s2}
  Apps = {core, app}
  CoreApps = {core}
  InstalledOn <- MCInstalledOn
  Cached <- NothingCached
  Requests <- MCRequests
  Outside = {s2}
  Scopes <- MCScopes
  SelfManaged = TRUE
  AtOnce = 1
  MaxFaults = 2
SPECIFICATION Spec
SYMMETRY Symmetry
CHECK_DEADLOCK FALSE
INVARIANTS
  TypeOK
  OwnMigrateEnded
  LeftoverNamed
PROPERTIES
  ReportHonest
