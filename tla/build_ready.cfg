SPECIFICATION Spec
CHECK_DEADLOCK FALSE
CONSTANTS
  None = None
  i1 = i1
  i2 = i2
  d1 = d1
  d1b = d1b
  d2 = d2
  x = x
  t1 = t1
  t2 = t2
  Tags = {t1, t2}
  Manifests = {d1, d1b, d2, x}
  Inputs = {i1, i2}
  MadeFrom <- MCMadeFrom
  Specs <- FewSpecs
  InitSpec <- OneTag
  InitStatuses <- FreshOrOld
  InitRepositories <- TakenOrOld
  HistoryLimit = 2
  CacheLag = FALSE
  Disturbances = {"edit", "edit-in-pass", "foreign", "foreign-in-pass", "registry", "api", "restart", "build", "ttl-half-named"}
  MaxDisturbances = 3
INVARIANTS
  ReadyMeansBuilt
PROPERTIES
  FailedJobIsKept
