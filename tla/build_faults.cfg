SPECIFICATION Spec
CHECK_DEADLOCK FALSE
CONSTANTS
  None = None
  i1 = i1
  i2 = i2
  d1 = d1
  d1b = d1b
  d2 = d2
  x = x
  t1 = t1
  t2 = t2
  Tags = {t1, t2}
  Manifests = {d1, d2, x}
  Inputs = {i1, i2}
  MadeFrom <- MCMadeFrom
  Specs <- PolicySpecs
  InitSpec <- OneTag
  InitStatuses <- FreshOrOld
  InitRepositories <- OldOnly
  HistoryLimit = 2
  CacheLag = TRUE
  Disturbances = {"edit", "edit-in-pass", "foreign-in-pass", "collect", "head", "registry", "api", "restart", "ttl-half-named"}
  MaxDisturbances = 2
INVARIANTS
  TypeOK
  ClaimedIsServed
PROPERTIES
  KeepsItsPromise
