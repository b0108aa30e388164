SPECIFICATION Spec
CHECK_DEADLOCK FALSE
CONSTANTS
  None = None
  i1 = i1
  i2 = i2
  d1 = d1
  d1b = d1b
  d2 = d2
  x = x
  t1 = t1
  t2 = t2
  Tags = {t1, t2}
  Manifests = {d1, d1b, d2, x}
  Inputs = {i1, i2}
  MadeFrom <- MCMadeFrom
  Specs <- AllSpecs
  InitSpec <- OneTag
  InitStatuses <- FreshOrOld
  InitRepositories <- AnyRepository
  HistoryLimit = 2
  CacheLag = FALSE
  Disturbances = {"edit", "source", "expire", "head", "registry", "api", "restart", "build", "pod", "ttl", "collect"}
  MaxDisturbances = 2
PROPERTIES
  RebuildsOnlyLost
  Converges
