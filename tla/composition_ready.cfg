SPECIFICATION Spec
CHECK_DEADLOCK FALSE
CONSTANTS
  None = None
  i1 = i1
  i2 = i2
  i3 = i3
  d1 = d1
  d2 = d2
  x = x
  t1 = t1
  t2 = t2
  Tags = {t1, t2}
  Manifests = {d1, d2, x}
  Inputs = {i1, i2, i3}
  Output <- MCOutput
  Specs <- ReadySpecs
  InitSpec <- OneTag
  InitStatuses <- AnyStatus
  InitRepositories <- FullRepository
  HistoryLimit = 2
  AttestEnabled = TRUE
  CacheLag = FALSE
  Disturbances = {"edit", "head", "registry", "api", "restart"}
  MaxDisturbances = 3
INVARIANTS
  ReadyMeansPublished
PROPERTIES
  HistoryOnlyEvicts
  OnlyLossRetires
