SPECIFICATION Spec
CHECK_DEADLOCK FALSE
CONSTANTS
  None = None
  i1 = i1
  i2 = i2
  i3 = i3
  d1 = d1
  d2 = d2
  x = x
  t1 = t1
  t2 = t2
  Tags = {t1, t2}
  Manifests = {d1, d2, x}
  Inputs = {i1, i2, i3}
  Output <- MCOutput
  Specs <- AllSpecs
  InitSpec <- OneTag
  InitStatuses <- FreshOrOld
  InitRepositories <- AnyRepository
  HistoryLimit = 2
  AttestEnabled = FALSE
  CacheLag = TRUE
  Disturbances = {"edit", "edit-in-pass", "foreign", "foreign-in-pass", "head", "registry", "api", "restart", "source"}
  MaxDisturbances = 2
INVARIANTS
  TypeOK
  ClaimedIsServed
  UniqueHistory
PROPERTIES
  KeepsItsPromise
  ConflictEndsInAgreement
