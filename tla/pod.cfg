SPECIFICATION PodSpec
CHECK_DEADLOCK FALSE
CONSTANTS
  Tarballs = {"a1", "a2", "b1"}
  Revision <- MCRevision
  None = None
  Objects = {}
  Watched = TRUE
  Reports = {"generation", "ready"}
  MaxDisturbances = 2
  Kinds <- MCKinds
  FetchAttempts = 2
  HasTimeout = TRUE
  MaxJobs = 2
INVARIANTS BuiltFromHashed SecretsOutlivePod
PROPERTIES JobsEnd SecretsReclaimed
