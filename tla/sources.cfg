SPECIFICATION Spec
CHECK_DEADLOCK FALSE
CONSTANTS
  Tarballs = {"a1", "a2", "b1"}
  Revision <- MCRevision
  None = None
  Garbage = Garbage
  Objects = {"free", "pinned"}
  Pin <- MCPin
  Watched = TRUE
  Reports = {"generation", "ready"}
  HasRemote = TRUE
  MaxDisturbances = 2
INVARIANTS LocalIsVerified PinnedContent
PROPERTIES NeverYesterdays Follows
