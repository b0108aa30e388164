SPECIFICATION Spec
CHECK_DEADLOCK FALSE
CONSTANTS
  Objects = {"app", "stalled"}
  Images = {"a", "b", "c"}
  None = None
  Of <- MCOf
  HasKey = TRUE
  DegradedAfter = 2
  MaxResets = 1
  Window = 9
  HistoryLimit = 2
  MaxDisturbances = 1
INVARIANT RecordIsTrue
