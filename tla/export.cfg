SPECIFICATION Spec
CHECK_DEADLOCK FALSE
CONSTANTS
  Own = own
  Foreign = {shared, refused}
  Permitted = {shared}
  None = None
  Kinds = {"ImageBuild", "ImageComposition"}
  MaxDigests = 2
  MaxUids = 2
  MaxDisturbances = 4
INVARIANTS NeverAheadOfStatus NoOrphan
PROPERTIES NeverOverwrites ExportFollows
