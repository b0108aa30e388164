SPECIFICATION Spec
CHECK_DEADLOCK FALSE
CONSTANTS
  None = None
  First <- MCFirst
  Variants <- MCVariants
  Configs <- MCConfigs
  Texts = {"pinned", "pinned2", "unpinned"}
  Pinned = {"pinned", "pinned2"}
  Trees <- MCTrees
  SecretNames = {"npm"}
  MaxChanges = 2
  Absent = Absent
  Archives <- MCArchives
  Repacked = {"d1", "d2"}
  Children <- MCChildren
  BaseConfig <- MCBaseConfig
  Runtime = "amd64"
  Created <- MCCreated
  Options <- MCOptions
  MaxEdits = 3
INVARIANTS
  AdoptedJobFits
  OnlyChangesRebuild
  PodFits
  SameHashSameImage
  PlacedAlike
  CheckedIsBuilt
