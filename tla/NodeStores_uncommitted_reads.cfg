SPECIFICATION Spec
CONSTANTS
  k1 = k1
  k2 = k2
  v1 = v1
  Key = {k1, k2}
  Value = {v1}
  Deleted = deleted
  ChangeSets <- Blocks
  SnapshotInterval = 2
  SnapshotKeepRecent = 1
  UpgradeHeight = 5
  MaxHeight = 6
  MaxCrashes = 2
INVARIANTS
  WritesVisibleAfterCommit
CHECK_DEADLOCK FALSE
