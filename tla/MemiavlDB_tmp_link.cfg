SPECIFICATION Spec
CONSTANTS
  Block = {b1}
  NoChange = nochange
  InitialVersion = 1
  SnapshotInterval = 2
  SnapshotKeepRecent = 0
  WalChanSizes <- SyncOnly
  LoadTargets = {0}
  WalMayFail = FALSE
  SnapshotMayFail = FALSE
  PowerLoss = FALSE
  Word = 1024
  MaxVersion = 4
  MaxCrashes = 1
INVARIANTS NoTmpFileConflict
