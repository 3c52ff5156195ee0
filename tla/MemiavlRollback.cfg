SPECIFICATION RSpec
CONSTANTS
  Block = {b1}
  NoChange = nochange
  InitialVersion = 0
  SnapshotInterval = 1
  SnapshotKeepRecent = 1
  WalChanSizes <- SyncOnly
  LoadTargets = {0}
  RollbackTargets = {2}
  WalMayFail = FALSE
  SnapshotMayFail = FALSE
  PowerLoss = FALSE
  Word = 1024
  MaxVersion = 4
  MaxCrashes = 2
INVARIANTS
  LatestAgrees
PROPERTIES
  RollbackKeepsTarget
  RollbackTruncates
CHECK_DEADLOCK FALSE
