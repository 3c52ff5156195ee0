SPECIFICATION FairSpec
CONSTANTS
  Block = {b1}
  NoChange = nochange
  InitialVersion = 1
  SnapshotInterval = 2
  SnapshotKeepRecent = 0
  WalChanSizes <- AllSizes
  LoadTargets = {0}
  WalMayFail = FALSE
  SnapshotMayFail = TRUE
  PowerLoss = FALSE
  Word = 1024
  MaxVersion = 4
  MaxCrashes = 1
INVARIANTS
  CleanClosePreserves
PROPERTIES
  CommitReturns
  CloseReturns
CHECK_DEADLOCK FALSE
