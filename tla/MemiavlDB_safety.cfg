SPECIFICATION Spec
CONSTANTS
  Block = {b1}
  NoChange = nochange
  InitialVersion = 4
  SnapshotInterval = 2
  SnapshotKeepRecent = 1
  WalChanSizes <- SyncAndQueue
  LoadTargets = {0, 5}
  WalMayFail = TRUE
  SnapshotMayFail = FALSE
  PowerLoss = TRUE
  Word = 1024
  MaxVersion = 7
  MaxCrashes = 1
INVARIANTS
  TypeOK
  StateAgrees
  WalCoversSnapshots
  CurrentNeverDangles
  DurableOrInFlight
PROPERTIES
  SwitchKeepsState
  PruneKeepsRecent
  ImplementsReplayedState
CHECK_DEADLOCK FALSE
