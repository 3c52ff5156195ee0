SPECIFICATION Spec
CONSTANTS
  IbcDenom = {i1, i2}
  GravityDenom = {g1}
  SourceDenom = {s1}
  NotHex = {}
  UserContract = {u1}
  ZeroAddress = zero
  a0 = a0
  a1 = a1
  a2 = a2
  ModuleAddress <- ModuleAddresses
  Account = {alice}
  None = none
  EarlyRegistration = FALSE
  MaxNonce = 2
PROPERTIES
  ImportExportSameStore
CHECK_DEADLOCK FALSE
