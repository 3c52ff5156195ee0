SPECIFICATION CSpec
CONSTANTS
  IbcDenom = {i1, i2}
  GravityDenom = {}
  SourceDenom = {s1, s2}
  NotHex = {s2}
  UserContract = {u1, u2}
  SourceContract = {u2}
  ZeroAddress = zero
  a0 = a0
  a1 = a1
  a2 = a2
  ModuleAddress <- ModuleAddresses
  Account = {alice}
  None = none
  EarlyRegistration = FALSE
  MaxNonce = 2
  Scale = 2
  MaxGas = 3
  MaxArrivals = 2
  MaxSends = 1
INVARIANTS
  TypeOK
  ReverseAgrees
  TokensBacked
  AutoTokensRedeemable
  GasTokenBacked
  SourceCoinsLocked
PROPERTIES
  AutoContractStays
  ImportReproduces
SYMMETRY Vouchers
CHECK_DEADLOCK FALSE
