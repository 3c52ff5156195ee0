SPECIFICATION Spec
VIEW UpToAddresses
CONSTANTS
    v1 = v1
    v2 = v2
    MaxKey = 5
    Key <- MCKey
    Value = {v1, v2}
    KeysAt <- MCKeysAt
    ValuesAt <- MCValuesAt
    NoValue = NoValue
    CacheSizes = {0, 1}
    MaxVersion = 3
CHECK_DEADLOCK FALSE
INVARIANTS TypeOK WellFormed HashFresh CacheAgrees CopyProtected ReadsAgree ProofsVerify SnapshotReadsBack ExportImportsBack
PROPERTIES CopyIsolated ImplementsMap WritesTakeEffect
