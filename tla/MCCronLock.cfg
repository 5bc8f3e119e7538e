CONSTANTS
    e1 = e1  e2 = e2  e3 = e3  e4 = e4
    redis = redis  memory = memory
    Exec = {e1, e2, e3, e4}
    Stores = {redis, memory}
    Memory = {memory}
    StoreOf <- MixedStores
    LockTTL = 3
    MaxFaults = 2
SPECIFICATION FairSpec
INVARIANTS TypeOK OverlapHasACause
PROPERTIES LockNeverStuck JobKeepsRunning
