CONSTANTS
    e1 = e1  e2 = e2  e3 = e3  e4 = e4
    redis = redis  memory = memory
    Exec = {e1, e2}
    Stores = {redis}
    Memory = {}
    StoreOf <- OneStore
    LockTTL = 2
    MaxFaults = 0
SPECIFICATION Spec
INVARIANTS MutualExclusion
