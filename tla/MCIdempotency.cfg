CONSTANTS
    Keys = {k1}
    Slots = {p1, p2, p3}
    TTL = 2
    MaxAttempts = 3
    MaxLost = 1
    MaxDbErrors = 1
SPECIFICATION FairSpec
INVARIANTS TypeOK OnlySuccessesStored SuccessesAreReplayed
PROPERTIES SettledKeysReplay EveryAttemptEnds
CHECK_DEADLOCK FALSE
