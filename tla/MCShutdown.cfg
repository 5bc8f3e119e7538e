CONSTANTS
    ShutdownTimeout = 4
    CloseTimeouts = {1, 3}
    NotifyWait = 2
    MaxWork = 1
SPECIFICATION FairSpec
INVARIANTS TypeOK ExitZeroIsOrderly
PROPERTIES ExitsAnyway
CHECK_DEADLOCK FALSE
