CONSTANTS
    ShutdownTimeout = 4
    CloseTimeouts = {3}
    NotifyWait = 1
    MaxWork = 1
SPECIFICATION Spec
INVARIANTS CleanExitDrainsQueues
CHECK_DEADLOCK FALSE
