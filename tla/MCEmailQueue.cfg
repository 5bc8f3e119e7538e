CONSTANTS
    Jobs = {e1, e2, n1}
    Notifications = {n1}
    Attempts = 3
    MaxStalled = 1
    MaxCrashes = 3
SPECIFICATION FairSpec
INVARIANTS TypeOK
PROPERTIES EmailJobsEnd ImplementsDelivery
CHECK_DEADLOCK FALSE
