CONSTANTS
    Names = {n1, n2}
    Reqs = {p1, p2}
    MaxSize = 1
    MaxFiles = 1
    MaxFds = 2
    NaN = NaN
    Rest = Rest
SPECIFICATION FairSpec
INVARIANTS TypeOK DeletedOnce LengthIsWhatIsSent
PROPERTIES  RequestsEnd
