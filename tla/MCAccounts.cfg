CONSTANTS
    Root = root
    Test = test
    RootEmail = m1
    TestEmail = m2
    Ids = {root, test, i1}
    Emails = {m1, m2}
    Seeds <- SmallSeeds
    Nobody = Nobody
    Reqs = {p1, p2, p3}
    MaxAudited = 3
    MaxFaults = 1
SPECIFICATION Spec
SYMMETRY Symmetry
INVARIANTS TypeOK AnnouncedOnce MutationsAreLogged
CHECK_DEADLOCK FALSE
