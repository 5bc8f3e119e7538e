CONSTANTS
    Calls = {p1, p2, p3}
    Caches = {c1, c2}
    TTL = 2
    MayFail = TRUE
SPECIFICATION FairSpec
INVARIANTS TypeOK
PROPERTIES CoherenceIsStable StalenessEnds
