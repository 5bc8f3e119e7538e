CONSTANTS
    Users = {u1}
    Reqs = {p1, p2, p3}
    Session = {s1, s2}
    Envs <- SmallEnvs
    AccessTTL = 1
    MaxTime = 2
    NoToken = NoToken
SPECIFICATION Spec
SYMMETRY Symmetry
INVARIANTS TypeOK OneHolder RowOutlivesJwt
PROPERTIES DeactivationHolds  ImplementsSessions
CHECK_DEADLOCK FALSE
