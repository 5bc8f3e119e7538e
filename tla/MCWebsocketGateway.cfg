CONSTANTS
    Clients = {c1, c2, c3}
    Users = {u1, u2}
    NoUser = NoUser
    Rooms = {lobby}
    Lobby = lobby
    Slots = {s1, s2}
SPECIFICATION GatewaySpec
SYMMETRY Symmetry
INVARIANTS GatewayTypeOK GaugeCountsOpenSockets GhostsWereLate
CHECK_DEADLOCK FALSE
