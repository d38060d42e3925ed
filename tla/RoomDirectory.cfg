SPECIFICATION Spec
CONSTANTS
    Rooms = {r1, r2}
    Codes = {c1, c2}
    InviteIds = {i1, i2}
    Versions = {v1, v2}
    Slots = {s1, s2}
    None = None
    RoomTtl = 2
    MaxAttempts = 2
    RequestTicks = 1
    SlowRequests = 1
    MaxMishaps = 1
INVARIANTS
    TypeOK
    LocatorsHold
    InUseIsFindable
    NoBurnedCode
    RecoveryReachesAll
PROPERTY OpensOnce
SYMMETRY Symmetry
CHECK_DEADLOCK FALSE
