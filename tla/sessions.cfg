SPECIFICATION Spec
CONSTANTS
    Users = {u1}
    Roles = {client}
    Requests = {r1, r2}
    MaxSessions = 3
    MaxPassword = 1
    MaxServed = 4
    SkipVerify = FALSE
    RedisMayFail = TRUE
    MayRehash = TRUE
    None = None
INVARIANTS TypeOK OneLivePerFamily RevokedIsMarked OldPasswordEnds
CHECK_DEADLOCK FALSE
SYMMETRY Symmetry
