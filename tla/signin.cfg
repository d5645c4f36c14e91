SPECIFICATION Spec
SYMMETRY Symmetry
CONSTANTS
    Addrs = {a1, a2}
    Limit = 1
    Window = 1
    Burst = 2
    Threshold = 3
    ScoreWindow = 2
    BanBase = 1
    BanMax = 2
    StrikeLife = 4
    MaxTime = 3
    Requests = {r1, r2}
    FreeAttempts = 2
    LockBase = 1
    LockMax = 2
    Pause = 1
    CodeLife = 2
    MaxCodes = 2
    MaxServed = 4
INVARIANTS TypeOK OvershootBounded RateBound
PROPERTIES SuspendedStays BanNeverShortened
CHECK_DEADLOCK FALSE
