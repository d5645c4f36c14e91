CONSTANTS
    Copies = {c1, c2, c3}
    NoCopy = NoCopy
    SlowHandlers = FALSE
    MayGiveUp = TRUE
    MayCrash = TRUE
SPECIFICATION IdempotencySpec
INVARIANTS
    IdempotencyTypeOK
    OneAtATime
    ToldMeansReplayed
PROPERTY
    KeyIsFreed
CHECK_DEADLOCK FALSE
