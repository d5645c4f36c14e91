CONSTANTS
    Workers = {w1}
    c1 = c1
    c2 = c2
    Cars = {c1, c2}
    NoCar = NoCar
    MaxAttempts = 2
    Answers <- AllAnswers
    MaxAsks <- OnceAndAgain
    MaxMishaps = 1
SPECIFICATION FairSpec
INVARIANTS
    TypeOK
    PostsBounded
    PostedOncePerAsk
PROPERTY
    PendingSettles
