SPECIFICATION Spec
CONSTANTS
    Request = {q1, q2}
    Watched = {"createSession", "revokeAll"}
    MaxFailures = 1
    Token = {t1, t2, t3}
    Chain = {f1, f2}
    LastTick = 6
    LockAt = 2
    LockTime = 1
    MaxTries = 5
    CodeTime = 2
    MaxCodes = 3
    RateLimit = 2
    Window = 4
    MaxDelay = 1

SYMMETRY Symmetry
CHECK_DEADLOCK FALSE
INVARIANTS
    TypeOK
    OneHeadPerFamily
    LiveTokenListed
    DeletedSignsOut
    LockLimitsTries
    CodeUsedOnce
    RateBounded
PROPERTIES
    EndedFamilyStays
    NeverStarved
