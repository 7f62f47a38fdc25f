SPECIFICATION Spec
CONSTANTS
    Request = {q1, q2}
    Watched = {"createSession", "revokeAll"}
    MaxFailures = 0
    Token = {t1}
    Chain = {f1}
    LastTick = 1
    LockAt = 2
    LockTime = 1
    MaxTries = 1
    CodeTime = 2
    MaxCodes = 1
    RateLimit = 1
    Window = 1
    MaxDelay = 0

SYMMETRY Symmetry
CHECK_DEADLOCK FALSE
INVARIANT
    CodeSingleUse
