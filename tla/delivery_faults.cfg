\* Two notifications, two schedulers, two workers, failures of every kind.
SPECIFICATION Spec
CONSTANTS
    Notification = {n1, n2}
    Scheduler = {s1, s2}
    Worker = {w1, w2}
    None = None
    MaxRetries = 2
    BatchSize = 2
    MaxDups = 1
    MaxLosses = 1
SYMMETRY Symmetry
INVARIANTS
    TypeOK
    SendsBoundedByDups
    NoDuplicateOutsideWindow
    NothingStranded
    OutcomesTruthful
    RetriesBounded
PROPERTY
    ImplementsContract
CHECK_DEADLOCK FALSE
