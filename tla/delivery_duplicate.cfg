\* One worker crash is enough for a second send of a notification.
SPECIFICATION Spec
CONSTANTS
    Notification = {n1}
    Scheduler = {s1}
    Worker = {w1}
    None = None
    MaxRetries = 3
    BatchSize = 1
    MaxDups = 1
    MaxLosses = 0
INVARIANT
    SentOnceUnlessRetried
CHECK_DEADLOCK FALSE
