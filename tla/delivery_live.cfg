\* Two notifications, two workers and a scheduler; workers crash and lose
\* their connections, but nothing is lost.
SPECIFICATION FairSpec
CONSTANTS
    Notification = {n1, n2}
    Scheduler = {s1}
    Worker = {w1, w2}
    None = None
    MaxRetries = 2
    BatchSize = 2
    MaxDups = 1
    MaxLosses = 0
PROPERTY
    EventuallySettled
CHECK_DEADLOCK FALSE
