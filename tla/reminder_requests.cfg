\* One recurring reminder, two requests at a time, failed calls and crashes.
SPECIFICATION Spec
CONSTANTS
    Reminder = {r1}
    Request = {q1, q2}
    Time = {1}
    Recurrence = {"interval", "broken"}
    None = None
    User = User
    NoUser = NoUser
    NoRow = NoRow
    InitialUsage = 0
    Limit = 1
    MaxOccurrences = 3
    MaxSlips = 2
    MaxFailures = 1
SYMMETRY Symmetry
INVARIANTS
    TypeOK
    NeverSilent
    NextRunAnnounced
PROPERTY
    OnlyInFlightRevives
CHECK_DEADLOCK FALSE
