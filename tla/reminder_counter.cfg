\* One reminder and one request at a time are enough.
SPECIFICATION Spec
CONSTANTS
    Reminder = {r1}
    Request = {q1}
    Time = {1}
    Recurrence = {"one_time", "interval", "broken"}
    None = None
    User = User
    NoUser = NoUser
    NoRow = NoRow
    InitialUsage = NoRow
    Limit = 1
    MaxOccurrences = 3
    MaxSlips = 1
    MaxFailures = 1
SYMMETRY Symmetry
INVARIANT
    RowCreatedOnFirstIncrement
CHECK_DEADLOCK FALSE
