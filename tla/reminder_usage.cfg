\* Two one-time reminders, two requests at a time, failed calls and crashes.
SPECIFICATION Spec
CONSTANTS
    Reminder = {r1, r2}
    Request = {q1, q2}
    Time = {1}
    Recurrence = {"one_time"}
    None = None
    User = User
    NoUser = NoUser
    NoRow = NoRow
    InitialUsage = 0
    Limit = 2
    MaxOccurrences = 2
    MaxSlips = 2
    MaxFailures = 1
SYMMETRY Symmetry
INVARIANTS
    UsageShortfall
CHECK_DEADLOCK FALSE
