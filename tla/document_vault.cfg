\* One document, two requests at a time, failed calls and crashes.
SPECIFICATION Spec
CONSTANTS
    Document = {d1}
    Request = {q1, q2}
    Date = {2}
    Offset = {1}
    None = None
    User = User
    NoUser = NoUser
    NoRow = NoRow
    InitialUsage = 1
    Limit = 2
    MaxDay = 1
    MaxUploads = 2
    MaxSlips = 1
    MaxFailures = 1
SYMMETRY Symmetry
CONSTRAINT StaleIsBare
INVARIANTS
    TypeOK
    FileAvailable
    OrphansExplained
    FirstDatesAnnounced
    UsageShortfall
CHECK_DEADLOCK FALSE
