\* One document, one request at a time, nothing fails.
SPECIFICATION Spec
CONSTANTS
    Document = {d1}
    Request = {q1}
    Date = {2, 3}
    Offset = {1}
    None = None
    User = User
    NoUser = NoUser
    NoRow = NoRow
    InitialUsage = 0
    Limit = 1
    MaxDay = 1
    MaxUploads = 1
    MaxSlips = 0
    MaxFailures = 0
SYMMETRY Symmetry
INVARIANT
    AlertsFollowExpiry
CHECK_DEADLOCK FALSE
