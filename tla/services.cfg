SPECIFICATION Spec
CONSTANTS
    Request = {q1, q2}
    Watched = {"storeReply", "increment", "update", "announce"}
    MaxFailures = 1
    Quota = 1
    MaxTurns = 3
    MaxMonth = 1
    Member = {m1, m2}
    Value = {"other"}
    MaxMembers = 1
    Goal = {g1}
    Amount = {0, 1, 2}
    Target = {1, 2}
    Subscription = {s1, s2}
    Cycle = {"monthly"}
    BillingDate = {1}
    User = user
    NoUser = nouser
    SubscriptionLimit = 1
    LastDay = 1
    MaxLateSubs = 1
    Line = {r1, r2, r3}
    Key = {1, 2, 3}
    RawPerPage = {0, 1, 9}
    MaxChanges = 2
    Item = {i1, i2}
    Instant = {0, 1, 2, 3, 4}
    Span = 2
    PageSize = 1
    Bill = {b1, b2, b3}
    DueDate = {48, 55, 61, 62, 76, 108}
    Category = {"bill", "other"}
    Price = {1}
    MonthStart <- MonthStarts
    MaxBills = 2

SYMMETRY Symmetry
CONSTRAINT Followed
CHECK_DEADLOCK FALSE
INVARIANTS
    TypeOK
    TurnsPaired
    RepliesCounted
    LastWriteStands
    CompletionHonest
    FirstBillingAnnounced
    SubscriptionsLimited
    EveryRowOnce
    ReportsAgree
    MonthComplete
    NothingSlipsBy
PROPERTIES
    ChatQuota
    MembersLimited
