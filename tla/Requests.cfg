SPECIFICATION Spec
CONSTANTS
    Workers = {w1, w2}
    Tokens <- SomeTokens
    Arrivals <- SomeArrivals
    NoToken = NoToken
    BadToken = BadToken
    Scope <- Url
    Limit = 2
    Minute = 2
    MaxTime = 3
    MaxRequests = 5
    MaxRestarts = 1
    NoRecord = NoRecord
SYMMETRY WorkerSymmetry
INVARIANTS BurstBounded AuditNamesCaller
PROPERTIES RefusedOnlyWhenOver ServedWhileAuthorized
CHECK_DEADLOCK FALSE
