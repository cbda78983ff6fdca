SPECIFICATION Spec
CONSTANTS
    Workers = {w1, w2}
    Tokens <- SomeTokens
    Arrivals <- SomeArrivals
    NoToken = NoToken
    BadToken = BadToken
    Scope <- Url
    Limit = 1
    Minute = 2
    MaxTime = 2
    MaxRequests = 3
    MaxRestarts = 0
    NoRecord = NoRecord
SYMMETRY WorkerSymmetry
INVARIANTS EveryRequestAudited
CHECK_DEADLOCK FALSE
