SPECIFICATION FairSpec
CONSTANTS
    Workers = {w1, w2}
    Alerts = {a1, a2}
    Scores = {20, 41, 61, 81}
    MaxAttempts = 3
    MaxCalls = 2
    NoAlert = NoAlert
INVARIANTS TypeOK ReturnedMeansReached RetriesBounded UnreadableNeedCuts
PROPERTIES CallsEnd
CHECK_DEADLOCK FALSE
