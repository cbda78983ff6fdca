SPECIFICATION PipelineFairSpec
CONSTANTS
    Consumers = {c1, c2}
    Partitions = {p1}
    LogEnd = 2
    MaxFaults = 2
    Nobody = Nobody
    NoMessage = NoMessage
    Scores = {40, 81}
    MaxAttempts = 2
    MaxCalls = 4
INVARIANTS CommittedAlertsReached RepeatsNeedFaults
PROPERTIES EveryAlertReached
CHECK_DEADLOCK FALSE
