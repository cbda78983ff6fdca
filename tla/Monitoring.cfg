SPECIFICATION Spec
CONSTANTS
    Values = {0, 3}
    MaxWindow = 10
    MaxElements = 19
    MaxSwitches = 2
    Errors = {0, 10, 21}
    Baseline = 10
    MaxErrors = 21
    MaxRecords = 25
    MaxChanges = 3
INVARIANTS DecisionAnswersForBatch StepsNoticedInTime SilentAfterReset DegradationReported PermissivenessReported
CHECK_DEADLOCK FALSE
