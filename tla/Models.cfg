SPECIFICATION Spec
CONSTANTS
    Trainers = {t1, t2}
    Loaders = {d1}
    Losses = {1, 2}
    Epochs = 4
    Patience = 2
    MaxRuns = 3
    MaxCrashes = 1
    Absent = Absent
    Torn = Torn
    Nothing = Nothing
    Scores = {1, 2, 3, 4}
    Targets = {1, 20, 25, 50, 90}
    MaxSamples = 6
    AeScores = {0, 2}
    LogLikelihoods <- FewLogLikelihoods
    AeWeight = 1
    LstmWeight = 1
    MaxScored = 1
    Uncalibrated = Uncalibrated
    Timestamps <- SmallTimes
    KnownTypes = {"file"}
    NewTypes <- TwoNewTypes
    Gap = 2
    MaxLen = 2
    MaxEvents = 4
SYMMETRY TrainerSymmetry
INVARIANTS StopsWhenStale UndisturbedLoadMatches FalsePositivesBounded ThresholdTight SessionsAreRuns RowsDecodable
PROPERTIES ArrivalsAreLocal
CHECK_DEADLOCK FALSE
