SPECIFICATION ScoringSpec
CONSTANTS
    Scores = {1, 2, 3, 4}
    Targets = {1, 20, 25, 50, 90}
    MaxSamples = 3
    AeScores = {0, 2}
    LogLikelihoods <- FewLogLikelihoods
    AeWeight = 1
    LstmWeight = 1
    MaxScored = 2
    Uncalibrated = Uncalibrated
INVARIANTS UnlikelyFlagged
CHECK_DEADLOCK FALSE
