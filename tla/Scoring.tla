------------------------------- MODULE Scoring -------------------------------
(***************************************************************************)
(* models/threshold_calibrator.py and models/ensemble.py: the threshold    *)
(* that is calibrated on the scores of normal behaviour, and the score the *)
(* ensemble gives an event and its session.                                *)
(*                                                                         *)
(* The networks are external: the autoencoder gives any error of AeScores, *)
(* the LSTM any log-likelihood, which is never positive.  Scores are       *)
(* integers, false-positive targets are in hundredths, and the combined    *)
(* score is left multiplied by the sum of the weights.                     *)
(***************************************************************************)
EXTENDS OrderStatistics

CONSTANTS
    Scores,          \* validation scores
    Targets,         \* fpr_target, in hundredths
    MaxSamples,      \* bound: validation scores
    AeScores,        \* what the autoencoder's anomaly_score may return
    LogLikelihoods,  \* what the LSTM's sequence_log_likelihood may return
    AeWeight,        \* ae_weight
    LstmWeight,      \* lstm_weight
    MaxScored,       \* bound: events scored
    Uncalibrated     \* no threshold calibrated

ASSUME ScoresAssumption  == Scores \subseteq Int
ASSUME TargetsAssumption == Targets \subseteq 1 .. 99
ASSUME SamplesAssumption  == MaxSamples \in Nat /\ MaxScored \in Nat
ASSUME WeightsAssumption == {AeWeight, LstmWeight} \subseteq Nat /\ AeWeight + LstmWeight > 0
ASSUME RangesAssumption  == AeScores \subseteq Nat /\ \A l \in LogLikelihoods : l <= 0

VARIABLES
    samples,    \* Seq(Scores): val_scores
    threshold,  \* [value, target] the last calibration chose, or Uncalibrated
    scored      \* the results of EnsembleScorer.score, with what they were computed from

scoringVars == <<samples, threshold, scored>>

ScoringInit == samples = <<>> /\ threshold = Uncalibrated /\ scored = {}

-----------------------------------------------------------------------------
(* calibrate.                                                              *)

\* Mutant: the rank is taken among n scores instead of n - 1 gaps.
Ranks_AllScores(n, target) == {((100 - target) * n + 99) \div 100}

\* Mutant: rounded down.
Ranks_Floor(n, target) == {((100 - target) * (n - 1)) \div 100}

\* ceil of a floating-point product: where the exact product is an integer, the
\* computed one may lie above it, but not for targets that are exact in binary.
Ranks(n, target) ==
    LET hundredths == (100 - target) * (n - 1)
        up         == (hundredths + 99) \div 100
    IN  IF hundredths % 100 = 0 /\ target % 25 # 0 THEN {up, up + 1} ELSE {up}

\* The thresholds calibrate may return for s.
Calibrated(s, target) ==
    LET n == Len(s)
        Index(rank) == IF rank > n - 1 THEN n - 1 ELSE rank
    IN  {Nth(s, Index(rank) + 1) : rank \in Ranks(n, target)}

\* A further validation score; the threshold of the set before is dropped.
Validate(v) ==
    /\ Len(samples) < MaxSamples
    /\ samples' = Append(samples, v)
    /\ threshold' = Uncalibrated
    /\ UNCHANGED scored

Calibrate(target) ==
    /\ samples # <<>>
    /\ \E value \in Calibrated(samples, target) :
          threshold' = [value |-> value, target |-> target]
    /\ UNCHANGED <<samples, scored>>

-----------------------------------------------------------------------------
(* EnsembleScorer.score.                                                   *)

Combined(ae, ll) == ae * AeWeight + ll * LstmWeight

Score(ae, ll) ==
    /\ Cardinality(scored) < MaxScored
    /\ scored' = scored \cup {[ae |-> ae, ll |-> ll, combined |-> Combined(ae, ll)]}
    /\ UNCHANGED <<samples, threshold>>

ScoringNext ==
    \/ \E v \in Scores : Validate(v)
    \/ \E target \in Targets : Calibrate(target)
    \/ \E ae \in AeScores, ll \in LogLikelihoods : Score(ae, ll)

ScoringSpec == ScoringInit /\ [][ScoringNext]_scoringVars

-----------------------------------------------------------------------------
(* Properties.                                                             *)

Above(v) == Cardinality({i \in 1 .. Len(samples) : samples[i] > v})

\* The target is kept on the validation scores: at most its share of them lies
\* above the threshold, however they repeat and however the rank is rounded.
FalsePositivesBounded ==
    threshold # Uncalibrated => 100 * Above(threshold.value) <= threshold.target * Len(samples)

\* And no sensitivity is given away: a lower threshold among the scores would use
\* up the target's share of the n - 1 others.
ThresholdTight ==
    threshold # Uncalibrated =>
        \A v \in ToSet(samples) :
            v < threshold.value => 100 * Above(v) >= threshold.target * (Len(samples) - 1)

\* README.md:238: "Low sequence log-likelihood flags unusual action ordering": of two
\* events alike to the autoencoder the one with the less likely session scores no
\* lower.
UnlikelyFlagged ==
    \A x, y \in scored : x.ae = y.ae /\ x.ll < y.ll => x.combined >= y.combined
=============================================================================
