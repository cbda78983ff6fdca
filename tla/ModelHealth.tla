----------------------------- MODULE ModelHealth -----------------------------
(***************************************************************************)
(* monitoring/model_health.py: a rolling window of reconstruction errors,  *)
(* and a health decision on its 95th percentile, which the statistics      *)
(* module interpolates between two neighbours of the sorted errors.        *)
(*                                                                         *)
(* Comparisons are exact: at equality with a tenth of the baseline, where  *)
(* rounding may fall on either side, the model is not below it.            *)
(***************************************************************************)
EXTENDS OrderStatistics

CONSTANTS
    Errors,      \* reconstruction errors, as integers
    Baseline,    \* baseline_p95; ten divides it, so that a tenth of it is an integer
    MaxErrors,   \* max_errors
    MaxRecords,  \* bound: errors recorded
    MaxChanges   \* bound: errors that differ from the one before

ASSUME ErrorsAssumption   == Errors \subseteq Nat
ASSUME BaselineAssumption == Baseline \in Nat \ {0} /\ Baseline % 10 = 0
ASSUME RecordsAssumption  == MaxErrors \in Nat \ {0} /\ MaxRecords \in Nat /\ MaxChanges \in Nat

VARIABLES
    errors,   \* Seq(Errors): _errors
    status,   \* "unchecked", or what the last check_health returned for these errors
    recorded  \* history: every error recorded

healthVars == <<errors, status, recorded>>

Status == {"unchecked", "healthy", "too high", "too low"}

HealthInit == errors = <<>> /\ status = "unchecked" /\ recorded = <<>>

\* Mutant: the newest error is dropped from a full window.
Record_DropsNewest(e) ==
    /\ errors' = IF Len(errors) < MaxErrors THEN Append(errors, e) ELSE errors
    /\ recorded' = Append(recorded, e)
    /\ status' = "unchecked"

\* record_error.
Record(e) ==
    /\ errors' = IF Len(errors) < MaxErrors THEN Append(errors, e) ELSE Append(Tail(errors), e)
    /\ recorded' = Append(recorded, e)
    /\ status' = "unchecked"

\* Mutant: the percentile is taken one cut point too high.
P95_NextCut(s) ==
    IF Len(s) = 1 THEN 100 * s[1]
    ELSE LET j     == (96 * (Len(s) - 1)) \div 100
             delta == (96 * (Len(s) - 1)) % 100
         IN  Nth(s, j + 1) * (100 - delta) + Nth(s, j + 2) * delta

\* quantiles(n=100, method="inclusive")[94], times 100.
P95(s) ==
    IF Len(s) = 1 THEN 100 * s[1]
    ELSE LET j     == (95 * (Len(s) - 1)) \div 100
             delta == (95 * (Len(s) - 1)) % 100
         IN  Nth(s, j + 1) * (100 - delta) + Nth(s, j + 2) * delta

TooHigh(e100) == e100 > 100 * 2 * Baseline
TooLow(e100)  == e100 < 10 * Baseline

\* check_health: with no errors yet the model passes for healthy.
CheckHealth ==
    /\ status = "unchecked"
    /\ status' =
          IF errors = <<>> THEN "healthy"
          ELSE IF TooHigh(P95(errors)) THEN "too high"
          ELSE IF TooLow(P95(errors)) THEN "too low" ELSE "healthy"
    /\ UNCHANGED <<errors, recorded>>

Changes(s) == Cardinality({i \in 2 .. Len(s) : s[i] # s[i - 1]})

RecordBounded(e) ==
    /\ Len(recorded) < MaxRecords
    /\ Changes(Append(recorded, e)) <= MaxChanges
    /\ Record(e)

HealthNext == CheckHealth \/ \E e \in Errors : RecordBounded(e)

HealthSpec == HealthInit /\ [][HealthNext]_healthVars

-----------------------------------------------------------------------------
(* Properties.                                                             *)

\* The errors the decision is about: the newest max_errors of those recorded.
Recent ==
    LET n == Len(recorded)
    IN  SubSeq(recorded, IF n > MaxErrors THEN n - MaxErrors + 1 ELSE 1, n)

CountHigh == Cardinality({i \in 1 .. Len(Recent) : TooHigh(100 * Recent[i])})
CountLow  == Cardinality({i \in 1 .. Len(Recent) : TooLow(100 * Recent[i])})

\* Up to one in twenty of the recent errors above twice the baseline is put up
\* with, a greater share is reported; errors that have left the window count for
\* neither.  Shares are of the gaps between the n errors, as "inclusive" has it, and
\* a share between two counts falls to the interpolation.
DegradationReported ==
    status # "unchecked" /\ Recent # <<>> =>
        LET gaps == Len(Recent) - 1
        IN  /\ 20 * CountHigh <= gaps => status # "too high"
            /\ 20 * (CountHigh - 1) >= gaps => status = "too high"

\* And a model that hardly errs any more is reported as soon as all but one in
\* twenty of the recent errors are below a tenth of the baseline, not before.
PermissivenessReported ==
    status # "unchecked" /\ Recent # <<>> =>
        LET gaps  == Len(Recent) - 1
            other == Len(Recent) - CountLow
        IN  /\ 20 * other <= gaps => status = "too low"
            /\ 20 * (other - 1) >= gaps /\ other > 0 => status # "too low"
=============================================================================
