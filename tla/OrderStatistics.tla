--------------------------- MODULE OrderStatistics ---------------------------
(***************************************************************************)
(* Python's sorted(), by the places of the elements: in                    *)
(* models/threshold_calibrator.py, within quantiles() of the statistics    *)
(* module in monitoring/model_health.py, which pick elements from it, and  *)
(* in features/sequence_builder.py, which sorts events by their time.      *)
(***************************************************************************)
EXTENDS Integers, FiniteSets, SequencesExt

\* The positions of s with a smaller value, and with no greater value.
Below(s, v) == {i \in 1 .. Len(s) : s[i] < v}
UpTo(s, v)  == {i \in 1 .. Len(s) : s[i] <= v}

\* The k-th of the elements of s in ascending order, from 1.
Nth(s, k) ==
    CHOOSE v \in ToSet(s) : Cardinality(Below(s, v)) < k /\ k <= Cardinality(UpTo(s, v))

\* Where a stable sort puts the i-th element: behind all that are less, and behind the
\* equal ones that come before it.
Place(s, i) == Cardinality({j \in 1 .. Len(s) : s[j] < s[i] \/ (s[j] = s[i] /\ j <= i)})

\* Which element it puts in each place.
StableOrder(s) == [k \in 1 .. Len(s) |-> CHOOSE i \in 1 .. Len(s) : Place(s, i) = k]
==============================================================================
