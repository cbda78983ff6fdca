---------------------------- MODULE DriftDetector ----------------------------
(***************************************************************************)
(* drift/adwin_detector.py and drift/retraining_scheduler.py: a detector   *)
(* that keeps a window of the newest values and compares the means of its  *)
(* halves, and the check that feeds it a batch and decides on a retraining *)
(* together with the Kolmogorov-Smirnov test of SciPy, which is external   *)
(* and answers either way.                                                 *)
(*                                                                         *)
(* Means and deviations are compared exactly, cross-multiplied; where they *)
(* are equal the floating-point result may fall on either side.            *)
(***************************************************************************)
EXTENDS Integers, SequencesExt

CONSTANTS
    Values,       \* scores, as integers
    MaxWindow,    \* max_window, at least 10
    MaxElements,  \* bound: values fed
    MaxSwitches   \* bound: values that differ from the one before

ASSUME ValuesAssumption == Values \subseteq Int
ASSUME WindowAssumption == MaxWindow \in Nat /\ MaxWindow >= 10
ASSUME StreamAssumption == MaxElements \in Nat /\ MaxSwitches \in Nat

VARIABLES
    window,    \* Seq(Values): _window
    ks,        \* BOOLEAN: the KS test's verdict on the current batch
    adwin,     \* BOOLEAN: adwin_triggered
    checking,  \* BOOLEAN: within check_and_schedule_retrain
    decision,  \* BOOLEAN: what the last check returned
    stream,    \* history: the values fed since the detector was created or reset
    from       \* history: the length of stream when the current or last check began

driftVars == <<window, ks, adwin, checking, decision, stream, from>>

-----------------------------------------------------------------------------
(* add_element.                                                            *)

Sum(s) ==
    LET upTo[i \in 0 .. Len(s)] == IF i = 0 THEN 0 ELSE upTo[i - 1] + s[i]
    IN  upTo[Len(s)]

\* n^2 times the variance of s.
Spread(s) == Len(s) * Sum([i \in 1 .. Len(s) |-> s[i] * s[i]]) - Sum(s) * Sum(s)

\* Positive, zero or negative as the means of the halves of w differ by more
\* than, exactly, or less than the deviation of w.
Excess(w) ==
    LET n     == Len(w)
        mid   == n \div 2
        shift == Sum(SubSeq(w, 1, mid)) * (n - mid) - Sum(SubSeq(w, mid + 1, n)) * mid
        size  == mid * (n - mid)
    IN  shift * shift * n * n - Spread(w) * size * size

\* What add_element may return for the window w it leaves.  Halves of ten or
\* more values hold five each, so the code's test of their lengths never applies.
Verdicts(w) ==
    IF Len(w) < 10 \/ Spread(w) = 0
      THEN {FALSE}
      ELSE IF Excess(w) = 0 THEN BOOLEAN ELSE {Excess(w) > 0}

\* Mutant: the newest value is dropped from a full window.
Slid_DropsNewest(w, v) == IF Len(w) < MaxWindow THEN Append(w, v) ELSE w

\* Append, then drop the oldest value if there is one too many.
Slid(w, v) == IF Len(w) < MaxWindow THEN Append(w, v) ELSE Append(Tail(w), v)

-----------------------------------------------------------------------------
DetectorTypeOK ==
    /\ Len(window) <= MaxWindow /\ ToSet(window) \subseteq Values
    /\ ks \in BOOLEAN /\ adwin \in BOOLEAN
    /\ checking \in BOOLEAN /\ decision \in BOOLEAN
    /\ from \in 0 .. Len(stream)

DriftInit ==
    /\ window = <<>>
    /\ ks = FALSE /\ adwin = FALSE /\ checking = FALSE /\ decision = FALSE
    /\ stream = <<>>
    /\ from = 0

Switches(s) == Cardinality({i \in 2 .. Len(s) : s[i] # s[i - 1]})

\* check_and_schedule_retrain: the KS test, then the batch, then the decision.
BeginCheck(verdict) ==
    /\ ~checking
    /\ checking' = TRUE
    /\ ks' = verdict
    /\ adwin' = FALSE
    /\ from' = Len(stream)
    /\ UNCHANGED <<window, decision, stream>>

\* Mutant: the verdict on an element replaces those on the elements before it.
Feed_Overwrites(v) ==
    /\ checking
    /\ Len(stream) < MaxElements
    /\ Switches(Append(stream, v)) <= MaxSwitches
    /\ window' = Slid(window, v)
    /\ adwin' \in Verdicts(window')
    /\ stream' = Append(stream, v)
    /\ UNCHANGED <<ks, checking, decision, from>>

\* One turn of the loop over the batch.
Feed(v) ==
    /\ checking
    /\ Len(stream) < MaxElements
    /\ Switches(Append(stream, v)) <= MaxSwitches
    /\ window' = Slid(window, v)
    /\ \E verdict \in Verdicts(window') : adwin' = (adwin \/ verdict)
    /\ stream' = Append(stream, v)
    /\ UNCHANGED <<ks, checking, decision, from>>

\* An empty batch is refused at the start.
Decide ==
    /\ checking
    /\ Len(stream) > from
    /\ decision' = (ks \/ adwin)
    /\ checking' = FALSE
    /\ UNCHANGED <<window, ks, adwin, stream, from>>

\* Mutant: the newer half of the window is kept.
Reset_Half ==
    /\ ~checking
    /\ window' = SubSeq(window, Len(window) \div 2 + 1, Len(window))
    /\ stream' = <<>>
    /\ from' = 0
    /\ UNCHANGED <<ks, adwin, checking, decision>>

\* reset.
Reset ==
    /\ ~checking
    /\ window' = <<>>
    /\ stream' = <<>>
    /\ from' = 0
    /\ UNCHANGED <<ks, adwin, checking, decision>>

DriftNext ==
    \/ \E verdict \in BOOLEAN : BeginCheck(verdict)
    \/ \E v \in Values : Feed(v)
    \/ Decide
    \/ Reset

DriftSpec == DriftInit /\ [][DriftNext]_driftVars

-----------------------------------------------------------------------------
(* Properties.                                                             *)

Newest(s, n) == SubSeq(s, Len(s) - n + 1, Len(s))

\* The window once the values of s have been fed.
WindowAfter(s) == Newest(s, IF Len(s) < MaxWindow THEN Len(s) ELSE MaxWindow)

\* A decision answers for the whole batch: a shift that shows at any element of
\* it, even one that has left the window again, leads to a retraining, and without
\* one, or a KS verdict, there is none.
DecisionAnswersForBatch ==
    ~checking /\ Len(stream) > from =>
        LET batch   == from + 1 .. Len(stream)
            Seen(i) == Verdicts(WindowAfter(SubSeq(stream, 1, i)))
        IN  /\ ks \/ (\E i \in batch : Seen(i) = {TRUE}) => decision
            /\ decision => ks \/ \E i \in batch : TRUE \in Seen(i)

\* The last values of the stream are k times b, after a window full of a.
Stepped(k) ==
    /\ Len(stream) >= MaxWindow + k
    /\ \E a, b \in Values :
          /\ a # b
          /\ ToSet(Newest(stream, k)) = {b}
          /\ ToSet(Newest(SubSeq(stream, 1, Len(stream) - k), MaxWindow)) = {a}

\* A step of the level, of whatever height, is noticed as soon as it fills more
\* than a fifth of a window of even length, not before, and reported until less
\* than a fifth of the old level is left.
StepsNoticedInTime ==
    MaxWindow % 2 = 0 =>
        \A k \in 1 .. MaxWindow :
            Stepped(k) =>
                /\ (5 * k > MaxWindow /\ 5 * (MaxWindow - k) > MaxWindow) => Verdicts(window) = {TRUE}
                /\ (5 * k < MaxWindow \/ 5 * (MaxWindow - k) < MaxWindow) => Verdicts(window) = {FALSE}

\* The detector says nothing about the first nine values after a reset, whatever
\* came before it.
SilentAfterReset == Len(stream) < 10 => Verdicts(window) = {FALSE}
=============================================================================
