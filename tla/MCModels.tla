------------------------------ MODULE MCModels -------------------------------
(***************************************************************************)
(* The trainer and registry, the calibrator and ensemble, and the sequence *)
(* builder share no state, so their states are explored one component at a *)
(* time: a component takes steps only while the others are as they began.  *)
(***************************************************************************)
EXTENDS ModelTraining, Scoring, Sessions, TLC

Init == TrainingInit /\ ScoringInit /\ SessionsInit

Next ==
    \/ TrainingNext /\ ScoringInit /\ SessionsInit /\ UNCHANGED <<scoringVars, sessionsVars>>
    \/ ScoringNext /\ TrainingInit /\ SessionsInit /\ UNCHANGED <<trainingVars, sessionsVars>>
    \/ SessionsNext /\ TrainingInit /\ ScoringInit /\ UNCHANGED <<trainingVars, scoringVars>>

Spec == Init /\ [][Next]_<<trainingVars, scoringVars, sessionsVars>>

TrainerSymmetry == Permutations(Trainers)

FewLogLikelihoods == {-6, -2, 0}

\* Two types the defaults do not name, in alphabetical order.
TwoNewTypes == <<"dns", "vpn">>
SmallTimes == 0 .. 6

\* Nth is what sorting and indexing give.
ASSUME NthAssumption ==
    \A s \in SeqOf(Scores, 5), k \in 1 .. 5 : k <= Len(s) => Nth(s, k) = SortSeq(s, <)[k]

\* So is StableOrder, with ties broken by the position.
ASSUME OrderAssumption ==
    \A s \in SeqOf(Scores, 4) :
        LET Before(i, j) == s[i] < s[j] \/ (s[i] = s[j] /\ i < j)
        IN  StableOrder(s) = SetToSortSeq(1 .. Len(s), Before)
==============================================================================
