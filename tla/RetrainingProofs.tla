------------------------- MODULE RetrainingProofs ----------------------------
(***************************************************************************)
(* Proofs about the parts of a retraining, each by itself: the trainer,    *)
(* its files and their readers (ModelTraining), for every number of        *)
(* trainers and loaders, any losses and any patience; the detector that    *)
(* asks for it (DriftDetector), for values and windows of any size; and    *)
(* what follows it, the calibration of the threshold (Scoring) and the     *)
(* health check (ModelHealth), for any scores, errors and baseline.        *)
(***************************************************************************)
EXTENDS ModelTraining, DriftDetector, ModelHealth, Scoring,
        FiniteSetTheorems, WellFoundedInduction, TLAPS

InSave(t) == pc[t] \in {"weights open", "weights saved", "metadata open"}

\* The epoch since which patience has been running.
LastGain(t) == Len(history[t]) - (Patience - left[t])

\* What a run knows of its history: best_val is the loss of the last epoch that
\* improved, and is below none of the epochs.
RunIsCounted(t) ==
    LET s == history[t]
        k == LastGain(t)
    IN  /\ \A j \in 1 .. Len(s) : best[t] <= s[j]
        /\ IF Len(s) = 0
             THEN best[t] = Infinity /\ left[t] = Patience
             ELSE /\ k \in 1 .. Len(s) /\ best[t] = s[k] /\ Improves(s, k)
                  /\ \A i \in k + 1 .. Len(s) : ~Improves(s, i)
        /\ \A n \in 1 .. Len(s) - 1 : ~Stale(s, n)
        /\ InSave(t) => Len(s) > 0
        /\ pc[t] # "idle" => run[t] \in 1 .. MaxRuns

\* Weights and metadata of one run.
Matching(w, m) == w \in Saved /\ m \in Saved /\ w.run = m.run /\ m.loss <= w.loss

\* Unless saves were mixed up, at rest the files match, and a save under way is
\* the only one and has written what it should.
FilesFollow ==
    ~mixed =>
        /\ ~Saving => (weights = Absent /\ metadata = Absent) \/ Matching(weights, metadata)
        /\ \A t \in Trainers : InSave(t) =>
               /\ \A u \in Trainers : InSave(u) => u = t
               /\ pc[t] # "weights open" =>
                      weights = [run |-> run[t], loss |-> history[t][Len(history[t])]]

\* A load nobody disturbed has read the weights that are still there.
LoadsFollow ==
    \A d \in Loaders :
        read[d] # Nothing /\ d \notin disturbed => ~Saving /\ ~mixed /\ read[d] = weights

Trained == \A t \in Trainers : RunIsCounted(t)

-----------------------------------------------------------------------------
(* Early stopping.                                                         *)

LEMMA InfinityAbove == Infinity \in Nat /\ \A l \in Losses : l < Infinity
<1> DEFINE top == CHOOSE m \in Losses : \A l \in Losses : l <= m
<1>1. top \in Losses /\ \A l \in Losses : l <= top
  BY LossesAssumption
<1>2. Infinity = 1 + top
  BY DEF Infinity
<1> HIDE DEF top
<1> QED
  BY <1>1, <1>2, LossesAssumption

\* One more epoch leaves what was said of the earlier ones.
LEMMA EarlierEpochsStand ==
  ASSUME NEW s \in Seq(Losses), NEW loss \in Losses
  PROVE  LET longer == Append(s, loss)
         IN  /\ longer \in Seq(Losses) /\ Len(longer) = Len(s) + 1 /\ longer[Len(s) + 1] = loss
             /\ \A i \in 1 .. Len(s) : longer[i] = s[i]
             /\ \A i \in 1 .. Len(s) : Improves(longer, i) <=> Improves(s, i)
             /\ \A n \in 1 .. Len(s) : Stale(longer, n) <=> Stale(s, n)
<1> DEFINE longer == Append(s, loss)
<1>1. /\ longer \in Seq(Losses) /\ Len(longer) = Len(s) + 1 /\ longer[Len(s) + 1] = loss
      /\ Len(s) \in Nat /\ \A i \in 1 .. Len(s) : longer[i] = s[i]
  OBVIOUS
<1> HIDE DEF longer
<1>2. \A i \in 1 .. Len(s) : Improves(longer, i) <=> Improves(s, i)
  BY <1>1 DEF Improves
<1>3. ASSUME NEW n \in 1 .. Len(s) PROVE Stale(longer, n) <=> Stale(s, n)
  <2>1. CASE n >= Patience
    <3>1. \A i \in n - Patience + 1 .. n : i \in 1 .. Len(s)
      BY <1>1, <2>1, EpochsAssumption
    <3> QED
      BY <1>2, <2>1, <3>1 DEF Stale
  <2>2. CASE ~(n >= Patience)
    BY <2>2 DEF Stale
  <2> QED
    BY <2>1, <2>2
<1> QED
  BY <1>1, <1>2, <1>3 DEF longer

LEMMA InitType == TrainingInit => TrainingTypeOK
<1> SUFFICES ASSUME TrainingInit PROVE TrainingTypeOK
  OBVIOUS
<1>1. <<>> \in Seq(Losses) /\ Len(<<>>) <= Epochs /\ Patience \in 0 .. Patience /\ 0 \in 0 .. MaxRuns
      /\ 0 \in 0 .. MaxCrashes
  BY EpochsAssumption
<1>2. pc \in [Trainers -> Control]
  BY DEF TrainingInit, Control
<1>3. history \in [Trainers -> Seq(Losses)] /\ \A t \in Trainers : Len(history[t]) <= Epochs
  BY <1>1 DEF TrainingInit
<1> QED
  BY <1>1, <1>2, <1>3 DEF TrainingInit, TrainingTypeOK, File

LEMMA InitTrained == TrainingInit => Trained
  BY EpochsAssumption DEF TrainingInit, Trained, RunIsCounted, LastGain, InSave

\* A run still has its epochs and its patience, and the best of its losses is one.
LEMMA RunTypes ==
  ASSUME TrainingTypeOK, Trained, NEW t \in Trainers
  PROVE  /\ history[t] \in Seq(Losses) /\ Len(history[t]) \in Nat /\ Len(history[t]) <= Epochs
         /\ left[t] \in 0 .. Patience /\ RunIsCounted(t)
         /\ \A j \in 1 .. Len(history[t]) : history[t][j] \in Losses
         /\ Len(history[t]) > 0 => best[t] \in Losses
<1>1. /\ history[t] \in Seq(Losses) /\ Len(history[t]) \in Nat /\ Len(history[t]) <= Epochs
      /\ left[t] \in 0 .. Patience /\ RunIsCounted(t)
  BY DEF TrainingTypeOK, Trained
<1>2. \A j \in 1 .. Len(history[t]) : history[t][j] \in Losses
  BY <1>1
<1> QED
  BY <1>1, <1>2 DEF RunIsCounted

\* An epoch keeps the count: the patience left tells how long ago the last gain was.
LEMMA EpochCounts ==
  ASSUME TrainingTypeOK, Trained, NEW t \in Trainers, NEW loss \in Losses, Epoch(t, loss)
  PROVE  /\ RunIsCounted(t)'
         /\ history[t]' \in Seq(Losses) /\ Len(history[t]') <= Epochs
         /\ best[t]' \in Losses /\ left[t]' \in 0 .. Patience
<1> DEFINE s == history[t]
           longer == Append(s, loss)
           k == LastGain(t)
<1>1. /\ s \in Seq(Losses) /\ Len(s) \in Nat /\ Len(s) <= Epochs /\ left[t] \in 0 .. Patience
      /\ \A j \in 1 .. Len(s) : s[j] \in Losses
      /\ Len(s) > 0 => best[t] \in Losses
  BY RunTypes
<1>2. /\ longer \in Seq(Losses) /\ Len(longer) = Len(s) + 1 /\ longer[Len(s) + 1] = loss
      /\ \A i \in 1 .. Len(s) : longer[i] = s[i]
      /\ \A i \in 1 .. Len(s) : Improves(longer, i) <=> Improves(s, i)
      /\ \A n \in 1 .. Len(s) : Stale(longer, n) <=> Stale(s, n)
  BY <1>1, EarlierEpochsStand
<1>3. Len(s) # Epochs /\ left[t] # 0 /\ pc[t] = "training" /\ pc' = pc /\ run' = run
  BY DEF Epoch, Stopped
<1>4. history[t]' = longer
  BY DEF Epoch, TrainingTypeOK
<1>5. loss < best[t] => best[t]' = loss /\ left[t]' = Patience
  BY DEF Epoch, TrainingTypeOK
<1>6. ~(loss < best[t]) => best[t]' = best[t] /\ left[t]' = left[t] - 1
  BY DEF Epoch, TrainingTypeOK
<1>7. /\ \A j \in 1 .. Len(s) : best[t] <= s[j]
      /\ Len(s) = 0 => best[t] = Infinity
      /\ Len(s) > 0 =>
            /\ k \in 1 .. Len(s) /\ best[t] = s[k] /\ Improves(s, k)
            /\ \A i \in k + 1 .. Len(s) : ~Improves(s, i)
      /\ \A n \in 1 .. Len(s) - 1 : ~Stale(s, n)
      /\ run[t] \in 1 .. MaxRuns
  BY <1>3, RunTypes DEF RunIsCounted
<1> HIDE DEF s, longer
<1>8. ASSUME Len(s) > 0 PROVE ~Stale(s, Len(s))
  <2>1. k \in 1 .. Len(s) /\ Improves(s, k) /\ k \in Len(s) - Patience + 1 .. Len(s)
    BY <1>1, <1>3, <1>7, <1>8, EpochsAssumption DEF LastGain, s
  <2> QED
    BY <2>1 DEF Stale
<1>9. \A n \in 1 .. Len(longer) - 1 : ~Stale(longer, n)
  <2>1. ASSUME NEW n \in 1 .. Len(s) PROVE ~Stale(s, n)
    BY <1>1, <1>7, <1>8
  <2> QED
    BY <1>1, <1>2, <2>1
<1>10. ASSUME loss < best[t]
       PROVE  /\ \A j \in 1 .. Len(longer) : best[t]' <= longer[j]
              /\ LastGain(t)' = Len(longer) /\ best[t]' = longer[Len(longer)]
              /\ Improves(longer, Len(longer))
  <2>1. ASSUME NEW j \in 1 .. Len(s) PROVE loss < s[j]
    <3>1. best[t] \in Losses /\ best[t] <= s[j] /\ s[j] \in Losses
      BY <1>1, <1>7
    <3>2. loss \in Nat /\ best[t] \in Nat /\ s[j] \in Nat
      BY <3>1, LossesAssumption
    <3> QED
      BY <1>10, <3>1, <3>2
  <2>2. best[t]' = loss /\ loss \in Nat
    BY <1>5, <1>10, LossesAssumption
  <2>3. \A j \in 1 .. Len(longer) : loss <= longer[j]
    <3>1. ASSUME NEW j \in 1 .. Len(longer) PROVE loss <= longer[j]
      <4>1. CASE j = Len(longer)
        BY <1>2, <2>2, <4>1
      <4>2. CASE j # Len(longer)
        <5>1. j \in 1 .. Len(s)
          BY <1>1, <1>2, <4>2
        <5>2. longer[j] = s[j] /\ s[j] \in Nat
          BY <1>1, <1>2, <5>1, LossesAssumption
        <5> QED
          BY <2>1, <2>2, <5>1, <5>2
      <4> QED
        BY <4>1, <4>2
    <3> QED
      BY <3>1
  <2>4. Improves(longer, Len(longer))
    BY <1>1, <1>2, <2>1 DEF Improves
  <2>5. LastGain(t)' = Len(longer)
    BY <1>1, <1>2, <1>4, <1>5, <1>10, EpochsAssumption DEF LastGain
  <2> QED
    BY <1>2, <2>2, <2>3, <2>4, <2>5
<1>11. ASSUME ~(loss < best[t])
       PROVE  /\ Len(s) > 0 /\ best[t]' = best[t] /\ best[t] \in Losses
              /\ \A j \in 1 .. Len(longer) : best[t] <= longer[j]
              /\ LastGain(t)' = k /\ k \in 1 .. Len(s) /\ best[t] = longer[k] /\ Improves(longer, k)
              /\ \A i \in k + 1 .. Len(longer) : ~Improves(longer, i)
  <2>1. Len(s) > 0
    BY <1>1, <1>7, <1>11, InfinityAbove
  <2>2. k \in 1 .. Len(s) /\ best[t] = s[k] /\ best[t] \in Losses /\ best[t] \in Nat /\ loss \in Nat
    BY <1>1, <1>7, <2>1, LossesAssumption
  <2>3. \A j \in 1 .. Len(longer) : best[t] <= longer[j]
    <3>1. \A j \in 1 .. Len(s) : best[t] <= longer[j]
      BY <1>2, <1>7
    <3>2. best[t] <= longer[Len(s) + 1]
      BY <1>2, <1>11, <2>2
    <3>3. \A j \in 1 .. Len(longer) : j \in 1 .. Len(s) \/ j = Len(s) + 1
      BY <1>1, <1>2
    <3> QED
      BY <3>1, <3>2, <3>3
  <2>4. LastGain(t)' = k
    <3>1. left[t]' = left[t] - 1 /\ Len(history[t]') = Len(s) + 1
      BY <1>2, <1>4, <1>6, <1>11
    <3>2. left[t] \in Nat /\ Len(s) \in Nat /\ Patience \in Nat
      BY <1>1, EpochsAssumption
    <3>3. k = Len(s) - (Patience - left[t])
      BY DEF LastGain, s
    <3>4. LastGain(t)' = Len(history[t]') - (Patience - left[t]')
      BY DEF LastGain
    <3>5. LastGain(t)' = (Len(s) + 1) - (Patience - (left[t] - 1))
      BY <3>1, <3>4
    <3>6. \A a, b, p \in Nat : (a + 1) - (p - (b - 1)) = a - (p - b)
      OBVIOUS
    <3> HIDE DEF s, k
    <3>7. (Len(s) + 1) - (Patience - (left[t] - 1)) = Len(s) - (Patience - left[t])
      BY <3>2, <3>6
    <3> QED
      BY <3>3, <3>5, <3>7
  <2>5. ~Improves(longer, Len(longer))
    BY <1>1, <1>2, <1>11, <2>2 DEF Improves
  <2>6. \A i \in k + 1 .. Len(longer) : ~Improves(longer, i)
    <3>1. ASSUME NEW i \in k + 1 .. Len(longer), i # Len(longer) PROVE ~Improves(longer, i)
      <4>1. i \in k + 1 .. Len(s) /\ i \in 1 .. Len(s)
        BY <1>1, <1>2, <2>2, <3>1
      <4> QED
        BY <1>2, <1>7, <2>1, <4>1
    <3> QED
      BY <2>5, <3>1
  <2>7. best[t]' = best[t]
    BY <1>6, <1>11
  <2> QED
    BY <1>2, <1>7, <2>1, <2>2, <2>3, <2>4, <2>6, <2>7
<1>12. RunIsCounted(t)'
  <2>1. CASE loss < best[t]
    <3>1. \A i \in Len(longer) + 1 .. Len(longer) : ~Improves(longer, i)
      BY <1>1, <1>2
    <3>2. Len(longer) # 0 /\ Len(longer) \in 1 .. Len(longer)
      BY <1>1, <1>2
    <3>3. pc'[t] # "idle" => run'[t] \in 1 .. MaxRuns
      BY <1>3, <1>7
    <3>4. ~InSave(t)'
      BY <1>3 DEF InSave
    <3> QED
      BY <1>4, <1>9, <1>10, <2>1, <3>1, <3>2, <3>3, <3>4 DEF RunIsCounted
  <2>2. CASE ~(loss < best[t])
    <3>1. Len(longer) # 0 /\ k \in 1 .. Len(longer)
      BY <1>1, <1>2, <1>11, <2>2
    <3> QED
      BY <1>3, <1>4, <1>7, <1>9, <1>11, <2>2, <3>1 DEF RunIsCounted, InSave
  <2> QED
    BY <2>1, <2>2
<1>13. best[t]' \in Losses
  BY <1>5, <1>11
<1>14. left[t]' \in 0 .. Patience
  BY <1>1, <1>3, <1>5, <1>6, EpochsAssumption
<1>15. history[t]' \in Seq(Losses) /\ Len(history[t]') <= Epochs
  BY <1>1, <1>2, <1>3, <1>4, EpochsAssumption
<1> QED
  BY <1>12, <1>13, <1>14, <1>15

\* A trainer's account of its run is its own.
LEMMA OthersCounted ==
  ASSUME NEW u \in Trainers, RunIsCounted(u), history'[u] = history[u], best'[u] = best[u],
         left'[u] = left[u], run'[u] = run[u], pc'[u] = pc[u] \/ pc'[u] = "idle"
  PROVE  RunIsCounted(u)'
  BY DEF RunIsCounted, LastGain, InSave

\* A save begins when the run is over, which has had an epoch by then.
LEMMA StoppedRunHasEpochs ==
  ASSUME TrainingTypeOK, Trained, NEW t \in Trainers, Stopped(t)
  PROVE  Len(history[t]) > 0
  BY RunTypes, EpochsAssumption DEF RunIsCounted, Stopped

\* While a trainer saves, what it trained stands.
LEMMA SaveCounted ==
  ASSUME TrainingTypeOK, Trained, NEW t \in Trainers, NEW u \in Trainers,
         UNCHANGED training, Len(history[t]) > 0, pc[t] # "idle",
         pc' = [pc EXCEPT ![t] = pc'[t]]
  PROVE  RunIsCounted(u)'
<1>1. RunIsCounted(u)
  BY DEF Trained
<1>2. CASE u = t
  BY <1>1, <1>2 DEF RunIsCounted, LastGain, InSave, training
<1>3. CASE u # t
  BY <1>1, <1>3, OthersCounted DEF training, TrainingTypeOK
<1> QED
  BY <1>2, <1>3

LEMMA NextTrained ==
  ASSUME TrainingTypeOK, Trained, [TrainingNext]_trainingVars
  PROVE  Trained'
<1> SUFFICES ASSUME NEW u \in Trainers PROVE RunIsCounted(u)'
  BY DEF Trained
<1>0. RunIsCounted(u)
  BY DEF Trained
<1>1. CASE UNCHANGED trainingVars
  BY <1>0, <1>1, OthersCounted DEF trainingVars, training
<1>2. ASSUME NEW t \in Trainers, Begin(t) PROVE RunIsCounted(u)'
  <2>1. CASE u = t
    <3>1. /\ history'[t] = <<>> /\ best'[t] = Infinity /\ left'[t] = Patience /\ run'[t] = runs + 1
          /\ pc'[t] = "training" /\ runs + 1 \in 1 .. MaxRuns
      BY <1>2, EpochsAssumption DEF Begin, TrainingTypeOK
    <3>2. Len(history'[t]) = 0
      BY <3>1
    <3> QED
      BY <2>1, <3>1, <3>2 DEF RunIsCounted, InSave
  <2>2. CASE u # t
    BY <1>0, <1>2, <2>2, OthersCounted DEF Begin, TrainingTypeOK
  <2> QED
    BY <2>1, <2>2
<1>3. ASSUME NEW t \in Trainers, NEW loss \in Losses, Epoch(t, loss) PROVE RunIsCounted(u)'
  <2>1. CASE u = t
    BY <1>3, <2>1, EpochCounts
  <2>2. CASE u # t
    <3>1. history'[u] = history[u] /\ left'[u] = left[u] /\ best'[u] = best[u]
      BY <1>3, <2>2 DEF Epoch, TrainingTypeOK
    <3> QED
      BY <1>0, <1>3, <3>1, OthersCounted DEF Epoch
  <2> QED
    BY <2>1, <2>2
<1>4. ASSUME NEW t \in Trainers, ReturnUnsaved(t) \/ Crash(t) PROVE RunIsCounted(u)'
  BY <1>0, <1>4, OthersCounted DEF ReturnUnsaved, Crash, training, TrainingTypeOK
<1>5. ASSUME NEW t \in Trainers, Save(t) PROVE RunIsCounted(u)'
  <2>1. UNCHANGED training /\ pc[t] # "idle"
    BY <1>5 DEF Save, OpenWeights, WriteWeights, OpenMetadata, WriteMetadata
  <2>2. pc' = [pc EXCEPT ![t] = pc'[t]]
    BY <1>5 DEF Save, OpenWeights, WriteWeights, OpenMetadata, WriteMetadata, TrainingTypeOK
  <2>3. Len(history[t]) > 0
    <3>1. CASE OpenWeights(t)
      BY <3>1, StoppedRunHasEpochs DEF OpenWeights
    <3>2. CASE ~OpenWeights(t)
      BY <1>5, <3>2, RunTypes DEF RunIsCounted, Save, InSave, WriteWeights, OpenMetadata, WriteMetadata
    <3> QED
      BY <3>1, <3>2
  <2> QED
    BY <2>1, <2>2, <2>3, SaveCounted
<1>6. ASSUME NEW d \in Loaders, ReadWeights(d) \/ ReadMetadata(d) PROVE RunIsCounted(u)'
  BY <1>0, <1>6, OthersCounted DEF ReadWeights, ReadMetadata, training
<1> QED
  BY <1>1, <1>2, <1>3, <1>4, <1>5, <1>6 DEF TrainingNext, Train, Save

LEMMA NextType ==
  ASSUME TrainingTypeOK, Trained, [TrainingNext]_trainingVars
  PROVE  TrainingTypeOK'
<1> USE DEF TrainingTypeOK
<1>1. CASE UNCHANGED trainingVars
  BY <1>1 DEF trainingVars, training, files, loading
<1>2. ASSUME NEW t \in Trainers, Begin(t) PROVE TrainingTypeOK'
  <2>1. <<>> \in Seq(Losses) /\ Len(<<>>) <= Epochs /\ Patience \in 0 .. Patience
        /\ runs + 1 \in 0 .. MaxRuns
    BY <1>2, EpochsAssumption DEF Begin
  <2>2. pc' \in [Trainers -> Control]
    BY <1>2 DEF Begin, Control
  <2>3. history' \in [Trainers -> Seq(Losses)] /\ \A u \in Trainers : Len(history'[u]) <= Epochs
    BY <1>2, <2>1 DEF Begin
  <2> QED
    BY <1>2, <2>1, <2>2, <2>3 DEF Begin, files, loading
<1>3. ASSUME NEW t \in Trainers, NEW loss \in Losses, Epoch(t, loss) PROVE TrainingTypeOK'
  <2>1. history[t]' \in Seq(Losses) /\ Len(history[t]') <= Epochs /\ best[t]' \in Losses /\ left[t]' \in 0 .. Patience
    BY <1>3, EpochCounts
  <2>2. history' \in [Trainers -> Seq(Losses)] /\ \A u \in Trainers : Len(history'[u]) <= Epochs
    BY <1>3, <2>1 DEF Epoch
  <2>3. best' \in [Trainers -> Losses \cup {Infinity}]
    BY <1>3, <2>1 DEF Epoch
  <2>4. left' \in [Trainers -> 0 .. Patience]
    <3>1. left' = [left EXCEPT ![t] = left'[t]]
      BY <1>3 DEF Epoch
    <3> QED
      BY <2>1, <3>1
  <2> QED
    BY <1>3, <2>2, <2>3, <2>4 DEF Epoch, files, loading
<1>4. ASSUME NEW t \in Trainers, ReturnUnsaved(t) PROVE TrainingTypeOK'
  BY <1>4 DEF ReturnUnsaved, training, files, loading, Control
<1>5. ASSUME NEW t \in Trainers, OpenWeights(t) PROVE TrainingTypeOK'
  BY <1>5 DEF OpenWeights, training, Control, File, Saving
<1>6. ASSUME NEW t \in Trainers, WriteWeights(t) PROVE TrainingTypeOK'
  <2>1. [run |-> run[t], loss |-> history[t][Len(history[t])]] \in Saved
    <3>1. Len(history[t]) > 0 /\ run[t] \in 1 .. MaxRuns
      BY <1>6, RunTypes DEF WriteWeights, RunIsCounted, InSave
    <3>2. history[t][Len(history[t])] \in Losses
      BY <3>1, RunTypes
    <3> QED
      BY <3>1, <3>2 DEF Saved
  <2> QED
    BY <1>6, <2>1 DEF WriteWeights, training, loading, Control, File
<1>7. ASSUME NEW t \in Trainers, OpenMetadata(t) PROVE TrainingTypeOK'
  BY <1>7 DEF OpenMetadata, training, loading, Control, File
<1>8. ASSUME NEW t \in Trainers, WriteMetadata(t) PROVE TrainingTypeOK'
  <2>1. [run |-> run[t], loss |-> best[t]] \in Saved
    BY <1>8, RunTypes DEF WriteMetadata, RunIsCounted, InSave, Saved
  <2> QED
    BY <1>8, <2>1 DEF WriteMetadata, training, loading, Control, File
<1>9. ASSUME NEW t \in Trainers, Crash(t) PROVE TrainingTypeOK'
  <2>1. crashes' \in 0 .. MaxCrashes
    BY <1>9, EpochsAssumption DEF Crash
  <2> QED
    BY <1>9, <2>1 DEF Crash, training, loading, Control
<1>10. ASSUME NEW d \in Loaders, ReadWeights(d) PROVE TrainingTypeOK'
  BY <1>10 DEF ReadWeights, training, files, File
<1>11. ASSUME NEW d \in Loaders, ReadMetadata(d) PROVE TrainingTypeOK'
  BY <1>11 DEF ReadMetadata, training, files, File
<1> QED
  BY <1>1, <1>2, <1>3, <1>4, <1>5, <1>6, <1>7, <1>8, <1>9, <1>10, <1>11 DEF TrainingNext, Train, Save

\* Every variable of trainers, loaders and files keeps its type: no load returns the
\* contents of a file that is absent or incomplete.
THEOREM TrainingTypeCorrect == TrainingSpec => []TrainingTypeOK
<1>1. TrainingInit => TrainingTypeOK /\ Trained
  BY InitType, InitTrained
<1>2. (TrainingTypeOK /\ Trained) /\ [TrainingNext]_trainingVars => (TrainingTypeOK /\ Trained)'
  BY NextType, NextTrained
<1> QED
  BY <1>1, <1>2, PTL DEF TrainingSpec

\* However losses turn out, training ends at the first chance: after exactly Patience
\* epochs without a gain, or with its epochs used up.
THEOREM TrainingStopsWhenStale == TrainingSpec => []StopsWhenStale
<1>1. TrainingInit => TrainingTypeOK /\ Trained
  BY InitType, InitTrained
<1>2. (TrainingTypeOK /\ Trained) /\ [TrainingNext]_trainingVars => (TrainingTypeOK /\ Trained)'
  BY NextType, NextTrained
<1>3. TrainingTypeOK /\ Trained => StopsWhenStale
  <2> SUFFICES ASSUME TrainingTypeOK, Trained, NEW t \in Trainers
               PROVE  /\ pc[t] = "training" /\ Stopped(t) =>
                             Len(history[t]) = Epochs \/ Stale(history[t], Len(history[t]))
                      /\ \A n \in 1 .. Len(history[t]) - 1 : ~Stale(history[t], n)
    BY DEF StopsWhenStale
  <2>1. ASSUME left[t] = 0 PROVE Stale(history[t], Len(history[t]))
    <3>1. Len(history[t]) # 0
      BY <2>1, RunTypes, EpochsAssumption DEF RunIsCounted
    <3>2. LastGain(t) = Len(history[t]) - Patience /\ LastGain(t) \in 1 .. Len(history[t])
      BY <2>1, <3>1, RunTypes, EpochsAssumption DEF RunIsCounted, LastGain
    <3>3. \A i \in LastGain(t) + 1 .. Len(history[t]) : ~Improves(history[t], i)
      BY <3>1, RunTypes DEF RunIsCounted
    <3> QED
      BY <3>2, <3>3, RunTypes, EpochsAssumption DEF Stale
  <2> QED
    BY <2>1, RunTypes DEF RunIsCounted, Stopped
<1> QED
  BY <1>1, <1>2, <1>3, PTL DEF TrainingSpec

-----------------------------------------------------------------------------
(* Weights and metadata.                                                   *)

Followed == TrainingTypeOK /\ Trained /\ FilesFollow /\ LoadsFollow

LEMMA InitFollowed == TrainingInit => Followed /\ UndisturbedLoadMatches
  BY InitType, InitTrained
     DEF Followed, TrainingInit, FilesFollow, LoadsFollow, UndisturbedLoadMatches, Saving, InSave

LEMMA SavingMeans == Saving <=> \E t \in Trainers : InSave(t)
  BY DEF Saving, InSave

\* A step that neither saves nor kills a trainer leaves the files as they follow.
LEMMA FilesStand ==
  ASSUME FilesFollow, UNCHANGED files, \A t \in Trainers : (InSave(t)' <=> InSave(t)),
         \A t \in Trainers : InSave(t) => pc'[t] = pc[t] /\ run'[t] = run[t] /\ history'[t] = history[t]
  PROVE  FilesFollow' /\ (Saving' <=> Saving)
<1>1. Saving' <=> Saving
  BY DEF Saving, InSave
<1> QED
  BY <1>1 DEF FilesFollow, files

LEMMA LoadsStand ==
  ASSUME LoadsFollow, UNCHANGED <<files, loading>>, Saving' <=> Saving
  PROVE  LoadsFollow'
  BY DEF LoadsFollow, files, loading

\* An undisturbed load would find the two files of one run.
LEMMA FilesMatch ==
  ASSUME Followed, ~Saving, ~mixed, weights # Absent \/ metadata # Absent
  PROVE  Matching(weights, metadata)
  BY DEF Followed, FilesFollow

LEMMA NextFiles ==
  ASSUME Followed, [TrainingNext]_trainingVars
  PROVE  FilesFollow' /\ LoadsFollow'
<1> USE DEF Followed
<1>1. CASE UNCHANGED trainingVars
  BY <1>1, FilesStand, LoadsStand DEF trainingVars, training, files, loading, InSave
<1>2. ASSUME NEW t \in Trainers, Begin(t) \/ (\E loss \in Losses : Epoch(t, loss)) \/ ReturnUnsaved(t)
      PROVE  FilesFollow' /\ LoadsFollow'
  <2>1. /\ ~InSave(t) /\ ~InSave(t)' /\ UNCHANGED <<files, loading>>
        /\ \A u \in Trainers : u # t => pc'[u] = pc[u] /\ run'[u] = run[u] /\ history'[u] = history[u]
    <3>1. CASE Begin(t)
      BY <3>1 DEF Begin, InSave, TrainingTypeOK
    <3>2. ASSUME NEW loss \in Losses, Epoch(t, loss)
          PROVE  /\ ~InSave(t) /\ ~InSave(t)' /\ UNCHANGED <<files, loading>>
                 /\ \A u \in Trainers : u # t => pc'[u] = pc[u] /\ run'[u] = run[u] /\ history'[u] = history[u]
      BY <3>2 DEF Epoch, InSave, TrainingTypeOK
    <3>3. CASE ReturnUnsaved(t)
      BY <3>3 DEF ReturnUnsaved, InSave, TrainingTypeOK, training
    <3> QED
      BY <1>2, <3>1, <3>2, <3>3
  <2>2. \A u \in Trainers : (InSave(u)' <=> InSave(u))
    BY <2>1 DEF InSave
  <2> QED
    BY <2>1, <2>2, FilesStand, LoadsStand
<1>3. ASSUME NEW t \in Trainers, OpenWeights(t) PROVE FilesFollow' /\ LoadsFollow'
  <2>1. /\ mixed' = Saving /\ InSave(t)' /\ pc'[t] = "weights open"
        /\ \A u \in Trainers : u # t => pc'[u] = pc[u]
    BY <1>3 DEF OpenWeights, InSave, TrainingTypeOK
  <2>2. Saving'
    BY <2>1 DEF Saving
  <2>3. ASSUME ~mixed', NEW u \in Trainers, InSave(u)' PROVE u = t
    <3>1. ~Saving
      BY <2>1, <2>3
    <3> QED
      BY <2>1, <2>3, <3>1 DEF Saving, InSave
  <2>4. FilesFollow'
    BY <2>1, <2>2, <2>3 DEF FilesFollow
  <2>5. \A d \in Loaders : read'[d] # Nothing => d \in disturbed'
    BY <1>3 DEF OpenWeights
  <2> QED
    BY <2>4, <2>5 DEF LoadsFollow
<1>4. ASSUME NEW t \in Trainers, WriteWeights(t) PROVE FilesFollow' /\ LoadsFollow'
  <2>1. /\ InSave(t) /\ InSave(t)' /\ pc'[t] = "weights saved" /\ mixed' = mixed /\ UNCHANGED <<training, loading>>
        /\ weights' = [run |-> run'[t], loss |-> history'[t][Len(history'[t])]]
        /\ \A u \in Trainers : (InSave(u)' <=> InSave(u))
    BY <1>4 DEF WriteWeights, InSave, TrainingTypeOK, training
  <2>2. Saving /\ Saving'
    BY <2>1, SavingMeans DEF Saving, InSave
  <2>3. FilesFollow'
    BY <2>1, <2>2 DEF FilesFollow
  <2>4. LoadsFollow'
    BY <2>1, <2>2 DEF LoadsFollow, loading
  <2> QED
    BY <2>3, <2>4
<1>5. ASSUME NEW t \in Trainers, OpenMetadata(t) PROVE FilesFollow' /\ LoadsFollow'
  <2>1. /\ InSave(t) /\ InSave(t)' /\ pc[t] = "weights saved" /\ mixed' = mixed /\ UNCHANGED <<training, loading, weights>>
        /\ \A u \in Trainers : (InSave(u)' <=> InSave(u))
        /\ \A u \in Trainers : u # t => pc'[u] = pc[u]
    BY <1>5 DEF OpenMetadata, InSave, TrainingTypeOK
  <2>2. Saving /\ Saving'
    BY <2>1, SavingMeans DEF Saving, InSave
  <2>3. FilesFollow'
    BY <2>1, <2>2 DEF FilesFollow, training
  <2>4. LoadsFollow'
    BY <2>1, <2>2 DEF LoadsFollow, loading
  <2> QED
    BY <2>3, <2>4
<1>6. ASSUME NEW t \in Trainers, WriteMetadata(t) PROVE FilesFollow' /\ LoadsFollow'
  <2>1. /\ InSave(t) /\ ~InSave(t)' /\ pc[t] = "metadata open" /\ mixed' = mixed /\ UNCHANGED <<training, loading, weights>>
        /\ metadata' = [run |-> run[t], loss |-> best[t]]
        /\ \A u \in Trainers : u # t => pc'[u] = pc[u] /\ (InSave(u)' <=> InSave(u))
    BY <1>6 DEF WriteMetadata, InSave, TrainingTypeOK
  <2>2. Saving
    BY <2>1, SavingMeans
  <2>3. ASSUME ~mixed PROVE ~Saving' /\ Matching(weights', metadata')
    <3>1. /\ \A u \in Trainers : InSave(u) => u = t
          /\ weights = [run |-> run[t], loss |-> history[t][Len(history[t])]]
      BY <2>1, <2>3 DEF FilesFollow
    <3>2. ~Saving'
      BY <2>1, <3>1 DEF Saving, InSave
    <3>3. Len(history[t]) > 0 /\ run[t] \in 1 .. MaxRuns
      BY <2>1, RunTypes DEF RunIsCounted, InSave
    <3>4. Len(history[t]) \in 1 .. Len(history[t])
      BY <3>3, RunTypes
    <3>5. /\ best[t] <= history[t][Len(history[t])] /\ best[t] \in Losses
          /\ history[t][Len(history[t])] \in Losses
      BY <3>3, <3>4, RunTypes DEF RunIsCounted
    <3> QED
      BY <2>1, <3>1, <3>2, <3>3, <3>5 DEF Matching, Saved
  <2>4. FilesFollow'
    BY <2>1, <2>3, SavingMeans DEF FilesFollow, Saving, InSave
  <2>5. LoadsFollow'
    BY <2>1, <2>2 DEF LoadsFollow, loading
  <2> QED
    BY <2>4, <2>5
<1>7. ASSUME NEW t \in Trainers, Crash(t) PROVE FilesFollow' /\ LoadsFollow'
  <2>1. /\ ~InSave(t)' /\ UNCHANGED <<training, loading, weights, metadata>>
        /\ \A u \in Trainers : u # t => pc'[u] = pc[u]
    BY <1>7 DEF Crash, InSave, TrainingTypeOK
  <2>2. CASE pc[t] = "training"
    <3>1. ~InSave(t) /\ mixed' = mixed
      BY <1>7, <2>2 DEF Crash, InSave, TrainingTypeOK
    <3>2. \A u \in Trainers : (InSave(u)' <=> InSave(u))
      BY <2>1, <3>1 DEF InSave
    <3> QED
      BY <2>1, <3>1, <3>2, FilesStand, LoadsStand DEF files, training
  <2>3. CASE pc[t] # "training"
    <3>1. mixed' = TRUE /\ InSave(t)
      BY <1>7, <2>3 DEF Crash, InSave, TrainingTypeOK, Control
    <3>2. Saving
      BY <3>1, SavingMeans
    <3> QED
      BY <2>1, <3>1, <3>2 DEF FilesFollow, LoadsFollow, loading
  <2> QED
    BY <2>2, <2>3
<1>8. ASSUME NEW d \in Loaders, ReadWeights(d) PROVE FilesFollow' /\ LoadsFollow'
  <2>1. UNCHANGED <<pc, training, files>> /\ (Saving' <=> Saving)
    BY <1>8 DEF ReadWeights, Saving
  <2>2. FilesFollow'
    BY <2>1, FilesStand DEF training, InSave
  <2>3. read'[d] = weights /\ (d \notin disturbed' => ~Saving /\ ~mixed)
        /\ \A e \in Loaders : e # d => read'[e] = read[e] /\ (e \in disturbed' <=> e \in disturbed)
    BY <1>8 DEF ReadWeights, TrainingTypeOK
  <2> QED
    BY <2>1, <2>2, <2>3 DEF LoadsFollow, files
<1>9. ASSUME NEW d \in Loaders, ReadMetadata(d) PROVE FilesFollow' /\ LoadsFollow'
  <2>1. UNCHANGED <<pc, training, files, disturbed>> /\ (Saving' <=> Saving)
    BY <1>9 DEF ReadMetadata, Saving
  <2>2. FilesFollow'
    BY <2>1, FilesStand DEF training, InSave
  <2>3. \A e \in Loaders : read'[e] # Nothing => read'[e] = read[e]
    BY <1>9 DEF ReadMetadata, TrainingTypeOK
  <2> QED
    BY <2>1, <2>2, <2>3 DEF LoadsFollow, files
<1> QED
  BY <1>1, <1>2, <1>3, <1>4, <1>5, <1>6, <1>7, <1>8, <1>9 DEF TrainingNext, Train, Save

LEMMA NextLoads ==
  ASSUME Followed, UndisturbedLoadMatches, [TrainingNext]_trainingVars
  PROVE  UndisturbedLoadMatches'
<1>1. ASSUME UNCHANGED loaded, disturbed \subseteq disturbed' PROVE UndisturbedLoadMatches'
  BY <1>1 DEF UndisturbedLoadMatches
<1>2. CASE UNCHANGED trainingVars
  BY <1>1, <1>2 DEF trainingVars, loading
<1>3. ASSUME NEW t \in Trainers, Begin(t) \/ Train(t) \/ ReturnUnsaved(t) \/ Save(t) \/ Crash(t)
      PROVE  UndisturbedLoadMatches'
  BY <1>1, <1>3 DEF Begin, Train, Epoch, ReturnUnsaved, Save, OpenWeights, WriteWeights,
                    OpenMetadata, WriteMetadata, Crash, loading
<1>4. ASSUME NEW d \in Loaders, ReadWeights(d) PROVE UndisturbedLoadMatches'
  BY <1>4 DEF ReadWeights, UndisturbedLoadMatches, Followed, TrainingTypeOK
<1>5. ASSUME NEW d \in Loaders, ReadMetadata(d) PROVE UndisturbedLoadMatches'
  <2>1. CASE metadata \in {Absent, Torn}
    BY <1>1, <1>5, <2>1 DEF ReadMetadata
  <2>2. CASE metadata \notin {Absent, Torn} /\ d \notin disturbed
    <3>1. ~Saving /\ ~mixed /\ read[d] = weights
      BY <1>5, <2>2 DEF Followed, LoadsFollow, ReadMetadata
    <3>2. Matching(read[d], metadata)
      BY <2>2, <3>1, FilesMatch
    <3>3. loaded' = [loaded EXCEPT ![d] = [weights |-> read[d], metadata |-> metadata]] /\ disturbed' = disturbed
      BY <1>5, <2>2 DEF ReadMetadata
    <3> QED
      BY <3>2, <3>3 DEF UndisturbedLoadMatches, Matching, Followed, TrainingTypeOK
  <2>3. CASE metadata \notin {Absent, Torn} /\ d \in disturbed
    BY <1>5, <2>3 DEF ReadMetadata, UndisturbedLoadMatches, Followed, TrainingTypeOK
  <2> QED
    BY <2>1, <2>2, <2>3
<1> QED
  BY <1>2, <1>3, <1>4, <1>5 DEF TrainingNext

\* A load that no save disturbs returns the two files of one run, however many trainers
\* save to the path and die, once a save has been made whole and alone.
THEOREM LoadsMatch == TrainingSpec => []UndisturbedLoadMatches
<1>1. TrainingInit => Followed /\ UndisturbedLoadMatches
  BY InitFollowed
<1>2. (Followed /\ UndisturbedLoadMatches) /\ [TrainingNext]_trainingVars
        => (Followed /\ UndisturbedLoadMatches)'
  <2> SUFFICES ASSUME Followed, UndisturbedLoadMatches, [TrainingNext]_trainingVars
               PROVE  Followed' /\ UndisturbedLoadMatches'
    OBVIOUS
  <2>1. TrainingTypeOK /\ Trained
    BY DEF Followed
  <2>2. TrainingTypeOK' /\ Trained'
    BY <2>1, NextType, NextTrained
  <2> QED
    BY <2>2, NextFiles, NextLoads DEF Followed
<1> QED
  BY <1>1, <1>2, PTL DEF TrainingSpec

-----------------------------------------------------------------------------
(* The detector and the check.  A batch is answered for while it is being  *)
(* fed: adwin remembers a verdict on some element of it, which is a verdict *)
(* on the window the stream had then.                                      *)

\* What may have been said of the i-th value of s.
Seen(s, i) == Verdicts(WindowAfter(SubSeq(s, 1, i)))

\* The window holds the newest values of the stream.
WindowFollows == window = WindowAfter(stream)

\* The verdicts on the batch so far are in adwin.
BatchInAdwin ==
    checking \/ Len(stream) > from =>
        LET batch == from + 1 .. Len(stream)
        IN  /\ (\E i \in batch : Seen(stream, i) = {TRUE}) => adwin
            /\ adwin => \E i \in batch : TRUE \in Seen(stream, i)

DInv ==
    /\ stream \in Seq(Values) /\ window \in Seq(Values)
    /\ DetectorTypeOK
    /\ WindowFollows
    /\ BatchInAdwin
    /\ ~checking /\ Len(stream) > from => decision = (ks \/ adwin)

\* Appending to the stream leaves its prefixes alone.
LEMMA PrefixKept ==
    ASSUME NEW S, NEW s \in Seq(S), NEW v \in S, NEW i \in 0 .. Len(s)
    PROVE  SubSeq(Append(s, v), 1, i) = SubSeq(s, 1, i)
<1> DEFINE a == SubSeq(Append(s, v), 1, i)
           b == SubSeq(s, 1, i)
<1>1. Append(s, v) \in Seq(S) /\ Len(Append(s, v)) = Len(s) + 1
  OBVIOUS
<1>2. \A j \in 1 .. i : Append(s, v)[j] = s[j]
  OBVIOUS
<1>3. a \in Seq(S) /\ b \in Seq(S) /\ Len(a) = i /\ Len(b) = i
  BY <1>1
<1>4. \A j \in 1 .. i : a[j] = b[j]
  BY <1>1, <1>2
<1> QED
  BY <1>3, <1>4

\* What the newest values of a sequence are.
LEMMA NewestValues ==
    ASSUME NEW S, NEW s \in Seq(S), NEW n \in 0 .. Len(s)
    PROVE  /\ Newest(s, n) \in Seq(S)
           /\ Len(Newest(s, n)) = n
           /\ \A j \in 1 .. n : Newest(s, n)[j] = s[Len(s) - n + j]
<1> DEFINE m == Len(s)
<1>1. m \in Nat /\ n \in Nat /\ n <= m
  OBVIOUS
<1>2. Newest(s, n) = SubSeq(s, m - n + 1, m)
  BY DEF Newest
<1>3. \A j \in m - n + 1 .. m : j \in 1 .. m /\ s[j] \in S
  BY <1>1
<1>4. SubSeq(s, m - n + 1, m) = [j \in 1 .. m - (m - n + 1) + 1 |-> s[m - n + 1 + j - 1]]
  BY <1>1
<1>5. m - (m - n + 1) + 1 = n /\ \A j \in 1 .. n : m - n + 1 + j - 1 = m - n + j
  BY <1>1
<1>6. Newest(s, n) = [j \in 1 .. n |-> s[m - n + j]]
  BY <1>2, <1>4, <1>5
<1>7. \A j \in 1 .. n : s[m - n + j] \in S
  BY <1>1, <1>3
<1> QED
  BY <1>1, <1>6, <1>7

\* The values in the window once those of s have been fed.
LEMMA WindowValues ==
    ASSUME NEW S, NEW s \in Seq(S), NEW n \in 0 .. Len(s),
           n = IF Len(s) < MaxWindow THEN Len(s) ELSE MaxWindow
    PROVE  /\ WindowAfter(s) \in Seq(S)
           /\ Len(WindowAfter(s)) = n
           /\ \A j \in 1 .. n : WindowAfter(s)[j] = s[Len(s) - n + j]
<1>1. WindowAfter(s) = Newest(s, n)
  <2>1. CASE Len(s) < MaxWindow
    <3>1. n = Len(s) /\ WindowAfter(s) = Newest(s, Len(s))
      BY <2>1 DEF WindowAfter
    <3> QED
      BY <3>1
  <2>2. CASE ~(Len(s) < MaxWindow)
    <3>1. n = MaxWindow /\ WindowAfter(s) = Newest(s, MaxWindow)
      BY <2>2 DEF WindowAfter
    <3> QED
      BY <3>1
  <2> QED
    BY <2>1, <2>2
<1>2. /\ Newest(s, n) \in Seq(S) /\ Len(Newest(s, n)) = n
      /\ \A j \in 1 .. n : Newest(s, n)[j] = s[Len(s) - n + j]
  BY NewestValues
<1> QED
  BY <1>1, <1>2

\* A window that holds the newest values still does after one is added.
LEMMA WindowSlides ==
    ASSUME NEW S, NEW s \in Seq(S), NEW v \in S, NEW w, w = WindowAfter(s)
    PROVE  Slid(w, v) = WindowAfter(Append(s, v))
<1>1. PICK m \in Nat : m = Len(s)
  OBVIOUS
<1>2. PICK t \in Seq(S) : t = Append(s, v)
  <2>1. Append(s, v) \in Seq(S)
    OBVIOUS
  <2> QED
    BY <2>1
<1>3. MaxWindow \in Nat /\ MaxWindow >= 10
  BY WindowAssumption
<1>4. PICK n \in 0 .. m : n = IF m < MaxWindow THEN m ELSE MaxWindow
  BY <1>1, <1>3
<1>5. PICK k \in 1 .. m + 1 : k = IF m + 1 < MaxWindow THEN m + 1 ELSE MaxWindow
  BY <1>1, <1>3
<1>6. w \in Seq(S) /\ Len(w) = n /\ \A j \in 1 .. n : w[j] = s[m - n + j]
  BY <1>1, <1>4, WindowValues
<1>7. Len(t) = m + 1 /\ t[m + 1] = v /\ \A j \in 1 .. m : t[j] = s[j]
  BY <1>1, <1>2
<1>8. PICK r \in Seq(S) : r = WindowAfter(t) /\ Len(r) = k /\ \A j \in 1 .. k : r[j] = t[m + 1 - k + j]
  <2>1. k \in 0 .. Len(t) /\ k = IF Len(t) < MaxWindow THEN Len(t) ELSE MaxWindow
    <3>1. Len(t) = m + 1
      BY <1>7
    <3>2. k \in 0 .. m + 1
      OBVIOUS
    <3> QED
      BY <1>5, <3>1, <3>2
  <2>2. /\ WindowAfter(t) \in Seq(S) /\ Len(WindowAfter(t)) = k
        /\ \A j \in 1 .. k : WindowAfter(t)[j] = t[Len(t) - k + j]
    BY <2>1, WindowValues
  <2> QED
    BY <1>7, <2>2
<1>9. CASE m < MaxWindow
  <2>1. n = m /\ k = m + 1
    BY <1>3, <1>4, <1>5, <1>9
  <2>2. Slid(w, v) = Append(w, v)
    BY <1>6, <1>9, <2>1 DEF Slid
  <2>3. Append(w, v) \in Seq(S) /\ Len(Append(w, v)) = k
    BY <1>6, <2>1
  <2>4. \A j \in 1 .. k : r[j] = t[j]
    <3>1. \A j \in 1 .. k : m + 1 - k + j = j
      BY <2>1
    <3> QED
      BY <1>8, <3>1
  <2>5. \A j \in 1 .. m : w[j] = t[j]
    <3>1. \A j \in 1 .. m : m - n + j = j
      BY <2>1
    <3> QED
      BY <1>6, <1>7, <2>1, <3>1
  <2>6. \A j \in 1 .. m : Append(w, v)[j] = w[j]
    BY <1>6, <2>1
  <2>7. Append(w, v)[m + 1] = v
    BY <1>6, <2>1
  <2>8. \A j \in 1 .. k : j \in 1 .. m \/ j = m + 1
    BY <2>1
  <2>9. \A j \in 1 .. k : Append(w, v)[j] = r[j]
    BY <1>7, <2>4, <2>5, <2>6, <2>7, <2>8
  <2>10. Append(w, v) = r
    BY <1>8, <2>3, <2>9
  <2> QED
    BY <1>2, <1>8, <2>2, <2>10
<1>10. CASE m >= MaxWindow
  <2>1. n = MaxWindow /\ k = MaxWindow
    BY <1>3, <1>4, <1>5, <1>10
  <2>2. Slid(w, v) = Append(Tail(w), v)
    BY <1>3, <1>6, <2>1 DEF Slid
  <2>3. PICK u \in Seq(S) : u = Tail(w) /\ Len(u) = k - 1 /\ \A j \in 1 .. k - 1 : u[j] = w[j + 1]
    <3>1. w \in Seq(S) /\ Len(w) = k /\ k > 0
      BY <1>3, <1>6, <2>1
    <3>2. /\ Tail(w) \in Seq(S) /\ Len(Tail(w)) = k - 1
          /\ \A j \in 1 .. k - 1 : Tail(w)[j] = w[j + 1]
      BY <3>1
    <3> QED
      BY <3>2
  <2>4. Append(u, v) \in Seq(S) /\ Len(Append(u, v)) = k
    BY <1>3, <2>1, <2>3
  <2>5. \A j \in 1 .. k - 1 : Append(u, v)[j] = r[j]
    <3> SUFFICES ASSUME NEW j \in 1 .. k - 1 PROVE Append(u, v)[j] = r[j]
      OBVIOUS
    <3>1. j + 1 \in 1 .. n /\ m + 1 - k + j \in 1 .. m /\ j \in 1 .. k
      BY <1>3, <1>10, <2>1
    <3>2. Append(u, v)[j] = w[j + 1]
      BY <1>3, <2>1, <2>3
    <3>3. w[j + 1] = s[m - n + (j + 1)]
      BY <1>6, <3>1
    <3>4. m - n + (j + 1) = m + 1 - k + j
      BY <1>3, <2>1, <3>1
    <3>5. r[j] = t[m + 1 - k + j]
      BY <1>8, <3>1
    <3>6. t[m + 1 - k + j] = s[m + 1 - k + j]
      BY <1>7, <3>1
    <3> QED
      BY <3>2, <3>3, <3>4, <3>5, <3>6
  <2>6. Append(u, v)[k] = r[k]
    <3>1. k \in 1 .. k /\ m + 1 - k + k = m + 1
      BY <1>3, <2>1
    <3>2. r[k] = t[m + 1 - k + k]
      BY <1>8, <3>1
    <3>3. Append(u, v)[k] = v
      BY <1>3, <2>1, <2>3
    <3> QED
      BY <1>7, <3>1, <3>2, <3>3
  <2>7. \A j \in 1 .. k : j \in 1 .. k - 1 \/ j = k
    BY <1>3, <2>1
  <2>8. \A j \in 1 .. k : Append(u, v)[j] = r[j]
    BY <2>5, <2>6, <2>7
  <2>9. Append(u, v) = r
    BY <1>8, <2>4, <2>8
  <2> QED
    BY <1>2, <1>8, <2>2, <2>3, <2>9
<1> QED
  BY <1>1, <1>3, <1>9, <1>10

\* The window of an empty stream is empty.
LEMMA WindowOfNone ==
    ASSUME NEW S, NEW s \in Seq(S), Len(s) = 0
    PROVE  WindowAfter(s) = <<>>
<1>1. 0 \in 0 .. Len(s) /\ 0 = IF Len(s) < MaxWindow THEN Len(s) ELSE MaxWindow
  BY WindowAssumption
<1>2. WindowAfter(s) \in Seq(S) /\ Len(WindowAfter(s)) = 0
  BY <1>1, WindowValues
<1> QED
  BY <1>2

\* A verdict is yes or no.
LEMMA VerdictIsBoolean ==
    ASSUME NEW w, NEW verdict \in Verdicts(w)
    PROVE  verdict \in BOOLEAN
<1>1. CASE Len(w) < 10 \/ Spread(w) = 0
  BY <1>1 DEF Verdicts
<1>2. CASE ~(Len(w) < 10 \/ Spread(w) = 0) /\ Excess(w) = 0
  BY <1>2 DEF Verdicts
<1>3. CASE ~(Len(w) < 10 \/ Spread(w) = 0) /\ Excess(w) # 0
  <2>1. verdict = (Excess(w) > 0)
    BY <1>3 DEF Verdicts
  <2> QED
    BY <2>1
<1> QED
  BY <1>1, <1>2, <1>3

\* The type invariant says of the window what membership in Seq(Values) does.
LEMMA OverValues ==
    ASSUME NEW s \in Seq(Values)
    PROVE  ToSet(s) \subseteq Values
BY DEF ToSet

LEMMA DriftInitially == DriftInit => DInv
<1> SUFFICES ASSUME DriftInit PROVE DInv
  OBVIOUS
<1> USE DEF DriftInit
<1>1. stream \in Seq(Values) /\ window \in Seq(Values) /\ Len(stream) = 0 /\ Len(window) = 0
  OBVIOUS
<1>2. ToSet(window) \subseteq Values
  BY <1>1, OverValues
<1>3. DetectorTypeOK
  <2>1. Len(window) <= MaxWindow /\ from \in 0 .. Len(stream)
    BY <1>1, WindowAssumption
  <2> QED
    BY <1>2, <2>1 DEF DetectorTypeOK
<1>4. WindowFollows
  BY <1>1, WindowOfNone DEF WindowFollows
<1>5. BatchInAdwin
  BY <1>1 DEF BatchInAdwin
<1> QED
  BY <1>1, <1>3, <1>4, <1>5 DEF DInv

\* One turn of the loop over a batch: the verdicts on the elements before it are
\* still in adwin, and the new one is on the window with the new value in it.
LEMMA FeedStep ==
    ASSUME DInv, NEW v \in Values, Feed(v)
    PROVE  DInv'
<1>1. /\ stream \in Seq(Values) /\ window \in Seq(Values) /\ DetectorTypeOK
      /\ WindowFollows /\ BatchInAdwin
  BY DEF DInv
<1>2. PICK n \in Nat : n = Len(stream)
  BY <1>1
<1>3. PICK verdict \in Verdicts(window') : adwin' = (adwin \/ verdict)
  BY DEF Feed
<1>4. /\ checking /\ checking' = checking /\ window' = Slid(window, v)
      /\ stream' = Append(stream, v)
      /\ ks' = ks /\ decision' = decision /\ from' = from
  BY DEF Feed
<1>5. stream' \in Seq(Values) /\ Len(stream') = n + 1
  BY <1>1, <1>2, <1>4
<1>6. from \in 0 .. n
  BY <1>1, <1>2 DEF DetectorTypeOK
<1>7. WindowFollows'
  <2>1. window' = WindowAfter(Append(stream, v))
    BY <1>1, <1>4, WindowSlides DEF WindowFollows
  <2> QED
    BY <1>4, <2>1 DEF WindowFollows
<1>8. DetectorTypeOK'
  <2>1. PICK k \in 0 .. n + 1 : k = IF n + 1 < MaxWindow THEN n + 1 ELSE MaxWindow
    BY WindowAssumption
  <2>2. window' = WindowAfter(stream')
    BY <1>7 DEF WindowFollows
  <2>3. window' \in Seq(Values) /\ Len(window') = k
    BY <1>5, <2>1, <2>2, WindowValues
  <2>4. k <= MaxWindow
    BY <2>1, WindowAssumption
  <2>5. ToSet(window') \subseteq Values
    BY <2>3, OverValues
  <2>6. adwin' \in BOOLEAN
    BY <1>3
  <2> QED
    BY <1>1, <1>4, <1>5, <1>6, <2>3, <2>4, <2>5, <2>6 DEF DetectorTypeOK
<1>9. window' \in Seq(Values)
  <2>1. window' = WindowAfter(stream')
    BY <1>7 DEF WindowFollows
  <2>2. PICK k \in 0 .. n + 1 : k = IF n + 1 < MaxWindow THEN n + 1 ELSE MaxWindow
    BY WindowAssumption
  <2> QED
    BY <1>5, <2>1, <2>2, WindowValues
<1>10. BatchInAdwin'
  <2> DEFINE batch == from + 1 .. n
             more  == from + 1 .. n + 1
  <2>1. /\ (\E i \in batch : Seen(stream, i) = {TRUE}) => adwin
        /\ adwin => \E i \in batch : TRUE \in Seen(stream, i)
    BY <1>1, <1>2, <1>4 DEF BatchInAdwin
  <2>2. n + 1 \in more /\ batch \subseteq 0 .. n /\ batch \subseteq more
        /\ \A i \in more : i = n + 1 \/ i \in batch
    BY <1>6
  <2>3. \A i \in batch : Seen(stream', i) = Seen(stream, i)
    <3> SUFFICES ASSUME NEW i \in batch PROVE Seen(stream', i) = Seen(stream, i)
      OBVIOUS
    <3>1. SubSeq(stream', 1, i) = SubSeq(stream, 1, i)
      BY <1>1, <1>2, <1>4, <2>2, PrefixKept
    <3> QED
      BY <3>1 DEF Seen
  <2>4. Seen(stream', n + 1) = Verdicts(window')
    <3>1. SubSeq(stream', 1, n + 1) = stream'
      BY <1>5
    <3> QED
      BY <1>7, <3>1 DEF Seen, WindowFollows
  <2>5. ASSUME NEW i \in more, Seen(stream', i) = {TRUE} PROVE adwin'
    <3>1. CASE i \in batch
      BY <1>3, <2>1, <2>3, <2>5, <3>1
    <3>2. CASE i = n + 1
      <4>1. verdict = TRUE
        BY <2>4, <2>5, <3>2
      <4> QED
        BY <1>3, <4>1
    <3> QED
      BY <2>2, <3>1, <3>2
  <2>6. ASSUME adwin' PROVE \E i \in more : TRUE \in Seen(stream', i)
    <3>1. CASE adwin
      BY <2>1, <2>2, <2>3, <3>1
    <3>2. CASE ~adwin
      <4>1. verdict \in BOOLEAN
        BY VerdictIsBoolean
      <4>2. verdict = TRUE
        BY <1>3, <2>6, <3>2, <4>1
      <4>3. TRUE \in Seen(stream', n + 1)
        BY <2>4, <4>2
      <4> QED
        BY <2>2, <4>3
    <3> QED
      BY <3>1, <3>2
  <2> QED
    BY <1>4, <1>5, <2>5, <2>6 DEF BatchInAdwin
<1> QED
  BY <1>4, <1>5, <1>7, <1>8, <1>9, <1>10 DEF DInv

LEMMA DriftStep == DInv /\ [DriftNext]_driftVars => DInv'
<1> SUFFICES ASSUME DInv, [DriftNext]_driftVars PROVE DInv'
  OBVIOUS
<1>0. /\ stream \in Seq(Values) /\ window \in Seq(Values) /\ DetectorTypeOK
      /\ WindowFollows /\ BatchInAdwin
      /\ (~checking /\ Len(stream) > from => decision = (ks \/ adwin))
  BY DEF DInv
<1>1. ASSUME NEW verdict \in BOOLEAN, BeginCheck(verdict) PROVE DInv'
  <2>1. Len(stream) \in Nat
    BY <1>0
  <2>2. DetectorTypeOK'
    <3>1. from' \in 0 .. Len(stream')
      BY <1>1, <2>1 DEF BeginCheck
    <3>2. ks' \in BOOLEAN /\ adwin' \in BOOLEAN /\ checking' \in BOOLEAN /\ decision' = decision
      BY <1>1 DEF BeginCheck
    <3>3. window' = window
      BY <1>1 DEF BeginCheck
    <3> QED
      BY <1>0, <3>1, <3>2, <3>3 DEF DetectorTypeOK
  <2>3. WindowFollows'
    BY <1>0, <1>1 DEF BeginCheck, WindowFollows
  <2>4. BatchInAdwin'
    <3>1. adwin' = FALSE /\ from' = Len(stream')
      BY <1>1 DEF BeginCheck
    <3>2. from' + 1 .. Len(stream') = {}
      BY <1>1, <2>1, <3>1 DEF BeginCheck
    <3> QED
      BY <3>1, <3>2 DEF BatchInAdwin
  <2> QED
    BY <1>0, <1>1, <2>2, <2>3, <2>4 DEF BeginCheck, DInv
<1>2. ASSUME NEW v \in Values, Feed(v) PROVE DInv'
  BY <1>2, FeedStep
<1>3. ASSUME Decide PROVE DInv'
  <2>1. /\ checking /\ Len(stream) > from /\ checking' = FALSE /\ decision' = (ks \/ adwin)
        /\ window' = window /\ ks' = ks /\ adwin' = adwin /\ stream' = stream /\ from' = from
    BY <1>3 DEF Decide
  <2>2. DetectorTypeOK'
    <3>1. ks \in BOOLEAN /\ adwin \in BOOLEAN
      BY <1>0 DEF DetectorTypeOK
    <3>2. decision' \in BOOLEAN
      BY <2>1, <3>1
    <3> QED
      BY <1>0, <2>1, <3>2 DEF DetectorTypeOK
  <2>3. WindowFollows'
    BY <1>0, <2>1 DEF WindowFollows
  <2>4. BatchInAdwin'
    BY <1>0, <2>1 DEF BatchInAdwin
  <2> QED
    BY <1>0, <2>1, <2>2, <2>3, <2>4 DEF DInv
<1>4. ASSUME Reset PROVE DInv'
  <2>1. /\ ~checking /\ window' = <<>> /\ stream' = <<>> /\ from' = 0
        /\ ks' = ks /\ adwin' = adwin /\ checking' = checking /\ decision' = decision
    BY <1>4 DEF Reset
  <2>2. stream' \in Seq(Values) /\ window' \in Seq(Values) /\ Len(stream') = 0 /\ Len(window') = 0
    BY <2>1
  <2>3. ToSet(window') \subseteq Values
    BY <2>2, OverValues
  <2>4. DetectorTypeOK'
    BY <1>0, <2>1, <2>2, <2>3, WindowAssumption DEF DetectorTypeOK
  <2>5. WindowFollows'
    BY <2>1, <2>2, WindowOfNone DEF WindowFollows
  <2>6. BatchInAdwin'
    BY <2>1, <2>2 DEF BatchInAdwin
  <2> QED
    BY <2>1, <2>2, <2>4, <2>5, <2>6 DEF DInv
<1>5. CASE UNCHANGED driftVars
  BY <1>0, <1>5 DEF driftVars, DInv, DetectorTypeOK, WindowFollows, BatchInAdwin
<1> QED
  BY <1>1, <1>2, <1>3, <1>4, <1>5 DEF DriftNext

LEMMA DriftAlways == DriftSpec => []DInv
BY DriftInitially, DriftStep, PTL DEF DriftSpec

\* The window never exceeds its maximum and the start of a check never passes the
\* end of the stream, whatever the values.
THEOREM DetectorTypeCorrect == DriftSpec => []DetectorTypeOK
<1>1. DInv => DetectorTypeOK
  BY DEF DInv
<1> QED
  BY <1>1, DriftAlways, PTL

\* check_and_schedule_retrain keeps in adwin_triggered what any element of its
\* batch showed, so its answer is right for the whole batch, for windows, batches
\* and values of any size, and however often the detector was reset.
THEOREM DecisionsAnswer == DriftSpec => []DecisionAnswersForBatch
<1>1. DInv => DecisionAnswersForBatch
  BY DEF DInv, BatchInAdwin, Seen, DecisionAnswersForBatch
<1> QED
  BY <1>1, DriftAlways, PTL

\* After a reset the window holds only what was fed since, so that ten values pass
\* before there can be a verdict.
THEOREM StartsSilent == DriftSpec => []SilentAfterReset
<1>1. DInv => SilentAfterReset
  <2> SUFFICES ASSUME DInv, Len(stream) < 10 PROVE Verdicts(window) = {FALSE}
    BY DEF SilentAfterReset
  <2>1. stream \in Seq(Values) /\ window = WindowAfter(stream)
    BY DEF DInv, WindowFollows
  <2>2. PICK n \in Nat : n = Len(stream) /\ n < 10
    BY <2>1
  <2>3. n \in 0 .. Len(stream) /\ n = IF Len(stream) < MaxWindow THEN Len(stream) ELSE MaxWindow
    BY <2>2, WindowAssumption
  <2>4. Len(window) = n
    BY <2>1, <2>3, WindowValues
  <2> QED
    BY <2>2, <2>4 DEF Verdicts
<1> QED
  BY <1>1, DriftAlways, PTL

-----------------------------------------------------------------------------
(* Least elements and greatest values.                                     *)

\* A nonempty set of natural numbers has a least element.
LEMMA Least ==
  ASSUME NEW T, T \subseteq Nat, T # {}
  PROVE  \E n \in T : \A m \in T : n <= m
<1> DEFINE R == {ss \in Nat \X Nat : ss[1] < ss[2]}
<1>1. IsWellFoundedOn(R, Nat)
  <2>1. IsWellFoundedOn(OpToRel(<, Nat), Nat)
    BY NatLessThanWellFounded, Zenon
  <2> QED
    BY <2>1, Zenon DEF OpToRel
<1> HIDE DEF R
<1>2. PICK n \in T : \A m \in T : ~ (<<m, n>> \in R)
  BY <1>1, WFMin, Zenon
<1>3. \A m \in T : ~(m < n)
  BY <1>2 DEF R
<1> QED
  BY <1>3

\* A function has a greatest value on a finite set: take a point that the fewest
\* exceed; one that exceeds it would be exceeded by fewer.
LEMMA Highest ==
  ASSUME NEW S, IsFiniteSet(S), S # {}, NEW f \in [S -> Int]
  PROVE  \E x \in S : \A y \in S : f[x] >= f[y]
<1> DEFINE Over(x) == {y \in S : f[y] > f[x]}
<1> DEFINE T == {Cardinality(Over(x)) : x \in S}
<1>1. \A x \in S : IsFiniteSet(Over(x)) /\ Cardinality(Over(x)) \in Nat
  BY FS_Subset, FS_CardinalityType
<1>2. \E n \in T : \A m \in T : n <= m
  <2>1. T \subseteq Nat /\ T # {}
    BY <1>1
  <2> HIDE DEF T
  <2> QED
    BY <2>1, Least
<1>3. PICK x \in S : \A y \in S : Cardinality(Over(x)) <= Cardinality(Over(y))
  <2> HIDE DEF Over
  <2>1. PICK n \in T : \A m \in T : n <= m
    BY <1>2
  <2>2. PICK x \in S : n = Cardinality(Over(x))
    OBVIOUS
  <2>3. \A y \in S : Cardinality(Over(y)) \in T
    OBVIOUS
  <2> QED
    BY <2>1, <2>2, <2>3
<1>4. ASSUME NEW y \in S, f[y] > f[x] PROVE FALSE
  <2>1. y \in Over(x) /\ y \notin Over(y)
    BY <1>4
  <2>2. Over(y) \subseteq Over(x)
    <3> SUFFICES ASSUME NEW z \in S, f[z] > f[y] PROVE f[z] > f[x]
      OBVIOUS
    <3>1. f[x] \in Int /\ f[y] \in Int /\ f[z] \in Int
      OBVIOUS
    <3> QED
      BY <3>1, <1>4
  <2> HIDE DEF Over
  <2>3. Cardinality(Over(y)) <= Cardinality(Over(x)) /\ Cardinality(Over(y)) # Cardinality(Over(x))
    BY <2>1, <2>2, <1>1, FS_Subset
  <2>4. Cardinality(Over(x)) <= Cardinality(Over(y))
    BY <1>3
  <2> QED
    BY <2>3, <2>4, <1>1
<1>5. \A y \in S : f[x] \in Int /\ f[y] \in Int
  OBVIOUS
<1> QED
  BY <1>4, <1>5


-----------------------------------------------------------------------------
(* Steps of the level.                                                     *)

\* A function that adds up the elements of s one by one has their sum in the end: the
\* recursion defines no other.
LEMMA SumIs ==
  ASSUME NEW s, NEW n \in Nat, n = Len(s), NEW g,
         g = [i \in 0 .. n |-> IF i = 0 THEN 0 ELSE g[i - 1] + s[i]]
  PROVE  Sum(s) = g[n]
<1> DEFINE Adds(f) == f = [i \in 0 .. n |-> IF i = 0 THEN 0 ELSE f[i - 1] + s[i]]
<1> DEFINE f == CHOOSE f : Adds(f)
<1>1. Sum(s) = f[n]
  BY DEF Sum
<1>2. Adds(f)
  <2>1. Adds(g)
    OBVIOUS
  <2> HIDE DEF Adds
  <2> QED
    BY <2>1
<1> HIDE DEF f
<1> DEFINE T == {i \in 0 .. n : f[i] # g[i]}
<1>3. f[0] = 0 /\ g[0] = 0
  BY <1>2
<1>4. \A i \in 1 .. n : f[i] = f[i - 1] + s[i] /\ g[i] = g[i - 1] + s[i]
  <2>1. ASSUME NEW h, Adds(h), NEW i \in 1 .. n PROVE h[i] = h[i - 1] + s[i]
    <3>1. i \in 0 .. n /\ i # 0
      OBVIOUS
    <3>2. h[i] = IF i = 0 THEN 0 ELSE h[i - 1] + s[i]
      BY <2>1, <3>1, Zenon
    <3> QED
      BY <3>1, <3>2
  <2>2. Adds(g)
    OBVIOUS
  <2> HIDE DEF Adds
  <2> QED
    BY <1>2, <2>1, <2>2
<1>5. T = {}
  <2> SUFFICES ASSUME T # {} PROVE FALSE
    OBVIOUS
  <2>1. PICK i \in T : \A j \in T : i <= j
    <3>1. T \subseteq Nat
      OBVIOUS
    <3> QED
      BY <3>1, Least
  <2>2. i \in 1 .. n
    BY <1>3
  <2>3. i - 1 \notin T /\ i - 1 \in 0 .. n
    BY <2>1, <2>2
  <2>4. f[i - 1] = g[i - 1]
    BY <2>3
  <2>5. f[i] = g[i]
    BY <1>4, <2>2, <2>4
  <2> QED
    BY <2>1, <2>5
<1>6. f[n] = g[n]
  <2>1. n \in 0 .. n
    OBVIOUS
  <2>2. ASSUME f[n] # g[n] PROVE n \in T
    BY <2>1, <2>2
  <2> QED
    BY <1>5, <2>2
<1> QED
  BY <1>1, <1>6

\* A sequence that is m times a and then l times b.
Levels(s, a, b, m, l) ==
  /\ Len(s) = m + l
  /\ \A i \in 1 .. m : s[i] = a
  /\ \A i \in m + 1 .. m + l : s[i] = b

LEMMA StepSum ==
  ASSUME NEW a \in Int, NEW b \in Int, NEW m \in Nat, NEW l \in Nat, NEW s,
         Levels(s, a, b, m, l)
  PROVE  Sum(s) = m * a + l * b
<1> USE DEF Levels
<1>1. PICK n \in Nat : n = m + l
  OBVIOUS
<1>2. PICK g : g = [i \in 0 .. n |-> IF i <= m THEN i * a ELSE m * a + (i - m) * b]
  OBVIOUS
<1>3. g = [i \in 0 .. n |-> IF i = 0 THEN 0 ELSE g[i - 1] + s[i]]
  <2>1. ASSUME NEW i \in 0 .. n PROVE g[i] = IF i = 0 THEN 0 ELSE g[i - 1] + s[i]
    <3>1. CASE i = 0
      BY <3>1, <1>2
    <3>2. CASE i \in 1 .. m
      <4>1. g[i] = i * a /\ g[i - 1] = (i - 1) * a /\ s[i] = a
        BY <1>1, <1>2, <3>2
      <4>2. (i - 1) * a + a = i * a
        OBVIOUS
      <4> QED
        BY <3>2, <4>1, <4>2
    <3>3. CASE i = m + 1
      <4>1. g[i] = m * a + 1 * b /\ g[i - 1] = m * a /\ s[i] = b
        BY <1>1, <1>2, <3>3
      <4> QED
        BY <3>3, <4>1
    <3>4. CASE i > m + 1
      <4>1. g[i] = m * a + (i - m) * b /\ g[i - 1] = m * a + (i - 1 - m) * b /\ s[i] = b
        BY <1>1, <1>2, <3>4
      <4>2. PICK c \in Int : c = m * a
        OBVIOUS
      <4>3. (i - 1 - m) * b + b = (i - m) * b
        OBVIOUS
      <4>4. PICK x \in Int : x = (i - 1 - m) * b
        OBVIOUS
      <4> QED
        BY <3>4, <4>1, <4>2, <4>3, <4>4
    <3> QED
      BY <3>1, <3>2, <3>3, <3>4
  <2>2. g = [i \in 0 .. n |-> g[i]]
    BY <1>2
  <2> QED
    BY <2>1, <2>2
<1>4. Sum(s) = g[n]
  BY <1>1, <1>3, SumIs
<1>5. g[n] = m * a + l * b
  <2>1. CASE l = 0
    BY <1>1, <1>2, <2>1
  <2>2. CASE l > 0
    BY <1>1, <1>2, <2>2
  <2> QED
    BY <2>1, <2>2
<1> QED
  BY <1>4, <1>5

Steps(w, a, b, m, l) == w \in Seq(Int) /\ Levels(w, a, b, m, l)

\* Its spread.
LEMMA StepSpread ==
  ASSUME NEW a \in Int, NEW b \in Int, NEW m \in Nat, NEW l \in Nat, NEW w, Steps(w, a, b, m, l)
  PROVE  Spread(w) = m * l * ((a - b) * (a - b))
<1>1. Sum(w) = m * a + l * b
  BY StepSum DEF Steps
<1>2. PICK q : q = [i \in 1 .. Len(w) |-> w[i] * w[i]]
  OBVIOUS
<1>3. Sum(q) = m * (a * a) + l * (b * b)
  <2>1. PICK x \in Int, y \in Int : x = a * a /\ y = b * b
    OBVIOUS
  <2>2. Levels(q, x, y, m, l)
    BY <1>2, <2>1 DEF Steps, Levels
  <2> QED
    BY <2>1, <2>2, StepSum
<1>4. Spread(w) = (m + l) * (m * (a * a) + l * (b * b)) - (m * a + l * b) * (m * a + l * b)
  BY <1>1, <1>2, <1>3 DEF Spread, Steps, Levels
<1>5. (m + l) * (m * (a * a) + l * (b * b)) - (m * a + l * b) * (m * a + l * b)
        = m * l * ((a - b) * (a - b))
  OBVIOUS
<1> QED
  BY <1>4, <1>5

\* A part of it is such a window too.
LEMMA StepPart ==
  ASSUME NEW a \in Int, NEW b \in Int, NEW m \in Nat, NEW l \in Nat, NEW w, Steps(w, a, b, m, l),
         NEW i \in 1 .. m + l, NEW j \in i .. m + l
  PROVE  Sum(SubSeq(w, i, j)) =
           IF j <= m THEN (j - i + 1) * a
           ELSE IF i > m THEN (j - i + 1) * b
           ELSE (m - i + 1) * a + (j - m) * b
<1>1. PICK p : p = SubSeq(w, i, j)
  OBVIOUS
<1>2. Len(p) = j - i + 1 /\ \A x \in 1 .. j - i + 1 : p[x] = w[i + x - 1]
  BY <1>1 DEF Steps, Levels
<1>3. CASE j <= m
  <2>1. Sum(p) = (j - i + 1) * a + 0 * a
    <3>1. \A x \in 1 .. j - i + 1 : p[x] = a
      BY <1>2, <1>3 DEF Steps, Levels
    <3>2. PICK y \in Nat : y = j - i + 1
      OBVIOUS
    <3>3. Levels(p, a, a, y, 0)
      BY <1>2, <3>1, <3>2 DEF Levels
    <3>4. Sum(p) = y * a + 0 * a
      BY <3>3, StepSum
    <3> QED
      BY <3>2, <3>4
  <2> QED
    BY <1>1, <1>3, <2>1
<1>4. CASE i > m
  <2>1. Sum(p) = (j - i + 1) * b + 0 * b
    <3>1. \A x \in 1 .. j - i + 1 : p[x] = b
      BY <1>2, <1>4 DEF Steps, Levels
    <3>2. PICK y \in Nat : y = j - i + 1
      OBVIOUS
    <3>3. Levels(p, b, b, y, 0)
      BY <1>2, <3>1, <3>2 DEF Levels
    <3>4. Sum(p) = y * b + 0 * b
      BY <3>3, StepSum
    <3> QED
      BY <3>2, <3>4
  <2> QED
    BY <1>1, <1>4, <2>1
<1>5. CASE i <= m /\ m < j
  <2>1. PICK y \in Nat, z \in Nat : y = m - i + 1 /\ z = j - m
    BY <1>5
  <2>2. Len(p) = y + z
    <3>1. j - i + 1 = y + z
      BY <2>1
    <3> QED
      BY <1>2, <3>1
  <2>3. ASSUME NEW x \in 1 .. y PROVE p[x] = a
    BY <1>2, <1>5, <2>1 DEF Steps, Levels
  <2>4. ASSUME NEW x \in y + 1 .. y + z PROVE p[x] = b
    BY <1>2, <1>5, <2>1 DEF Steps, Levels
  <2>6. Levels(p, a, b, y, z)
    BY <2>2, <2>3, <2>4 DEF Levels
  <2>5. Sum(p) = y * a + z * b
    BY <2>6, StepSum
  <2> QED
    BY <1>1, <1>5, <2>1, <2>5
<1> QED
  BY <1>3, <1>4, <1>5

LEMMA Positive == \A x, y \in Int : x > 0 /\ y > 0 => x * y > 0
  OBVIOUS

\* The excess of a window of even length that steps by d, k values before its end
\* or after its beginning.
\* Two halves of h elements with a step in them, k of them on its nearer side.
Halves(h, a, b, m, l, k) ==
  a # b /\ m > 0 /\ l > 0 /\ m + l = 2 * h /\ k = IF l <= h THEN l ELSE m

\* The verdict on them turns on the sign of 5 k - 2 h.
TurnsOn(w, h, k) == \E c \in Int : c > 0 /\ Excess(w) = c * (5 * k - 2 * h)

LEMMA StepExcess ==
  ASSUME NEW a \in Int, NEW b \in Int, NEW m \in Nat, NEW l \in Nat, NEW h \in Nat \ {0},
         NEW k \in Nat, NEW w, Steps(w, a, b, m, l), Halves(h, a, b, m, l, k)
  PROVE  TurnsOn(w, h, k)
<1> USE DEF Halves
<1>1. PICK d \in Int : d = a - b /\ d # 0
  OBVIOUS
<1>2. PICK n \in Nat : n = 2 * h /\ n = Len(w) /\ n \div 2 = h
  BY DEF Steps, Levels
<1>3. PICK e \in Int : e = d * d /\ e > 0
  <2>1. d > 0 \/ -d > 0
    BY <1>1
  <2>2. d * d = (-d) * (-d)
    OBVIOUS
  <2> QED
    BY <2>1, <2>2, Positive
<1>4. Spread(w) = m * l * e
  BY <1>1, <1>3, StepSpread
<1>5. PICK x \in Int : x = Sum(SubSeq(w, 1, h))
  <2>1. 1 \in 1 .. m + l /\ h \in 1 .. m + l
    OBVIOUS
  <2> QED
    BY <2>1, StepPart
<1>6. PICK y \in Int : y = Sum(SubSeq(w, h + 1, n))
  <2>1. h + 1 \in 1 .. m + l /\ n \in h + 1 .. m + l
    BY <1>2
  <2> QED
    BY <2>1, StepPart
<1>7. Excess(w) = (x * h - y * h) * (x * h - y * h) * n * n - (m * l * e) * (h * h) * (h * h)
  <2>1. n - h = h
    BY <1>2
  <2> QED
    BY <1>2, <1>4, <1>5, <1>6, <2>1 DEF Excess
<1>8. PICK f \in Int : f = h * h /\ f > 0
  BY Positive
<1>9. k = (IF l <= h THEN l ELSE m) /\ k > 0
  OBVIOUS
<1>10. x * h - y * h = h * k * d
  <2>1. CASE l <= h
    <3>1. h <= m /\ h \in 1 .. m + l /\ 1 \in 1 .. m + l /\ h \in 1 .. m + l
      BY <2>1
    <3>2. x = (h - 1 + 1) * a
      BY <1>5, <3>1, StepPart
    <3>3. y = (h - l) * a + l * b
      <4>1. h + 1 \in 1 .. m + l /\ n \in h + 1 .. m + l /\ ~(n <= m)
        BY <1>2, <3>1
      <4>2. CASE h + 1 > m
        <5>1. y = (n - (h + 1) + 1) * b
          BY <1>6, <4>1, <4>2, StepPart
        <5>2. n - (h + 1) + 1 = l /\ h - l = 0
          BY <1>2, <3>1, <4>2
        <5> QED
          BY <5>1, <5>2
      <4>3. CASE ~(h + 1 > m)
        <5>1. y = (m - (h + 1) + 1) * a + (n - m) * b
          BY <1>6, <4>1, <4>3, StepPart
        <5>2. m - (h + 1) + 1 = h - l /\ n - m = l
          BY <1>2
        <5> QED
          BY <5>1, <5>2
      <4> QED
        BY <4>2, <4>3
    <3>4. (h * a) * h - ((h - l) * a + l * b) * h = h * l * (a - b)
      OBVIOUS
    <3>5. h - 1 + 1 = h
      OBVIOUS
    <3> QED
      BY <1>1, <1>9, <2>1, <3>2, <3>3, <3>4, <3>5
  <2>2. CASE l > h
    <3>1. m < h /\ h \in 1 .. m + l /\ 1 \in 1 .. m + l /\ ~(h <= m) /\ ~(1 > m)
      BY <2>2
    <3>2. x = (m - 1 + 1) * a + (h - m) * b
      BY <1>5, <3>1, StepPart
    <3>3. y = (n - (h + 1) + 1) * b
      <4>1. h + 1 \in 1 .. m + l /\ n \in h + 1 .. m + l /\ ~(n <= m) /\ h + 1 > m
        BY <1>2, <3>1
      <4> QED
        BY <1>6, <4>1, StepPart
    <3>4. m - 1 + 1 = m /\ n - (h + 1) + 1 = h
      BY <1>2
    <3>5. (m * a + (h - m) * b) * h - (h * b) * h = h * m * (a - b)
      OBVIOUS
    <3> QED
      BY <1>1, <1>9, <2>2, <3>2, <3>3, <3>4, <3>5
  <2> QED
    BY <2>1, <2>2
<1>11. PICK c \in Int : c = (f * f) * (k * e) /\ c > 0
  <2>1. f * f > 0 /\ k * e > 0 /\ f * f \in Int /\ k * e \in Int
    BY <1>3, <1>8, <1>9, Positive
  <2> QED
    BY <2>1, Positive
<1>12. m * l = k * (2 * h - k)
  BY <1>9
<1>13. Excess(w) = (h * k * d) * (h * k * d) * (2 * h) * (2 * h) - (k * (2 * h - k) * e) * f * f
  BY <1>2, <1>7, <1>8, <1>10, <1>12
<1>14. (h * k * d) * (h * k * d) * (2 * h) * (2 * h) = 4 * ((h * h) * (h * h)) * (k * k) * (d * d)
  OBVIOUS
<1>15. 4 * (f * f) * (k * k) * e - (k * (2 * h - k) * e) * f * f = ((f * f) * (k * e)) * (5 * k - 2 * h)
  OBVIOUS
<1>16. Excess(w) = c * (5 * k - 2 * h)
  BY <1>3, <1>8, <1>11, <1>13, <1>14, <1>15
<1> QED
  BY <1>11, <1>16 DEF TurnsOn

LEMMA StepsFollow == DInv => StepsNoticedInTime
<1> SUFFICES ASSUME DInv, MaxWindow % 2 = 0, NEW k \in 1 .. MaxWindow, Stepped(k)
             PROVE
                /\ (5 * k > MaxWindow /\ 5 * (MaxWindow - k) > MaxWindow) => Verdicts(window) = {TRUE}
                /\ (5 * k < MaxWindow \/ 5 * (MaxWindow - k) < MaxWindow) => Verdicts(window) = {FALSE}
  BY DEF StepsNoticedInTime
<1>1. PICK n \in Nat : n = MaxWindow /\ n >= 10
  BY WindowAssumption
<1>2. PICK h \in Nat \ {0} : n = 2 * h
  BY <1>1
<1>3. PICK len \in Nat : len = Len(stream) /\ len >= n + k /\ k \in 1 .. n
  BY <1>1 DEF Stepped, DInv
<1>4. PICK a \in Values, b \in Values :
         /\ a # b
         /\ ToSet(Newest(stream, k)) = {b}
         /\ ToSet(Newest(SubSeq(stream, 1, len - k), n)) = {a}
  BY <1>1, <1>3 DEF Stepped
<1>5. window \in Seq(Values) /\ Len(window) = n /\ \A i \in 1 .. n : window[i] = stream[len - n + i]
  <2>1. window = Newest(stream, n)
    BY <1>1, <1>3 DEF DInv, WindowFollows, WindowAfter
  <2>2. stream \in Seq(Values) /\ n \in 0 .. Len(stream)
    BY <1>3 DEF DInv
  <2>3. /\ Newest(stream, n) \in Seq(Values) /\ Len(Newest(stream, n)) = n
        /\ \A j \in 1 .. n : Newest(stream, n)[j] = stream[Len(stream) - n + j]
    BY <2>2, NewestValues
  <2> QED
    BY <2>1, <2>3, <1>3
<1>6. \A j \in 1 .. k : stream[len - k + j] = b
  <2>0. stream \in Seq(Values) /\ k \in 0 .. Len(stream)
    BY <1>3 DEF DInv
  <2>4. /\ Newest(stream, k) \in Seq(Values) /\ Len(Newest(stream, k)) = k
        /\ \A j \in 1 .. k : Newest(stream, k)[j] = stream[Len(stream) - k + j]
    BY <2>0, NewestValues
  <2>1. PICK p \in Seq(Values) : p = Newest(stream, k)
    BY <2>4
  <2>2. Len(p) = k /\ \A j \in 1 .. k : p[j] = stream[len - k + j]
    BY <1>3, <2>1, <2>4
  <2>3. \A j \in 1 .. k : p[j] \in ToSet(p)
    BY <2>2 DEF ToSet
  <2> QED
    BY <1>4, <2>1, <2>2, <2>3
<1>7. \A j \in 1 .. n : stream[len - k - n + j] = a
  <2>0. stream \in Seq(Values) /\ len - k \in 0 .. Len(stream)
    BY <1>3 DEF DInv
  <2>1. PICK old \in Seq(Values) : old = SubSeq(stream, 1, len - k)
    <3>1. PICK q \in 0 .. Len(stream) : q = len - k
      BY <2>0
    <3>2. SubSeq(stream, 1, q) \in Seq(Values)
      BY <2>0, <3>1
    <3> QED
      BY <3>1, <3>2, Zenon
  <2>2. Len(old) = len - k /\ n \in 0 .. Len(old) /\ \A i \in 1 .. len - k : old[i] = stream[i]
    BY <1>3, <2>1 DEF DInv
  <2>8. /\ Newest(old, n) \in Seq(Values) /\ Len(Newest(old, n)) = n
         /\ \A j \in 1 .. n : Newest(old, n)[j] = old[Len(old) - n + j]
    BY <2>2, NewestValues
  <2>3. PICK p \in Seq(Values) : p = Newest(old, n)
    BY <2>8
  <2>4. Len(p) = n /\ \A j \in 1 .. n : p[j] = old[len - k - n + j]
    BY <2>8, <2>2, <2>3
  <2>5. \A j \in 1 .. n : p[j] \in ToSet(p)
    <3>1. Len(p) = n
      BY <2>4
    <3> QED
      BY <3>1 DEF ToSet
  <2>6. ToSet(p) = {a}
    BY <1>4, <2>1, <2>3
  <2>7. ASSUME NEW j \in 1 .. n PROVE stream[len - k - n + j] = a
    <3>1. p[j] = a
      BY <2>5, <2>6
    <3>2. len - k - n + j \in 1 .. len - k
      BY <1>3
    <3> QED
      BY <2>2, <2>4, <3>1, <3>2
  <2> QED
    BY <2>7
<1>8. PICK m \in Nat : m = n - k
  BY <1>3
<1>9. Values \subseteq Int /\ a \in Int /\ b \in Int
  BY ValuesAssumption
<1>10. Steps(window, a, b, m, k)
  <2>1. window \in [1 .. n -> Values]
    BY <1>5
  <2>2. window \in Seq(Int)
    <3>1. \A i \in 1 .. n : window[i] \in Values
      BY <2>1
    <3>2. \A i \in 1 .. n : window[i] \in Int
      BY <3>1, <1>9, Zenon
    <3>3. window \in [1 .. n -> Int]
      BY <2>1, <3>2
    <3> QED
      BY <3>3
  <2>3. ASSUME NEW i \in 1 .. m PROVE window[i] = a
    <3>1. PICK j \in 1 .. n : j = k + i
      BY <1>3, <1>8
    <3>2. i \in 1 .. n /\ len - k - n + j = len - n + i
      BY <1>3, <1>8, <3>1
    <3>3. stream[len - k - n + j] = a
      BY <1>7
    <3>4. window[i] = stream[len - n + i]
      BY <1>5, <3>2
    <3> QED
      BY <3>2, <3>3, <3>4
  <2>4. ASSUME NEW i \in m + 1 .. m + k PROVE window[i] = b
    <3>1. PICK j \in 1 .. k : j = i - m
      BY <1>3, <1>8
    <3>2. i \in 1 .. n /\ len - k + j = len - n + i
      BY <1>3, <1>8, <3>1
    <3>3. stream[len - k + j] = b
      BY <1>6
    <3>4. window[i] = stream[len - n + i]
      BY <1>5, <3>2
    <3> QED
      BY <3>2, <3>3, <3>4
  <2>5. Len(window) = m + k
    BY <1>3, <1>5, <1>8
  <2> QED
    BY <2>2, <2>3, <2>4, <2>5 DEF Steps, Levels
<1>11. PICK e \in Int : e = (a - b) * (a - b) /\ e > 0
  <2>1. PICK d \in Int : d = a - b /\ d # 0
    BY <1>4, <1>9
  <2>2. d > 0 \/ -d > 0
    BY <2>1
  <2>3. d * d = (-d) * (-d)
    OBVIOUS
  <2>4. d * d > 0
    BY <2>2, <2>3, Positive
  <2> QED
    BY <2>1, <2>4
<1>12. Spread(window) = m * k * e
  BY <1>3, <1>9, <1>10, <1>11, StepSpread
<1>13. CASE m = 0
  <2>1. Spread(window) = 0
    BY <1>3, <1>11, <1>12, <1>13
  <2>2. Verdicts(window) = {FALSE}
    BY <2>1 DEF Verdicts
  <2>3. ~(5 * (MaxWindow - k) > MaxWindow)
    BY <1>1, <1>8, <1>13
  <2> QED
    BY <2>2, <2>3
<1>14. CASE m > 0
  <2>1. Spread(window) # 0
    <3>1. m * k > 0 /\ m * k \in Int
      BY <1>3, <1>14, Positive
    <3> QED
      BY <1>11, <1>12, <3>1, Positive
  <2>2. PICK least \in Nat : least = IF k <= h THEN k ELSE m
    BY <1>3
  <2>3. PICK c \in Int : c > 0 /\ Excess(window) = c * (5 * least - 2 * h)
    <3>1. m + k = 2 * h /\ k > 0 /\ k \in Nat
      BY <1>2, <1>3, <1>8
    <3>2. PICK v : v = window
      OBVIOUS
    <3>3. Steps(v, a, b, m, k)
      BY <1>10, <3>2
    <3>4. \E c \in Int : c > 0 /\ Excess(v) = c * (5 * least - 2 * h)
      <4>1. PICK l \in Nat : l = k
        BY <3>1
      <4>2. Steps(v, a, b, m, l) /\ Halves(h, a, b, m, l, least)
        BY <1>4, <1>14, <2>2, <3>1, <3>3, <4>1 DEF Halves
      <4>3. a \in Int /\ b \in Int
        BY <1>9
      <4>4. TurnsOn(v, h, least)
        BY <4>2, <4>3, StepExcess
      <4> QED
        BY <4>4 DEF TurnsOn
    <3> QED
      BY <3>2, <3>4
  <2>4. PICK x \in Int : x = Excess(window)
    BY <2>3
  <2>5. Verdicts(window) = IF x = 0 THEN BOOLEAN ELSE {x > 0}
    BY <1>1, <1>5, <2>1, <2>4 DEF Verdicts
  <2>6. PICK g \in Int : g = 5 * least - 2 * h
    <3>1. 5 * least - 2 * h \in Int
      OBVIOUS
    <3> QED
      BY <3>1, Zenon
  <2>7. ASSUME 5 * k > MaxWindow /\ 5 * (MaxWindow - k) > MaxWindow PROVE Verdicts(window) = {TRUE}
    <3>1. g > 0
      BY <1>1, <1>2, <1>8, <2>2, <2>6, <2>7
    <3>2. x > 0
      BY <2>3, <2>4, <2>6, <3>1, Positive
    <3>3. x # 0 /\ (x > 0) = TRUE
      BY <3>2
    <3> QED
      BY <2>5, <3>3
  <2>8. ASSUME 5 * k < MaxWindow \/ 5 * (MaxWindow - k) < MaxWindow PROVE Verdicts(window) = {FALSE}
    <3>1. -g > 0
      BY <1>1, <1>2, <1>3, <1>8, <2>2, <2>6, <2>8
    <3>2. c * (-g) > 0 /\ c * (-g) = -(c * g)
      BY <2>3, <3>1, Positive
    <3>3. x # 0 /\ (x > 0) = FALSE
      BY <2>3, <2>4, <2>6, <3>2
    <3> QED
      BY <2>5, <3>3
  <2> QED
    BY <2>7, <2>8
<1>15. m = 0 \/ m > 0
  OBVIOUS
<1> QED
  BY <1>13, <1>14, <1>15, Zenon

\* The detector notices a step of the level when it fills more than a fifth of an even
\* window, and not before, and is silent again when less than a fifth of the old level is
\* left: for any two levels and windows of any even size.
THEOREM StepsAreNoticed == DriftSpec => []StepsNoticedInTime
  BY DriftAlways, StepsFollow, PTL

-----------------------------------------------------------------------------
(* Elements by their rank.                                                 *)

\* Positions of a sequence are finitely many, at most its length.
LEMMA PositionsFinite ==
  ASSUME NEW s, Len(s) \in Nat, NEW I, I \subseteq 1 .. Len(s)
  PROVE  IsFiniteSet(I) /\ Cardinality(I) \in Nat /\ Cardinality(I) <= Len(s)
<1>1. PICK n \in Nat : n = Len(s)
  OBVIOUS
<1>2. 1 \in Int /\ n \in Int
  OBVIOUS
<1>3. IsFiniteSet(1 .. n) /\ Cardinality(1 .. n) = n
  <2>1. IsFiniteSet(1 .. n) /\ Cardinality(1 .. n) = IF 1 > n THEN 0 ELSE n - 1 + 1
    BY <1>2, FS_Interval
  <2> QED
    BY <2>1
<1>4. I \in SUBSET (1 .. n)
  BY <1>1
<1> QED
  BY <1>1, <1>3, <1>4, FS_Subset, FS_CardinalityType

\* Fewer positions hold less.
LEMMA PositionsGrow ==
  ASSUME NEW s, Len(s) \in Nat, NEW I, NEW J, I \subseteq J, J \subseteq 1 .. Len(s)
  PROVE  Cardinality(I) <= Cardinality(J)
  BY PositionsFinite, FS_Subset

\* What a set of positions leaves out.
LEMMA PositionsLeft ==
  ASSUME NEW s, Len(s) \in Nat, NEW I, I \subseteq 1 .. Len(s)
  PROVE  Cardinality((1 .. Len(s)) \ I) = Len(s) - Cardinality(I)
<1>1. PICK n \in Nat : n = Len(s)
  OBVIOUS
<1>2. 1 \in Int /\ n \in Int
  OBVIOUS
<1>3. IsFiniteSet(1 .. n) /\ Cardinality(1 .. n) = n
  <2>1. IsFiniteSet(1 .. n) /\ Cardinality(1 .. n) = IF 1 > n THEN 0 ELSE n - 1 + 1
    BY <1>2, FS_Interval
  <2> QED
    BY <2>1
<1>4. Cardinality((1 .. n) \ I) = Cardinality(1 .. n) - Cardinality((1 .. n) \cap I)
  BY <1>3, FS_Difference
<1>5. (1 .. n) \cap I = I
  BY <1>1
<1> QED
  BY <1>1, <1>3, <1>4, <1>5

\* There is a k-th element, and its rank is k.
LEMMA NthIs ==
  ASSUME NEW s \in Seq(Int), NEW k \in 1 .. Len(s)
  PROVE  /\ Nth(s, k) \in ToSet(s) /\ Nth(s, k) \in Int
         /\ Cardinality(Below(s, Nth(s, k))) < k
         /\ k <= Cardinality(UpTo(s, Nth(s, k)))
<1>1. PICK n \in Nat : n = Len(s)
  OBVIOUS
<1>2. s \in [1 .. n -> Int] /\ k \in 1 .. n /\ k \in Nat
  BY <1>1
<1> DEFINE Reached == {i \in 1 .. n : k <= Cardinality(UpTo(s, s[i]))}
<1>3. \A v : /\ IsFiniteSet(Below(s, v)) /\ Cardinality(Below(s, v)) \in Nat
              /\ IsFiniteSet(UpTo(s, v)) /\ Cardinality(UpTo(s, v)) \in Nat
              /\ Below(s, v) \subseteq 1 .. n /\ UpTo(s, v) \subseteq 1 .. n
  BY <1>1, PositionsFinite DEF Below, UpTo
<1>4. ASSUME NEW I, I \subseteq 1 .. n, I # {}
      PROVE  \E i \in I : \A j \in I : s[i] >= s[j]
  <2>1. IsFiniteSet(I)
    BY <1>1, <1>4, PositionsFinite
  <2>2. PICK f : f = [i \in I |-> s[i]]
    OBVIOUS
  <2>3. f \in [I -> Int] /\ \A i \in I : f[i] = s[i]
    BY <1>2, <1>4, <2>2
  <2>4. \E i \in I : \A j \in I : f[i] >= f[j]
    BY <1>4, <2>1, <2>3, Highest
  <2> QED
    BY <2>3, <2>4
<1>5. Reached # {}
  <2>1. 1 .. n \subseteq 1 .. n /\ 1 .. n # {}
    BY <1>2
  <2>2. PICK i \in 1 .. n : \A j \in 1 .. n : s[i] >= s[j]
    BY <1>4, <2>1
  <2>3. UpTo(s, s[i]) = 1 .. n
    <3>1. \A j \in 1 .. n : s[j] <= s[i]
      BY <1>2, <2>2
    <3> QED
      BY <1>1, <3>1 DEF UpTo
  <2>4. Cardinality(1 .. n) = n
    <3>1. 1 \in Int /\ n \in Int
      OBVIOUS
    <3> QED
      BY <3>1, FS_Interval
  <2> QED
    BY <1>2, <2>2, <2>3, <2>4
<1>6. PICK i \in Reached : \A j \in Reached : s[i] <= s[j]
  <2>1. IsFiniteSet(Reached)
    BY <1>1, PositionsFinite
  <2>2. PICK f : f = [j \in Reached |-> -s[j]]
    OBVIOUS
  <2>3. f \in [Reached -> Int] /\ \A j \in Reached : f[j] = -s[j] /\ s[j] \in Int
    BY <1>2, <2>2
  <2> HIDE DEF Reached
  <2>4. PICK x \in Reached : \A j \in Reached : f[x] >= f[j]
    BY <1>5, <2>1, <2>3, Highest
  <2>5. \A j \in Reached : s[x] <= s[j]
    BY <2>3, <2>4
  <2> QED
    BY <2>4, <2>5
<1>7. i \in 1 .. n /\ s[i] \in Int /\ k <= Cardinality(UpTo(s, s[i]))
  BY <1>2
<1>8. Cardinality(Below(s, s[i])) < k
  <2> SUFFICES ASSUME Cardinality(Below(s, s[i])) >= k PROVE FALSE
    BY <1>2, <1>3
  <2>1. Below(s, s[i]) # {}
    <3>1. ASSUME Below(s, s[i]) = {} PROVE Cardinality(Below(s, s[i])) = 0
      BY <3>1, FS_EmptySet
    <3> QED
      BY <3>1, <1>2
  <2>2. PICK j \in Below(s, s[i]) : \A m \in Below(s, s[i]) : s[j] >= s[m]
    BY <1>3, <1>4, <2>1
  <2>3. j \in 1 .. n /\ s[j] \in Int /\ s[j] < s[i]
    BY <1>1, <1>2 DEF Below
  <2>4. Below(s, s[i]) \subseteq UpTo(s, s[j])
    BY <1>1, <1>2, <2>2, <2>3 DEF Below, UpTo
  <2>5. Cardinality(Below(s, s[i])) <= Cardinality(UpTo(s, s[j]))
    BY <1>3, <2>4, FS_Subset
  <2>6. j \in Reached
    BY <1>2, <1>3, <2>3, <2>5
  <2>7. s[i] <= s[j]
    BY <1>6, <2>6
  <2> QED
    BY <1>7, <2>3, <2>7
<1>9. s[i] \in ToSet(s)
  BY <1>1, <1>2, <1>7 DEF ToSet
<1>10. Nth(s, k) \in ToSet(s) /\ Cardinality(Below(s, Nth(s, k))) < k
          /\ k <= Cardinality(UpTo(s, Nth(s, k)))
  BY <1>7, <1>8, <1>9 DEF Nth
<1>11. ToSet(s) \subseteq Int
  BY <1>1, <1>2 DEF ToSet
<1> QED
  BY <1>10, <1>11

\* The k-th element is below c exactly if k elements are.
LEMMA NthBelow ==
  ASSUME NEW s \in Seq(Int), NEW k \in 1 .. Len(s), NEW c \in Int
  PROVE  Nth(s, k) < c <=> k <= Cardinality(Below(s, c))
<1>1. PICK n \in Nat : n = Len(s)
  OBVIOUS
<1>2. s \in [1 .. n -> Int] /\ k \in Nat
  BY <1>1
<1>3. PICK v \in Int : v = Nth(s, k)
  BY NthIs
<1>4. Cardinality(Below(s, v)) < k /\ k <= Cardinality(UpTo(s, v))
  BY <1>3, NthIs
<1>5. \A d : /\ IsFiniteSet(Below(s, d)) /\ Cardinality(Below(s, d)) \in Nat
              /\ IsFiniteSet(UpTo(s, d)) /\ Cardinality(UpTo(s, d)) \in Nat
  BY <1>1, PositionsFinite DEF Below, UpTo
<1>6. CASE v < c
  <2>1. UpTo(s, v) \subseteq Below(s, c)
    BY <1>1, <1>2, <1>6 DEF UpTo, Below
  <2>2. Cardinality(UpTo(s, v)) <= Cardinality(Below(s, c))
    BY <1>5, <2>1, FS_Subset
  <2> QED
    BY <1>2, <1>3, <1>4, <1>5, <1>6, <2>2
<1>7. CASE c <= v
  <2>1. Below(s, c) \subseteq Below(s, v)
    BY <1>1, <1>2, <1>7 DEF Below
  <2>2. Cardinality(Below(s, c)) <= Cardinality(Below(s, v))
    BY <1>5, <2>1, FS_Subset
  <2> QED
    BY <1>2, <1>3, <1>4, <1>5, <1>7, <2>2
<1> QED
  BY <1>6, <1>7

-----------------------------------------------------------------------------
(* The health check.                                                       *)

\* A mean weighted in hundredths lies between what it is the mean of.
LEMMA Weighted ==
  ASSUME NEW x \in Int, NEW y \in Int, NEW c \in Int, NEW d \in 0 .. 99
  PROVE  /\ x <= c /\ (d = 0 \/ y <= c) => x * (100 - d) + y * d <= 100 * c
         /\ x >= c /\ y >= c => x * (100 - d) + y * d >= 100 * c
<1>1. \A a, b \in Int, f \in Nat : a <= b => a * f <= b * f
  OBVIOUS
<1>2. c * (100 - d) + c * d = 100 * c
  OBVIOUS
<1>3. d \in Nat /\ 100 - d \in Nat
  OBVIOUS
<1>4. x * (100 - d) \in Int /\ y * d \in Int /\ c * (100 - d) \in Int /\ c * d \in Int
  OBVIOUS
<1>5. ASSUME x <= c, d = 0 \/ y <= c PROVE x * (100 - d) + y * d <= 100 * c
  <2>1. x * (100 - d) <= c * (100 - d)
    BY <1>1, <1>3, <1>5
  <2>2. y * d <= c * d
    BY <1>1, <1>3, <1>5
  <2> QED
    BY <1>2, <1>4, <2>1, <2>2
<1>6. ASSUME x >= c, y >= c PROVE x * (100 - d) + y * d >= 100 * c
  <2>1. c * (100 - d) <= x * (100 - d)
    BY <1>1, <1>3, <1>6
  <2>2. c * d <= y * d
    BY <1>1, <1>3, <1>6
  <2> QED
    BY <1>2, <1>4, <2>1, <2>2
<1> QED
  BY <1>5, <1>6

\* The percentile lies below c if at most one in twenty elements reach it, and not
\* below if more than that do.
LEMMA P95Share ==
  ASSUME NEW s \in Seq(Int), s # <<>>, NEW c \in Int,
         NEW reach \in Int, reach = Len(s) - Cardinality(Below(s, c))
  PROVE  /\ P95(s) \in Int
         /\ 20 * reach <= Len(s) - 1 => P95(s) <= 100 * (c - 1)
         /\ 20 * (reach - 1) >= Len(s) - 1 => P95(s) >= 100 * c
<1>1. PICK n \in Nat \ {0} : n = Len(s)
  OBVIOUS
<1>2. PICK b \in Nat : b = Cardinality(Below(s, c))
  <2>1. Below(s, c) \subseteq 1 .. Len(s)
    BY DEF Below
  <2> QED
    BY <2>1, PositionsFinite
<1>3. reach = n - b
  BY <1>1, <1>2
<1>4. CASE n = 1
  <2>1. P95(s) = 100 * s[1] /\ s[1] \in Int
    BY <1>1, <1>4 DEF P95
  <2>2. Below(s, c) = IF s[1] < c THEN {1} ELSE {}
    BY <1>1, <1>4 DEF Below
  <2>3. b = IF s[1] < c THEN 1 ELSE 0
    BY <1>2, <2>2, FS_Singleton, FS_EmptySet
  <2> QED
    BY <1>1, <1>3, <1>4, <2>1, <2>3
<1>5. CASE n > 1
  <2>0. PICK h \in Nat : h = 95 * (n - 1)
    BY <1>1
  <2>1. PICK j \in Nat : j = h \div 100
    OBVIOUS
  <2>2. PICK d \in 0 .. 99 : d = h % 100
    OBVIOUS
  <2>3. 100 * j + d = 95 * (n - 1)
    BY <2>0, <2>1, <2>2
  <2>4. j + 1 \in 1 .. n /\ j + 2 \in 1 .. n
    <3>1. n \in Nat /\ n > 1 /\ j \in Nat /\ d \in Nat
      BY <1>1, <1>5
    <3>2. 100 * j <= 95 * (n - 1)
      BY <2>3, <3>1
    <3>3. j < n - 1
      BY <3>1, <3>2
    <3> QED
      BY <3>1, <3>3
  <2>5. PICK x \in Int : x = Nth(s, j + 1)
    BY <1>1, <2>4, NthIs
  <2>6. PICK y \in Int : y = Nth(s, j + 2)
    BY <1>1, <2>4, NthIs
  <2>7. P95(s) = x * (100 - d) + y * d
    <3>0. h = 95 * (Len(s) - 1) /\ Len(s) # 1
      BY <1>1, <1>5, <2>0
    <3>1. Len(s) # 1 /\ j = (95 * (Len(s) - 1)) \div 100 /\ d = (95 * (Len(s) - 1)) % 100
      BY <3>0, <2>1, <2>2, Zenon
    <3>2. P95(s) = Nth(s, j + 1) * (100 - d) + Nth(s, j + 2) * d
      BY <3>1, Zenon DEF P95
    <3> QED
      BY <2>5, <2>6, <3>2
  <2>8. x < c <=> j + 1 <= b
    BY <1>1, <1>2, <2>4, <2>5, NthBelow
  <2>9. y < c <=> j + 2 <= b
    BY <1>1, <1>2, <2>4, <2>6, NthBelow
  <2>10. ASSUME 20 * reach <= n - 1 PROVE x <= c - 1 /\ (d = 0 \/ y <= c - 1)
    <3>1. 100 * (b - 1) >= 100 * j + d
      BY <1>3, <2>3, <2>10
    <3>2. j + 1 <= b /\ (d = 0 \/ j + 2 <= b)
      BY <3>1
    <3> QED
      BY <2>8, <2>9, <3>2
  <2>11. ASSUME 20 * (reach - 1) >= n - 1 PROVE x >= c /\ y >= c
    <3>1. 100 * b <= 100 * j + d
      BY <1>3, <2>3, <2>11
    <3>2. ~(j + 1 <= b) /\ ~(j + 2 <= b)
      BY <3>1
    <3> QED
      BY <2>8, <2>9, <3>2
  <2>12. c - 1 \in Int /\ x * (100 - d) + y * d \in Int
    OBVIOUS
  <2>13. 20 * reach <= n - 1 => x * (100 - d) + y * d <= 100 * (c - 1)
    BY <2>10, <2>12, Weighted
  <2>14. 20 * (reach - 1) >= n - 1 => x * (100 - d) + y * d >= 100 * c
    BY <2>11, Weighted
  <2> QED
    BY <1>1, <2>7, <2>12, <2>13, <2>14
<1> QED
  BY <1>4, <1>5

HealthTypeOK ==
  /\ errors \in Seq(Errors)
  /\ status \in Status
  /\ recorded \in Seq(Errors)

\* The window is the newest part of the record, and a verdict is that on it.
VerdictStands ==
  /\ errors = Recent
  /\ status # "unchecked" /\ errors # <<>> =>
        /\ status = "too high" <=> TooHigh(P95(errors))
        /\ status = "too low" <=> ~TooHigh(P95(errors)) /\ TooLow(P95(errors))

HealthInv == HealthTypeOK /\ VerdictStands

LEMMA InitHealth == HealthInit => HealthInv
  BY RecordsAssumption DEF HealthInit, HealthInv, HealthTypeOK, VerdictStands, Status, Recent

\* The window slides with the record.
LEMMA RecordFollows ==
  ASSUME HealthInv, NEW e \in Errors, Record(e)
  PROVE  errors' = Recent'
<1>1. PICK n \in Nat : n = Len(recorded)
  BY DEF HealthInv, HealthTypeOK
<1>2. recorded \in [1 .. n -> Errors]
  BY <1>1 DEF HealthInv, HealthTypeOK
<1>3. recorded' = Append(recorded, e) /\ Len(recorded') = n + 1
      /\ recorded' \in Seq(Errors)
  BY <1>1 DEF Record, HealthInv, HealthTypeOK
<1>4. \A i \in 1 .. n : recorded'[i] = recorded[i]
  BY <1>1, <1>3 DEF HealthInv, HealthTypeOK
<1>5. recorded'[n + 1] = e
  BY <1>1, <1>3 DEF HealthInv, HealthTypeOK
<1>6. MaxErrors \in Nat \ {0}
  BY RecordsAssumption
<1>7. CASE n <= MaxErrors - 1
  <2>1. errors = recorded
    <3>1. Recent = SubSeq(recorded, 1, n)
      <4>1. (IF n > MaxErrors THEN n - MaxErrors + 1 ELSE 1) = 1
        BY <1>6, <1>7
      <4>2. Recent = SubSeq(recorded, IF n > MaxErrors THEN n - MaxErrors + 1 ELSE 1, n)
        BY <1>1, Zenon DEF Recent
      <4> QED
        BY <4>1, <4>2
    <3>2. SubSeq(recorded, 1, n) = recorded
      BY <1>1 DEF HealthInv, HealthTypeOK
    <3> QED
      BY <3>1, <3>2 DEF HealthInv, VerdictStands
  <2>2. errors' = Append(recorded, e)
    BY <1>1, <1>6, <1>7, <2>1 DEF Record
  <2>3. Recent' = SubSeq(recorded', 1, n + 1)
    BY <1>3, <1>6, <1>7 DEF Recent
  <2> QED
    BY <1>3, <2>2, <2>3
<1>8. CASE n >= MaxErrors
  <2>1. PICK m \in Nat : m = n - MaxErrors
    BY <1>6, <1>8
  <2>2. errors = SubSeq(recorded, m + 1, n)
    <3>1. (IF n > MaxErrors THEN n - MaxErrors + 1 ELSE 1) = m + 1
      BY <1>6, <1>8, <2>1
    <3>2. Recent = SubSeq(recorded, IF n > MaxErrors THEN n - MaxErrors + 1 ELSE 1, n)
      BY <1>1, Zenon DEF Recent
    <3> QED
      BY <3>1, <3>2 DEF HealthInv, VerdictStands
  <2>3. Len(errors) = MaxErrors
    BY <1>1, <1>2, <1>6, <2>1, <2>2 DEF HealthInv, HealthTypeOK
  <2>4. \A i \in 1 .. MaxErrors : errors[i] = recorded[m + i]
    BY <1>1, <1>2, <1>6, <2>1, <2>2 DEF HealthInv, HealthTypeOK
  <2>5. errors' = Append(Tail(errors), e)
    BY <1>6, <2>3 DEF Record
  <2>6. Recent' = SubSeq(recorded', m + 2, n + 1)
    <3>1. Recent' = SubSeq(recorded', (n + 1) - MaxErrors + 1, n + 1)
      BY <1>3, <1>6, <1>8 DEF Recent
    <3>2. (n + 1) - MaxErrors + 1 = m + 2
      BY <1>6, <2>1
    <3> QED
      BY <3>1, <3>2
  <2>7. Len(errors') = MaxErrors /\ errors' \in Seq(Errors)
    BY <1>6, <2>3, <2>5 DEF HealthInv, HealthTypeOK
  <2>0. PICK r \in Seq(Errors) : r = recorded'
    BY <1>3
  <2>8. Len(Recent') = MaxErrors /\ Recent' \in Seq(Errors)
    <3>1. Len(r) = n + 1 /\ (n + 1) - (m + 2) + 1 = MaxErrors /\ m + 2 \in 1 .. n + 1
      BY <1>3, <1>6, <2>0, <2>1
    <3>2. Recent' = SubSeq(r, m + 2, n + 1)
      BY <2>0, <2>6
    <3> QED
      BY <3>1, <3>2, <1>6
  <2>9. ASSUME NEW i \in 1 .. MaxErrors PROVE errors'[i] = Recent'[i]
    <3>1. Recent'[i] = recorded'[m + 1 + i]
      <4>1. Len(r) = n + 1 /\ Recent' = SubSeq(r, m + 2, n + 1)
        BY <1>3, <2>0, <2>6
      <4>2. i \in 1 .. (n + 1) - (m + 2) + 1 /\ (m + 2) + i - 1 = m + 1 + i
        BY <1>6, <2>1
      <4>3. SubSeq(r, m + 2, n + 1)[i] = r[(m + 2) + i - 1]
        BY <4>1, <4>2
      <4> QED
        BY <2>0, <4>1, <4>2, <4>3
    <3>2. CASE i = MaxErrors
      BY <1>5, <1>6, <2>1, <2>3, <2>5, <3>1, <3>2 DEF HealthInv, HealthTypeOK
    <3>3. CASE i < MaxErrors
      <4>1. errors'[i] = errors[i + 1]
        BY <1>6, <2>3, <2>5, <3>3 DEF HealthInv, HealthTypeOK
      <4>2. errors[i + 1] = recorded[m + 1 + i]
        <5>1. PICK j \in 1 .. MaxErrors : j = i + 1
          BY <1>6, <3>3
        <5>2. errors[j] = recorded[m + j]
          BY <2>4
        <5>3. m + j = m + 1 + i
          BY <1>6, <2>1, <5>1
        <5> QED
          BY <5>1, <5>2, <5>3
      <4>3. m + 1 + i \in 1 .. n
        BY <1>6, <2>1, <3>3
      <4> QED
        BY <1>4, <3>1, <4>1, <4>2, <4>3
    <3> QED
      BY <1>6, <3>2, <3>3
  <2> QED
    BY <2>7, <2>8, <2>9
<1> QED
  BY <1>6, <1>7, <1>8

LEMMA NextHealth == HealthInv /\ [HealthNext]_healthVars => HealthInv'
<1> SUFFICES ASSUME HealthInv, [HealthNext]_healthVars PROVE HealthInv'
  OBVIOUS
<1>1. CASE UNCHANGED healthVars
  BY <1>1 DEF healthVars, HealthInv, HealthTypeOK, VerdictStands, Recent
<1>2. CASE CheckHealth
  <2>1. UNCHANGED <<errors, recorded>> /\ errors' = Recent'
    BY <1>2 DEF CheckHealth, HealthInv, VerdictStands, Recent
  <2>2. status' \in Status
    BY <1>2 DEF CheckHealth, Status
  <2>3. ASSUME errors # <<>>
        PROVE  /\ status' = "too high" <=> TooHigh(P95(errors))
               /\ status' = "too low" <=> ~TooHigh(P95(errors)) /\ TooLow(P95(errors))
    BY <1>2, <2>3 DEF CheckHealth
  <2> QED
    BY <2>1, <2>2, <2>3 DEF HealthInv, HealthTypeOK, VerdictStands
<1>3. ASSUME NEW e \in Errors, RecordBounded(e) PROVE HealthInv'
  <2>1. Record(e)
    BY <1>3 DEF RecordBounded
  <2>2. HealthTypeOK'
    <3>1. Append(errors, e) \in Seq(Errors) /\ Append(recorded, e) \in Seq(Errors)
      BY DEF HealthInv, HealthTypeOK
    <3>2. ASSUME ~(Len(errors) < MaxErrors) PROVE Append(Tail(errors), e) \in Seq(Errors)
      <4>1. errors # <<>>
        BY <3>2, RecordsAssumption DEF HealthInv, HealthTypeOK
      <4> QED
        BY <4>1 DEF HealthInv, HealthTypeOK
    <3> QED
      BY <2>1, <3>1, <3>2 DEF Record, HealthTypeOK, Status
  <2>3. status' = "unchecked"
    BY <2>1 DEF Record
  <2> QED
    BY <2>1, <2>2, <2>3, RecordFollows DEF HealthInv, VerdictStands
<1> QED
  BY <1>1, <1>2, <1>3 DEF HealthNext

LEMMA RecentType == HealthInv => Recent \in Seq(Int)
<1> SUFFICES ASSUME HealthInv PROVE errors \in Seq(Int)
  BY DEF HealthInv, VerdictStands
<1>1. PICK n \in Nat : n = Len(errors)
  BY DEF HealthInv, HealthTypeOK
<1>2. errors \in [1 .. n -> Errors]
  BY <1>1 DEF HealthInv, HealthTypeOK
<1>3. errors \in [1 .. n -> Int]
  <2>1. \A i \in 1 .. n : errors[i] \in Errors
    BY <1>2
  <2>2. Errors \subseteq Int
    BY ErrorsAssumption
  <2>3. \A i \in 1 .. n : errors[i] \in Int
    BY <2>1, <2>2, Zenon
  <2> QED
    BY <1>2, <2>3
<1> QED
  BY <1>3

\* An error above twice the baseline reaches 2 * Baseline + 1.
LEMMA DegradationFollows == HealthInv => DegradationReported
<1> SUFFICES ASSUME HealthInv, status # "unchecked", Recent # <<>>
             PROVE  /\ 20 * CountHigh <= Len(Recent) - 1 => status # "too high"
                    /\ 20 * (CountHigh - 1) >= Len(Recent) - 1 => status = "too high"
  BY DEF DegradationReported
<1>1. PICK s \in Seq(Int) : s = Recent
  BY RecentType
<1>2. PICK n \in Nat : n = Len(s)
  OBVIOUS
<1>3. PICK c \in Int : c = 2 * Baseline + 1
  BY BaselineAssumption
<1>4. {i \in 1 .. Len(Recent) : TooHigh(100 * Recent[i])} = (1 .. Len(s)) \ Below(s, c)
  <2>1. ASSUME NEW i \in 1 .. n PROVE TooHigh(100 * s[i]) <=> ~(s[i] < c)
    <3>1. s[i] \in Int /\ Baseline \in Int
      BY <1>2, BaselineAssumption
    <3> QED
      BY <1>3, <3>1 DEF TooHigh
  <2> QED
    BY <1>1, <1>2, <2>1 DEF Below
<1>5. CountHigh = n - Cardinality(Below(s, c)) /\ Cardinality(Below(s, c)) \in Nat
  <2>1. Below(s, c) \subseteq 1 .. Len(s)
    BY DEF Below
  <2> QED
    BY <1>2, <1>4, <2>1, PositionsLeft, PositionsFinite DEF CountHigh
<1>6. /\ P95(s) \in Int
      /\ 20 * CountHigh <= n - 1 => P95(s) <= 100 * (c - 1)
      /\ 20 * (CountHigh - 1) >= n - 1 => P95(s) >= 100 * c
  <2>1. PICK r \in Int : r = CountHigh
    BY <1>2, <1>5
  <2> QED
    BY <1>1, <1>2, <1>5, <2>1, P95Share
<1>7. status = "too high" <=> P95(s) > 200 * Baseline
  <2>1. errors = s /\ errors # <<>>
    BY <1>1 DEF HealthInv, VerdictStands
  <2>2. status = "too high" <=> TooHigh(P95(s))
    BY <2>1 DEF HealthInv, VerdictStands
  <2> QED
    <3>1. 100 * 2 * Baseline = 200 * Baseline
      BY BaselineAssumption
    <3> QED
      BY <2>2, <3>1 DEF TooHigh
<1>8. PICK r \in Int : r = CountHigh
  BY <1>2, <1>5
<1>9. PICK p \in Int : p = P95(s)
  BY <1>6
<1>10. 100 * (c - 1) = 200 * Baseline /\ 100 * c > 200 * Baseline
  BY <1>3, BaselineAssumption
<1>11. 20 * r <= n - 1 => ~(p > 200 * Baseline)
  BY <1>6, <1>8, <1>9, <1>10, BaselineAssumption
<1>12. 20 * (r - 1) >= n - 1 => p > 200 * Baseline
  BY <1>6, <1>8, <1>9, <1>10, BaselineAssumption
<1> QED
  BY <1>1, <1>2, <1>7, <1>8, <1>9, <1>11, <1>12

\* An error below a tenth of the baseline is below Baseline / 10.
LEMMA PermissivenessFollows == HealthInv => PermissivenessReported
<1> SUFFICES ASSUME HealthInv, status # "unchecked", Recent # <<>>
             PROVE  /\ 20 * (Len(Recent) - CountLow) <= Len(Recent) - 1 => status = "too low"
                    /\ 20 * ((Len(Recent) - CountLow) - 1) >= Len(Recent) - 1 => status # "too low"
  BY DEF PermissivenessReported
<1>1. PICK s \in Seq(Int) : s = Recent
  BY RecentType
<1>2. PICK n \in Nat : n = Len(s)
  OBVIOUS
<1>3. PICK c \in Int : c = Baseline \div 10
  BY BaselineAssumption
<1>4. Baseline = 10 * c /\ c > 0
  BY <1>3, BaselineAssumption
<1>5. {i \in 1 .. Len(Recent) : TooLow(100 * Recent[i])} = Below(s, c)
  <2>1. ASSUME NEW i \in 1 .. n PROVE TooLow(100 * s[i]) <=> s[i] < c
    <3>1. s[i] \in Int
      BY <1>2
    <3> QED
      BY <1>4, <3>1 DEF TooLow
  <2> QED
    BY <1>1, <1>2, <2>1 DEF Below
<1>6. CountLow = Cardinality(Below(s, c)) /\ Cardinality(Below(s, c)) \in Nat
  <2>1. Below(s, c) \subseteq 1 .. Len(s)
    BY DEF Below
  <2> QED
    BY <1>2, <1>5, <2>1, PositionsFinite DEF CountLow
<1>7. PICK r \in Int : r = n - CountLow
  BY <1>2, <1>6
<1>8. /\ P95(s) \in Int
      /\ 20 * r <= n - 1 => P95(s) <= 100 * (c - 1)
      /\ 20 * (r - 1) >= n - 1 => P95(s) >= 100 * c
  BY <1>1, <1>2, <1>6, <1>7, P95Share
<1>9. /\ TooHigh(P95(s)) <=> P95(s) > 2000 * c
      /\ TooLow(P95(s)) <=> P95(s) < 100 * c
  BY <1>4, <1>8 DEF TooHigh, TooLow
<1>10. status = "too low" <=> ~TooHigh(P95(s)) /\ TooLow(P95(s))
  <2>1. errors = s /\ errors # <<>>
    BY <1>1 DEF HealthInv, VerdictStands
  <2> QED
    BY <2>1 DEF HealthInv, VerdictStands
<1>11. 20 * r <= n - 1 => ~(P95(s) > 2000 * c) /\ P95(s) < 100 * c
  BY <1>4, <1>8
<1>12. 20 * (r - 1) >= n - 1 => ~(P95(s) < 100 * c)
  BY <1>4, <1>8
<1> QED
  <2>1. Len(Recent) = n /\ Len(Recent) - CountLow = r
    BY <1>1, <1>2, <1>7
  <2>2. ASSUME 20 * r <= n - 1 PROVE status = "too low"
    <3>1. ~TooHigh(P95(s)) /\ TooLow(P95(s))
      BY <2>2, <1>9, <1>11
    <3> QED
      BY <3>1, <1>10
  <2>3. ASSUME 20 * (r - 1) >= n - 1 PROVE status # "too low"
    <3>1. ~TooLow(P95(s))
      BY <2>3, <1>9, <1>12
    <3> QED
      BY <3>1, <1>10
  <2> QED
    BY <2>1, <2>2, <2>3

\* check_health calls a model degraded by the share of the newest max_errors errors
\* above twice the baseline, within one in twenty: for any errors, baseline and window.
THEOREM DegradationIsReported == HealthSpec => []DegradationReported
  BY InitHealth, NextHealth, DegradationFollows, PTL DEF HealthSpec

\* And too permissive by the share of those below a tenth of it.
THEOREM PermissivenessIsReported == HealthSpec => []PermissivenessReported
  BY InitHealth, NextHealth, PermissivenessFollows, PTL DEF HealthSpec

-----------------------------------------------------------------------------
(* The calibration.                                                        *)

\* The threshold is one that calibrate may return for the scores.
ScoringInv ==
  /\ samples \in Seq(Scores)
  /\ threshold # Uncalibrated =>
        /\ samples # <<>>
        /\ threshold.target \in Targets
        /\ threshold.value \in Calibrated(samples, threshold.target)

LEMMA InitScoring == ScoringInit => ScoringInv
  BY DEF ScoringInit, ScoringInv

LEMMA NextScoring == ScoringInv /\ [ScoringNext]_scoringVars => ScoringInv'
<1> SUFFICES ASSUME ScoringInv, [ScoringNext]_scoringVars PROVE ScoringInv'
  OBVIOUS
<1>1. CASE UNCHANGED <<samples, threshold>>
  BY <1>1 DEF ScoringInv
<1>2. ASSUME NEW v \in Scores, Validate(v) PROVE ScoringInv'
  BY <1>2 DEF ScoringInv, Validate
<1>3. ASSUME NEW target \in Targets, Calibrate(target) PROVE ScoringInv'
  <2>1. PICK value \in Calibrated(samples, target) :
           threshold' = [value |-> value, target |-> target]
    BY <1>3 DEF Calibrate
  <2>2. threshold'.value = value /\ threshold'.target = target
    BY <2>1
  <2>3. samples' = samples /\ samples # <<>>
    BY <1>3 DEF Calibrate
  <2> QED
    BY <2>2, <2>3 DEF ScoringInv
<1>4. ASSUME NEW ae, NEW ll, Score(ae, ll) PROVE ScoringInv'
  BY <1>1, <1>4 DEF Score
<1> QED
  BY <1>1, <1>2, <1>3, <1>4 DEF ScoringNext, scoringVars

\* A rank misses the exact one by less than one downwards, unless it is the last, and
\* at most one upwards.
RankFits(k, n, t) ==
  /\ k = n \/ 100 * (k - 1) >= (100 - t) * (n - 1)
  /\ 100 * (k - 1) <= (100 - t) * (n - 1) + 100

LEMMA ThresholdRank ==
  ASSUME ScoringInv, threshold # Uncalibrated
  PROVE  \E k \in 1 .. Len(samples) :
           threshold.value = Nth(samples, k) /\ RankFits(k, Len(samples), threshold.target)
<1>1. PICK n \in Nat \ {0} : n = Len(samples)
  BY DEF ScoringInv
<1>2. PICK t \in 1 .. 99 : t = threshold.target
  BY TargetsAssumption DEF ScoringInv
<1>3. PICK h \in Nat : h = (100 - t) * (n - 1)
  OBVIOUS
<1>4. PICK up \in Nat : up = (h + 99) \div 100
  OBVIOUS
<1>5. PICK rank \in Ranks(n, t) :
         threshold.value = Nth(samples, (IF rank > n - 1 THEN n - 1 ELSE rank) + 1)
  BY <1>1, <1>2 DEF ScoringInv, Calibrated
<1>6. rank = up \/ (rank = up + 1 /\ h % 100 = 0)
  BY <1>3, <1>4, <1>5 DEF Ranks
<1>7. rank \in Nat /\ 100 * rank >= h /\ 100 * rank <= h + 100
  BY <1>4, <1>6
<1>8. PICK k \in Nat : k = (IF rank > n - 1 THEN n - 1 ELSE rank) + 1
  BY <1>7
<1>9. k \in 1 .. n /\ (k = n \/ 100 * (k - 1) >= h) /\ 100 * (k - 1) <= h + 100
  BY <1>7, <1>8
<1>10. threshold.value = Nth(samples, k) /\ k \in 1 .. Len(samples)
  BY <1>1, <1>5, <1>8, <1>9
<1>11. RankFits(k, n, t)
  BY <1>3, <1>9 DEF RankFits
<1> QED
  BY <1>1, <1>2, <1>10, <1>11

LEMMA SamplesType == ScoringInv => samples \in Seq(Int)
<1> SUFFICES ASSUME ScoringInv PROVE samples \in Seq(Int)
  OBVIOUS
<1>1. PICK n \in Nat : n = Len(samples)
  BY DEF ScoringInv
<1>2. samples \in [1 .. n -> Scores]
  BY <1>1 DEF ScoringInv
<1>3. \A i \in 1 .. n : samples[i] \in Int
  BY <1>2, ScoresAssumption
<1>4. samples \in [1 .. n -> Int]
  BY <1>2, <1>3
<1> QED
  BY <1>4

\* Above what the positions up to v leave.
LEMMA AboveIs ==
  ASSUME ScoringInv, NEW v \in Int
  PROVE  /\ Above(v) = Len(samples) - Cardinality(UpTo(samples, v))
         /\ Cardinality(UpTo(samples, v)) \in Nat
<1>1. samples \in Seq(Int)
  BY SamplesType
<1>2. PICK n \in Nat : n = Len(samples)
  BY <1>1
<1>3. UpTo(samples, v) \subseteq 1 .. Len(samples)
  BY DEF UpTo
<1>4. {i \in 1 .. Len(samples) : samples[i] > v} = (1 .. Len(samples)) \ UpTo(samples, v)
  BY <1>1, <1>2 DEF UpTo
<1> QED
  BY <1>2, <1>3, <1>4, PositionsLeft, PositionsFinite DEF Above

\* At most the n - k scores behind the threshold in order are above it.
LEMMA BoundFollows == ScoringInv => FalsePositivesBounded
<1> SUFFICES ASSUME ScoringInv, threshold # Uncalibrated
             PROVE  100 * Above(threshold.value) <= threshold.target * Len(samples)
  BY DEF FalsePositivesBounded
<1>0. PICK k \in 1 .. Len(samples) :
         threshold.value = Nth(samples, k) /\ RankFits(k, Len(samples), threshold.target)
  BY ThresholdRank
<1>1. PICK n \in Nat \ {0}, t \in 1 .. 99 :
         /\ n = Len(samples) /\ t = threshold.target /\ k \in 1 .. n
         /\ threshold.value = Nth(samples, k)
         /\ k = n \/ 100 * (k - 1) >= (100 - t) * (n - 1)
         /\ 100 * (k - 1) <= (100 - t) * (n - 1) + 100
  <2>1. PICK n \in Nat \ {0} : n = Len(samples)
    BY <1>0 DEF ScoringInv
  <2>2. PICK t \in 1 .. 99 : t = threshold.target
    BY TargetsAssumption DEF ScoringInv
  <2>3. RankFits(k, n, t)
    BY <1>0, <2>1, <2>2
  <2> QED
    BY <1>0, <2>1, <2>2, <2>3 DEF RankFits
<1>2. PICK v \in Int : v = threshold.value
  BY <1>1, NthIs, SamplesType
<1>3. PICK u \in Nat : u = Cardinality(UpTo(samples, v)) /\ Above(v) = n - u
  BY <1>1, <1>2, AboveIs
<1>4. k <= u
  BY <1>1, <1>2, <1>3, NthIs, SamplesType
<1>5. PICK g \in Nat : g = t * (n - 1)
  OBVIOUS
<1>6. (100 - t) * (n - 1) = 100 * (n - 1) - g /\ t * n = g + t
  BY <1>5
<1>7. u <= n
  BY <1>1, <1>2, <1>3, PositionsFinite, SamplesType DEF UpTo
<1>8. 100 * (n - u) <= g + t
  <2>1. CASE k = n
    BY <2>1, <1>4, <1>5, <1>7
  <2>2. CASE 100 * (k - 1) >= (100 - t) * (n - 1)
    <3>1. 100 * (k - 1) >= 100 * (n - 1) - g
      BY <2>2, <1>6
    <3> QED
      BY <3>1, <1>4
  <2> QED
    BY <1>1, <2>1, <2>2
<1> QED
  BY <1>1, <1>2, <1>3, <1>6, <1>8

\* At most the k - 1 scores before the threshold in order are up to a lower one.
LEMMA TightFollows == ScoringInv => ThresholdTight
<1> SUFFICES ASSUME ScoringInv, threshold # Uncalibrated, NEW v \in ToSet(samples),
                    v < threshold.value
             PROVE  100 * Above(v) >= threshold.target * (Len(samples) - 1)
  BY DEF ThresholdTight
<1>0. PICK k \in 1 .. Len(samples) :
         threshold.value = Nth(samples, k) /\ RankFits(k, Len(samples), threshold.target)
  BY ThresholdRank
<1>1. PICK n \in Nat \ {0}, t \in 1 .. 99 :
         /\ n = Len(samples) /\ t = threshold.target /\ k \in 1 .. n
         /\ threshold.value = Nth(samples, k)
         /\ k = n \/ 100 * (k - 1) >= (100 - t) * (n - 1)
         /\ 100 * (k - 1) <= (100 - t) * (n - 1) + 100
  <2>1. PICK n \in Nat \ {0} : n = Len(samples)
    BY <1>0 DEF ScoringInv
  <2>2. PICK t \in 1 .. 99 : t = threshold.target
    BY TargetsAssumption DEF ScoringInv
  <2>3. RankFits(k, n, t)
    BY <1>0, <2>1, <2>2
  <2> QED
    BY <1>0, <2>1, <2>2, <2>3 DEF RankFits
<1>2. samples \in Seq(Int) /\ samples \in [1 .. n -> Int]
  BY <1>1, SamplesType
<1>3. v \in Int
  BY <1>1, <1>2 DEF ToSet
<1>4. PICK w \in Int : w = threshold.value
  BY <1>1, <1>2, NthIs
<1>5. PICK u \in Nat : u = Cardinality(UpTo(samples, v)) /\ Above(v) = n - u
  BY <1>1, <1>3, AboveIs
<1>6. PICK b \in Nat : b = Cardinality(Below(samples, w)) /\ b < k
  BY <1>1, <1>2, <1>4, NthIs, PositionsFinite DEF Below
<1>7. u <= b
  <2>1. UpTo(samples, v) \subseteq Below(samples, w)
    BY <1>1, <1>2, <1>3, <1>4 DEF UpTo, Below
  <2>2. Below(samples, w) \subseteq 1 .. Len(samples)
    BY DEF Below
  <2> QED
    BY <1>1, <1>5, <1>6, <2>1, <2>2, PositionsGrow
<1>8. PICK g \in Nat : g = t * (n - 1)
  OBVIOUS
<1>9. (100 - t) * (n - 1) = 100 * (n - 1) - g
  BY <1>8
<1>10. 100 * (n - u) >= g
  BY <1>1, <1>6, <1>7, <1>9
<1> QED
  BY <1>1, <1>5, <1>8, <1>10

\* calibrate keeps the false-positive target on the scores it is given, whatever they
\* are, however they repeat, and however the product is rounded.
THEOREM FalsePositivesAreBounded == ScoringSpec => []FalsePositivesBounded
  BY InitScoring, NextScoring, BoundFollows, PTL DEF ScoringSpec

\* And no lower threshold among the scores keeps the target on the n - 1 others.
THEOREM ThresholdIsTight == ScoringSpec => []ThresholdTight
  BY InitScoring, NextScoring, TightFollows, PTL DEF ScoringSpec
=============================================================================
