---------------------------- MODULE ModelTraining ----------------------------
(***************************************************************************)
(* training/ae_trainer.py and models/model_registry.py: processes that     *)
(* train a model, with early stopping, and save it to one path of the      *)
(* registry, and processes that load it from there.  A saved model is two  *)
(* files, the weights and a sidecar with the metadata; each is truncated   *)
(* and then written, one after the other, and the loader reads them in the *)
(* same order.  A process may die at any point of a save.                  *)
(*                                                                         *)
(* What an epoch does to the weights is its validation loss, any value of  *)
(* Losses; the batches are collections that can be iterated every epoch.   *)
(***************************************************************************)
EXTENDS Naturals, Sequences, FiniteSets

CONSTANTS
    Trainers,    \* processes that run train_autoencoder with one save_path
    Loaders,     \* processes that call load_model on that path
    Losses,      \* validation losses
    Epochs,      \* epochs (100)
    Patience,    \* patience (10)
    MaxRuns,     \* bound: trainings begun
    MaxCrashes,  \* bound: processes that die
    Absent,      \* the file does not exist
    Torn,        \* the file is incomplete
    Nothing      \* a loader has read no weights

\* A loss is a finite number, below the initial best.
ASSUME LossesAssumption == Losses \subseteq Nat /\ \E m \in Losses : \A l \in Losses : l <= m
ASSUME EpochsAssumption ==
    /\ Epochs \in Nat \ {0} /\ Patience \in Nat \ {0}
    /\ MaxRuns \in Nat /\ MaxCrashes \in Nat

VARIABLES
    pc,         \* [Trainers -> Control]
    history,    \* [Trainers -> Seq(Losses)]: val_loss of each epoch of the run
    best,       \* [Trainers -> Losses \cup {Infinity}]: best_val
    left,       \* [Trainers -> 0..Patience]: patience_left
    run,        \* [Trainers -> 0..MaxRuns]: which training a trainer is in
    weights,    \* the weights file: [run, loss], Absent or Torn
    metadata,   \* the metadata file: [run, loss], Absent or Torn
    read,       \* [Loaders -> weights read by a load in progress, or Nothing]
    loaded,     \* [Loaders -> the pair the last load_model returned, or Nothing]
    mixed,      \* history, BOOLEAN: the last save overlapped with another or was cut short
    disturbed,  \* history, SUBSET Loaders: the load met a save in progress or mixed files
    runs,       \* 0..MaxRuns: trainings begun
    crashes     \* 0..MaxCrashes

files == <<weights, metadata, mixed>>
training == <<history, best, left, run>>
loading == <<read, loaded, disturbed>>
trainingVars == <<pc, training, files, loading, runs, crashes>>

Control == {"idle", "training", "weights open", "weights saved", "metadata open"}

\* float("inf")
Infinity == 1 + CHOOSE m \in Losses : \A l \in Losses : l <= m

Saved == [run : 1 .. MaxRuns, loss : Losses]
File  == Saved \cup {Absent, Torn}

ASSUME PlaceholderAssumption == Absent \notin Saved /\ Torn \notin Saved /\ Nothing \notin Saved

TrainingTypeOK ==
    /\ pc \in [Trainers -> Control]
    /\ history \in [Trainers -> Seq(Losses)]
    /\ \A t \in Trainers : Len(history[t]) <= Epochs
    /\ best \in [Trainers -> Losses \cup {Infinity}]
    /\ left \in [Trainers -> 0 .. Patience]
    /\ run \in [Trainers -> 0 .. MaxRuns]
    /\ weights \in File /\ metadata \in File
    /\ read \in [Loaders -> Saved \cup {Nothing}]
    /\ loaded \in [Loaders -> [weights : Saved, metadata : Saved] \cup {Nothing}]
    /\ disturbed \subseteq Loaders
    /\ mixed \in BOOLEAN
    /\ runs \in 0 .. MaxRuns
    /\ crashes \in 0 .. MaxCrashes

TrainingInit ==
    /\ pc = [t \in Trainers |-> "idle"]
    /\ history = [t \in Trainers |-> <<>>]
    /\ best = [t \in Trainers |-> Infinity]
    /\ left = [t \in Trainers |-> Patience]
    /\ run = [t \in Trainers |-> 0]
    /\ weights = Absent
    /\ metadata = Absent
    /\ read = [d \in Loaders |-> Nothing]
    /\ loaded = [d \in Loaders |-> Nothing]
    /\ mixed = FALSE
    /\ disturbed = {}
    /\ runs = 0
    /\ crashes = 0

Begin(t) ==
    /\ pc[t] = "idle"
    /\ runs < MaxRuns
    /\ runs' = runs + 1
    /\ run' = [run EXCEPT ![t] = runs + 1]
    /\ history' = [history EXCEPT ![t] = <<>>]
    /\ best' = [best EXCEPT ![t] = Infinity]
    /\ left' = [left EXCEPT ![t] = Patience]
    /\ pc' = [pc EXCEPT ![t] = "training"]
    /\ UNCHANGED <<files, loading, crashes>>

Saving == \E t \in Trainers : pc[t] \in {"weights open", "weights saved", "metadata open"}

\* The loop is over when its range is used up or patience has run out.
Stopped(t) == Len(history[t]) = Epochs \/ left[t] = 0

\* Mutant: an epoch as good as the best counts as an improvement.
Epoch_NotStrict(t, loss) ==
    /\ pc[t] = "training"
    /\ ~Stopped(t)
    /\ history' = [history EXCEPT ![t] = Append(@, loss)]
    /\ IF loss <= best[t]
         THEN /\ best' = [best EXCEPT ![t] = loss]
              /\ left' = [left EXCEPT ![t] = Patience]
         ELSE /\ left' = [left EXCEPT ![t] = @ - 1]
              /\ UNCHANGED best
    /\ UNCHANGED <<pc, run, files, loading, runs, crashes>>

\* One epoch: train, evaluate, and count it for or against the patience.
Epoch(t, loss) ==
    /\ pc[t] = "training"
    /\ ~Stopped(t)
    /\ history' = [history EXCEPT ![t] = Append(@, loss)]
    /\ IF loss < best[t]
         THEN /\ best' = [best EXCEPT ![t] = loss]
              /\ left' = [left EXCEPT ![t] = Patience]
         ELSE /\ left' = [left EXCEPT ![t] = @ - 1]
              /\ UNCHANGED best
    /\ UNCHANGED <<pc, run, files, loading, runs, crashes>>

\* Without a save_path the run ends here.
ReturnUnsaved(t) ==
    /\ pc[t] = "training"
    /\ Stopped(t)
    /\ pc' = [pc EXCEPT ![t] = "idle"]
    /\ UNCHANGED <<training, files, loading, runs, crashes>>

\* save_model: torch.save truncates the weights file ...
OpenWeights(t) ==
    /\ pc[t] = "training"
    /\ Stopped(t)
    /\ weights' = Torn
    /\ mixed' = Saving
    /\ disturbed' = disturbed \cup {d \in Loaders : read[d] # Nothing}
    /\ pc' = [pc EXCEPT ![t] = "weights open"]
    /\ UNCHANGED <<training, metadata, read, loaded, runs, crashes>>

\* ... and fills it with the weights of the last epoch.
WriteWeights(t) ==
    /\ pc[t] = "weights open"
    /\ weights' = [run |-> run[t], loss |-> history[t][Len(history[t])]]
    /\ pc' = [pc EXCEPT ![t] = "weights saved"]
    /\ UNCHANGED <<training, metadata, mixed, loading, runs, crashes>>

\* Mutant: an existing sidecar is kept.
OpenMetadata_IfAbsent(t) ==
    /\ pc[t] = "weights saved"
    /\ metadata' = IF metadata = Absent THEN Torn ELSE metadata
    /\ pc' = [pc EXCEPT ![t] = IF metadata = Absent THEN "metadata open" ELSE "idle"]
    /\ UNCHANGED <<training, weights, mixed, loading, runs, crashes>>

OpenMetadata(t) ==
    /\ pc[t] = "weights saved"
    /\ metadata' = Torn
    /\ pc' = [pc EXCEPT ![t] = "metadata open"]
    /\ UNCHANGED <<training, weights, mixed, loading, runs, crashes>>

\* The metadata record best_val as "val_loss".
WriteMetadata(t) ==
    /\ pc[t] = "metadata open"
    /\ metadata' = [run |-> run[t], loss |-> best[t]]
    /\ pc' = [pc EXCEPT ![t] = "idle"]
    /\ UNCHANGED <<training, weights, mixed, loading, runs, crashes>>

Crash(t) ==
    /\ pc[t] # "idle"
    /\ crashes < MaxCrashes
    /\ crashes' = crashes + 1
    /\ mixed' = (mixed \/ pc[t] # "training")
    /\ pc' = [pc EXCEPT ![t] = "idle"]
    /\ UNCHANGED <<training, weights, metadata, loading, runs>>

\* load_model: the weights are read first; torch.load raises on no or torn weights.
ReadWeights(d) ==
    /\ read[d] = Nothing
    /\ weights \notin {Absent, Torn}
    /\ read' = [read EXCEPT ![d] = weights]
    /\ loaded' = [loaded EXCEPT ![d] = Nothing]
    /\ disturbed' = IF Saving \/ mixed THEN disturbed \cup {d} ELSE disturbed \ {d}
    /\ UNCHANGED <<pc, training, files, runs, crashes>>

\* Then the metadata; it raises when they are missing or no JSON.
ReadMetadata(d) ==
    /\ read[d] # Nothing
    /\ loaded' = IF metadata \in {Absent, Torn}
                   THEN loaded
                   ELSE [loaded EXCEPT ![d] = [weights |-> read[d], metadata |-> metadata]]
    /\ read' = [read EXCEPT ![d] = Nothing]
    /\ UNCHANGED <<pc, training, files, disturbed, runs, crashes>>

Train(t) == \E loss \in Losses : Epoch(t, loss)

Save(t) == OpenWeights(t) \/ WriteWeights(t) \/ OpenMetadata(t) \/ WriteMetadata(t)

TrainingNext ==
    \/ \E t \in Trainers : Begin(t) \/ Train(t) \/ ReturnUnsaved(t) \/ Save(t) \/ Crash(t)
    \/ \E d \in Loaders : ReadWeights(d) \/ ReadMetadata(d)

TrainingSpec == TrainingInit /\ [][TrainingNext]_trainingVars

-----------------------------------------------------------------------------
(* Properties.                                                             *)

\* Epoch i of s improved on every epoch before it.
Improves(s, i) == \A j \in 1 .. i - 1 : s[i] < s[j]

\* No epoch of the Patience ones up to the n-th improved.
Stale(s, n) == n >= Patience /\ \A i \in n - Patience + 1 .. n : ~Improves(s, i)

\* Early stopping: a run that is over used all its epochs or ended in exactly
\* Patience epochs none of which improved on what came before them, and no
\* such stretch lies further back, so it stopped at the first chance.
StopsWhenStale ==
    \A t \in Trainers :
        LET s == history[t]
        IN  /\ pc[t] = "training" /\ Stopped(t) => Len(s) = Epochs \/ Stale(s, Len(s))
            /\ \A n \in 1 .. Len(s) - 1 : ~Stale(s, n)

\* model_registry.py:50: "Saving both state and metadata supports reproducibility and
\* audit trails": a load that overlaps with no save, of files the last save wrote
\* whole and with no other beside it, returns weights and metadata of one run, with a
\* loss no epoch of it was below, whatever was mixed up before that save.
UndisturbedLoadMatches ==
    \A d \in Loaders :
        loaded[d] # Nothing /\ d \notin disturbed =>
            /\ loaded[d].weights.run = loaded[d].metadata.run
            /\ loaded[d].metadata.loss <= loaded[d].weights.loss
=============================================================================
