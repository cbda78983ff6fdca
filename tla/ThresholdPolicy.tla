--------------------------- MODULE ThresholdPolicy ---------------------------
(***************************************************************************)
(* rl/threshold_policy.py and rl/reward_calculator.py: processes that hold *)
(* a ContextualBanditPolicy each, and the Q-table file they share.  The    *)
(* constructor loads the file; update changes the table in memory and then *)
(* writes all of it over the file: open("w") truncates it, a large table   *)
(* goes through in buffers of 8 KB, and the rest of it when the with block *)
(* closes the file, before update returns.  A process can die at any point *)
(* in between, and opening, writing and closing can raise.                 *)
(*                                                                         *)
(* A file with the output of one save is torn until the save has written   *)
(* all of it.  Saves that have the file open at once write over each other *)
(* from the start of the file, and what they leave may parse or not.       *)
(*                                                                         *)
(* Q-values are integers in units of 1/Scale, chosen so that the learning  *)
(* rate 1/2 is exact for MaxUpdates updates.                               *)
(***************************************************************************)
EXTENDS Integers

CONSTANTS
    Processes,   \* processes that construct a ContextualBanditPolicy
    Contexts,    \* (user_role, hour_bucket) pairs
    Actions,     \* ACTIONS: the thresholds, in hundredths
    Scale,       \* units a reward of 1 is divided into
    MaxUpdates,  \* bound: calls of update
    MaxFaults,   \* bound: crashes and failed writes
    NoRow,       \* a context the table has no entry for
    Absent,      \* the Q-table file does not exist
    Torn         \* the Q-table file is not a complete JSON object

ASSUME MaxUpdatesAssumption == MaxUpdates \in Nat
ASSUME MaxFaultsAssumption  == MaxFaults \in Nat
ASSUME ScaleAssumption      == Scale \in Nat \ {0} /\ Scale % 2 ^ (MaxUpdates + 1) = 0

VARIABLES
    disk,      \* the Q-table file
    layers,    \* the saves whose output the file may consist of
    pc,        \* [Processes -> Control]: where each process is
    mem,       \* [Processes -> Table]: _q_table
    taught,    \* history, [Pairs -> Q-value]: what the last update of each pair that
               \* returned has taught
    promised,  \* history, SUBSET Pairs: those whose value the file must hold
    pending,   \* history, [Processes -> SUBSET Pairs]: those a process has updated
               \* and has not yet had promised
    behind,    \* history, [Processes -> SUBSET Pairs]: those that another process has
               \* saved an update of since the process loaded the file
    updates,   \* 0..MaxUpdates
    faults     \* 0..MaxFaults

promises == <<taught, promised, pending, behind>>
vars == <<disk, layers, pc, mem, promises, updates, faults>>

-----------------------------------------------------------------------------
(* Rewards and tables.                                                     *)

\* The four outcomes reward_calculator.compute_reward tells apart.
Outcome == {"TP", "FP", "FN", "critical FN"}

Reward ==
    [v \in Outcome |->
        CASE v = "TP"          -> Scale
          [] v = "FP"          -> -(Scale \div 2)
          [] v = "FN"          -> -2 * Scale
          [] v = "critical FN" -> -4 * Scale]

Row == [Actions -> -4 * Scale .. Scale]
ZeroRow == [a \in Actions |-> 0]
Table == [Contexts -> Row \cup {NoRow}]
EmptyTable == [x \in Contexts |-> NoRow]

ASSUME PlaceholderAssumption ==
    NoRow \notin Row /\ Absent \notin Table /\ Torn \notin Table /\ Absent # Torn

\* _ensure_state.
Ensured(t, x) == IF t[x] = NoRow THEN [t EXCEPT ![x] = ZeroRow] ELSE t

\* Mutant: the reward is added without taking the old value off it.
Learned_Accumulates(t, x, a, v) ==
    [Ensured(t, x) EXCEPT ![x][a] = @ + Reward[v] \div 2]

\* The table with action a of context x moved towards the outcome's reward by
\* the learning rate.
Learned(t, x, a, v) ==
    [Ensured(t, x) EXCEPT ![x][a] = @ + (Reward[v] - @) \div 2]

Pairs == Contexts \X Actions

\* What a table answers for a pair: an entry of zeros is what a missing one becomes.
Value(t, pr) == Ensured(t, pr[1])[pr[1]][pr[2]]

-----------------------------------------------------------------------------
\* "writing": the file is open and truncated; "closed": it has been written and
\* closed, and update has not returned.
Control == {"down", "failed", "idle", "saving", "writing", "closed"}

Running == {p \in Processes : pc[p] \notin {"down", "failed"}}

\* A save: whose it is, the table it writes and, as history, what is to be promised.
Save == [by : Processes, table : Table, pairs : SUBSET Pairs]

TypeOK ==
    /\ disk \in Table \cup {Absent, Torn}
    /\ layers \subseteq Save
    /\ pc \in [Processes -> Control]
    /\ mem \in [Processes -> Table]
    /\ taught \in [Pairs -> -4 * Scale .. Scale]
    /\ promised \subseteq Pairs
    /\ pending \in [Processes -> SUBSET Pairs]
    /\ behind \in [Processes -> SUBSET Pairs]
    /\ updates \in 0 .. MaxUpdates
    /\ faults \in 0 .. MaxFaults

Init ==
    /\ disk = Absent
    /\ layers = {}
    /\ pc = [p \in Processes |-> "down"]
    /\ mem = [p \in Processes |-> EmptyTable]
    /\ taught = [pr \in Pairs |-> 0]
    /\ promised = Pairs
    /\ pending = [p \in Processes |-> {}]
    /\ behind = [p \in Processes |-> {}]
    /\ updates = 0
    /\ faults = 0

Fault ==
    /\ faults < MaxFaults
    /\ faults' = faults + 1

-----------------------------------------------------------------------------
(* Loading, selecting, updating.                                           *)

\* The table a start makes of the file: none yet is an empty one.
Contents == IF disk \in {Absent, Torn} THEN EmptyTable ELSE disk

\* Mutant: the table starts empty whatever the file holds.
Start_Fresh(p) ==
    /\ pc[p] \in {"down", "failed"}
    /\ pc' = [pc EXCEPT ![p] = IF disk = Torn THEN "failed" ELSE "idle"]
    /\ mem' = [mem EXCEPT ![p] = EmptyTable]
    /\ behind' = [behind EXCEPT ![p] = {}]
    /\ UNCHANGED <<disk, layers, taught, promised, pending, updates, faults>>

\* __init__ and _load_q_table: json.load raises on a torn file.
Start(p) ==
    /\ pc[p] \in {"down", "failed"}
    /\ pc' = [pc EXCEPT ![p] = IF disk = Torn THEN "failed" ELSE "idle"]
    /\ mem' = [mem EXCEPT ![p] = Contents]
    /\ behind' = [behind EXCEPT ![p] = {}]
    /\ UNCHANGED <<disk, layers, taught, promised, pending, updates, faults>>

\* select_threshold adds the entry of an unseen context, in memory only.
Select(p, x) ==
    /\ pc[p] = "idle"
    /\ mem' = [mem EXCEPT ![p] = Ensured(@, x)]
    /\ UNCHANGED <<disk, layers, pc, promises, updates, faults>>

\* update, up to its call of _save_q_table.
Update(p, x, a, v) ==
    /\ pc[p] = "idle"
    /\ updates < MaxUpdates
    /\ updates' = updates + 1
    /\ mem' = [mem EXCEPT ![p] = Learned(@, x, a, v)]
    /\ pc' = [pc EXCEPT ![p] = "saving"]
    /\ pending' = [pending EXCEPT ![p] = @ \cup {<<x, a>>}]
    /\ UNCHANGED <<disk, layers, taught, promised, behind, faults>>

-----------------------------------------------------------------------------
(* Saving.                                                                 *)

\* The saves that have the file open.
Open == {p \in Processes : pc[p] = "writing"}

SaveOf(p) == [by |-> p, table |-> mem[p], pairs |-> pending[p]]

\* The save of p is the only one the file can hold anything of.
Alone(p) == layers = {SaveOf(p)}

\* A table pieced together from those of several saves: of every row one may have
\* written one part and another one the rest, and as tables list their rows in
\* different orders, a row may be missing.
Rows(x) == {s.table[x] : s \in layers} \ {NoRow}
PiecedRows(x) ==
    {row \in [Actions -> {r[a] : r \in Rows(x), a \in Actions}] :
        \A a \in Actions : \E r \in Rows(x) : row[a] = r[a]}
Pieced ==
    {t \in [Contexts -> {NoRow} \cup UNION {PiecedRows(x) : x \in Contexts}] :
        \A x \in Contexts : t[x] \in {NoRow} \cup PiecedRows(x)}

\* _save_q_table opens the file for writing.  Nothing is left of saves that were over;
\* those that have it open go on writing at the offset they have reached.
Truncate(p) ==
    /\ pc[p] = "saving"
    /\ disk' = Torn
    /\ layers' = {SaveOf(q) : q \in Open \cup {p}}
    /\ pc' = [pc EXCEPT ![p] = "writing"]
    /\ promised' = IF Open = {} THEN promised \ (pending[p] \cup behind[p]) ELSE {}
    /\ behind' = [q \in Processes |->
                     IF q \in Running \ {p} THEN behind[q] \cup pending[p] ELSE behind[q]]
    /\ UNCHANGED <<mem, taught, pending, updates, faults>>

\* A full buffer of json.dump goes through.
Spill(p) ==
    /\ pc[p] = "writing"
    /\ disk' \in {Torn} \cup IF Alone(p) THEN {} ELSE Pieced
    /\ UNCHANGED <<layers, pc, mem, promises, updates, faults>>

\* Mutant: update returns before the file is flushed.
Close_Unflushed(p) ==
    /\ pc[p] = "writing"
    /\ pc' = [pc EXCEPT ![p] = "closed"]
    /\ UNCHANGED <<disk, layers, mem, promises, updates, faults>>

\* The with block ends: the rest of the table is flushed and the file closed.
Close(p) ==
    /\ pc[p] = "writing"
    /\ disk' \in IF Alone(p) THEN {mem[p]} ELSE {Torn} \cup Pieced
    /\ pc' = [pc EXCEPT ![p] = "closed"]
    /\ UNCHANGED <<layers, mem, promises, updates, faults>>

\* update returns.  What p has taught is promised if no other save has touched the
\* file since p opened it.
Return(p) ==
    /\ pc[p] = "closed"
    /\ pc' = [pc EXCEPT ![p] = "idle"]
    /\ IF Alone(p)
         THEN /\ taught' = [pr \in Pairs |->
                              IF pr \in pending[p] THEN Value(mem[p], pr) ELSE taught[pr]]
              /\ promised' = promised \cup pending[p]
              /\ pending' = [pending EXCEPT ![p] = {}]
         ELSE UNCHANGED <<taught, promised, pending>>
    /\ UNCHANGED <<disk, layers, mem, behind, updates, faults>>

\* What p leaves when it is cut off while the file is open: none, some or all of its
\* table has been written.
CutOff(p) ==
    IF pc[p] # "writing" THEN UNCHANGED disk
    ELSE disk' \in {Torn} \cup IF Alone(p) THEN {mem[p]} ELSE {disk} \cup Pieced

\* mkdir, open, the write or the close raises out of update; the table in memory
\* keeps the update.
SaveRaises(p) ==
    /\ pc[p] \in {"saving", "writing"}
    /\ Fault
    /\ pc' = [pc EXCEPT ![p] = "idle"]
    /\ CutOff(p)
    /\ UNCHANGED <<layers, mem, promises, updates>>

Crash(p) ==
    /\ p \in Running
    /\ Fault
    /\ pc' = [pc EXCEPT ![p] = "down"]
    /\ mem' = [mem EXCEPT ![p] = EmptyTable]
    /\ pending' = [pending EXCEPT ![p] = {}]
    /\ behind' = [behind EXCEPT ![p] = {}]
    /\ CutOff(p)
    /\ UNCHANGED <<layers, taught, promised, updates>>

Next ==
    \E p \in Processes :
        \/ Start(p) \/ Truncate(p) \/ Spill(p) \/ Close(p) \/ Return(p)
        \/ SaveRaises(p) \/ Crash(p)
        \/ \E x \in Contexts :
              \/ Select(p, x)
              \/ \E a \in Actions, v \in Outcome : Update(p, x, a, v)

Spec == Init /\ [][Next]_vars

-----------------------------------------------------------------------------
(* Properties.                                                             *)

\* threshold_policy.py:67: "Persist Q-values after each update so runtime learning
\* is durable": a file that parses answers for a pair with what the last update of it
\* that returned has taught, whatever starts, dies or raises in the meantime.  The
\* promise ends when a save opens the file whose process has updated the pair itself,
\* or was running when another one saved its update and has not loaded the file since,
\* and when two saves have the file open at once; it is renewed when a process that has
\* updated the pair saves alone and returns.
LearningDurable ==
    disk # Torn => \A pr \in promised : Value(Contents, pr) = taught[pr]

\* A start is refused only because of updates that have not returned: a torn file is
\* being written, or was left by a save that died, raised or met another one, and what
\* the save was for is not promised; no update that wrote the file alone and returned
\* leaves it torn.
TornByUnreturned ==
    disk = Torn => \E s \in layers : ~(s.pairs \subseteq promised)
=============================================================================
