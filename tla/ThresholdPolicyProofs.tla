------------------------ MODULE ThresholdPolicyProofs ------------------------
(***************************************************************************)
(* Proofs about ThresholdPolicy for every set of processes, contexts and   *)
(* actions, any number of updates and any number of failures.              *)
(***************************************************************************)
EXTENDS ThresholdPolicy, TLAPS

\* Every save that has the file open is one of those it may hold.
OpenListed == \A p \in Open : SaveOf(p) \in layers

\* A save that is alone leaves the file torn until it has closed it, and all of its
\* table then.
AloneWrites ==
    \A p \in Processes : Alone(p) =>
        /\ pc[p] = "writing" => disk = Torn
        /\ pc[p] = "closed" => disk = mem[p]

\* An update in progress has something to promise.
SaverPending ==
    \A p \in Processes : pc[p] \in {"saving", "writing", "closed"} => pending[p] # {}

\* While a save has the file open nothing is promised that it may not keep.
PromisesWait ==
    \A p \in Open :
        IF Alone(p) THEN promised \cap (pending[p] \cup behind[p]) = {} ELSE promised = {}

\* What a save that is alone will have promised is known to whoever has loaded it.
SavedIsKnown ==
    \A p \in Processes, q \in Running :
        pc[p] \in {"writing", "closed"} /\ Alone(p) /\ q # p =>
            \A pr \in pending[p] \ (pending[q] \cup behind[q]) :
                Value(mem[q], pr) = Value(mem[p], pr)

\* A process knows what is promised, but for what it has updated itself and what
\* another one has saved since it loaded the file.
PromisedIsKnown ==
    \A p \in Running : \A pr \in promised \ (pending[p] \cup behind[p]) :
        Value(mem[p], pr) = taught[pr]

-----------------------------------------------------------------------------
(* Tables.                                                                 *)

\* The reward of every outcome lies within the range of a Q-value.
LEMMA RewardType ==
  ASSUME NEW v \in Outcome
  PROVE  Reward[v] \in -4 * Scale .. Scale
<1>1. CASE v = "TP"
  <2>1. Reward[v] = Scale
    BY <1>1 DEF Outcome, Reward
  <2> QED
    BY <2>1, ScaleAssumption
<1>2. CASE v = "FP"
  <2>1. Reward[v] = -(Scale \div 2)
    BY <1>2 DEF Outcome, Reward
  <2> QED
    BY <2>1, ScaleAssumption
<1>3. CASE v = "FN"
  <2>1. Reward[v] = -2 * Scale
    BY <1>3 DEF Outcome, Reward
  <2> QED
    BY <2>1, ScaleAssumption
<1>4. CASE v = "critical FN"
  <2>1. Reward[v] = -4 * Scale
    BY <1>4 DEF Outcome, Reward
  <2> QED
    BY <2>1, ScaleAssumption
<1> QED
  BY <1>1, <1>2, <1>3, <1>4 DEF Outcome

\* A Q-value moved half of the way towards a reward stays within the range.
LEMMA MoveType ==
  ASSUME NEW q \in -4 * Scale .. Scale, NEW r \in -4 * Scale .. Scale
  PROVE  q + (r - q) \div 2 \in -4 * Scale .. Scale
  BY ScaleAssumption

LEMMA EmptyTableType == EmptyTable \in Table
  BY DEF EmptyTable, Table

LEMMA ZeroRowType == ZeroRow \in Row
  BY ScaleAssumption DEF ZeroRow, Row

\* _ensure_state gives the context a row and changes no other.
LEMMA EnsuredType ==
  ASSUME NEW t \in Table, NEW x \in Contexts
  PROVE  /\ Ensured(t, x) \in Table
         /\ Ensured(t, x)[x] \in Row
         /\ \A y \in Contexts : y # x => Ensured(t, x)[y] = t[y]
<1>1. CASE t[x] = NoRow
  <2>1. Ensured(t, x) = [t EXCEPT ![x] = ZeroRow]
    BY <1>1 DEF Ensured
  <2> QED
    BY <1>1, <2>1, ZeroRowType DEF Table
<1>2. CASE t[x] # NoRow
  BY <1>2 DEF Ensured, Table
<1> QED
  BY <1>1, <1>2

\* Learning changes the value of one pair, within the range.
LEMMA LearnedType ==
  ASSUME NEW t \in Table, NEW x \in Contexts, NEW a \in Actions, NEW v \in Outcome
  PROVE  /\ Learned(t, x, a, v) \in Table
         /\ Learned(t, x, a, v)[x] \in Row
         /\ \A b \in Actions : b # a => Learned(t, x, a, v)[x][b] = Ensured(t, x)[x][b]
         /\ \A y \in Contexts : y # x => Learned(t, x, a, v)[y] = t[y]
<1> DEFINE u == Ensured(t, x)
           q == u[x][a] + (Reward[v] - u[x][a]) \div 2
           row == [u[x] EXCEPT ![a] = q]
<1>1. u \in Table /\ u[x] \in Row /\ \A y \in Contexts : y # x => u[y] = t[y]
  BY EnsuredType
<1>2. u[x][a] \in -4 * Scale .. Scale
  BY <1>1 DEF Row
<1>3. q \in -4 * Scale .. Scale
  BY <1>2, RewardType, MoveType
<1>4. row \in Row /\ \A b \in Actions : b # a => row[b] = u[x][b]
  BY <1>1, <1>3 DEF Row
<1>5. Learned(t, x, a, v) = [u EXCEPT ![x] = row]
  BY DEF Learned
<1> HIDE DEF u, row
<1>6. [u EXCEPT ![x] = row] \in Table /\ [u EXCEPT ![x] = row][x] = row
  BY <1>1, <1>4 DEF Table
<1>7. \A y \in Contexts : y # x => [u EXCEPT ![x] = row][y] = t[y]
  BY <1>1, <1>4 DEF Table
<1> QED
  BY <1>4, <1>5, <1>6, <1>7 DEF u

\* A table answers within the range of the rewards.
LEMMA ValueType ==
  ASSUME NEW t \in Table, NEW pr \in Pairs
  PROVE  Value(t, pr) \in -4 * Scale .. Scale
<1>1. PICK x \in Contexts, a \in Actions : pr = <<x, a>>
  BY DEF Pairs
<1>2. Ensured(t, x)[x] \in Row
  BY EnsuredType
<1> QED
  BY <1>1, <1>2 DEF Value, Row

\* A row that has a value is not filled in again.
LEMMA EnsuredStays ==
  ASSUME NEW t \in Table, NEW x \in Contexts, t[x] \in Row
  PROVE  Ensured(t, x) = t
  BY PlaceholderAssumption DEF Ensured

\* _ensure_state changes no answer.
LEMMA ValueEnsured ==
  ASSUME NEW t \in Table, NEW x \in Contexts, NEW pr \in Pairs
  PROVE  Value(Ensured(t, x), pr) = Value(t, pr)
<1>1. PICK y \in Contexts, b \in Actions : pr = <<y, b>>
  BY DEF Pairs
<1> DEFINE u == Ensured(t, x)
<1>2. u \in Table /\ u[x] \in Row /\ \A z \in Contexts : z # x => u[z] = t[z]
  BY EnsuredType
<1>3. Value(u, pr) = Ensured(u, y)[y][b] /\ Value(t, pr) = Ensured(t, y)[y][b]
  BY <1>1 DEF Value
<1>4. CASE y = x
  <2>1. Ensured(u, x) = u
    BY <1>2, EnsuredStays
  <2> QED
    BY <1>3, <1>4, <2>1
<1>5. CASE y # x
  <2>1. u[y] = t[y]
    BY <1>2, <1>5
  <2> HIDE DEF u
  <2>2. Ensured(u, y)[y] = Ensured(t, y)[y]
    BY <1>2, <2>1 DEF Ensured, Table
  <2> QED
    BY <1>3, <2>2 DEF u
<1> QED
  BY <1>4, <1>5

\* Learning changes the answer for its own pair only.
LEMMA ValueLearned ==
  ASSUME NEW t \in Table, NEW x \in Contexts, NEW a \in Actions, NEW v \in Outcome,
         NEW pr \in Pairs, pr # <<x, a>>
  PROVE  Value(Learned(t, x, a, v), pr) = Value(t, pr)
<1>1. PICK y \in Contexts, b \in Actions : pr = <<y, b>>
  BY DEF Pairs
<1> DEFINE u == Learned(t, x, a, v)
<1>2. /\ u \in Table /\ u[x] \in Row
      /\ \A c \in Actions : c # a => u[x][c] = Ensured(t, x)[x][c]
      /\ \A z \in Contexts : z # x => u[z] = t[z]
  BY LearnedType
<1> HIDE DEF u
<1>3. Value(u, pr) = Ensured(u, y)[y][b] /\ Value(t, pr) = Ensured(t, y)[y][b]
  BY <1>1 DEF Value
<1>4. CASE y = x
  <2>1. Ensured(u, x) = u
    BY <1>2, EnsuredStays
  <2>2. b # a
    BY <1>1, <1>4
  <2> QED
    BY <1>2, <1>3, <1>4, <2>1, <2>2 DEF u
<1>5. CASE y # x
  <2>1. u[y] = t[y]
    BY <1>2, <1>5
  <2>2. Ensured(u, y)[y] = Ensured(t, y)[y]
    BY <1>2, <2>1 DEF Ensured, Table
  <2> QED
    BY <1>3, <2>2 DEF u
<1> QED
  BY <1>4, <1>5

-----------------------------------------------------------------------------
(* Types.                                                                  *)

LEMMA InitType == Init => TypeOK
<1>1. 0 \in -4 * Scale .. Scale
  BY ScaleAssumption
<1> QED
  BY <1>1, EmptyTableType, MaxUpdatesAssumption, MaxFaultsAssumption DEF Init, TypeOK, Control

\* What a start makes of the file is a table.
LEMMA ContentsType ==
  ASSUME TypeOK
  PROVE  Contents \in Table
  BY EmptyTableType DEF TypeOK, Contents

\* A row pieced together from those of several saves is a row.
LEMMA PiecedRowType ==
  ASSUME TypeOK, NEW x \in Contexts, NEW row \in PiecedRows(x)
  PROVE  row \in Row
<1>1. ASSUME NEW r \in Rows(x) PROVE r \in Row
  <2>1. PICK s \in layers : r = s.table[x] /\ r # NoRow
    BY DEF Rows
  <2>2. s.table \in Table
    BY DEF TypeOK, Save
  <2> QED
    BY <2>1, <2>2 DEF Table
<1>2. row \in [Actions -> {r[a] : r \in Rows(x), a \in Actions}]
  BY DEF PiecedRows
<1>3. ASSUME NEW a \in Actions PROVE row[a] \in -4 * Scale .. Scale
  <2>1. PICK r \in Rows(x) : row[a] = r[a]
    BY DEF PiecedRows
  <2> QED
    BY <1>1, <2>1 DEF Row
<1> QED
  BY <1>2, <1>3 DEF Row

LEMMA PiecedType ==
  ASSUME TypeOK, NEW t \in Pieced
  PROVE  t \in Table
<1>1. t \in [Contexts -> {NoRow} \cup UNION {PiecedRows(x) : x \in Contexts}]
  BY DEF Pieced
<1>2. ASSUME NEW x \in Contexts PROVE t[x] \in Row \cup {NoRow}
  <2>1. t[x] \in {NoRow} \cup PiecedRows(x)
    BY DEF Pieced
  <2> QED
    BY <2>1, PiecedRowType
<1> QED
  BY <1>1, <1>2 DEF Table

\* What a save leaves when it is cut off is a file still.
LEMMA CutOffType ==
  ASSUME TypeOK, NEW p \in Processes, CutOff(p)
  PROVE  disk' \in Table \cup {Absent, Torn}
  BY PiecedType DEF TypeOK, CutOff

LEMMA NextType == TypeOK /\ [Next]_vars => TypeOK'
<1> SUFFICES ASSUME TypeOK, [Next]_vars PROVE TypeOK'
  OBVIOUS
<1>1. CASE UNCHANGED vars
  BY <1>1 DEF vars, promises, TypeOK
<1>2. ASSUME NEW p \in Processes, Start(p) PROVE TypeOK'
  BY <1>2, ContentsType DEF TypeOK, Start, Control
<1>3. ASSUME NEW p \in Processes, Truncate(p) PROVE TypeOK'
  <2>1. layers' \subseteq Save
    BY <1>3 DEF TypeOK, Truncate, Save, SaveOf, Open
  <2>2. promised' \subseteq Pairs
    BY <1>3 DEF TypeOK, Truncate
  <2>3. behind' \in [Processes -> SUBSET Pairs]
    BY <1>3 DEF TypeOK, Truncate
  <2> QED
    BY <1>3, <2>1, <2>2, <2>3 DEF TypeOK, Truncate, Control
<1>4. ASSUME NEW p \in Processes, Spill(p) PROVE TypeOK'
  BY <1>4, PiecedType DEF TypeOK, Spill, promises
<1>5. ASSUME NEW p \in Processes, Close(p) PROVE TypeOK'
  BY <1>5, PiecedType DEF TypeOK, Close, Control, promises
<1>6. ASSUME NEW p \in Processes, Return(p) PROVE TypeOK'
  <2>1. taught' \in [Pairs -> -4 * Scale .. Scale]
    <3>1. \A pr \in Pairs : Value(mem[p], pr) \in -4 * Scale .. Scale
      BY ValueType DEF TypeOK
    <3> QED
      BY <1>6, <3>1 DEF TypeOK, Return
  <2>2. promised' \subseteq Pairs /\ pending' \in [Processes -> SUBSET Pairs]
    BY <1>6 DEF TypeOK, Return
  <2> QED
    BY <1>6, <2>1, <2>2 DEF TypeOK, Return, Control
<1>7. ASSUME NEW p \in Processes, SaveRaises(p) PROVE TypeOK'
  BY <1>7, CutOffType, MaxFaultsAssumption DEF TypeOK, SaveRaises, Fault, Control, promises
<1>8. ASSUME NEW p \in Processes, Crash(p) PROVE TypeOK'
  BY <1>8, CutOffType, EmptyTableType, MaxFaultsAssumption DEF TypeOK, Crash, Fault, Control
<1>9. ASSUME NEW p \in Processes, NEW x \in Contexts, Select(p, x) PROVE TypeOK'
  <2>1. Ensured(mem[p], x) \in Table
    BY EnsuredType DEF TypeOK
  <2> QED
    BY <1>9, <2>1 DEF TypeOK, Select, promises
<1>10. ASSUME NEW p \in Processes, NEW x \in Contexts, NEW a \in Actions, NEW v \in Outcome,
              Update(p, x, a, v)
       PROVE  TypeOK'
  <2>1. Learned(mem[p], x, a, v) \in Table
    BY LearnedType DEF TypeOK
  <2>2. <<x, a>> \in Pairs
    BY DEF Pairs
  <2> QED
    BY <1>10, <2>1, <2>2, MaxUpdatesAssumption DEF TypeOK, Update, Control
<1> QED
  BY <1>1, <1>2, <1>3, <1>4, <1>5, <1>6, <1>7, <1>8, <1>9, <1>10 DEF Next

\* Every variable of the policy keeps its type: no sequence of rewards carries a
\* Q-value out of the range of the rewards.
THEOREM PolicyTypeCorrect == Spec => []TypeOK
  BY InitType, NextType, PTL DEF Spec

-----------------------------------------------------------------------------
(* Saves.                                                                  *)

\* Only opening the file changes what it may hold.
LEMMA OnlyTruncateLayers ==
  ASSUME [Next]_vars, layers' # layers
  PROVE  \E p \in Processes : Truncate(p)
  BY DEF Next, vars, Start, Spill, Close, Return, SaveRaises, Crash, Select, Update

\* A process does nothing else while it saves.
LEMMA SaverKeeps ==
  ASSUME TypeOK, [Next]_vars, NEW p \in Processes, pc'[p] \in {"writing", "closed"}
  PROVE  /\ mem'[p] = mem[p]
         /\ pending'[p] = pending[p]
         /\ pc'[p] = "closed" => pc[p] \in {"writing", "closed"}
         /\ pc'[p] = "writing" /\ pc[p] # "writing" => Truncate(p)
<1>1. CASE UNCHANGED vars
  BY <1>1 DEF vars, promises
<1>2. ASSUME NEW q \in Processes, Start(q) PROVE UNCHANGED <<mem[p], pending[p], pc[p]>>
  BY <1>2 DEF TypeOK, Start
<1>3. ASSUME NEW q \in Processes, Truncate(q)
      PROVE  /\ UNCHANGED <<mem[p], pending[p]>>
             /\ q # p => pc'[p] = pc[p]
             /\ q = p => pc'[p] = "writing"
  BY <1>3 DEF TypeOK, Truncate
<1>4. ASSUME NEW q \in Processes, Spill(q) PROVE UNCHANGED <<mem[p], pending[p], pc[p]>>
  BY <1>4 DEF Spill, promises
<1>5. ASSUME NEW q \in Processes, Close(q)
      PROVE  UNCHANGED <<mem[p], pending[p]>> /\ (pc'[p] = pc[p] \/ pc[p] = "writing")
                                              /\ (pc'[p] = "writing" => pc[p] = "writing")
  BY <1>5 DEF TypeOK, Close, promises
<1>6. ASSUME NEW q \in Processes, Return(q) PROVE UNCHANGED <<mem[p], pending[p], pc[p]>>
  BY <1>6 DEF TypeOK, Return
<1>7. ASSUME NEW q \in Processes, SaveRaises(q) PROVE UNCHANGED <<mem[p], pending[p], pc[p]>>
  BY <1>7 DEF TypeOK, SaveRaises, promises
<1>8. ASSUME NEW q \in Processes, Crash(q) PROVE UNCHANGED <<mem[p], pending[p], pc[p]>>
  BY <1>8 DEF TypeOK, Crash
<1>9. ASSUME NEW q \in Processes, NEW x \in Contexts, Select(q, x)
      PROVE  UNCHANGED <<mem[p], pending[p], pc[p]>>
  BY <1>9 DEF TypeOK, Select, promises
<1>10. ASSUME NEW q \in Processes, NEW x \in Contexts, NEW a \in Actions, NEW v \in Outcome,
              Update(q, x, a, v)
       PROVE  UNCHANGED <<mem[p], pending[p], pc[p]>>
  BY <1>10 DEF TypeOK, Update
<1> QED
  BY <1>1, <1>2, <1>3, <1>4, <1>5, <1>6, <1>7, <1>8, <1>9, <1>10 DEF Next

\* What opening the file makes of the layers.
LEMMA TruncateLayers ==
  ASSUME TypeOK, NEW p \in Processes, Truncate(p)
  PROVE  /\ \A q \in Open \cup {p} : SaveOf(q) \in layers'
         /\ \A s \in layers' : \E q \in Open \cup {p} : s = SaveOf(q)
         /\ mem' = mem
  BY DEF Truncate, SaveOf

LEMMA InitListed == Init => OpenListed
  BY DEF Init, OpenListed, Open

LEMMA NextListed == TypeOK /\ OpenListed /\ [Next]_vars => OpenListed'
<1> SUFFICES ASSUME TypeOK, OpenListed, [Next]_vars, NEW q \in Processes, pc'[q] = "writing"
             PROVE  SaveOf(q)' \in layers'
  BY DEF OpenListed, Open, SaveOf
<1>1. /\ mem'[q] = mem[q] /\ pending'[q] = pending[q]
      /\ pc[q] # "writing" => Truncate(q)
  BY SaverKeeps
<1>2. SaveOf(q)' = SaveOf(q)
  BY <1>1 DEF SaveOf
<1>3. CASE layers' = layers
  <2>1. CASE pc[q] = "writing"
    BY <1>2, <1>3, <2>1 DEF OpenListed, Open, SaveOf
  <2>2. CASE pc[q] # "writing"
    BY <1>1, <1>2, <2>2, TruncateLayers
  <2> QED
    BY <2>1, <2>2
<1>4. CASE layers' # layers
  <2>1. PICK p \in Processes : Truncate(p)
    BY <1>4, OnlyTruncateLayers
  <2>2. q \in Open \cup {p}
    BY <2>1 DEF TypeOK, Truncate, Open
  <2> QED
    BY <1>2, <2>1, <2>2, TruncateLayers
<1> QED
  BY <1>3, <1>4

\* No save is alone while another one has the file open.
LEMMA AloneAmongOpen ==
  ASSUME OpenListed, NEW p \in Processes, Alone(p), NEW q \in Open
  PROVE  q = p
<1>1. SaveOf(q) = SaveOf(p)
  BY DEF OpenListed, Alone
<1> QED
  BY <1>1 DEF SaveOf

LEMMA TwoAlone ==
  ASSUME NEW p \in Processes, Alone(p), NEW q \in Processes, Alone(q)
  PROVE  q = p
<1>1. SaveOf(p) = SaveOf(q)
  BY DEF Alone, SaveOf
<1> QED
  BY <1>1 DEF SaveOf

\* A save that is alone has been since it opened the file, and no other has opened it since.
LEMMA AloneBefore ==
  ASSUME TypeOK, [Next]_vars, NEW p \in Processes, pc'[p] \in {"writing", "closed"}, Alone(p)'
  PROVE  \/ Truncate(p) /\ Open = {}
         \/ /\ pc[p] \in {"writing", "closed"} /\ Alone(p)
            /\ \A q \in Processes : ~Truncate(q)
<1>1. SaveOf(p)' = SaveOf(p) /\ mem'[p] = mem[p]
  BY SaverKeeps DEF SaveOf
<1>2. layers' = {SaveOf(p)}
  BY <1>1 DEF Alone, SaveOf
<1>3. CASE \E q \in Processes : Truncate(q)
  <2>1. PICK q \in Processes : Truncate(q)
    BY <1>3
  <2>2. \A r \in Open \cup {q} : SaveOf(r) = SaveOf(p)
    BY <1>2, <2>1, TruncateLayers
  <2>3. \A r \in Open \cup {q} : r = p
    BY <2>2 DEF SaveOf
  <2>4. pc[p] = "saving"
    BY <2>1, <2>3 DEF Truncate
  <2>5. Open = {}
    BY <2>3, <2>4 DEF Open
  <2> QED
    BY <2>1, <2>3, <2>5
<1>4. CASE \A q \in Processes : ~Truncate(q)
  <2>1. layers' = layers
    BY <1>4, OnlyTruncateLayers
  <2>2. Alone(p)
    BY <1>2, <2>1 DEF Alone, SaveOf
  <2>3. pc[p] \in {"writing", "closed"}
    BY <1>4, SaverKeeps
  <2> QED
    BY <1>4, <2>2, <2>3
<1> QED
  BY <1>3, <1>4

-----------------------------------------------------------------------------
(* What a save does to the file.                                           *)

\* A step of a process that has the file open, short of opening it.
Writes(p) == p \in Open /\ (Spill(p) \/ Close(p) \/ SaveRaises(p) \/ Crash(p))

\* Only those that have the file open write to it.
LEMMA OnlyWritesDisk ==
  ASSUME [Next]_vars, disk' # disk
  PROVE  \E p \in Processes : Truncate(p) \/ Writes(p)
  BY DEF Next, vars, Start, Spill, Close, Return, SaveRaises, Crash, CutOff, Select, Update,
         Writes, Open

\* Of a save that is alone the file has all or nothing.
LEMMA WritesAlone ==
  ASSUME NEW p \in Processes, Writes(p), Alone(p)
  PROVE  disk' \in {Torn, mem[p]}
  BY DEF Writes, Open, Spill, Close, SaveRaises, Crash, CutOff

LEMMA WritesPromise ==
  ASSUME NEW p \in Processes, Writes(p)
  PROVE  UNCHANGED <<taught, promised>>
  BY DEF Writes, Spill, Close, SaveRaises, Crash, promises

\* Only opening the file and returning from a save that was alone change the promises.
LEMMA OnlyReturnPromises ==
  ASSUME [Next]_vars, promised' # promised \/ taught' # taught
  PROVE  \E p \in Processes : Truncate(p) \/ (Return(p) /\ Alone(p))
  BY DEF Next, vars, Start, Spill, Close, Return, SaveRaises, Crash, Select, Update, promises

LEMMA InitWrites == Init => AloneWrites /\ SaverPending /\ PromisesWait
  BY DEF Init, AloneWrites, SaverPending, PromisesWait, Open

LEMMA NextAloneWrites ==
  TypeOK /\ OpenListed /\ AloneWrites /\ [Next]_vars => AloneWrites'
<1> SUFFICES ASSUME TypeOK, OpenListed, AloneWrites, [Next]_vars, NEW p \in Processes,
                    pc'[p] \in {"writing", "closed"}, Alone(p)'
             PROVE  /\ pc'[p] = "writing" => disk' = Torn
                    /\ pc'[p] = "closed" => disk' = mem'[p]
  BY DEF AloneWrites
<1>1. mem'[p] = mem[p]
  BY SaverKeeps
<1>2. CASE Truncate(p)
  BY <1>2 DEF TypeOK, Truncate
<1>3. CASE /\ pc[p] \in {"writing", "closed"} /\ Alone(p)
           /\ \A q \in Processes : ~Truncate(q)
  <2>1. CASE \E q \in Processes : Writes(q)
    <3>1. PICK q \in Processes : Writes(q)
      BY <2>1
    <3>2. q = p
      BY <1>3, <3>1, AloneAmongOpen DEF Writes
    <3>3. Spill(p) \/ Close(p)
      BY <3>1, <3>2 DEF TypeOK, Writes, SaveRaises, Crash
    <3> QED
      BY <1>1, <1>3, <3>3 DEF TypeOK, Spill, Close
  <2>2. CASE \A q \in Processes : ~Writes(q)
    <3>1. disk' = disk
      BY <1>3, <2>2, OnlyWritesDisk
    <3>2. pc'[p] = "writing" => pc[p] = "writing"
      BY <1>3, SaverKeeps
    <3>3. pc'[p] = "closed" => pc[p] = "closed"
      <4>1. ASSUME pc'[p] = "closed", pc[p] = "writing" PROVE Writes(p)
        BY <4>1 DEF TypeOK, Next, vars, promises, Start, Truncate, Spill, Close, Return,
                    SaveRaises, Crash, Select, Update, Writes, Open
      <4> QED
        BY <1>3, <2>2, <4>1
    <3> QED
      BY <1>1, <1>3, <3>1, <3>2, <3>3 DEF AloneWrites
  <2> QED
    BY <2>1, <2>2
<1> QED
  BY <1>2, <1>3, AloneBefore

LEMMA NextPending == TypeOK /\ SaverPending /\ [Next]_vars => SaverPending'
<1> SUFFICES ASSUME TypeOK, SaverPending, [Next]_vars, NEW p \in Processes,
                    pc'[p] \in {"saving", "writing", "closed"}
             PROVE  pending'[p] # {}
  BY DEF SaverPending
<1>1. CASE pc'[p] = "saving"
  <2>1. ASSUME NEW x \in Contexts, NEW a \in Actions, NEW v \in Outcome, Update(p, x, a, v)
        PROVE  pending'[p] # {}
    BY <2>1 DEF TypeOK, Update
  <2>2. ASSUME \A x \in Contexts, a \in Actions, v \in Outcome : ~Update(p, x, a, v)
        PROVE  pc[p] = "saving" /\ pending'[p] = pending[p]
    BY <1>1, <2>2 DEF TypeOK, Next, vars, promises, Start, Truncate, Spill, Close, Return,
                      SaveRaises, Crash, Select, Update
  <2> QED
    BY <2>1, <2>2 DEF SaverPending
<1>2. CASE pc'[p] \in {"writing", "closed"}
  <2>1. pending'[p] = pending[p]
    BY <1>2, SaverKeeps
  <2>2. pc[p] \in {"saving", "writing", "closed"}
    BY <1>2, SaverKeeps DEF Truncate
  <2> QED
    BY <2>1, <2>2 DEF SaverPending
<1> QED
  BY <1>1, <1>2

LEMMA NextWait == TypeOK /\ OpenListed /\ PromisesWait /\ [Next]_vars => PromisesWait'
<1> SUFFICES ASSUME TypeOK, OpenListed, PromisesWait, [Next]_vars, NEW p \in Processes,
                    pc'[p] = "writing"
             PROVE  IF Alone(p)' THEN promised' \cap (pending'[p] \cup behind'[p]) = {}
                                 ELSE promised' = {}
  BY DEF PromisesWait, Open
<1>1. /\ mem'[p] = mem[p] /\ pending'[p] = pending[p]
      /\ pc[p] # "writing" => Truncate(p)
  BY SaverKeeps
<1>2. CASE Truncate(p) /\ Open = {}
  <2>1. Alone(p)'
    BY <1>1, <1>2 DEF Truncate, Alone, SaveOf
  <2>2. behind'[p] = behind[p] /\ promised' = promised \ (pending[p] \cup behind[p])
    BY <1>2 DEF TypeOK, Truncate
  <2> QED
    BY <1>1, <2>1, <2>2
<1>3. CASE \E q \in Processes : Truncate(q) /\ Open # {}
  BY <1>3 DEF Truncate
<1>4. CASE pc[p] = "writing" /\ \A q \in Processes : ~Truncate(q)
  <2>1. layers' = layers
    BY <1>4, OnlyTruncateLayers
  <2>2. p \in Open
    BY <1>4 DEF Open
  <2>3. ASSUME NEW q \in Processes, Return(q), Alone(q) PROVE FALSE
    <3>1. q = p
      BY <2>2, <2>3, AloneAmongOpen
    <3> QED
      BY <1>4, <2>3, <3>1 DEF Return
  <2>4. promised' = promised
    BY <1>4, <2>3, OnlyReturnPromises
  <2>5. behind'[p] = behind[p]
    BY <1>4 DEF TypeOK, Next, vars, promises, Start, Truncate, Spill, Close, Return,
                SaveRaises, Crash, Select, Update
  <2>6. Alone(p)' <=> Alone(p)
    BY <1>1, <2>1 DEF Alone, SaveOf
  <2> QED
    BY <1>1, <2>2, <2>4, <2>5, <2>6 DEF PromisesWait
<1>5. Open # {} \/ pc[p] # "writing"
  BY DEF Open
<1> QED
  BY <1>1, <1>2, <1>3, <1>4, <1>5

-----------------------------------------------------------------------------
(* What is promised.                                                       *)

LEMMA InitKnown ==
  Init => SavedIsKnown /\ PromisedIsKnown /\ LearningDurable /\ TornByUnreturned
<1> SUFFICES ASSUME Init PROVE SavedIsKnown /\ PromisedIsKnown /\ LearningDurable /\ TornByUnreturned
  OBVIOUS
<1>1. ASSUME NEW pr \in Pairs PROVE Value(EmptyTable, pr) = taught[pr]
  BY <1>1 DEF Init, Value, Ensured, EmptyTable, ZeroRow, Pairs
<1>2. Contents = EmptyTable /\ disk # Torn
  BY PlaceholderAssumption DEF Init, Contents
<1>3. LearningDurable /\ TornByUnreturned
  BY <1>1, <1>2 DEF LearningDurable, TornByUnreturned, Init
<1>4. SavedIsKnown /\ PromisedIsKnown
  BY DEF Init, SavedIsKnown, PromisedIsKnown, Running
<1> QED
  BY <1>3, <1>4

\* Who starts while a save is alone has loaded all of it.
LEMMA StartLoads ==
  ASSUME TypeOK, AloneWrites, NEW p \in Processes, Alone(p), pc[p] \in {"writing", "closed"},
         disk # Torn
  PROVE  Contents = mem[p]
<1>1. disk = mem[p]
  BY DEF AloneWrites
<1>2. mem[p] \in Table
  BY DEF TypeOK
<1> QED
  BY <1>1, <1>2, PlaceholderAssumption DEF Contents

LEMMA NextSaved ==
  TypeOK /\ OpenListed /\ AloneWrites /\ SavedIsKnown /\ [Next]_vars => SavedIsKnown'
<1> SUFFICES ASSUME TypeOK, OpenListed, AloneWrites, SavedIsKnown, [Next]_vars,
                    NEW p \in Processes, NEW q \in Processes, q \in Running',
                    pc'[p] \in {"writing", "closed"}, Alone(p)', q # p,
                    NEW pr \in pending'[p], pr \notin pending'[q], pr \notin behind'[q]
             PROVE  Value(mem'[q], pr) = Value(mem'[p], pr)
  BY DEF SavedIsKnown, Running
<1>1. mem'[p] = mem[p] /\ pending'[p] = pending[p]
  BY SaverKeeps
<1>2. CASE Truncate(p)
  BY <1>1, <1>2 DEF TypeOK, Truncate, Running
<1>3. CASE /\ pc[p] \in {"writing", "closed"} /\ Alone(p)
           /\ \A r \in Processes : ~Truncate(r)
  <2>1. pr \in Pairs /\ pr \in pending[p] /\ mem[q] \in Table
    BY <1>1 DEF TypeOK
  <2> DEFINE Kept == /\ q \in Running /\ pending[q] \subseteq pending'[q]
                     /\ behind[q] \subseteq behind'[q]
                     /\ Value(mem'[q], pr) = Value(mem[q], pr)
  <2>2. Kept => Value(mem'[q], pr) = Value(mem'[p], pr)
    BY <1>1, <1>3, <2>1 DEF SavedIsKnown
  <2>3. CASE UNCHANGED vars
    BY <2>2, <2>3 DEF vars, promises, Running
  <2>4. ASSUME NEW r \in Processes, Start(r) PROVE Value(mem'[q], pr) = Value(mem'[p], pr)
    <3>1. CASE r = q
      <4>1. disk # Torn /\ mem'[q] = Contents
        BY <2>4, <3>1 DEF TypeOK, Start, Running
      <4> QED
        BY <1>1, <1>3, <4>1, StartLoads
    <3>2. CASE r # q
      BY <2>2, <2>4, <3>2 DEF TypeOK, Start, Running
    <3> QED
      BY <3>1, <3>2
  <2>5. ASSUME NEW r \in Processes, Spill(r) \/ Close(r) \/ SaveRaises(r)
        PROVE  Value(mem'[q], pr) = Value(mem'[p], pr)
    BY <2>2, <2>5 DEF TypeOK, Spill, Close, SaveRaises, promises, Running
  <2>6. ASSUME NEW r \in Processes, Return(r) PROVE Value(mem'[q], pr) = Value(mem'[p], pr)
    <3>1. pending'[q] = pending[q]
      <4>1. CASE r = q
        BY <1>3, <2>6, <4>1, TwoAlone DEF Return
      <4>2. CASE r # q
        BY <2>6, <4>2 DEF TypeOK, Return
      <4> QED
        BY <4>1, <4>2
    <3>2. q \in Running /\ behind' = behind /\ mem' = mem
      BY <2>6 DEF TypeOK, Return, Running
    <3> QED
      BY <2>2, <3>1, <3>2
  <2>7. ASSUME NEW r \in Processes, Crash(r) PROVE Value(mem'[q], pr) = Value(mem'[p], pr)
    <3>1. r # q
      BY <2>7 DEF TypeOK, Crash, Running
    <3> QED
      BY <2>2, <2>7, <3>1 DEF TypeOK, Crash, Running
  <2>8. ASSUME NEW r \in Processes, NEW x \in Contexts, Select(r, x)
        PROVE  Value(mem'[q], pr) = Value(mem'[p], pr)
    <3>1. Value(mem'[q], pr) = Value(mem[q], pr)
      <4>1. mem'[q] = mem[q] \/ mem'[q] = Ensured(mem[q], x)
        BY <2>8 DEF TypeOK, Select
      <4> QED
        BY <2>1, <4>1, ValueEnsured
    <3> QED
      BY <2>2, <2>8, <3>1 DEF Select, promises, Running
  <2>9. ASSUME NEW r \in Processes, NEW x \in Contexts, NEW a \in Actions, NEW v \in Outcome,
               Update(r, x, a, v)
        PROVE  Value(mem'[q], pr) = Value(mem'[p], pr)
    <3>1. Value(mem'[q], pr) = Value(mem[q], pr)
      <4>1. CASE r # q
        BY <2>9, <4>1 DEF TypeOK, Update
      <4>2. CASE r = q
        <5>1. mem'[q] = Learned(mem[q], x, a, v) /\ pr # <<x, a>>
          BY <2>9, <4>2 DEF TypeOK, Update
        <5> QED
          BY <2>1, <5>1, ValueLearned
      <4> QED
        BY <4>1, <4>2
    <3>2. pending[q] \subseteq pending'[q] /\ behind' = behind
      BY <2>9 DEF TypeOK, Update
    <3>3. q \in Running
      BY <2>9 DEF TypeOK, Update, Running
    <3> QED
      BY <2>2, <3>1, <3>2, <3>3
  <2> QED
    BY <1>3, <2>3, <2>4, <2>5, <2>6, <2>7, <2>8, <2>9 DEF Next
<1> QED
  BY <1>2, <1>3, AloneBefore

LEMMA NextKnown ==
  TypeOK /\ SavedIsKnown /\ PromisedIsKnown /\ LearningDurable /\ [Next]_vars => PromisedIsKnown'
<1> SUFFICES ASSUME TypeOK, SavedIsKnown, PromisedIsKnown, LearningDurable, [Next]_vars,
                    NEW q \in Processes, q \in Running',
                    NEW pr \in promised', pr \notin pending'[q], pr \notin behind'[q]
             PROVE  Value(mem'[q], pr) = taught'[pr]
  BY DEF PromisedIsKnown, Running
<1>1. pr \in Pairs /\ mem[q] \in Table
  BY NextType DEF TypeOK
<1> DEFINE Kept == /\ q \in Running /\ pr \in promised
                   /\ pr \notin pending[q] /\ pr \notin behind[q]
                   /\ taught'[pr] = taught[pr] /\ Value(mem'[q], pr) = Value(mem[q], pr)
<1>2. Kept => Value(mem'[q], pr) = taught'[pr]
  BY DEF PromisedIsKnown
<1>3. CASE UNCHANGED vars
  BY <1>2, <1>3 DEF vars, promises, Running
<1>4. ASSUME NEW p \in Processes, Start(p) PROVE Value(mem'[q], pr) = taught'[pr]
  <2>1. CASE p = q
    <3>1. disk # Torn /\ mem'[q] = Contents
      BY <1>4, <2>1 DEF TypeOK, Start, Running
    <3> QED
      BY <1>4, <3>1 DEF Start, LearningDurable
  <2>2. CASE p # q
    BY <1>2, <1>4, <2>2 DEF TypeOK, Start, Running
  <2> QED
    BY <2>1, <2>2
<1>5. ASSUME NEW p \in Processes, Truncate(p) PROVE Value(mem'[q], pr) = taught'[pr]
  <2>1. q \in Running /\ pr \in promised /\ taught' = taught /\ mem' = mem
    BY <1>5 DEF TypeOK, Truncate, Running
  <2>2. pending' = pending /\ behind[q] \subseteq behind'[q]
    BY <1>5 DEF TypeOK, Truncate
  <2> QED
    BY <1>2, <2>1, <2>2
<1>6. ASSUME NEW p \in Processes, Spill(p) \/ Close(p) \/ SaveRaises(p)
      PROVE  Value(mem'[q], pr) = taught'[pr]
  BY <1>2, <1>6 DEF TypeOK, Spill, Close, SaveRaises, promises, Running
<1>7. ASSUME NEW p \in Processes, Return(p) PROVE Value(mem'[q], pr) = taught'[pr]
  <2>1. q \in Running /\ mem' = mem /\ behind' = behind
    BY <1>7 DEF TypeOK, Return, Running
  <2>2. CASE ~Alone(p)
    BY <1>2, <1>7, <2>1, <2>2 DEF Return
  <2>3. CASE Alone(p) /\ pr \in pending[p]
    <3>1. taught'[pr] = Value(mem[p], pr)
      BY <1>1, <1>7, <2>3 DEF Return
    <3>2. CASE q = p
      BY <2>1, <3>1, <3>2
    <3>3. CASE q # p
      <4>1. pr \notin pending[q]
        BY <1>7, <2>3, <3>3 DEF TypeOK, Return
      <4> QED
        BY <1>7, <2>1, <2>3, <3>1, <3>3, <4>1 DEF SavedIsKnown, Return
    <3> QED
      BY <3>2, <3>3
  <2>4. CASE Alone(p) /\ pr \notin pending[p]
    <3>1. pr \in promised /\ taught'[pr] = taught[pr] /\ pr \notin pending[q]
      BY <1>1, <1>7, <2>4 DEF TypeOK, Return
    <3> QED
      BY <1>2, <2>1, <3>1
  <2> QED
    BY <2>2, <2>3, <2>4
<1>8. ASSUME NEW p \in Processes, Crash(p) PROVE Value(mem'[q], pr) = taught'[pr]
  <2>1. p # q
    BY <1>8 DEF TypeOK, Crash, Running
  <2> QED
    BY <1>2, <1>8, <2>1 DEF TypeOK, Crash, Running
<1>9. ASSUME NEW p \in Processes, NEW x \in Contexts, Select(p, x)
      PROVE  Value(mem'[q], pr) = taught'[pr]
  <2>1. mem'[q] = mem[q] \/ mem'[q] = Ensured(mem[q], x)
    BY <1>9 DEF TypeOK, Select
  <2>2. Value(mem'[q], pr) = Value(mem[q], pr)
    BY <1>1, <2>1, ValueEnsured
  <2> QED
    BY <1>2, <1>9, <2>2 DEF Select, promises, Running
<1>10. ASSUME NEW p \in Processes, NEW x \in Contexts, NEW a \in Actions, NEW v \in Outcome,
              Update(p, x, a, v)
       PROVE  Value(mem'[q], pr) = taught'[pr]
  <2>1. Value(mem'[q], pr) = Value(mem[q], pr)
    <3>1. CASE p # q
      BY <1>10, <3>1 DEF TypeOK, Update
    <3>2. CASE p = q
      <4>1. mem'[q] = Learned(mem[q], x, a, v) /\ pr # <<x, a>>
        BY <1>10, <3>2 DEF TypeOK, Update
      <4> QED
        BY <1>1, <4>1, ValueLearned
    <3> QED
      BY <3>1, <3>2
  <2>2. pending[q] \subseteq pending'[q] /\ behind' = behind
    BY <1>10 DEF TypeOK, Update
  <2>3. q \in Running /\ promised' = promised /\ taught' = taught
    BY <1>10 DEF TypeOK, Update, Running
  <2> QED
    BY <1>2, <2>1, <2>2, <2>3
<1> QED
  BY <1>3, <1>4, <1>5, <1>6, <1>7, <1>8, <1>9, <1>10 DEF Next

\* What the file answers depends on nothing else.
LEMMA FileStands ==
  ASSUME UNCHANGED disk
  PROVE  Contents' = Contents
  BY DEF Contents

LEMMA NextDurable ==
  TypeOK /\ AloneWrites /\ PromisesWait /\ PromisedIsKnown /\ LearningDurable /\ [Next]_vars
      => LearningDurable'
<1> SUFFICES ASSUME TypeOK, AloneWrites, PromisesWait, PromisedIsKnown, LearningDurable,
                    [Next]_vars, disk' # Torn, NEW pr \in promised'
             PROVE  Value(Contents', pr) = taught'[pr]
  BY DEF LearningDurable
<1>1. ASSUME NEW p \in Processes, Truncate(p) PROVE FALSE
  BY <1>1 DEF Truncate
<1>2. ASSUME NEW p \in Processes, Writes(p) PROVE Value(Contents', pr) = taught'[pr]
  <2>1. promised' = promised /\ taught' = taught /\ p \in Open /\ p \in Running
    BY <1>2, WritesPromise DEF Writes, Open, Running
  <2>2. Alone(p) /\ pr \notin pending[p] /\ pr \notin behind[p]
    BY <2>1 DEF PromisesWait
  <2>3. disk' = mem[p]
    BY <1>2, <2>2, WritesAlone
  <2>4. mem[p] \in Table
    BY DEF TypeOK
  <2>5. Contents' = mem[p]
    BY <2>3, <2>4, PlaceholderAssumption DEF Contents
  <2> QED
    BY <2>1, <2>2, <2>5 DEF PromisedIsKnown
<1>3. ASSUME NEW p \in Processes, Return(p), Alone(p) PROVE Value(Contents', pr) = taught'[pr]
  <2>1. Contents' = Contents /\ disk # Torn
    BY <1>3, FileStands DEF Return
  <2>2. pr \in Pairs
    BY NextType DEF TypeOK
  <2>3. CASE pr \in pending[p]
    <3>1. Contents = mem[p]
      BY <1>3, <2>1, StartLoads DEF Return
    <3>2. taught'[pr] = Value(mem[p], pr)
      BY <1>3, <2>2, <2>3 DEF Return
    <3> QED
      BY <2>1, <3>1, <3>2
  <2>4. CASE pr \notin pending[p]
    <3>1. pr \in promised /\ taught'[pr] = taught[pr]
      BY <1>3, <2>2, <2>4 DEF Return
    <3> QED
      BY <2>1, <3>1 DEF LearningDurable
  <2> QED
    BY <2>3, <2>4
<1>4. ASSUME \A p \in Processes : ~Truncate(p) /\ ~Writes(p) /\ ~(Return(p) /\ Alone(p))
      PROVE  Value(Contents', pr) = taught'[pr]
  <2>1. disk' = disk
    BY <1>4, OnlyWritesDisk
  <2>2. promised' = promised /\ taught' = taught
    BY <1>4, OnlyReturnPromises
  <2> QED
    BY <2>1, <2>2, FileStands DEF LearningDurable
<1> QED
  BY <1>1, <1>2, <1>3, <1>4

LEMMA NextTorn ==
  TypeOK /\ OpenListed /\ AloneWrites /\ SaverPending /\ PromisesWait /\ TornByUnreturned
      /\ [Next]_vars => TornByUnreturned'
<1> SUFFICES ASSUME TypeOK, OpenListed, AloneWrites, SaverPending, PromisesWait,
                    TornByUnreturned, [Next]_vars, disk' = Torn
             PROVE  \E s \in layers' : ~(s.pairs \subseteq promised')
  BY DEF TornByUnreturned
<1>1. ASSUME NEW p \in Processes, Truncate(p)
      PROVE  \E s \in layers' : ~(s.pairs \subseteq promised')
  <2>1. PICK pr \in pending[p] : TRUE
    BY <1>1 DEF SaverPending, Truncate
  <2>2. pr \notin promised'
    BY <1>1, <2>1 DEF Truncate
  <2>3. SaveOf(p) \in layers' /\ SaveOf(p).pairs = pending[p]
    BY <1>1, TruncateLayers DEF SaveOf
  <2> QED
    BY <2>1, <2>2, <2>3
<1>2. ASSUME NEW p \in Processes, Writes(p)
      PROVE  \E s \in layers' : ~(s.pairs \subseteq promised')
  <2>1. promised' = promised /\ p \in Open /\ pc[p] = "writing"
    BY <1>2, WritesPromise DEF Writes, Open
  <2>2. PICK pr \in pending[p] : TRUE
    BY <2>1 DEF SaverPending
  <2>3. pr \notin promised
    BY <2>1, <2>2 DEF PromisesWait
  <2>4. SaveOf(p) \in layers' /\ SaveOf(p).pairs = pending[p]
    BY <1>2, <2>1 DEF OpenListed, SaveOf, Writes, Spill, Close, SaveRaises, Crash
  <2> QED
    BY <2>1, <2>2, <2>3, <2>4
<1>3. ASSUME NEW p \in Processes, Return(p), Alone(p) PROVE FALSE
  <2>1. disk = mem[p] /\ disk = Torn
    BY <1>3 DEF AloneWrites, Return
  <2> QED
    BY <2>1, PlaceholderAssumption DEF TypeOK
<1>4. ASSUME \A p \in Processes : ~Truncate(p) /\ ~Writes(p) /\ ~(Return(p) /\ Alone(p))
      PROVE  \E s \in layers' : ~(s.pairs \subseteq promised')
  <2>1. disk' = disk /\ promised' = promised /\ layers' = layers
    BY <1>4, OnlyWritesDisk, OnlyReturnPromises, OnlyTruncateLayers
  <2> QED
    BY <2>1 DEF TornByUnreturned
<1> QED
  BY <1>1, <1>2, <1>3, <1>4

-----------------------------------------------------------------------------
(* Theorems.                                                               *)

\* Together, the invariant of the policy's processes and their file.
IInv ==
    /\ TypeOK /\ OpenListed /\ AloneWrites /\ SaverPending /\ PromisesWait
    /\ SavedIsKnown /\ PromisedIsKnown /\ LearningDurable /\ TornByUnreturned

LEMMA PolicyInvariant == Spec => []IInv
<1>1. Init => IInv
  BY InitType, InitListed, InitWrites, InitKnown DEF IInv
<1>2. IInv /\ [Next]_vars => IInv'
  BY NextType, NextListed, NextAloneWrites, NextPending, NextWait, NextSaved, NextKnown,
     NextDurable, NextTorn DEF IInv
<1> QED
  BY <1>1, <1>2, PTL DEF Spec

\* However processes start, die and fail, and whatever a cut-off save leaves: a file that
\* parses holds the value of every pair that is promised.
THEOREM LearningSurvives == Spec => []LearningDurable
<1>1. IInv => LearningDurable
  BY DEF IInv
<1> QED
  BY <1>1, PolicyInvariant, PTL

\* A torn file consists of what is left of updates that have not returned.
THEOREM TornIsUnreturned == Spec => []TornByUnreturned
<1>1. IInv => TornByUnreturned
  BY DEF IInv
<1> QED
  BY <1>1, PolicyInvariant, PTL
=============================================================================
