----------------------- MODULE AlertDispatcherProofs -------------------------
(***************************************************************************)
(* Proofs about AlertDispatcher for every set of workers and alerts and    *)
(* every number of attempts and calls.                                     *)
(***************************************************************************)
EXTENDS AlertDispatcher, FiniteSetTheorems, TLAPS

\* Where a worker is tells what it holds: an alert inside the call, a critical
\* one at the console, an attempt of the loop's range; dead letters follow the
\* last attempt only.
Located ==
    \A w \in Workers :
        /\ at[w] = "idle" <=> alert[w] = NoAlert
        /\ at[w] = "signalling" => severity[alert[w]] = "critical"
        /\ at[w] = "backoff" => attempt[w] < MaxAttempts

\* The inductive invariant.
DInv == TypeOK /\ Located /\ ReturnedMeansReached

LEMMA HoldsAlert ==
  ASSUME DInv, NEW w \in Workers, at[w] # "idle"
  PROVE  alert[w] \in Alerts
  BY DEF DInv, TypeOK, Located

LEMMA InitDInv == Init => DInv
<1> SUFFICES ASSUME Init PROVE DInv
  OBVIOUS
<1>1. \A s \in Scores : SeverityFromScore(s) \in Severity
  BY ScoresAssumption DEF SeverityFromScore, Severity
<1>2. TypeOK
  <2>1. severity \in [Alerts -> Severity]
    BY <1>1 DEF Init
  <2> QED
    BY <2>1, MaxAttemptsAssumption, MaxCallsAssumption DEF Init, TypeOK, Place
<1>3. Located /\ ReturnedMeansReached
  BY DEF Init, Located, ReturnedMeansReached
<1> QED
  BY <1>2, <1>3 DEF DInv

\* No step takes back what has reached a channel or the file.
LEMMA ReachedKept ==
  DInv /\ [Next]_vars => \A a \in Alerts : Reached(a) => Reached(a)'
<1> SUFFICES ASSUME DInv, [Next]_vars, NEW a \in Alerts, Reached(a)
             PROVE  Reached(a)'
  OBVIOUS
<1> USE DEF DInv, TypeOK, Reached
<1>1. CASE UNCHANGED vars
  BY <1>1 DEF vars, channels, deadLetters
<1>2. ASSUME NEW w \in Workers, NEW b \in Alerts, Dispatch(w, b) PROVE Reached(a)'
  BY <1>2 DEF Dispatch, channels, deadLetters
<1>3. ASSUME NEW w \in Workers, LogLine(w) PROVE Reached(a)'
  BY <1>3 DEF LogLine, deadLetters
<1>4. ASSUME NEW w \in Workers, Signal(w) PROVE Reached(a)'
  BY <1>4 DEF Signal, deadLetters
<1>5. ASSUME NEW w \in Workers, SignalRaises(w) PROVE Reached(a)'
  BY <1>5 DEF SignalRaises, deadLetters
<1>6. ASSUME NEW w \in Workers, Retry(w) PROVE Reached(a)'
  BY <1>6 DEF Retry, channels, deadLetters
<1>7. ASSUME NEW w \in Workers, WriteDeadLetter(w) PROVE Reached(a)'
  BY <1>7 DEF WriteDeadLetter, channels
<1>8. ASSUME NEW w \in Workers, Abandon(w) PROVE Reached(a)'
  BY <1>8 DEF Abandon, channels
<1>9. ASSUME NEW w \in Workers, Leave(w) PROVE Reached(a)'
  BY <1>9 DEF Leave, channels, deadLetters
<1> QED
  BY <1>1, <1>2, <1>3, <1>4, <1>5, <1>6, <1>7, <1>8, <1>9
  DEF Next, Deliver, WriteRaises

LEMMA StepTyped == DInv /\ [Next]_vars => TypeOK' /\ Located'
<1> SUFFICES ASSUME DInv, [Next]_vars PROVE TypeOK' /\ Located'
  OBVIOUS
<1> USE MaxAttemptsAssumption, MaxCallsAssumption, NoAlertAssumption, HoldsAlert
    DEF TypeOK, Located, Place
<1>1. CASE UNCHANGED vars
  BY <1>1 DEF DInv, vars, channels, deadLetters
<1>2. ASSUME NEW w \in Workers, NEW b \in Alerts, Dispatch(w, b)
      PROVE  TypeOK' /\ Located'
  BY <1>2 DEF DInv, Dispatch, channels, deadLetters
<1>3. ASSUME NEW w \in Workers, LogLine(w) PROVE TypeOK' /\ Located'
  BY <1>3 DEF DInv, LogLine, deadLetters
<1>4. ASSUME NEW w \in Workers, Signal(w) PROVE TypeOK' /\ Located'
  BY <1>4 DEF DInv, Signal, deadLetters
<1>5. ASSUME NEW w \in Workers, SignalRaises(w) PROVE TypeOK' /\ Located'
  BY <1>5 DEF DInv, SignalRaises, deadLetters
<1>6. ASSUME NEW w \in Workers, Retry(w) PROVE TypeOK' /\ Located'
  BY <1>6 DEF DInv, Retry, channels, deadLetters
<1>7. ASSUME NEW w \in Workers, WriteDeadLetter(w) PROVE TypeOK' /\ Located'
  BY <1>7 DEF DInv, WriteDeadLetter, channels
<1>8. ASSUME NEW w \in Workers, Abandon(w) PROVE TypeOK' /\ Located'
  BY <1>8 DEF DInv, Abandon, Forget, channels
<1>9. ASSUME NEW w \in Workers, Leave(w) PROVE TypeOK' /\ Located'
  BY <1>9 DEF DInv, Leave, Forget, channels, deadLetters
<1> QED
  BY <1>1, <1>2, <1>3, <1>4, <1>5, <1>6, <1>7, <1>8, <1>9
  DEF Next, Deliver, WriteRaises

\* A call comes to return by its log line, its signal or its dead letter only.
LEMMA ReturnsReached ==
  ASSUME DInv, [Next]_vars, NEW w \in Workers, at'[w] = "returned"
  PROVE  Reached(alert[w])'
<1>1. CASE at[w] = "returned" /\ alert'[w] = alert[w]
  <2>1. PICK a \in Alerts : a = alert[w]
    BY <1>1, HoldsAlert
  <2>2. Reached(a)
    BY <1>1, <2>1 DEF DInv, ReturnedMeansReached
  <2>3. Reached(a)'
    BY <2>2, ReachedKept
  <2> QED
    BY <1>1, <2>1, <2>3 DEF Reached
<1>2. CASE LogLine(w)
  <2>1. alert[w] \in Alerts
    BY <1>2, HoldsAlert DEF LogLine
  <2>2. alert'[w] = alert[w] /\ severity' = severity
    BY <1>2 DEF LogLine
  <2>3. severity[alert[w]] # "critical"
    BY <1>2 DEF LogLine, DInv, TypeOK
  <2>4. logged'[alert[w]] > 0
    BY <1>2, <2>1 DEF LogLine, DInv, TypeOK
  <2> QED
    BY <2>2, <2>3, <2>4 DEF Reached
<1>3. CASE Signal(w)
  <2>1. alert[w] \in Alerts
    BY <1>3, HoldsAlert DEF Signal
  <2>2. alert'[w] = alert[w] /\ severity'[alert[w]] = "critical"
    BY <1>3 DEF Signal, DInv, Located
  <2>3. signalled'[alert[w]] > 0
    BY <1>3, <2>1 DEF Signal, DInv, TypeOK
  <2> QED
    BY <2>2, <2>3 DEF Reached
<1>4. CASE WriteDeadLetter(w)
  <2>1. alert[w] \in Alerts /\ alert'[w] = alert[w]
    BY <1>4, HoldsAlert DEF WriteDeadLetter
  <2>2. recorded'[alert[w]] > 0
    BY <1>4, <2>1 DEF WriteDeadLetter, DInv, TypeOK
  <2> QED
    BY <2>1, <2>2 DEF Reached
<1> QED
  BY <1>1, <1>2, <1>3, <1>4
  DEF DInv, TypeOK, Next, vars, Dispatch, Deliver, LogLine, Signal, SignalRaises, Retry,
      WriteDeadLetter, WriteRaises, Abandon, Leave, Forget

LEMMA NextDInv == DInv /\ [Next]_vars => DInv'
<1> SUFFICES ASSUME DInv, [Next]_vars PROVE DInv'
  OBVIOUS
<1>1. TypeOK' /\ Located'
  BY StepTyped
<1>2. ReturnedMeansReached'
  BY ReturnsReached DEF ReturnedMeansReached
<1> QED
  BY <1>1, <1>2 DEF DInv

\* Every variable of the dispatcher keeps its type.
THEOREM DispatcherTypeCorrect == Spec => []TypeOK
<1>1. DInv => TypeOK
  BY DEF DInv
<1> QED
  BY <1>1, InitDInv, NextDInv, PTL DEF Spec

\* dispatch never returns without its alert in its channel or in the
\* dead-letter file.
THEOREM NoSilentLoss == Spec => []ReturnedMeansReached
<1>1. DInv => ReturnedMeansReached
  BY DEF DInv
<1> QED
  BY <1>1, InitDInv, NextDInv, PTL DEF Spec

-----------------------------------------------------------------------------
(* What the calls in progress may still write.                             *)

\* The log lines the call of w may still write.
Lines(w) ==
    CASE at[w] = "delivering" -> MaxAttempts - attempt[w] + 1
      [] at[w] \in {"signalling", "backoff"} -> MaxAttempts - attempt[w]
      [] OTHER -> 0

LinesLeft(a)  == {x \in Workers \X (1 .. MaxAttempts) : alert[x[1]] = a /\ x[2] <= Lines(x[1])}
Signalling(a) == {w \in Workers : at[w] = "signalling" /\ alert[w] = a}
Calling(a)    == {w \in Workers : InDispatch(w) /\ alert[w] = a}

\* Each attempt begun has its log line, and the dead letter follows the last attempt.
Attempted ==
    \A w \in Workers :
        /\ at[w] \in {"delivering", "signalling", "backoff"} => attempt[w] >= 1
        /\ at[w] = "delivering" => logged[alert[w]] >= attempt[w] - 1
        /\ at[w] \in {"signalling", "backoff"} => logged[alert[w]] >= attempt[w]
        /\ at[w] = "writing" => logged[alert[w]] >= MaxAttempts

\* Each channel has room for what the calls in progress may still write to it.
LinesHaveRoom ==
    \A a \in Alerts :
        /\ IsFiniteSet(LinesLeft(a))
        /\ logged[a] + Cardinality(LinesLeft(a)) <= MaxAttempts * calls[a]

SignalsHaveRoom ==
    \A a \in Alerts :
        /\ IsFiniteSet(Signalling(a))
        /\ signalled[a] + Cardinality(Signalling(a)) <= logged[a]

RecordsHaveRoom ==
    \A a \in Alerts :
        /\ IsFiniteSet(Calling(a))
        /\ recorded[a] + Cardinality(Calling(a)) <= calls[a]
        /\ recorded[a] > 0 => logged[a] >= MaxAttempts

Unreadable == {a \in Alerts : recorded[a] > 0 /\ a \notin readable}
Active     == {w \in Workers : InDispatch(w)}

\* A dead letter that cannot be read, and a torn line that will make one so, has a
\* call that recorded none.
CutsPay ==
    /\ IsFiniteSet(Unreadable) /\ IsFiniteSet(Active)
    /\ IsFiniteSet(Times(calls)) /\ IsFiniteSet(Times(recorded))
    /\ Cardinality(Unreadable) + (IF tail = "torn" THEN 1 ELSE 0) + Cardinality(Active)
          + Cardinality(Times(recorded)) <= Cardinality(Times(calls))

LEMMA CardinalityShrinks ==
  ASSUME NEW S, NEW T, IsFiniteSet(S), T \subseteq S
  PROVE  /\ IsFiniteSet(T) /\ Cardinality(T) \in Nat /\ Cardinality(S) \in Nat
         /\ Cardinality(T) <= Cardinality(S)
  BY FS_Subset, FS_CardinalityType

LEMMA CardinalityLess ==
  ASSUME NEW S, NEW T, NEW x \in S, IsFiniteSet(S), T \subseteq S \ {x}
  PROVE  /\ IsFiniteSet(T) /\ Cardinality(T) \in Nat /\ Cardinality(S) \in Nat
         /\ Cardinality(T) + 1 <= Cardinality(S)
<1>1. IsFiniteSet(S \ {x}) /\ Cardinality(S \ {x}) = Cardinality(S) - 1
  BY FS_RemoveElement
<1>2. IsFiniteSet(T) /\ Cardinality(T) <= Cardinality(S \ {x}) /\ Cardinality(T) \in Nat
  BY <1>1, CardinalityShrinks
<1>3. Cardinality(S) \in Nat
  BY FS_CardinalityType
<1> QED
  BY <1>1, <1>2, <1>3

LEMMA CardinalityMore ==
  ASSUME NEW S, NEW T, NEW x, IsFiniteSet(S), T \subseteq S \cup {x}
  PROVE  /\ IsFiniteSet(T) /\ Cardinality(T) \in Nat /\ Cardinality(S) \in Nat
         /\ Cardinality(T) <= Cardinality(S) + 1
<1>0. Cardinality(S) \in Nat
  BY FS_CardinalityType
<1>1. IsFiniteSet(S \cup {x}) /\ Cardinality(S \cup {x}) <= Cardinality(S) + 1
  BY <1>0, FS_AddElement
<1>2. IsFiniteSet(T) /\ Cardinality(T) <= Cardinality(S \cup {x}) /\ Cardinality(T) \in Nat
      /\ Cardinality(S \cup {x}) \in Nat
  BY <1>1, CardinalityShrinks
<1> QED
  BY <1>0, <1>1, <1>2

LEMMA AttemptTypes ==
  ASSUME DInv, NEW w \in Workers
  PROVE  attempt[w] \in Nat /\ attempt[w] <= MaxAttempts /\ MaxAttempts \in Nat
  BY MaxAttemptsAssumption DEF DInv, TypeOK

LEMMA InitAttempted == Init => Attempted
  BY DEF Init, Attempted

LEMMA NextAttempted ==
  ASSUME DInv, Attempted, [Next]_vars
  PROVE  Attempted'
<1> USE DEF Attempted
<1>0. MaxAttempts \in Nat /\ \A u \in Workers : attempt[u] \in Nat /\ attempt[u] <= MaxAttempts
  BY AttemptTypes, MaxAttemptsAssumption
<1>1. \A u \in Workers : at[u] # "idle" => alert[u] \in Alerts
  BY HoldsAlert
<1>2. CASE UNCHANGED vars
  BY <1>2 DEF vars, channels
<1>3. ASSUME NEW w \in Workers, NEW b \in Alerts, Dispatch(w, b) PROVE Attempted'
  BY <1>0, <1>1, <1>3 DEF Dispatch, channels, DInv, TypeOK
<1>4. ASSUME NEW w \in Workers, LogLine(w) PROVE Attempted'
  BY <1>0, <1>1, <1>4 DEF LogLine, DInv, TypeOK
<1>5. ASSUME NEW w \in Workers, Signal(w) PROVE Attempted'
  BY <1>0, <1>1, <1>5 DEF Signal, DInv, TypeOK
<1>6. ASSUME NEW w \in Workers, SignalRaises(w) PROVE Attempted'
  BY <1>0, <1>1, <1>6 DEF SignalRaises, DInv, TypeOK
<1>7. ASSUME NEW w \in Workers, Retry(w) PROVE Attempted'
  BY <1>0, <1>1, <1>7 DEF Retry, channels, DInv, TypeOK
<1>8. ASSUME NEW w \in Workers, WriteDeadLetter(w) PROVE Attempted'
  BY <1>0, <1>1, <1>8 DEF WriteDeadLetter, channels, DInv, TypeOK
<1>9. ASSUME NEW w \in Workers, Abandon(w) \/ Leave(w) PROVE Attempted'
  BY <1>0, <1>1, <1>9 DEF Abandon, Leave, Forget, channels, DInv, TypeOK
<1> QED
  BY <1>2, <1>3, <1>4, <1>5, <1>6, <1>7, <1>8, <1>9 DEF Next, Deliver, WriteRaises

LEMMA LinesType ==
  ASSUME DInv, Attempted, NEW w \in Workers
  PROVE  Lines(w) \in 0 .. MaxAttempts
  BY AttemptTypes, MaxAttemptsAssumption DEF Lines, Attempted

-----------------------------------------------------------------------------
(* Log lines.                                                              *)

\* A step of a call that writes no log line leaves it no more of them to write.
LEMMA LinesRecede ==
  ASSUME DInv, Attempted, NEW w \in Workers,
         Signal(w) \/ SignalRaises(w) \/ Retry(w) \/ WriteDeadLetter(w) \/ Abandon(w) \/ Leave(w)
  PROVE  /\ logged' = logged /\ calls' = calls
         /\ \A u \in Workers : /\ alert'[u] \in Alerts => alert'[u] = alert[u]
                               /\ Lines(u)' <= Lines(u)
<1>1. \A u \in Workers : u # w => at'[u] = at[u] /\ alert'[u] = alert[u] /\ attempt'[u] = attempt[u]
  BY DEF Signal, SignalRaises, Retry, WriteDeadLetter, Abandon, Leave, Forget, DInv, TypeOK
<1>2. logged' = logged /\ calls' = calls
  BY DEF Signal, SignalRaises, Retry, WriteDeadLetter, Abandon, Leave, channels
<1>3. alert'[w] \in Alerts => alert'[w] = alert[w]
  BY NoAlertAssumption DEF Signal, SignalRaises, Retry, WriteDeadLetter, Abandon, Leave, Forget, DInv, TypeOK
<1>4. Lines(w) \in 0 .. MaxAttempts /\ MaxAttempts \in Nat
  BY LinesType, MaxAttemptsAssumption
<1>5. Lines(w)' <= Lines(w)
  <2>1. CASE Signal(w) \/ WriteDeadLetter(w)
    BY <1>4, <2>1 DEF Signal, WriteDeadLetter, Lines, DInv, TypeOK
  <2>2. CASE SignalRaises(w)
    <3>1. at[w] = "signalling" /\ at'[w] \in {"writing", "backoff"} /\ attempt'[w] = attempt[w]
      BY <2>2 DEF SignalRaises, DInv, TypeOK
    <3> QED
      BY <1>4, <3>1, AttemptTypes DEF Lines
  <2>3. CASE Retry(w)
    <3>1. at[w] = "backoff" /\ at'[w] = "delivering" /\ attempt'[w] = attempt[w] + 1
      BY <2>3 DEF Retry, DInv, TypeOK
    <3> QED
      BY <1>4, <3>1, AttemptTypes DEF Lines
  <2>4. CASE Abandon(w) \/ Leave(w)
    <3>1. at'[w] = "idle"
      BY <2>4 DEF Abandon, Leave, Forget, DInv, TypeOK
    <3> QED
      BY <1>4, <3>1 DEF Lines
  <2> QED
    BY <2>1, <2>2, <2>3, <2>4
<1>6. ASSUME NEW u \in Workers, u # w PROVE Lines(u)' <= Lines(u)
  <2>1. Lines(u)' = Lines(u)
    BY <1>1, <1>6 DEF Lines
  <2>2. Lines(u) \in 0 .. MaxAttempts /\ MaxAttempts \in Nat
    BY LinesType, MaxAttemptsAssumption
  <2> QED
    BY <2>1, <2>2
<1> QED
  BY <1>1, <1>2, <1>3, <1>5, <1>6

LEMMA InitLinesHaveRoom == Init => LinesHaveRoom
<1> SUFFICES ASSUME Init, NEW a \in Alerts
             PROVE  IsFiniteSet(LinesLeft(a)) /\ logged[a] + Cardinality(LinesLeft(a)) <= MaxAttempts * calls[a]
  BY DEF LinesHaveRoom
<1>1. LinesLeft(a) = {}
  BY NoAlertAssumption DEF Init, LinesLeft
<1>2. MaxAttempts * calls[a] = 0 /\ logged[a] = 0
  BY MaxAttemptsAssumption DEF Init
<1> QED
  BY <1>1, <1>2, FS_EmptySet

LEMMA NextLinesHaveRoom ==
  ASSUME DInv, Attempted, LinesHaveRoom, [Next]_vars
  PROVE  LinesHaveRoom'
<1> SUFFICES ASSUME NEW a \in Alerts
             PROVE  /\ IsFiniteSet(LinesLeft(a)')
                    /\ logged'[a] + Cardinality(LinesLeft(a)') <= MaxAttempts * calls'[a]
  BY DEF LinesHaveRoom
<1>0. /\ IsFiniteSet(LinesLeft(a)) /\ logged[a] + Cardinality(LinesLeft(a)) <= MaxAttempts * calls[a]
      /\ logged[a] \in Nat /\ calls[a] \in Nat /\ MaxAttempts \in Nat
  BY MaxAttemptsAssumption, MaxCallsAssumption DEF LinesHaveRoom, DInv, TypeOK
<1> DEFINE Goal == /\ IsFiniteSet(LinesLeft(a)')
                   /\ logged'[a] + Cardinality(LinesLeft(a)') <= MaxAttempts * calls'[a]
<1>1. ASSUME LinesLeft(a)' \subseteq LinesLeft(a), logged'[a] = logged[a], calls'[a] = calls[a] PROVE Goal
  <2>1. /\ IsFiniteSet(LinesLeft(a)') /\ Cardinality(LinesLeft(a)') \in Nat /\ Cardinality(LinesLeft(a)) \in Nat
        /\ Cardinality(LinesLeft(a)') <= Cardinality(LinesLeft(a))
    BY <1>0, <1>1, CardinalityShrinks
  <2> HIDE DEF LinesLeft
  <2>2. MaxAttempts * calls'[a] \in Nat
    BY <1>0, <1>1
  <2> QED
    BY <1>0, <1>1, <2>1, <2>2
<1>2. CASE UNCHANGED vars
  <2>1. LinesLeft(a)' = LinesLeft(a)
    BY <1>2 DEF vars, LinesLeft, Lines
  <2> QED
    BY <1>1, <1>2, <2>1 DEF vars, channels
<1>3. ASSUME NEW w \in Workers, NEW b \in Alerts, Dispatch(w, b) PROVE Goal
  <2>1. /\ alert[w] = NoAlert /\ alert'[w] = b /\ logged' = logged /\ at'[w] = "delivering"
        /\ \A u \in Workers : u # w => alert'[u] = alert[u] /\ (Lines(u)' = Lines(u))
    BY <1>3 DEF Dispatch, channels, Lines, DInv, TypeOK, Located
  <2>2. CASE a # b
    <3>1. LinesLeft(a)' \subseteq LinesLeft(a)
      BY <2>1, <2>2 DEF LinesLeft
    <3>2. calls'[a] = calls[a] /\ logged'[a] = logged[a]
      BY <1>3, <2>1, <2>2 DEF Dispatch, DInv, TypeOK
    <3> QED
      BY <1>1, <3>1, <3>2
  <2>3. CASE a = b
    <3> DEFINE New == {w} \X (1 .. MaxAttempts)
    <3>1. LinesLeft(a)' \subseteq LinesLeft(a) \cup New
      BY <2>1 DEF LinesLeft
    <3>2. IsFiniteSet(New) /\ Cardinality(New) = MaxAttempts
      <4>1. IsFiniteSet({w}) /\ Cardinality({w}) = 1
        BY FS_Singleton
      <4>2. IsFiniteSet(1 .. MaxAttempts) /\ Cardinality(1 .. MaxAttempts) = MaxAttempts
        BY <1>0, FS_Interval
      <4>3. IsFiniteSet(New) /\ Cardinality(New) = 1 * MaxAttempts
        BY <4>1, <4>2, FS_Product, ZenonT(30)
      <4> QED
        BY <1>0, <4>3, SMTT(30)
    <3> HIDE DEF New
    <3>3. /\ IsFiniteSet(LinesLeft(a) \cup New)
          /\ Cardinality(LinesLeft(a) \cup New) <= Cardinality(LinesLeft(a)) + MaxAttempts
      <4>1. Cardinality(LinesLeft(a) \cap New) \in Nat /\ Cardinality(LinesLeft(a)) \in Nat
        BY <1>0, FS_Intersection, FS_CardinalityType
      <4>2. /\ IsFiniteSet(LinesLeft(a) \cup New)
            /\ Cardinality(LinesLeft(a) \cup New) =
                   Cardinality(LinesLeft(a)) + Cardinality(New) - Cardinality(LinesLeft(a) \cap New)
        BY <1>0, <3>2, FS_Union
      <4> QED
        BY <1>0, <3>2, <4>1, <4>2
    <3>4. /\ IsFiniteSet(LinesLeft(a)') /\ Cardinality(LinesLeft(a)') \in Nat
          /\ Cardinality(LinesLeft(a) \cup New) \in Nat
          /\ Cardinality(LinesLeft(a)') <= Cardinality(LinesLeft(a) \cup New)
      BY <3>1, <3>3, CardinalityShrinks
    <3>5. calls'[a] = calls[a] + 1 /\ logged'[a] = logged[a] /\ Cardinality(LinesLeft(a)) \in Nat
      BY <1>0, <1>3, <2>1, <2>3, FS_CardinalityType DEF Dispatch, DInv, TypeOK
    <3>6. MaxAttempts * (calls[a] + 1) = MaxAttempts * calls[a] + MaxAttempts /\ MaxAttempts * calls[a] \in Nat
      BY <1>0
    <3> HIDE DEF LinesLeft
    <3> QED
      BY <1>0, <3>3, <3>4, <3>5, <3>6
  <2> QED
    BY <2>2, <2>3
<1>4. ASSUME NEW w \in Workers, LogLine(w) PROVE Goal
  <2>1. /\ alert' = alert /\ alert[w] \in Alerts /\ at[w] = "delivering" /\ calls' = calls /\ attempt' = attempt
        /\ at'[w] \in {"signalling", "returned"}
        /\ \A u \in Workers : u # w => (Lines(u)' = Lines(u))
    BY <1>4, HoldsAlert DEF LogLine, Lines, DInv, TypeOK
  <2>2. /\ attempt[w] \in Nat /\ 1 <= attempt[w] /\ attempt[w] <= MaxAttempts
        /\ Lines(w) = MaxAttempts - attempt[w] + 1 /\ Lines(w) \in 1 .. MaxAttempts
    BY <1>0, <2>1, AttemptTypes DEF Attempted, Lines
  <2>3. Lines(w)' <= Lines(w) - 1
    BY <1>0, <2>1, <2>2 DEF Lines
  <2>4. Lines(w)' \in 0 .. MaxAttempts
    <3>1. DInv' /\ Attempted'
      BY NextDInv, NextAttempted
    <3> QED
      BY <3>1, <1>0, <2>1, <2>2 DEF Lines
  <2>5. CASE a # alert[w]
    <3>1. LinesLeft(a)' \subseteq LinesLeft(a)
      BY <2>1, <2>5 DEF LinesLeft
    <3>2. logged'[a] = logged[a]
      BY <1>4, <2>1, <2>5 DEF LogLine, DInv, TypeOK
    <3> QED
      BY <1>1, <2>1, <3>1, <3>2
  <2>6. CASE a = alert[w]
    <3> DEFINE line == <<w, Lines(w)>>
    <3>1. line \in LinesLeft(a)
      BY <2>2, <2>6 DEF LinesLeft
    <3>2. LinesLeft(a)' \subseteq LinesLeft(a) \ {line}
      <4>1. ASSUME NEW x \in LinesLeft(a)' PROVE x \in LinesLeft(a) /\ x # line
        <5>1. /\ x \in Workers \X (1 .. MaxAttempts) /\ alert[x[1]] = a /\ x[2] <= Lines(x[1])'
              /\ x[2] \in Nat /\ x[1] \in Workers
          BY <2>1, <4>1, <1>0 DEF LinesLeft
        <5>2. CASE x[1] = w
          <6>1. x[2] <= Lines(w) - 1
            BY <2>2, <2>3, <2>4, <5>1, <5>2, <1>0
          <6> QED
            BY <2>2, <5>1, <5>2, <6>1, <1>0 DEF LinesLeft
        <5>3. CASE x[1] # w
          BY <2>1, <5>1, <5>3 DEF LinesLeft
        <5> QED
          BY <5>2, <5>3
      <4> QED
        BY <4>1
    <3> HIDE DEF line
    <3>3. /\ IsFiniteSet(LinesLeft(a)') /\ Cardinality(LinesLeft(a)') \in Nat /\ Cardinality(LinesLeft(a)) \in Nat
          /\ Cardinality(LinesLeft(a)') + 1 <= Cardinality(LinesLeft(a))
      BY <1>0, <3>1, <3>2, CardinalityLess
    <3>4. logged'[a] = logged[a] + 1
      BY <1>4, <2>1, <2>6 DEF LogLine, DInv, TypeOK
    <3>5. MaxAttempts * calls[a] \in Nat
      BY <1>0
    <3> HIDE DEF LinesLeft
    <3> QED
      BY <1>0, <2>1, <3>3, <3>4, <3>5
  <2> QED
    BY <2>5, <2>6
<1>5. ASSUME NEW w \in Workers,
             Signal(w) \/ SignalRaises(w) \/ Retry(w) \/ WriteDeadLetter(w) \/ Abandon(w) \/ Leave(w)
      PROVE  Goal
  <2>1. /\ logged' = logged /\ calls' = calls
        /\ \A u \in Workers : /\ alert'[u] \in Alerts => alert'[u] = alert[u]
                              /\ Lines(u)' <= Lines(u)
    BY <1>5, LinesRecede
  <2>2. DInv' /\ Attempted'
    BY NextDInv, NextAttempted
  <2>3. \A u \in Workers : Lines(u) \in Nat
    BY <1>0, LinesType
  <2>4. \A u \in Workers : Lines(u)' \in Int
    BY <1>0, <2>2, MaxAttemptsAssumption DEF Lines, Attempted, DInv, TypeOK
  <2>5. LinesLeft(a)' \subseteq LinesLeft(a)
    <3>1. ASSUME NEW x \in LinesLeft(a)' PROVE x \in LinesLeft(a)
      <4>1. /\ x \in Workers \X (1 .. MaxAttempts) /\ alert'[x[1]] = a /\ x[2] <= Lines(x[1])'
            /\ x[2] \in Nat /\ x[1] \in Workers
        BY <3>1, <1>0 DEF LinesLeft
      <4>2. x[2] <= Lines(x[1])
        BY <2>1, <2>3, <2>4, <4>1
      <4> QED
        BY <2>1, <4>1, <4>2 DEF LinesLeft
    <3> QED
      BY <3>1
  <2> QED
    BY <1>1, <2>1, <2>5
<1> QED
  BY <1>2, <1>3, <1>4, <1>5 DEF Next, Deliver, WriteRaises

-----------------------------------------------------------------------------
(* Console signals.                                                        *)

LEMMA InitSignalsHaveRoom == Init => SignalsHaveRoom
<1> SUFFICES ASSUME Init, NEW a \in Alerts
             PROVE  IsFiniteSet(Signalling(a)) /\ signalled[a] + Cardinality(Signalling(a)) <= logged[a]
  BY DEF SignalsHaveRoom
<1>1. Signalling(a) = {}
  BY DEF Init, Signalling
<1> QED
  BY <1>1, FS_EmptySet DEF Init

LEMMA NextSignalsHaveRoom ==
  ASSUME DInv, SignalsHaveRoom, [Next]_vars
  PROVE  SignalsHaveRoom'
<1> SUFFICES ASSUME NEW a \in Alerts
             PROVE  /\ IsFiniteSet(Signalling(a)')
                    /\ signalled'[a] + Cardinality(Signalling(a)') <= logged'[a]
  BY DEF SignalsHaveRoom
<1> DEFINE Goal == /\ IsFiniteSet(Signalling(a)')
                   /\ signalled'[a] + Cardinality(Signalling(a)') <= logged'[a]
           n == Cardinality(Signalling(a))
           m == Cardinality(Signalling(a)')
<1>0. /\ IsFiniteSet(Signalling(a)) /\ signalled[a] + n <= logged[a] /\ n \in Nat
      /\ logged[a] \in Nat /\ signalled[a] \in Nat
  BY FS_CardinalityType DEF SignalsHaveRoom, DInv, TypeOK
<1>1. ASSUME Signalling(a)' \subseteq Signalling(a), signalled'[a] = signalled[a], logged'[a] = logged[a]
      PROVE  Goal
  <2>1. IsFiniteSet(Signalling(a)') /\ m \in Nat /\ m <= n
    BY <1>0, <1>1, CardinalityShrinks
  <2> HIDE DEF Signalling, n, m
  <2> QED
    BY <1>0, <1>1, <2>1 DEF m
<1>2. CASE UNCHANGED vars
  BY <1>1, <1>2 DEF vars, channels, Signalling
<1>3. ASSUME NEW w \in Workers, NEW b \in Alerts, Dispatch(w, b) PROVE Goal
  BY <1>1, <1>3 DEF Dispatch, channels, Signalling, DInv, TypeOK
<1>4. ASSUME NEW w \in Workers, LogLine(w) PROVE Goal
  <2>1. alert' = alert /\ alert[w] \in Alerts /\ signalled' = signalled
    BY <1>4, HoldsAlert DEF LogLine
  <2>2. CASE a # alert[w]
    BY <1>1, <1>4, <2>1, <2>2 DEF LogLine, Signalling, DInv, TypeOK
  <2>3. CASE a = alert[w]
    <3>1. Signalling(a)' \subseteq Signalling(a) \cup {w}
      BY <1>4, <2>1 DEF LogLine, Signalling, DInv, TypeOK
    <3>2. IsFiniteSet(Signalling(a)') /\ m \in Nat /\ m <= n + 1
      BY <1>0, <3>1, CardinalityMore
    <3>3. logged'[a] = logged[a] + 1
      BY <1>4, <2>3, <2>1 DEF LogLine, DInv, TypeOK
    <3> HIDE DEF Signalling, n, m
    <3> QED
      BY <1>0, <2>1, <3>2, <3>3 DEF m
  <2> QED
    BY <2>2, <2>3
<1>5. ASSUME NEW w \in Workers, Signal(w) \/ SignalRaises(w) PROVE Goal
  <2>1. /\ alert' = alert /\ alert[w] \in Alerts /\ logged' = logged /\ at[w] = "signalling"
        /\ at'[w] # "signalling" /\ \A u \in Workers : u # w => at'[u] = at[u]
    BY <1>5, HoldsAlert DEF Signal, SignalRaises, DInv, TypeOK
  <2>2. CASE a # alert[w]
    <3>1. signalled'[a] = signalled[a]
      BY <1>5, <2>1, <2>2 DEF Signal, SignalRaises, DInv, TypeOK
    <3>2. Signalling(a)' \subseteq Signalling(a)
      BY <2>1 DEF Signalling
    <3> QED
      BY <1>1, <2>1, <3>1, <3>2
  <2>3. CASE a = alert[w]
    <3>1. w \in Signalling(a) /\ Signalling(a)' \subseteq Signalling(a) \ {w}
      BY <2>1, <2>3 DEF Signalling
    <3>2. IsFiniteSet(Signalling(a)') /\ m \in Nat /\ m + 1 <= n
      BY <1>0, <3>1, CardinalityLess
    <3>3. signalled'[a] = signalled[a] \/ signalled'[a] = signalled[a] + 1
      BY <1>5, <2>1, <2>3 DEF Signal, SignalRaises, DInv, TypeOK
    <3> HIDE DEF Signalling, n, m
    <3> QED
      BY <1>0, <2>1, <3>2, <3>3 DEF m
  <2> QED
    BY <2>2, <2>3
<1>6. ASSUME NEW w \in Workers, Retry(w) PROVE Goal
  BY <1>1, <1>6 DEF Retry, channels, Signalling, DInv, TypeOK
<1>7. ASSUME NEW w \in Workers, WriteDeadLetter(w) PROVE Goal
  BY <1>1, <1>7 DEF WriteDeadLetter, channels, Signalling, DInv, TypeOK
<1>8. ASSUME NEW w \in Workers, Abandon(w) \/ Leave(w) PROVE Goal
  BY <1>1, <1>8 DEF Abandon, Leave, Forget, channels, Signalling, DInv, TypeOK
<1> QED
  BY <1>2, <1>3, <1>4, <1>5, <1>6, <1>7, <1>8 DEF Next, Deliver, WriteRaises

-----------------------------------------------------------------------------
(* Dead letters.                                                           *)

LEMMA InitRecordsHaveRoom == Init => RecordsHaveRoom
<1> SUFFICES ASSUME Init, NEW a \in Alerts
             PROVE  /\ IsFiniteSet(Calling(a)) /\ recorded[a] + Cardinality(Calling(a)) <= calls[a]
                    /\ recorded[a] > 0 => logged[a] >= MaxAttempts
  BY DEF RecordsHaveRoom
<1>1. Calling(a) = {}
  BY DEF Init, Calling, InDispatch
<1> QED
  BY <1>1, FS_EmptySet DEF Init

LEMMA NextRecordsHaveRoom ==
  ASSUME DInv, Attempted, RecordsHaveRoom, [Next]_vars
  PROVE  RecordsHaveRoom'
<1> SUFFICES ASSUME NEW a \in Alerts
             PROVE  /\ IsFiniteSet(Calling(a)')
                    /\ recorded'[a] + Cardinality(Calling(a)') <= calls'[a]
                    /\ recorded'[a] > 0 => logged'[a] >= MaxAttempts
  BY DEF RecordsHaveRoom
<1> DEFINE Goal == /\ IsFiniteSet(Calling(a)')
                   /\ recorded'[a] + Cardinality(Calling(a)') <= calls'[a]
                   /\ recorded'[a] > 0 => logged'[a] >= MaxAttempts
           n == Cardinality(Calling(a))
           m == Cardinality(Calling(a)')
<1>0. /\ IsFiniteSet(Calling(a)) /\ recorded[a] + n <= calls[a] /\ n \in Nat
      /\ recorded[a] > 0 => logged[a] >= MaxAttempts
      /\ logged[a] \in Nat /\ recorded[a] \in Nat /\ calls[a] \in Nat /\ MaxAttempts \in Nat
  BY FS_CardinalityType, MaxAttemptsAssumption, MaxCallsAssumption DEF RecordsHaveRoom, DInv, TypeOK
<1>1. ASSUME Calling(a)' \subseteq Calling(a), recorded'[a] = recorded[a], calls'[a] = calls[a],
             logged'[a] = logged[a] \/ logged'[a] = logged[a] + 1
      PROVE  Goal
  <2>1. IsFiniteSet(Calling(a)') /\ m \in Nat /\ m <= n
    BY <1>0, <1>1, CardinalityShrinks
  <2> HIDE DEF Calling, n, m
  <2> QED
    BY <1>0, <1>1, <2>1 DEF m
<1>2. CASE UNCHANGED vars
  BY <1>1, <1>2 DEF vars, channels, deadLetters, Calling, InDispatch
<1>3. ASSUME NEW w \in Workers, NEW b \in Alerts, Dispatch(w, b) PROVE Goal
  <2>1. /\ alert'[w] = b /\ alert[w] = NoAlert
        /\ \A u \in Workers : u # w => at'[u] = at[u] /\ alert'[u] = alert[u]
        /\ logged' = logged /\ recorded' = recorded
    BY <1>3 DEF Dispatch, channels, deadLetters, DInv, TypeOK, Located
  <2>2. CASE a # b
    <3>1. Calling(a)' \subseteq Calling(a)
      BY <2>1, <2>2 DEF Calling, InDispatch
    <3> QED
      BY <1>1, <1>3, <2>1, <2>2, <3>1 DEF Dispatch, DInv, TypeOK
  <2>3. CASE a = b
    <3>1. Calling(a)' \subseteq Calling(a) \cup {w}
      BY <2>1 DEF Calling, InDispatch
    <3>2. IsFiniteSet(Calling(a)') /\ m \in Nat /\ m <= n + 1
      BY <1>0, <3>1, CardinalityMore
    <3>3. calls'[a] = calls[a] + 1
      BY <1>3, <2>3 DEF Dispatch, DInv, TypeOK
    <3> HIDE DEF Calling, n, m
    <3> QED
      BY <1>0, <2>1, <3>2, <3>3 DEF m
  <2> QED
    BY <2>2, <2>3
<1>4. ASSUME NEW w \in Workers, LogLine(w) PROVE Goal
  <2>1. alert[w] \in Alerts
    BY <1>4, HoldsAlert DEF LogLine
  <2>2. Calling(a)' \subseteq Calling(a)
    BY <1>4 DEF LogLine, Calling, InDispatch, DInv, TypeOK
  <2>3. logged'[a] = logged[a] \/ logged'[a] = logged[a] + 1
    BY <1>4, <2>1 DEF LogLine, DInv, TypeOK
  <2> QED
    BY <1>1, <1>4, <2>2, <2>3 DEF LogLine, deadLetters
<1>5. ASSUME NEW w \in Workers, Signal(w) \/ SignalRaises(w) PROVE Goal
  <2>1. Calling(a)' \subseteq Calling(a)
    BY <1>5 DEF Signal, SignalRaises, Calling, InDispatch, DInv, TypeOK
  <2> QED
    BY <1>1, <1>5, <2>1 DEF Signal, SignalRaises, deadLetters
<1>6. ASSUME NEW w \in Workers, Retry(w) PROVE Goal
  <2>1. Calling(a)' \subseteq Calling(a)
    BY <1>6 DEF Retry, Calling, InDispatch, DInv, TypeOK
  <2> QED
    BY <1>1, <1>6, <2>1 DEF Retry, deadLetters, channels
<1>7. ASSUME NEW w \in Workers, WriteDeadLetter(w) PROVE Goal
  <2>1. /\ alert' = alert /\ alert[w] \in Alerts /\ at[w] = "writing" /\ at'[w] = "returned"
        /\ logged' = logged /\ calls' = calls /\ \A u \in Workers : u # w => at'[u] = at[u]
    BY <1>7, HoldsAlert DEF WriteDeadLetter, channels, DInv, TypeOK
  <2>2. CASE a # alert[w]
    <3>1. Calling(a)' \subseteq Calling(a)
      BY <2>1 DEF Calling, InDispatch
    <3>2. recorded'[a] = recorded[a]
      BY <1>7, <2>1, <2>2 DEF WriteDeadLetter, DInv, TypeOK
    <3> QED
      BY <1>1, <2>1, <3>1, <3>2
  <2>3. CASE a = alert[w]
    <3>1. w \in Calling(a) /\ Calling(a)' \subseteq Calling(a) \ {w}
      BY <2>1, <2>3 DEF Calling, InDispatch
    <3>2. IsFiniteSet(Calling(a)') /\ m \in Nat /\ m + 1 <= n
      BY <1>0, <3>1, CardinalityLess
    <3>3. recorded'[a] = recorded[a] + 1
      BY <1>7, <2>1, <2>3 DEF WriteDeadLetter, DInv, TypeOK
    <3>4. logged[a] >= MaxAttempts
      BY <2>1, <2>3 DEF Attempted
    <3> HIDE DEF Calling, n, m
    <3> QED
      BY <1>0, <2>1, <3>2, <3>3, <3>4 DEF m
  <2> QED
    BY <2>2, <2>3
<1>8. ASSUME NEW w \in Workers, Abandon(w) \/ Leave(w) PROVE Goal
  <2>1. Calling(a)' \subseteq Calling(a)
    BY <1>8 DEF Abandon, Leave, Forget, Calling, InDispatch, DInv, TypeOK
  <2> QED
    BY <1>1, <1>8, <2>1 DEF Abandon, Leave, deadLetters, channels
<1> QED
  BY <1>2, <1>3, <1>4, <1>5, <1>6, <1>7, <1>8 DEF Next, Deliver, WriteRaises

Roomy == DInv /\ Attempted /\ LinesHaveRoom /\ SignalsHaveRoom /\ RecordsHaveRoom

LEMMA RoomyInvariant ==
  /\ Init => Roomy
  /\ Roomy /\ [Next]_vars => Roomy'
<1>1. Init => Roomy
  BY InitDInv, InitAttempted, InitLinesHaveRoom, InitSignalsHaveRoom, InitRecordsHaveRoom DEF Roomy
<1>2. ASSUME Roomy, [Next]_vars PROVE Roomy'
  <2>1. DInv /\ Attempted /\ LinesHaveRoom /\ SignalsHaveRoom /\ RecordsHaveRoom
    BY <1>2 DEF Roomy
  <2>2. DInv'
    BY <1>2, <2>1, NextDInv
  <2>3. Attempted' /\ LinesHaveRoom'
    BY <1>2, <2>1, NextAttempted, NextLinesHaveRoom
  <2>4. SignalsHaveRoom' /\ RecordsHaveRoom'
    BY <1>2, <2>1, NextSignalsHaveRoom, NextRecordsHaveRoom
  <2> QED
    BY <2>2, <2>3, <2>4 DEF Roomy
<1> QED
  BY <1>1, <1>2

\* However many processes dispatch one alert and however their attempts fail, neither
\* channel nor file receives more than the attempts the calls are allowed.
THEOREM RetriesStayBounded == Spec => []RetriesBounded
<1>1. Roomy => RetriesBounded
  <2> SUFFICES ASSUME Roomy, NEW a \in Alerts
               PROVE  /\ logged[a] <= MaxAttempts * calls[a]
                      /\ signalled[a] <= logged[a] /\ recorded[a] <= calls[a]
                      /\ recorded[a] > 0 => logged[a] >= MaxAttempts
    BY DEF RetriesBounded
  <2>1. /\ logged[a] \in Nat /\ signalled[a] \in Nat /\ recorded[a] \in Nat
        /\ calls[a] \in Nat /\ MaxAttempts \in Nat
    BY MaxAttemptsAssumption, MaxCallsAssumption DEF Roomy, DInv, TypeOK
  <2>2. /\ Cardinality(LinesLeft(a)) \in Nat /\ Cardinality(Signalling(a)) \in Nat
        /\ Cardinality(Calling(a)) \in Nat
    BY FS_CardinalityType DEF Roomy, LinesHaveRoom, SignalsHaveRoom, RecordsHaveRoom
  <2>3. MaxAttempts * calls[a] \in Nat
    BY <2>1
  <2> QED
    BY <2>1, <2>2, <2>3 DEF Roomy, LinesHaveRoom, SignalsHaveRoom, RecordsHaveRoom
<1> QED
  BY <1>1, RoomyInvariant, PTL DEF Spec

-----------------------------------------------------------------------------
(* Unreadable dead letters.                                                *)

\* One more of b is one more time.
LEMMA TimesMore ==
  ASSUME NEW r \in [Alerts -> Nat], NEW b \in Alerts, r[b] < MaxCalls, IsFiniteSet(Times(r))
  PROVE  /\ IsFiniteSet(Times([r EXCEPT ![b] = @ + 1]))
         /\ Cardinality(Times([r EXCEPT ![b] = @ + 1])) = Cardinality(Times(r)) + 1
<1> DEFINE more == [r EXCEPT ![b] = @ + 1]
           new  == <<b, r[b] + 1>>
<1>1. Times(more) = Times(r) \cup {new}
  <2>1. ASSUME NEW t \in Alerts \X (1 .. MaxCalls) PROVE t[2] <= more[t[1]] <=> t[2] <= r[t[1]] \/ t = new
    <3>1. CASE t[1] = b
      BY <3>1, MaxCallsAssumption
    <3>2. CASE t[1] # b
      BY <3>2, MaxCallsAssumption
    <3> QED
      BY <3>1, <3>2
  <2>2. new \in Alerts \X (1 .. MaxCalls)
    BY MaxCallsAssumption
  <2> HIDE DEF more, new
  <2> QED
    BY <2>1, <2>2 DEF Times
<1>2. new \notin Times(r)
  BY DEF Times
<1> HIDE DEF more, new
<1>3. IsFiniteSet(Times(more)) /\ Cardinality(Times(more)) = Cardinality(Times(r)) + 1
  BY <1>1, <1>2, FS_AddElement
<1> QED
  BY <1>3 DEF more

Torn == IF tail = "torn" THEN 1 ELSE 0

LEMMA InitCutsPay == Init => CutsPay
<1> SUFFICES ASSUME Init PROVE CutsPay
  OBVIOUS
<1>1. Unreadable = {} /\ Active = {} /\ Times(calls) = {} /\ Times(recorded) = {}
  BY MaxCallsAssumption DEF Init, Unreadable, Active, InDispatch, Times
<1>2. tail # "torn"
  BY DEF Init
<1> QED
  BY <1>1, <1>2, FS_EmptySet DEF CutsPay

LEMMA NextCutsPay ==
  ASSUME DInv, RecordsHaveRoom, CutsPay, [Next]_vars
  PROVE  CutsPay'
<1> DEFINE u  == Cardinality(Unreadable)     u1 == Cardinality(Unreadable')
           n  == Cardinality(Active)         n1 == Cardinality(Active')
           c  == Cardinality(Times(calls))   c1 == Cardinality(Times(calls'))
           r  == Cardinality(Times(recorded)) r1 == Cardinality(Times(recorded'))
<1>0. /\ IsFiniteSet(Unreadable) /\ IsFiniteSet(Active)
      /\ IsFiniteSet(Times(calls)) /\ IsFiniteSet(Times(recorded))
      /\ u + Torn + n + r <= c /\ u \in Nat /\ n \in Nat /\ c \in Nat /\ r \in Nat /\ Torn \in {0, 1}
  BY FS_CardinalityType DEF CutsPay, Torn
<1> DEFINE Finite == /\ IsFiniteSet(Unreadable') /\ IsFiniteSet(Active')
                     /\ IsFiniteSet(Times(calls')) /\ IsFiniteSet(Times(recorded'))
<1>1. ASSUME Finite, u1 + Torn' + n1 + r1 <= c1 PROVE CutsPay'
  BY <1>1 DEF CutsPay, Torn
<1>2. ASSUME Active' \subseteq Active, Unreadable' = Unreadable, tail' = tail,
             calls' = calls, recorded' = recorded
      PROVE  CutsPay'
  <2>1. IsFiniteSet(Active') /\ n1 \in Nat /\ n1 <= n
    BY <1>0, <1>2, CardinalityShrinks
  <2>2. Torn' = Torn /\ u1 = u /\ c1 = c /\ r1 = r
    BY <1>2 DEF Torn
  <2>3. Finite
    BY <1>0, <1>2, <2>1
  <2> HIDE DEF u, n, c, r, u1, n1, c1, r1, Finite
  <2> QED
    BY <1>0, <1>1, <2>1, <2>2, <2>3
<1>3. CASE UNCHANGED vars
  BY <1>2, <1>3 DEF vars, deadLetters, Active, InDispatch, Unreadable
<1>4. ASSUME NEW w \in Workers, NEW b \in Alerts, Dispatch(w, b) PROVE CutsPay'
  <2>1. /\ calls' = [calls EXCEPT ![b] = @ + 1] /\ calls[b] < MaxCalls
        /\ Unreadable' = Unreadable /\ recorded' = recorded /\ Torn' = Torn
    BY <1>4 DEF Dispatch, deadLetters, Unreadable, Torn
  <2>2. calls \in [Alerts -> Nat]
    BY MaxCallsAssumption DEF DInv, TypeOK
  <2>3. IsFiniteSet(Times(calls')) /\ c1 = c + 1
    BY <1>0, <2>1, <2>2, TimesMore
  <2>4. Active' \subseteq Active \cup {w}
    BY <1>4 DEF Dispatch, Active, InDispatch, DInv, TypeOK
  <2>5. IsFiniteSet(Active') /\ n1 \in Nat /\ n1 <= n + 1
    BY <1>0, <2>4, CardinalityMore
  <2>6. Finite /\ u1 = u /\ r1 = r
    BY <1>0, <2>1, <2>3, <2>5
  <2> HIDE DEF u, n, c, r, u1, n1, c1, r1, Finite
  <2> QED
    BY <1>0, <1>1, <2>1, <2>3, <2>5, <2>6
<1>5. ASSUME NEW w \in Workers, LogLine(w) \/ Signal(w) \/ SignalRaises(w) \/ Retry(w) \/ Leave(w)
      PROVE  CutsPay'
  <2>1. Active' \subseteq Active
    BY <1>5 DEF LogLine, Signal, SignalRaises, Retry, Leave, Forget, Active, InDispatch, DInv, TypeOK
  <2>2. tail' = tail /\ calls' = calls /\ recorded' = recorded /\ readable' = readable
    BY <1>5 DEF LogLine, Signal, SignalRaises, Retry, Leave, deadLetters
  <2> QED
    BY <1>2, <2>1, <2>2 DEF Unreadable
<1>6. ASSUME NEW w \in Workers, WriteDeadLetter(w) PROVE CutsPay'
  <2> DEFINE b == alert[w]
  <2>1. /\ b \in Alerts /\ at[w] = "writing" /\ at'[w] = "returned" /\ calls' = calls /\ tail' = "whole"
        /\ \A v \in Workers : v # w => at'[v] = at[v]
        /\ recorded' = [recorded EXCEPT ![b] = @ + 1]
        /\ readable' = IF tail = "torn" THEN readable ELSE readable \cup {b}
    BY <1>6, HoldsAlert DEF WriteDeadLetter, DInv, TypeOK
  <2>2. w \in Active /\ Active' \subseteq Active \ {w}
    BY <2>1 DEF Active, InDispatch
  <2>3. IsFiniteSet(Active') /\ n1 \in Nat /\ n1 + 1 <= n
    BY <1>0, <2>2, CardinalityLess
  <2>4. recorded[b] < MaxCalls
    <3>1. w \in Calling(b) /\ IsFiniteSet(Calling(b)) /\ recorded[b] + Cardinality(Calling(b)) <= calls[b]
      BY <2>1 DEF Calling, InDispatch, RecordsHaveRoom
    <3>2. Cardinality(Calling(b)) \in Nat /\ Cardinality(Calling(b)) # 0
      BY <3>1, FS_CardinalityType, FS_EmptySet
    <3>3. recorded[b] \in Nat /\ calls[b] \in 0 .. MaxCalls
      BY <2>1 DEF DInv, TypeOK
    <3> HIDE DEF b
    <3> QED
      BY <3>1, <3>2, <3>3, MaxCallsAssumption
  <2>5. IsFiniteSet(Times(recorded')) /\ r1 = r + 1
    BY <1>0, <2>1, <2>4, TimesMore DEF DInv, TypeOK
  <2>6. Torn' = 0
    BY <2>1 DEF Torn
  <2>7. IsFiniteSet(Unreadable') /\ u1 \in Nat /\ u1 <= u + Torn
    <3>1. CASE tail = "torn"
      <4>1. Unreadable' \subseteq Unreadable \cup {b}
        BY <2>1, <3>1 DEF Unreadable, DInv, TypeOK
      <4>2. IsFiniteSet(Unreadable') /\ u1 \in Nat /\ u1 <= u + 1
        BY <1>0, <4>1, CardinalityMore
      <4> QED
        BY <3>1, <4>2 DEF Torn
    <3>2. CASE tail # "torn"
      <4>1. Unreadable' \subseteq Unreadable
        BY <2>1, <3>2 DEF Unreadable, DInv, TypeOK
      <4>2. IsFiniteSet(Unreadable') /\ u1 \in Nat /\ u1 <= u
        BY <1>0, <4>1, CardinalityShrinks
      <4> HIDE DEF u, u1
      <4> QED
        BY <1>0, <3>2, <4>2 DEF Torn
    <3> QED
      BY <3>1, <3>2
  <2>8. Finite /\ c1 = c
    BY <1>0, <2>1, <2>3, <2>5, <2>7
  <2> HIDE DEF u, n, c, r, u1, n1, c1, r1, Finite
  <2> QED
    BY <1>0, <1>1, <2>3, <2>5, <2>6, <2>7, <2>8
<1>7. ASSUME NEW w \in Workers, Abandon(w) PROVE CutsPay'
  <2>1. /\ calls' = calls /\ recorded' = recorded /\ Unreadable' = Unreadable /\ at'[w] = "idle"
        /\ \A v \in Workers : v # w => at'[v] = at[v]
    BY <1>7 DEF Abandon, Forget, Unreadable, DInv, TypeOK
  <2>2. Active' \subseteq Active
    BY <2>1 DEF Active, InDispatch
  <2>3. CASE at[w] # "writing"
    BY <1>2, <1>7, <2>1, <2>2, <2>3 DEF Abandon
  <2>4. CASE at[w] = "writing"
    <3>1. w \in Active /\ Active' \subseteq Active \ {w}
      BY <2>1, <2>4 DEF Active, InDispatch
    <3>2. IsFiniteSet(Active') /\ n1 \in Nat /\ n1 + 1 <= n
      BY <1>0, <3>1, CardinalityLess
    <3>3. Torn' \in Nat /\ Torn' <= 1 /\ Torn \in Nat
      BY DEF Torn
    <3>4. Finite /\ u1 = u /\ c1 = c /\ r1 = r
      BY <1>0, <2>1, <3>2
    <3> HIDE DEF u, n, c, r, u1, n1, c1, r1, Finite
    <3>5. u + 1 + n1 + r <= c
      BY <1>0, <3>2
    <3> DEFINE t1 == Torn'
    <3>6. t1 \in Nat /\ t1 <= 1
      BY <3>3
    <3> HIDE DEF t1
    <3>7. u + t1 + n1 + r <= c
      BY <1>0, <3>2, <3>5, <3>6
    <3>8. u1 + t1 + n1 + r1 <= c1
      BY <3>4, <3>7
    <3> QED
      BY <1>1, <3>4, <3>8 DEF t1
  <2> QED
    BY <2>3, <2>4
<1> QED
  BY <1>3, <1>4, <1>5, <1>6, <1>7 DEF Next, Deliver, WriteRaises

\* Of the alerts recorded, no more are unreadable than calls were cut off or are still
\* at work: a record torn by one call spoils at most the record that follows.
THEOREM CutsExplainUnreadable == Spec => []UnreadableNeedCuts
<1>1. Init => Roomy /\ CutsPay
  BY RoomyInvariant, InitCutsPay
<1>2. (Roomy /\ CutsPay) /\ [Next]_vars => (Roomy /\ CutsPay)'
  BY RoomyInvariant, NextCutsPay DEF Roomy
<1>3. Roomy /\ CutsPay => UnreadableNeedCuts
  <2> SUFFICES ASSUME CutsPay PROVE UnreadableNeedCuts
    OBVIOUS
  <2>1. /\ Cardinality(Unreadable) \in Nat /\ Cardinality(Active) \in Nat
        /\ Cardinality(Times(calls)) \in Nat /\ Cardinality(Times(recorded)) \in Nat
    BY FS_CardinalityType DEF CutsPay
  <2>2. Cardinality(Unreadable) <= Cardinality(Times(calls)) - Cardinality(Times(recorded))
    BY <2>1 DEF CutsPay
  <2> QED
    BY <2>2 DEF UnreadableNeedCuts, Unreadable
<1> QED
  BY <1>1, <1>2, <1>3, PTL DEF Spec
=============================================================================
