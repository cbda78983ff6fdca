--------------------------- MODULE EventStoreProofs --------------------------
(***************************************************************************)
(* Proofs about EventStore and Profiles for every set of tasks and events  *)
(* and every number of attempts, calls and faults.                         *)
(***************************************************************************)
EXTENDS Profiles, FiniteSetTheorems, WellFoundedInduction, TLAPS

LEMMA BumpedType ==
  ASSUME NEW count \in [Events -> Nat], NEW B
  PROVE  Bumped(count, B) \in [Events -> Nat]
  BY DEF Bumped

\* A failed attempt changes the control of one task; only a full count ends the call.
LEMMA FailType ==
  ASSUME TypeOK, NEW w \in Writers, Fail(w)
  PROVE  /\ at' \in [Writers -> {"idle", "sending", "sleeping"}]
         /\ batch' \in [Writers -> SUBSET Events]
         /\ attempt' \in [Writers -> 0 .. MaxAttempts - 1]
         /\ UNCHANGED returned
<1>1. CASE attempt[w] + 1 >= MaxAttempts
  BY <1>1, MaxAttemptsAssumption DEF Fail, Finish, TypeOK
<1>2. CASE ~(attempt[w] + 1 >= MaxAttempts)
  <2>1. attempt[w] + 1 \in 0 .. MaxAttempts - 1
    BY <1>2, MaxAttemptsAssumption DEF TypeOK
  <2> QED
    BY <1>2, <2>1 DEF Fail, TypeOK
<1> QED
  BY <1>1, <1>2

LEMMA InitType == Init => TypeOK
  BY MaxAttemptsAssumption, BoundsAssumption DEF Init, TypeOK

LEMMA NextType == TypeOK /\ [Next]_vars => TypeOK'
<1> SUFFICES ASSUME TypeOK, [Next]_vars PROVE TypeOK'
  OBVIOUS
<1> USE BumpedType, BoundsAssumption
<1>1. CASE UNCHANGED vars
  BY <1>1 DEF TypeOK, vars
<1>2. ASSUME NEW w \in Writers, NEW B \in SUBSET Events, Call(w, B) PROVE TypeOK'
  BY <1>2, MaxAttemptsAssumption DEF TypeOK, Call
<1>3. ASSUME NEW w \in Writers, Insert(w) PROVE TypeOK'
  BY <1>3, MaxAttemptsAssumption DEF TypeOK, Insert, Finish
<1>4. ASSUME NEW w \in Writers, ClosedRaises(w) PROVE TypeOK'
  BY <1>4, MaxAttemptsAssumption DEF TypeOK, ClosedRaises, Finish
<1>5. ASSUME NEW w \in Writers, Retry(w) PROVE TypeOK'
  BY <1>5 DEF TypeOK, Retry
<1>6. ASSUME NEW w \in Writers, ServerError(w) PROVE TypeOK'
  BY <1>6, FailType DEF TypeOK, ServerError, Fault
<1>7. ASSUME NEW w \in Writers, ConnectionBreaks(w) PROVE TypeOK'
  BY <1>7, FailType DEF TypeOK, ConnectionBreaks, Fault
<1>8. ASSUME NEW w \in Writers, Cancelled(w) PROVE TypeOK'
  BY <1>8, MaxAttemptsAssumption DEF TypeOK, Cancelled, Fault, Finish
<1> QED
  BY <1>1, <1>2, <1>3, <1>4, <1>5, <1>6, <1>7, <1>8 DEF Next, Progress

\* Every variable of the writers keeps its type: attempts stay below MaxAttempts
\* however the server answers.
THEOREM StoreTypeCorrect == Spec => []TypeOK
  BY InitType, NextType, PTL DEF Spec

-----------------------------------------------------------------------------
(* A row is accounted for by a call that returned or by an insert nobody   *)
(* was told of.                                                            *)

LEMMA InitStored == Init => StoredAsTold
  BY DEF Init, StoredAsTold

LEMMA NextStored == TypeOK /\ StoredAsTold /\ [Next]_vars => StoredAsTold'
<1> SUFFICES ASSUME TypeOK, StoredAsTold, [Next]_vars PROVE StoredAsTold'
  OBVIOUS
<1>1. CASE UNCHANGED <<rows, returned, doubtful>>
  BY <1>1 DEF StoredAsTold
<1>2. ASSUME NEW B, rows' = Bumped(rows, B), returned' = Bumped(returned, B),
             UNCHANGED doubtful
      PROVE  StoredAsTold'
  BY <1>2 DEF StoredAsTold, Bumped, TypeOK
<1>3. ASSUME NEW B, rows' = Bumped(rows, B), doubtful' = Bumped(doubtful, B),
             UNCHANGED returned
      PROVE  StoredAsTold'
  BY <1>3 DEF StoredAsTold, Bumped, TypeOK
<1>4. CASE UNCHANGED vars
  BY <1>1, <1>4 DEF vars
<1>5. ASSUME NEW w \in Writers, NEW B \in SUBSET Events, Call(w, B) PROVE StoredAsTold'
  BY <1>1, <1>5 DEF Call
<1>6. ASSUME NEW w \in Writers, Progress(w) PROVE StoredAsTold'
  BY <1>1, <1>2, <1>6 DEF Progress, Insert, ClosedRaises, Retry
<1>7. ASSUME NEW w \in Writers, ServerError(w) \/ ConnectionBreaks(w) PROVE StoredAsTold'
  <2>1. UNCHANGED returned
    BY <1>7, FailType DEF ServerError, ConnectionBreaks
  <2> QED
    BY <1>1, <1>3, <1>7, <2>1 DEF ServerError, ConnectionBreaks
<1>8. ASSUME NEW w \in Writers, Cancelled(w) PROVE StoredAsTold'
  BY <1>1, <1>3, <1>8 DEF Cancelled
<1> QED
  BY <1>4, <1>5, <1>6, <1>7, <1>8 DEF Next

\* write_batch stores what it reports: the rows of an event are the calls that
\* returned with it and the inserts whose outcome was lost, no more and no fewer.
THEOREM RowsAccountedFor == Spec => []StoredAsTold
<1>1. TypeOK /\ StoredAsTold /\ [Next]_vars => (TypeOK /\ StoredAsTold)'
  BY NextType, NextStored
<1> QED
  BY <1>1, InitType, InitStored, PTL DEF Spec

-----------------------------------------------------------------------------
(* Building profiles only reads.                                           *)

\* Whatever profiles are built meanwhile, the writers do as they do alone.
THEOREM BuildsOnlyRead == ProfilesSpec => Spec
<1>1. ProfilesInit => Init
  BY DEF ProfilesInit
<1>2. [ProfilesNext]_profileVars => [Next]_vars
  BY DEF ProfilesNext, BuildProfile, profileVars
<1> QED
  BY <1>1, <1>2, PTL DEF ProfilesSpec, Spec

-----------------------------------------------------------------------------
(* Least elements, greatest values and numbers of copies.                  *)

\* A nonempty set of natural numbers has a least element.
LEMMA Least ==
  ASSUME NEW T, T \subseteq Nat, T # {}
  PROVE  \E n \in T : \A m \in T : n <= m
<1> DEFINE R == {ss \in Nat \X Nat : ss[1] < ss[2]}
<1>1. IsWellFoundedOn(R, Nat)
  <2>1. IsWellFoundedOn(OpToRel(<, Nat), Nat)
    BY NatLessThanWellFounded, Zenon
  <2> QED
    BY <2>1, Zenon DEF OpToRel
<1> HIDE DEF R
<1>2. PICK n \in T : \A m \in T : ~ (<<m, n>> \in R)
  BY <1>1, WFMin, Zenon
<1>3. \A m \in T : ~(m < n)
  BY <1>2 DEF R
<1> QED
  BY <1>3

\* A function has a greatest value on a finite set: take a point that the fewest
\* exceed; one that exceeds it would be exceeded by fewer.
LEMMA Highest ==
  ASSUME NEW S, IsFiniteSet(S), S # {}, NEW f \in [S -> Int]
  PROVE  \E x \in S : \A y \in S : f[x] >= f[y]
<1> DEFINE Over(x) == {y \in S : f[y] > f[x]}
<1> DEFINE T == {Cardinality(Over(x)) : x \in S}
<1>1. \A x \in S : IsFiniteSet(Over(x)) /\ Cardinality(Over(x)) \in Nat
  BY FS_Subset, FS_CardinalityType
<1>2. \E n \in T : \A m \in T : n <= m
  <2>1. T \subseteq Nat /\ T # {}
    BY <1>1
  <2> HIDE DEF T
  <2> QED
    BY <2>1, Least
<1>3. PICK x \in S : \A y \in S : Cardinality(Over(x)) <= Cardinality(Over(y))
  <2> HIDE DEF Over
  <2>1. PICK n \in T : \A m \in T : n <= m
    BY <1>2
  <2>2. PICK x \in S : n = Cardinality(Over(x))
    OBVIOUS
  <2>3. \A y \in S : Cardinality(Over(y)) \in T
    OBVIOUS
  <2> QED
    BY <2>1, <2>2, <2>3
<1>4. ASSUME NEW y \in S, f[y] > f[x] PROVE FALSE
  <2>1. y \in Over(x) /\ y \notin Over(y)
    BY <1>4
  <2>2. Over(y) \subseteq Over(x)
    <3> SUFFICES ASSUME NEW z \in S, f[z] > f[y] PROVE f[z] > f[x]
      OBVIOUS
    <3>1. f[x] \in Int /\ f[y] \in Int /\ f[z] \in Int
      OBVIOUS
    <3> QED
      BY <3>1, <1>4
  <2> HIDE DEF Over
  <2>3. Cardinality(Over(y)) <= Cardinality(Over(x)) /\ Cardinality(Over(y)) # Cardinality(Over(x))
    BY <2>1, <2>2, <1>1, FS_Subset
  <2>4. Cardinality(Over(x)) <= Cardinality(Over(y))
    BY <1>3
  <2> QED
    BY <2>3, <2>4, <1>1
<1>5. \A y \in S : f[x] \in Int /\ f[y] \in Int
  OBVIOUS
<1> QED
  BY <1>4, <1>5

\* So a finite set of integers has a greatest element.
LEMMA MaxIs ==
  ASSUME NEW S, S \subseteq Int, IsFiniteSet(S), S # {}
  PROVE  Max(S) \in S /\ \A y \in S : Max(S) >= y
<1>1. \E x \in S : \A y \in S : x >= y
  <2> DEFINE f == [x \in S |-> x]
  <2>1. f \in [S -> Int]
    OBVIOUS
  <2>2. \A x \in S : f[x] = x
    OBVIOUS
  <2> HIDE DEF f
  <2>3. \E x \in S : \A y \in S : f[x] >= f[y]
    BY <2>1, Highest
  <2> QED
    BY <2>2, <2>3
<1> QED
  BY <1>1 DEF Max

\* Finitely many events have finitely many copies.
LEMMA CopiesFinite ==
  ASSUME NEW count \in [Events -> Nat], NEW E, E \subseteq Events
  PROVE  IsFiniteSet(Copies(count, E)) /\ Cardinality(Copies(count, E)) \in Nat
<1>1. CASE Events = {}
  <2>1. Copies(count, E) = {}
    BY <1>1 DEF Copies
  <2> QED
    BY <2>1, FS_EmptySet
<1>2. CASE Events # {}
  <2>1. PICK top \in Events : \A e \in Events : count[top] >= count[e]
    <3>1. count \in [Events -> Int]
      OBVIOUS
    <3> QED
      BY <3>1, <1>2, EventsAssumption, Highest
  <2> DEFINE n == count[top]
  <2>2. IsFiniteSet(Events \X (1 .. n))
    <3>1. 1 \in Int /\ n \in Int
      OBVIOUS
    <3>2. IsFiniteSet(1 .. n)
      BY <3>1, FS_Interval
    <3> QED
      BY <3>2, EventsAssumption, FS_Product
  <2>3. Copies(count, E) \subseteq Events \X (1 .. n)
    BY <2>1 DEF Copies
  <2> QED
    BY <2>2, <2>3, FS_Subset, FS_CardinalityType
<1> QED
  BY <1>1, <1>2

\* A copy is one of an event, and belongs to any set of events with that one.
LEMMA CopyOf ==
  ASSUME NEW count, NEW E, NEW c \in Copies(count, E)
  PROVE  /\ c[1] \in E
         /\ \A F : c[1] \in F => c \in Copies(count, F)
  BY DEF Copies

\* The newest time among copies is the time of one, and no other is later.
LEMMA TimesMax ==
  ASSUME NEW count \in [Events -> Nat], NEW E, E \subseteq Events, Copies(count, E) # {}
  PROVE  LET evs == Copies(count, E) IN
         /\ \E c \in evs : Max(Times(evs)) = TimeOf[c[1]]
         /\ \A c \in evs : Max(Times(evs)) >= TimeOf[c[1]]
<1> DEFINE evs == Copies(count, E)
<1>1. \A c \in evs : c[1] \in Events /\ Row(c[1]).time = TimeOf[c[1]]
  BY CopyOf DEF Row
<1>2. Times(evs) = {TimeOf[c[1]] : c \in evs}
  BY <1>1 DEF Times
<1>3. Times(evs) \subseteq Int /\ Times(evs) # {}
  BY <1>1, <1>2, TimesAssumption
<1>4. IsFiniteSet(Times(evs))
  <2> DEFINE f == [c \in evs |-> TimeOf[c[1]]]
  <2>1. f \in Surjection(evs, Times(evs))
    BY <1>2 DEF Surjection
  <2> QED
    BY <2>1, CopiesFinite, FS_Surjection
<1>5. Max(Times(evs)) \in Times(evs) /\ \A y \in Times(evs) : Max(Times(evs)) >= y
  BY <1>3, <1>4, MaxIs
<1> QED
  BY <1>2, <1>5

-----------------------------------------------------------------------------
(* What a profile counts.                                                  *)

\* The events dated since then.
Since(t) == {e \in Events : TimeOf[e] >= t}

\* A profile holds the aggregates of what was stored when it was built.
ProfileOfStored ==
  profile # Null =>
    /\ profile.at \in BuildTimes
    /\ profile.stored \in [Events -> Nat]
    /\ profile.features =
         Aggregates(Copies(profile.stored, Since(profile.at - ProfileHours)), profile.at)

LEMMA InitProfile == ProfilesInit => ProfileOfStored
  BY DEF ProfilesInit, ProfileOfStored

LEMMA NextProfile ==
  TypeOK /\ StoredAsTold /\ ProfileOfStored /\ [ProfilesNext]_profileVars => ProfileOfStored'
<1> SUFFICES ASSUME TypeOK, StoredAsTold, ProfileOfStored, [ProfilesNext]_profileVars
             PROVE  ProfileOfStored'
  OBVIOUS
<1>1. CASE UNCHANGED profile
  BY <1>1 DEF ProfileOfStored
<1>2. ASSUME NEW now \in BuildTimes, BuildProfile(now) PROVE ProfileOfStored'
  <2>1. profile'.at = now /\ profile'.features = Features(now)
        /\ profile'.stored = [e \in Events |-> returned[e] + doubtful[e]]
    BY <1>2 DEF BuildProfile
  <2>2. profile'.stored = rows
    BY <2>1 DEF TypeOK, StoredAsTold
  <2>3. Features(now) = Aggregates(Copies(rows, Since(now - ProfileHours)), now)
    BY DEF Features, Fetched, Since
  <2> QED
    BY <2>1, <2>2, <2>3 DEF ProfileOfStored, TypeOK
<1> QED
  BY <1>1, <1>2 DEF ProfilesNext, profileVars

\* The windows grow: where the sequence is highest, no next one is higher, so there is
\* no next one.
LEMMA WindowsGrow ==
  ASSUME NEW k \in 1 .. Len(WindowHours)
  PROVE  WindowHours[k] <= Last(WindowHours)
<1>1. PICK n \in Nat : n = Len(WindowHours)
  BY WindowsAssumption
<1>2. WindowHours \in [1 .. n -> Nat]
  BY <1>1, WindowsAssumption
<1>3. \A i \in 2 .. n : WindowHours[i - 1] < WindowHours[i]
  BY <1>1, WindowsAssumption
<1>4. IsFiniteSet(1 .. n) /\ 1 .. n # {}
  <2>1. 1 \in Int /\ n \in Int
    OBVIOUS
  <2>2. 1 .. n # {}
    BY <1>1
  <2> QED
    BY <2>1, <2>2, FS_Interval
<1>5. PICK x \in 1 .. n : \A y \in 1 .. n : WindowHours[x] >= WindowHours[y]
  <2>1. WindowHours \in [1 .. n -> Int]
    BY <1>2
  <2> QED
    BY <2>1, <1>4, Highest
<1>6. x = n
  <2>1. ASSUME x < n PROVE FALSE
    <3>1. x + 1 \in 2 .. n /\ (x + 1) - 1 = x
      BY <2>1
    <3>2. WindowHours[x] < WindowHours[x + 1]
      BY <3>1, <1>3
    <3>3. x + 1 \in 1 .. n
      BY <3>1
    <3>4. WindowHours[x] >= WindowHours[x + 1]
      BY <3>3, <1>5
    <3>5. WindowHours[x] \in Nat /\ WindowHours[x + 1] \in Nat
      BY <3>3, <1>2
    <3> QED
      BY <3>2, <3>4, <3>5
  <2> QED
    BY <2>1
<1>7. k \in 1 .. n /\ n \in 1 .. n
  BY <1>1
<1>8. WindowHours[n] >= WindowHours[k]
  BY <1>5, <1>6, <1>7
<1>9. WindowHours[n] \in Nat /\ WindowHours[k] \in Nat
  BY <1>2, <1>7
<1> QED
  BY <1>1, <1>8, <1>9 DEF Last

\* How many events a window counts.
LEMMA WindowCount ==
  ASSUME NEW evs, NEW now, NEW k \in 1 .. Len(WindowHours)
  PROVE  Aggregates(evs, now)[k].login_hour.count =
           IF evs = {} THEN 0 ELSE Cardinality(InWindow(k, evs, now))
<1>1. \A E : Metrics(E).login_hour.count = Cardinality(E)
  BY Zenon DEF Metrics, Stats
<1>2. Cardinality({}) = 0
  BY FS_EmptySet
<1> QED
  BY <1>1, <1>2 DEF Aggregates

\* The count of a window of a profile lies between what was stored of that window
\* and what was stored at all.
LEMMA CountsFollow ==
  ASSUME ProfileOfStored
  PROVE  RecentEventsCounted
<1> SUFFICES ASSUME profile # Null, NEW k \in 1 .. Len(WindowHours)
             PROVE
            LET count == profile.features[k].login_hour.count
                Dated(lo, hi) == StoredBetween(profile.stored, lo, hi)
                latest == Max({TimeOf[e] : e \in Events} \cup {profile.at})
                misdated == Dated(profile.at + 1, latest)
            IN  /\ (misdated = 0 /\ WindowHours[k] <= ProfileHours) =>
                      count >= Dated(profile.at - WindowHours[k], profile.at)
                /\ count <= Dated(profile.at - ProfileHours, latest)
  BY DEF RecentEventsCounted
<1>1. PICK at0 \in BuildTimes : at0 = profile.at
  BY DEF ProfileOfStored
<1>2. PICK stored \in [Events -> Nat] : stored = profile.stored
  BY DEF ProfileOfStored
<1>3. PICK latest : latest = Max({TimeOf[e] : e \in Events} \cup {at0})
  OBVIOUS
<1>4. PICK evs : evs = Copies(stored, Since(at0 - ProfileHours))
  OBVIOUS
<1>5. profile.features[k].login_hour.count =
        IF evs = {} THEN 0 ELSE Cardinality(InWindow(k, evs, at0))
  BY <1>1, <1>2, <1>4, WindowCount DEF ProfileOfStored
<1> DEFINE Between(lo, hi) == {e \in Events : lo <= TimeOf[e] /\ TimeOf[e] <= hi}
<1> DEFINE InTime == Copies(stored, Between(at0 - WindowHours[k], at0))
<1> DEFINE Misdated == Copies(stored, Between(at0 + 1, latest))
<1> DEFINE Known == Copies(stored, Between(at0 - ProfileHours, latest))
<1>6. /\ at0 \in Int /\ ProfileHours \in Nat /\ WindowHours[k] \in Nat
      /\ \A e \in Events : TimeOf[e] \in Int
  BY TimesAssumption, WindowsAssumption
<1>7. latest \in Int /\ at0 <= latest /\ \A e \in Events : TimeOf[e] <= latest
  <2> DEFINE S == {TimeOf[e] : e \in Events} \cup {at0}
  <2>1. S \subseteq Int /\ S # {}
    BY <1>6
  <2>2. IsFiniteSet({TimeOf[e] : e \in Events})
    <3>1. TimeOf \in Surjection(Events, {TimeOf[e] : e \in Events})
      BY TimesAssumption DEF Surjection
    <3> QED
      BY <3>1, EventsAssumption, FS_Surjection
  <2>3. IsFiniteSet(S)
    BY <2>2, FS_AddElement
  <2>4. Max(S) \in S /\ \A y \in S : Max(S) >= y
    BY <2>1, <2>3, MaxIs
  <2> QED
    BY <2>1, <2>4, <1>3, <1>6
<1>8. Since(at0 - ProfileHours) \subseteq Events
  BY DEF Since
<1>9. /\ IsFiniteSet(InTime) /\ IsFiniteSet(Misdated) /\ IsFiniteSet(Known) /\ IsFiniteSet(evs)
      /\ Cardinality(Known) \in Nat /\ Cardinality(InTime) \in Nat
  BY <1>4, <1>8, CopiesFinite
<1>10. \A c \in evs : c[1] \in Events /\ TimeOf[c[1]] >= at0 - ProfileHours /\ Row(c[1]).time = TimeOf[c[1]]
  BY <1>4, CopyOf DEF Since, Row
<1>11. evs \subseteq Known
  BY <1>4, <1>6, <1>7, <1>10, CopyOf
<1>12. InWindow(k, evs, at0) \subseteq evs
  BY DEF InWindow
<1>13. ASSUME Cardinality(Misdated) = 0, WindowHours[k] <= ProfileHours
       PROVE  profile.features[k].login_hour.count >= Cardinality(InTime)
  <2>1. Misdated = {}
    BY <1>9, <1>13, FS_EmptySet
  <2>2. InTime \subseteq evs
    BY <1>4, <1>6, <1>13, CopyOf DEF Since
  <2>3. CASE evs = {}
    <3>1. InTime = {}
      BY <2>2, <2>3
    <3>2. Cardinality(InTime) = 0
      BY <3>1, FS_EmptySet
    <3> QED
      BY <3>2, <2>3, <1>5
  <2>4. CASE evs # {}
    <3>1. PICK last : last = ReferenceTime(evs, at0)
      OBVIOUS
    <3>2. /\ \E c \in evs : last = TimeOf[c[1]]
          /\ \A c \in evs : last >= TimeOf[c[1]]
      BY <3>1, <2>4, <1>4, <1>8, TimesMax DEF ReferenceTime
    <3>3. \A c \in evs : TimeOf[c[1]] <= at0
      <4>1. ASSUME NEW c \in evs, TimeOf[c[1]] > at0 PROVE c \in Misdated
        BY <4>1, <1>4, <1>6, <1>7, <1>10, CopyOf
      <4>2. \A c \in evs : ~(TimeOf[c[1]] > at0)
        BY <4>1, <2>1
      <4> QED
        BY <4>2, <1>6, <1>10
    <3>4. last \in Int /\ last <= at0
      BY <3>2, <3>3, <1>6, <1>10
    <3>5. InTime \subseteq InWindow(k, evs, at0)
      <4> SUFFICES ASSUME NEW c \in InTime PROVE c \in InWindow(k, evs, at0)
        OBVIOUS
      <4>1. c \in evs /\ TimeOf[c[1]] >= at0 - WindowHours[k]
        BY <2>2, CopyOf
      <4>2. last - WindowHours[k] <= TimeOf[c[1]] /\ TimeOf[c[1]] <= last
        BY <4>1, <3>2, <3>4, <1>6, <1>10
      <4> QED
        BY <4>1, <4>2, <3>1, <1>10 DEF InWindow
    <3>6. IsFiniteSet(InWindow(k, evs, at0))
      BY <1>9, <1>12, FS_Subset
    <3>7. Cardinality(InTime) <= Cardinality(InWindow(k, evs, at0))
      BY <3>5, <3>6, FS_Subset
    <3>8. Cardinality(InWindow(k, evs, at0)) \in Nat
      BY <3>6, FS_CardinalityType
    <3> QED
      BY <3>7, <3>8, <2>4, <1>5, <1>9
  <2> QED
    BY <2>3, <2>4
<1>14. profile.features[k].login_hour.count <= Cardinality(Known)
  <2>1. InWindow(k, evs, at0) \subseteq Known
    BY <1>11, <1>12
  <2>2. Cardinality(InWindow(k, evs, at0)) <= Cardinality(Known)
    BY <2>1, <1>9, FS_Subset
  <2> QED
    BY <2>2, <1>5, <1>9
<1> QED
  BY <1>1, <1>2, <1>3, <1>13, <1>14 DEF StoredBetween

\* Stored events count in the windows of a profile they belong to, as often as they
\* were stored, however builds and writers interleave: for any events, times, windows
\* and profile length.
THEOREM RecentEventsAreCounted == ProfilesSpec => []RecentEventsCounted
<1>1. TypeOK /\ StoredAsTold /\ ProfileOfStored /\ [ProfilesNext]_profileVars => ProfileOfStored'
  BY NextProfile
<1> QED
  BY <1>1, InitProfile, CountsFollow, BuildsOnlyRead, StoreTypeCorrect, RowsAccountedFor, PTL
  DEF ProfilesSpec

\* The later build finds the events of the earlier one that are young enough, the newest
\* among them; so the windows end alike and hold the same events.
LEMMA IdleStands ==
  ASSUME TypeOK
  PROVE  IdleProfileStands
<1> SUFFICES ASSUME NEW early \in BuildTimes, NEW late \in BuildTimes, early < late,
                    Fetched(early - ProfileHours) # {},
                    Max(Times(Fetched(early - ProfileHours))) - Last(WindowHours) >= late - ProfileHours
             PROVE  Features(early) = Features(late)
  BY DEF IdleProfileStands
<1>1. PICK old : old = Fetched(early - ProfileHours)
  OBVIOUS
<1>2. PICK new : new = Fetched(late - ProfileHours)
  OBVIOUS
<1>3. old = Copies(rows, Since(early - ProfileHours)) /\ new = Copies(rows, Since(late - ProfileHours))
  BY <1>1, <1>2 DEF Fetched, Since
<1>4. /\ early \in Int /\ late \in Int /\ ProfileHours \in Nat
      /\ \A e \in Events : TimeOf[e] \in Int
      /\ \A k \in 1 .. Len(WindowHours) : WindowHours[k] \in Nat
      /\ Last(WindowHours) \in Nat
  BY TimesAssumption, WindowsAssumption DEF Last
<1>5. PICK last : last = Max(Times(old))
  OBVIOUS
<1>6. rows \in [Events -> Nat]
  BY DEF TypeOK
<1>7. /\ \E c \in old : last = TimeOf[c[1]]
      /\ \A c \in old : last >= TimeOf[c[1]]
  <2>1. Since(early - ProfileHours) \subseteq Events
    BY DEF Since
  <2> QED
    BY <2>1, <1>1, <1>3, <1>5, <1>6, TimesMax
<1>8. \A c \in old : c[1] \in Events /\ Row(c[1]).time = TimeOf[c[1]]
  BY <1>3, CopyOf DEF Since, Row
<1>9. new \subseteq old
  BY <1>3, <1>4, CopyOf DEF Since
<1>10. \A c \in old : TimeOf[c[1]] >= late - ProfileHours => c \in new
  BY <1>3, <1>8, CopyOf DEF Since
<1>11. last \in Int /\ last - Last(WindowHours) >= late - ProfileHours
  BY <1>1, <1>4, <1>5, <1>7, <1>8
<1>12. PICK newest \in old : last = TimeOf[newest[1]]
  BY <1>7
<1>13. newest \in new
  BY <1>4, <1>10, <1>11, <1>12
<1>14. Max(Times(new)) = last
  <2>1. PICK m : m = Max(Times(new))
    OBVIOUS
  <2>2. /\ \E c \in new : m = TimeOf[c[1]]
        /\ \A c \in new : m >= TimeOf[c[1]]
    <3>1. Since(late - ProfileHours) \subseteq Events
      BY DEF Since
    <3> QED
      BY <3>1, <2>1, <1>3, <1>6, <1>13, TimesMax
  <2> QED
    BY <2>1, <2>2, <1>4, <1>7, <1>8, <1>9, <1>12, <1>13
<1>15. ASSUME NEW k \in 1 .. Len(WindowHours)
       PROVE  InWindow(k, old, early) = InWindow(k, new, late)
  <2>1. WindowHours[k] <= Last(WindowHours)
    BY WindowsGrow
  <2>2. \A c \in old : last - WindowHours[k] <= TimeOf[c[1]] => c \in new
    BY <2>1, <1>4, <1>8, <1>10, <1>11
  <2>3. InWindow(k, old, early) =
          {c \in old : last - WindowHours[k] <= Row(c[1]).time /\ Row(c[1]).time <= last}
    BY <1>5 DEF InWindow, ReferenceTime
  <2>4. InWindow(k, new, late) =
          {c \in new : last - WindowHours[k] <= Row(c[1]).time /\ Row(c[1]).time <= last}
    BY <1>14 DEF InWindow, ReferenceTime
  <2> QED
    BY <2>2, <2>3, <2>4, <1>8, <1>9
<1>16. Aggregates(old, early) = Aggregates(new, late)
  <2>1. old # {} /\ new # {}
    BY <1>12, <1>13
  <2> QED
    BY <2>1, <1>15 DEF Aggregates
<1> QED
  BY <1>1, <1>2, <1>16 DEF Features

\* Building the profile of an idle user again changes nothing until its longest window
\* reaches back further than the profile's days, for any events, times and windows.
THEOREM IdleProfilesStand == ProfilesSpec => []IdleProfileStands
  BY IdleStands, BuildsOnlyRead, StoreTypeCorrect, PTL
=============================================================================
