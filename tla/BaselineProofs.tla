---------------------------- MODULE BaselineProofs ---------------------------
(***************************************************************************)
(* Proofs about Baseline for every set of builders and updaters, every     *)
(* alpha, and any feature values.                                          *)
(***************************************************************************)
EXTENDS Baseline, TLAPS

\* A value that lies between two that were observed.
Observed(x) == \E lo, hi \in seen : lo <= x /\ x <= hi

\* The copies updaters work on lie within what was observed, too.
CopiesObserved ==
    \A u \in Updaters : loaded[u] # Missing => Observed(loaded[u].profile.mean)

\* The updates a copy lacks were written after it was loaded, or overlapped with one
\* that it carries.
CopiesMissOverlaps ==
    \A u \in Updaters :
        loaded[u] # Missing =>
            LET p == loaded[u].profile
            IN  \A n \in finished[p.from] \ p.with :
                    n > loaded[u].after \/ \E m \in p.with : begun[m] < n /\ n < m

-----------------------------------------------------------------------------
(* The moving average.                                                     *)

LEMMA DivisionBounds ==
  ASSUME NEW x \in Int
  PROVE  /\ x \div Rate \in Int
         /\ Rate * (x \div Rate) <= x
         /\ x < Rate * (x \div Rate) + Rate
  BY RateAssumption

LEMMA Scaled ==
  ASSUME NEW a \in Int, NEW b \in Int, a <= b
  PROVE  Rate * a <= Rate * b
  BY RateAssumption

LEMMA ScaledStrictly ==
  ASSUME NEW a \in Int, NEW b \in Int, Rate * a < Rate * b + Rate
  PROVE  a <= b
  BY RateAssumption

\* An average lies between the two values, whatever alpha is.
LEMMA EmaBetween ==
  ASSUME NEW old \in Int, NEW new \in Int, NEW lo \in Int, NEW hi \in Int,
         lo <= old, lo <= new, old <= hi, new <= hi
  PROVE  Ema(old, new) \in Int /\ lo <= Ema(old, new) /\ Ema(old, new) <= hi
<1> DEFINE x == new + (Rate - 1) * old
           q == x \div Rate
<1>1. x \in Int /\ q \in Int /\ Rate * q <= x /\ x < Rate * q + Rate
  BY DivisionBounds, RateAssumption
<1>2. x = Rate * old + (new - old)
  BY RateAssumption
<1>3. lo <= q
  <2>1. Rate * lo <= x
    <3>1. CASE old <= new
      BY <1>2, <3>1, Scaled, RateAssumption
    <3>2. CASE new < old
      <4>1. (Rate - 1) * new <= (Rate - 1) * old
        BY <3>2, RateAssumption
      <4>2. Rate * new <= x
        BY <4>1, RateAssumption
      <4> QED
        BY <1>1, <4>2, Scaled, RateAssumption
    <3> QED
      BY <3>1, <3>2
  <2> QED
    BY <1>1, <2>1, ScaledStrictly, RateAssumption
<1>4. q <= hi
  <2>1. x <= Rate * hi
    <3>1. CASE new <= old
      BY <1>2, <3>1, Scaled, RateAssumption
    <3>2. CASE old < new
      <4>1. (Rate - 1) * old <= (Rate - 1) * new
        BY <3>2, RateAssumption
      <4>2. x <= Rate * new
        BY <4>1, RateAssumption
      <4> QED
        BY <1>1, <4>2, Scaled, RateAssumption
    <3> QED
      BY <3>1, <3>2
  <2>2. Rate * q < Rate * hi + Rate
    BY <1>1, <2>1, RateAssumption
  <2> QED
    BY <1>1, <2>2, ScaledStrictly
<1> QED
  BY <1>1, <1>3, <1>4 DEF Ema

\* So does a capped step: half a deviation towards a value more than five away.
LEMMA MovedBetween ==
  ASSUME NEW old \in Int, NEW new \in Int, NEW sigma \in Nat, NEW lo \in Int, NEW hi \in Int,
         lo <= old, lo <= new, old <= hi, new <= hi
  PROVE  Moved(old, new, sigma) \in Int /\ lo <= Moved(old, new, sigma) /\ Moved(old, new, sigma) <= hi
<1>1. CASE sigma > 0 /\ Abs(new - old) > 5 * sigma
  <2>1. sigma \div 2 \in Nat /\ sigma \div 2 <= sigma
    OBVIOUS
  <2>2. CASE new >= old
    BY <1>1, <2>1, <2>2 DEF Moved, Abs
  <2>3. CASE new < old
    BY <1>1, <2>1, <2>3 DEF Moved, Abs
  <2> QED
    BY <2>2, <2>3
<1>2. CASE ~(sigma > 0 /\ Abs(new - old) > 5 * sigma)
  <2>1. Moved(old, new, sigma) = Ema(old, new)
    BY <1>2 DEF Moved
  <2> QED
    BY <2>1, EmaBetween
<1> QED
  BY <1>1, <1>2

-----------------------------------------------------------------------------
(* Types.                                                                  *)

LEMMA VectorType ==
  ASSUME NEW vec \in Vector
  PROVE  vec.mean \in Int /\ vec.std \in Nat
  BY ValuesAssumption, ScaleAssumption DEF Vector

\* An update of a profile is one, and its deviation stays non-negative.
LEMMA UpdatedType ==
  ASSUME NEW p \in Profile, NEW vec \in Vector
  PROVE  /\ Updated(p, vec) \in Profile
         /\ Updated(p, vec).mean = Moved(p.mean, vec.mean, p.std)
         /\ Updated(p, vec).from = p.from /\ Updated(p, vec).with = p.with
<1>1. /\ p.mean \in Int /\ p.std \in Nat /\ p.from \in 1 .. builds /\ p.with \in SUBSET (1 .. updates)
      /\ p = [mean |-> p.mean, std |-> p.std, from |-> p.from, with |-> p.with]
  BY DEF Profile
<1>2. vec.mean \in Int /\ vec.std \in Nat
  BY VectorType
<1>3. Moved(p.mean, vec.mean, p.std) \in Int
  <2>1. PICK lo \in Int, hi \in Int : lo <= p.mean /\ lo <= vec.mean /\ p.mean <= hi /\ vec.mean <= hi
    <3>1. CASE p.mean <= vec.mean
      BY <1>1, <1>2, <3>1
    <3>2. CASE vec.mean <= p.mean
      BY <1>1, <1>2, <3>2
    <3> QED
      BY <1>1, <1>2, <3>1, <3>2
  <2> QED
    BY <1>1, <1>2, <2>1, MovedBetween
<1>4. Moved(p.std, vec.std, 0) \in Nat
  <2>1. PICK hi \in Int : p.std <= hi /\ vec.std <= hi
    <3>1. CASE p.std <= vec.std
      BY <1>1, <1>2, <3>1
    <3>2. CASE vec.std <= p.std
      BY <1>1, <1>2, <3>2
    <3> QED
      BY <1>1, <1>2, <3>1, <3>2
  <2>2. 0 \in Int /\ 0 \in Nat /\ p.std \in Int /\ vec.std \in Int /\ 0 <= p.std /\ 0 <= vec.std
    BY <1>1, <1>2
  <2>3. Moved(p.std, vec.std, 0) \in Int /\ 0 <= Moved(p.std, vec.std, 0)
    BY <2>1, <2>2, MovedBetween, Zenon
  <2> QED
    BY <2>3
<1> QED
  BY <1>1, <1>3, <1>4 DEF Profile, Updated

\* Profiles and copies remain such while builds and updates are counted on.
LEMMA ProfilesGrow ==
  ASSUME builds \in Nat, updates \in Nat, builds' \in Nat, updates' \in Nat,
         builds <= builds', updates <= updates'
  PROVE  Profile \subseteq Profile' /\ Copy \subseteq Copy'
<1>1. 1 .. builds \subseteq 1 .. builds' /\ SUBSET (1 .. updates) \subseteq SUBSET (1 .. updates')
      /\ 0 .. updates \subseteq 0 .. updates'
  OBVIOUS
<1>2. Profile \subseteq Profile'
  BY <1>1 DEF Profile
<1> QED
  BY <1>1, <1>2 DEF Copy, Vector

LEMMA InitType == Init => TypeOK
  BY BoundsAssumption DEF Init, TypeOK

\* The lists of numbers kept as history, after one more update.
LEMMA HistoryGrows ==
  ASSUME TypeOK, NEW u \in Updaters, Store(u)
  PROVE  /\ begun' \in [1 .. updates' -> 0 .. updates']
         /\ begun'[updates'] = loaded[u].after
         /\ \A n \in 1 .. updates : begun'[n] = begun[n]
         /\ finished' \in [1 .. builds' -> SUBSET (1 .. updates')]
<1>1. updates \in Nat /\ updates' = updates + 1 /\ builds' = builds /\ loaded[u] \in Copy
  BY BoundsAssumption DEF TypeOK, Store
<1>2. loaded[u].after \in 0 .. updates
  BY <1>1 DEF Copy
<1>3. begun \in Seq(Nat) /\ Len(begun) = updates
  BY <1>1 DEF TypeOK
<1>4. begun' = [i \in 1 .. updates + 1 |-> IF i <= updates THEN begun[i] ELSE loaded[u].after]
  BY <1>1, <1>2, <1>3 DEF Store
<1>5. begun' \in [1 .. updates' -> 0 .. updates']
  BY <1>1, <1>2, <1>4 DEF TypeOK
<1>6. finished' \in [1 .. builds' -> SUBSET (1 .. updates')]
  BY <1>1 DEF TypeOK, Store
<1> QED
  BY <1>1, <1>4, <1>5, <1>6

LEMMA NextType == TypeOK /\ [Next]_vars => TypeOK'
<1> SUFFICES ASSUME TypeOK, [Next]_vars PROVE TypeOK'
  OBVIOUS
<1>0. builds \in Nat /\ updates \in Nat
  BY BoundsAssumption DEF TypeOK
<1>1. ASSUME UNCHANGED <<builds, updates>> PROVE Profile' = Profile /\ Copy' = Copy
  BY <1>1 DEF Profile, Copy, Vector
<1>2. CASE UNCHANGED vars
  BY <1>1, <1>2 DEF vars, TypeOK
<1>3. ASSUME NEW b \in Builders, Build(b) PROVE TypeOK'
  BY <1>1, <1>3 DEF Build, TypeOK
<1>4. ASSUME NEW b \in Builders, Cache(b) PROVE TypeOK'
  <2>1. builds' = builds + 1 /\ updates' = updates /\ built[b] \in Vector
    BY <1>4 DEF TypeOK, Cache
  <2>2. Profile \subseteq Profile' /\ Copy \subseteq Copy'
    BY <1>0, <2>1, ProfilesGrow
  <2>3. cached' \in Profile'
    BY <1>0, <1>4, <2>1, VectorType DEF Cache, Profile
  <2>4. finished' \in [1 .. builds' -> SUBSET (1 .. updates')]
    BY <1>0, <1>4, <2>1 DEF TypeOK, Cache
  <2>5. seen' \subseteq {v.mean : v \in Vector}
    BY <1>4, <2>1 DEF TypeOK, Cache
  <2>6. builds' \in 0 .. MaxBuilds /\ updates' \in 0 .. MaxUpdates
    BY <1>4, <1>0, BoundsAssumption DEF TypeOK, Cache
  <2>7. built' \in [Builders -> Vector \cup {Missing}] /\ loaded' \in [Updaters -> Copy' \cup {Missing}]
    BY <1>4, <2>2 DEF TypeOK, Cache
  <2>8. begun' \in [1 .. updates' -> 0 .. updates']
    BY <1>4, <2>1 DEF TypeOK, Cache
  <2> QED
    BY <2>3, <2>4, <2>5, <2>6, <2>7, <2>8 DEF TypeOK, Vector
<1>5. ASSUME NEW u \in Updaters, Store(u) PROVE TypeOK'
  <2>1. updates' = updates + 1 /\ builds' = builds /\ loaded[u] \in Copy
    BY <1>5 DEF TypeOK, Store
  <2>2. Profile \subseteq Profile' /\ Copy \subseteq Copy'
    BY <1>0, <2>1, ProfilesGrow
  <2> DEFINE p == Updated(loaded[u].profile, loaded[u].vec)
  <2>3. p \in Profile
    BY <2>1, UpdatedType DEF Copy
  <2>4. cached' \in Profile'
    <3>1. p.with \cup {updates + 1} \in SUBSET (1 .. updates')
      BY <1>0, <2>1, <2>3 DEF Profile
    <3>2. cached' = [p EXCEPT !.with = @ \cup {updates + 1}]
      BY <1>5 DEF Store
    <3>3. p \in Profile'
      BY <2>2, <2>3
    <3> HIDE DEF p
    <3> QED
      BY <3>1, <3>2, <3>3 DEF Profile
  <2>5. seen' \subseteq {v.mean : v \in Vector}
    BY <1>5, <2>1 DEF TypeOK, Store, Copy
  <2>6. builds' \in 0 .. MaxBuilds /\ updates' \in 0 .. MaxUpdates
    BY <1>5, <1>0, BoundsAssumption DEF TypeOK, Store
  <2>7. built' \in [Builders -> Vector \cup {Missing}] /\ loaded' \in [Updaters -> Copy' \cup {Missing}]
    BY <1>5, <2>2 DEF TypeOK, Store
  <2> QED
    BY <1>5, <2>4, <2>5, <2>6, <2>7, HistoryGrows DEF TypeOK, Vector
<1>6. ASSUME NEW u \in Updaters, GiveUp(u) PROVE TypeOK'
  BY <1>1, <1>6 DEF GiveUp, TypeOK
<1>7. ASSUME NEW u \in Updaters, NEW vec \in Vector, Load(u, vec) PROVE TypeOK'
  <2>1. [profile |-> cached, vec |-> vec, after |-> updates] \in Copy
    BY <1>0, <1>7 DEF TypeOK, Load, Copy
  <2> QED
    BY <1>1, <1>7, <2>1 DEF Load, TypeOK
<1>8. CASE Expire
  BY <1>1, <1>8 DEF Expire, TypeOK
<1> QED
  BY <1>2, <1>3, <1>4, <1>5, <1>6, <1>7, <1>8 DEF Next

\* Every variable of the baseline keeps its type, whatever alpha and the features are:
\* no deviation becomes negative.
THEOREM BaselineTypeCorrect == Spec => []TypeOK
  BY InitType, NextType, PTL DEF Spec

-----------------------------------------------------------------------------
(* The baseline stays within what was observed.                            *)

Within == TypeOK /\ StaysWithinObserved /\ CopiesObserved

LEMMA ObservedGrows ==
  ASSUME NEW x \in Int, Observed(x), seen \subseteq seen'
  PROVE  Observed(x)'
  BY DEF Observed

LEMMA InitWithin == Init => Within
  BY InitType DEF Init, Within, StaysWithinObserved, CopiesObserved

LEMMA NextWithin == Within /\ [Next]_vars => Within'
<1> SUFFICES ASSUME Within, [Next]_vars PROVE StaysWithinObserved' /\ CopiesObserved'
  BY NextType DEF Within
<1> USE DEF Within
<1>0. TypeOK /\ TypeOK'
  BY NextType
<1>1. ASSUME UNCHANGED <<cached, seen>>,
             \A u \in Updaters :
                loaded'[u] # Missing =>
                    loaded'[u] = loaded[u] \/ (cached # Missing /\ loaded'[u].profile = cached)
      PROVE  StaysWithinObserved' /\ CopiesObserved'
  BY <1>1 DEF StaysWithinObserved, CopiesObserved, Observed
<1>2. CASE UNCHANGED vars
  BY <1>1, <1>2 DEF vars
<1>3. ASSUME NEW b \in Builders, Build(b) PROVE StaysWithinObserved' /\ CopiesObserved'
  BY <1>1, <1>3 DEF Build
<1>4. ASSUME NEW b \in Builders, Cache(b) PROVE StaysWithinObserved' /\ CopiesObserved'
  <2>1. built[b] \in Vector /\ built[b].mean \in Int
    BY <1>0, <1>4, VectorType DEF TypeOK, Cache
  <2>2. cached'.mean = built[b].mean /\ built[b].mean \in seen'
    BY <1>4 DEF Cache
  <2>3. StaysWithinObserved'
    BY <2>1, <2>2 DEF StaysWithinObserved
  <2>4. ASSUME NEW u \in Updaters, loaded'[u] # Missing PROVE Observed(loaded[u].profile.mean)'
    BY <1>0, <1>4, <2>4 DEF CopiesObserved, Observed, Cache
  <2> QED
    BY <2>3, <2>4, <1>4 DEF CopiesObserved, Cache
<1>5. ASSUME NEW u \in Updaters, Store(u) PROVE StaysWithinObserved' /\ CopiesObserved'
  <2> DEFINE p == loaded[u].profile
             vec == loaded[u].vec
  <2>1. p \in Profile /\ vec \in Vector /\ p.mean \in Int /\ p.std \in Nat
    BY <1>0, <1>5 DEF TypeOK, Store, Copy, Profile
  <2>2. vec.mean \in Int
    BY <2>1, VectorType
  <2>3. PICK lo \in seen, hi \in seen : lo <= p.mean /\ p.mean <= hi
    BY <1>5 DEF CopiesObserved, Observed, Store
  <2>4. lo \in Int /\ hi \in Int
    BY <1>0, VectorType DEF TypeOK
  <2>5. cached'.mean = Moved(p.mean, vec.mean, p.std)
    BY <1>5, <2>1, UpdatedType DEF Store, Profile
  <2>6. seen' = seen \cup {vec.mean}
    BY <1>5 DEF Store
  <2>7. PICK lower \in seen', upper \in seen' :
            /\ lower \in Int /\ upper \in Int
            /\ lower <= p.mean /\ lower <= vec.mean /\ p.mean <= upper /\ vec.mean <= upper
    <3>1. PICK lower \in seen' : lower \in Int /\ lower <= p.mean /\ lower <= vec.mean
      <4>1. CASE lo <= vec.mean
        BY <2>3, <2>4, <2>6, <4>1
      <4>2. CASE vec.mean < lo
        BY <2>1, <2>2, <2>3, <2>4, <2>6, <4>2
      <4> QED
        BY <2>2, <2>4, <4>1, <4>2
    <3>2. PICK upper \in seen' : upper \in Int /\ p.mean <= upper /\ vec.mean <= upper
      <4>1. CASE vec.mean <= hi
        BY <2>3, <2>4, <2>6, <4>1
      <4>2. CASE hi < vec.mean
        BY <2>1, <2>2, <2>3, <2>4, <2>6, <4>2
      <4> QED
        BY <2>2, <2>4, <4>1, <4>2
    <3> QED
      BY <3>1, <3>2
  <2>8. lower <= Moved(p.mean, vec.mean, p.std) /\ Moved(p.mean, vec.mean, p.std) <= upper
    BY <2>1, <2>2, <2>7, MovedBetween, Zenon
  <2>9. StaysWithinObserved'
    BY <2>5, <2>7, <2>8 DEF StaysWithinObserved
  <2>10. ASSUME NEW v \in Updaters, loaded'[v] # Missing PROVE Observed(loaded[v].profile.mean)'
    <3>1. v # u /\ loaded'[v] = loaded[v]
      BY <1>0, <1>5, <2>10 DEF TypeOK, Store
    <3> QED
      BY <2>6, <2>10, <3>1 DEF CopiesObserved, Observed
  <2> QED
    BY <2>9, <2>10 DEF CopiesObserved
<1>6. ASSUME NEW u \in Updaters, GiveUp(u) PROVE StaysWithinObserved' /\ CopiesObserved'
  <2>1. \A v \in Updaters : loaded'[v] # Missing => loaded'[v] = loaded[v]
    BY <1>0, <1>6 DEF GiveUp, TypeOK
  <2> QED
    BY <1>1, <1>6, <2>1 DEF GiveUp
<1>7. ASSUME NEW u \in Updaters, NEW vec \in Vector, Load(u, vec) PROVE StaysWithinObserved' /\ CopiesObserved'
  <2>1. \A v \in Updaters : loaded'[v] = loaded[v] \/ (cached # Missing /\ loaded'[v].profile = cached)
    BY <1>0, <1>7 DEF Load, TypeOK
  <2> QED
    BY <1>1, <1>7, <2>1 DEF Load
<1>8. CASE Expire
  BY <1>8 DEF Expire, StaysWithinObserved, CopiesObserved, Observed
<1> QED
  BY <1>2, <1>3, <1>4, <1>5, <1>6, <1>7, <1>8 DEF Next

\* The baseline never leaves the interval of what was observed, however updates race with
\* each other, with rebuilds and with the expiry, and however an outlier is capped.
THEOREM BaselineWithinObserved == Spec => []StaysWithinObserved
<1>1. Within => StaysWithinObserved
  BY DEF Within
<1> QED
  BY <1>1, InitWithin, NextWithin, PTL DEF Spec

-----------------------------------------------------------------------------
(* An update is lost only to one that overlaps with it.                    *)

Losses == TypeOK /\ LostOnlyToOverlap /\ CopiesMissOverlaps

LEMMA InitLosses == Init => Losses
  BY InitType DEF Init, Losses, LostOnlyToOverlap, CopiesMissOverlaps

LEMMA NextLosses == Losses /\ [Next]_vars => Losses'
<1> SUFFICES ASSUME Losses, [Next]_vars PROVE LostOnlyToOverlap' /\ CopiesMissOverlaps'
  BY NextType DEF Losses
<1> USE DEF Losses
<1>0. TypeOK /\ TypeOK'
  BY NextType
<1>1. ASSUME UNCHANGED <<cached, finished, begun>>,
             \A u \in Updaters :
                loaded'[u] # Missing =>
                    loaded'[u] = loaded[u] \/ (cached # Missing /\ loaded'[u].profile = cached)
      PROVE  LostOnlyToOverlap' /\ CopiesMissOverlaps'
  BY <1>1 DEF LostOnlyToOverlap, CopiesMissOverlaps
<1>2. CASE UNCHANGED vars
  BY <1>1, <1>2 DEF vars
<1>3. ASSUME NEW b \in Builders, Build(b) PROVE LostOnlyToOverlap' /\ CopiesMissOverlaps'
  BY <1>1, <1>3 DEF Build
<1>4. ASSUME NEW b \in Builders, Cache(b) PROVE LostOnlyToOverlap' /\ CopiesMissOverlaps'
  <2>1. builds \in Nat /\ finished' = [n \in 1 .. builds + 1 |-> IF n <= builds THEN finished[n] ELSE {}]
        /\ cached'.from = builds + 1
    BY <1>0, <1>4, BoundsAssumption DEF Cache, TypeOK
  <2>2. LostOnlyToOverlap'
    BY <2>1 DEF LostOnlyToOverlap
  <2>3. ASSUME NEW u \in Updaters, loaded[u] # Missing
        PROVE  finished'[loaded[u].profile.from] = finished[loaded[u].profile.from]
    <3>1. loaded[u].profile.from \in 1 .. builds
      BY <1>0, <2>3 DEF TypeOK, Copy, Profile
    <3> QED
      BY <2>1, <3>1
  <2> QED
    BY <1>4, <2>2, <2>3 DEF Cache, CopiesMissOverlaps
<1>5. ASSUME NEW u \in Updaters, Store(u) PROVE LostOnlyToOverlap' /\ CopiesMissOverlaps'
  <2> DEFINE m == updates + 1
  <2>1. updates \in Nat /\ m \in Nat /\ updates' = m /\ begun'[m] = loaded[u].after
        /\ \A n \in 1 .. updates : begun'[n] = begun[n]
    BY <1>0, <1>5, HistoryGrows, BoundsAssumption DEF TypeOK, Store
  <2>2. ASSUME NEW v \in Updaters, loaded[v] # Missing
        PROVE  /\ loaded[v].profile \in Profile /\ loaded[v].vec \in Vector
               /\ loaded[v].profile.from \in 1 .. builds /\ loaded[v].profile.with \subseteq 1 .. updates
               /\ finished'[loaded[v].profile.from] = finished[loaded[v].profile.from] \cup {m}
               /\ finished[loaded[v].profile.from] \subseteq 1 .. updates
               /\ loaded[v].after \in 0 .. updates
    BY <1>0, <1>5, <2>2 DEF TypeOK, Copy, Profile, Store
  <2> HIDE DEF m
  <2>3. ASSUME NEW v \in Updaters, loaded[v] # Missing,
               NEW n \in finished'[loaded[v].profile.from] \ loaded[v].profile.with
        PROVE  \/ n > loaded[v].after
               \/ \E k \in loaded[v].profile.with : begun'[k] < n /\ n < k
    <3>1. CASE n = m
      BY <2>1, <2>2, <2>3, <3>1 DEF m
    <3>2. CASE n # m
      <4>1. n \in finished[loaded[v].profile.from] \ loaded[v].profile.with
        BY <2>2, <2>3, <3>2
      <4>2. CASE n > loaded[v].after
        BY <4>2
      <4>3. CASE \E k \in loaded[v].profile.with : begun[k] < n /\ n < k
        BY <2>1, <2>2, <2>3, <4>3
      <4> QED
        BY <2>3, <4>1, <4>2, <4>3 DEF CopiesMissOverlaps
    <3> QED
      BY <3>1, <3>2
  <2>4. LostOnlyToOverlap'
    <3>1. loaded[u] # Missing
      BY <1>5 DEF Store
    <3>2. cached'.from = loaded[u].profile.from /\ cached'.with = loaded[u].profile.with \cup {m}
      BY <1>5, <2>2, <3>1, UpdatedType DEF Store, m, Profile
    <3>3. ASSUME NEW n \in finished'[cached'.from] \ cached'.with
          PROVE  \E k \in cached'.with : begun'[k] < n /\ n < k
      <4>1. n \in finished'[loaded[u].profile.from] \ loaded[u].profile.with /\ n # m
        BY <3>2, <3>3
      <4>2. n \in 1 .. updates
        BY <2>2, <3>1, <4>1
      <4>3. CASE n > loaded[u].after
        BY <2>1, <2>2, <3>1, <3>2, <4>2, <4>3 DEF m
      <4>4. CASE \E k \in loaded[u].profile.with : begun'[k] < n /\ n < k
        BY <3>2, <4>4
      <4> QED
        BY <2>3, <3>1, <4>1, <4>3, <4>4
    <3> QED
      BY <3>3 DEF LostOnlyToOverlap
  <2>5. ASSUME NEW v \in Updaters, loaded'[v] # Missing PROVE loaded'[v] = loaded[v] /\ loaded[v] # Missing
    BY <1>0, <1>5, <2>5 DEF TypeOK, Store
  <2> QED
    BY <2>3, <2>4, <2>5 DEF CopiesMissOverlaps
<1>6. ASSUME NEW u \in Updaters, GiveUp(u) PROVE LostOnlyToOverlap' /\ CopiesMissOverlaps'
  <2>1. \A v \in Updaters : loaded'[v] # Missing => loaded'[v] = loaded[v]
    BY <1>0, <1>6 DEF GiveUp, TypeOK
  <2> QED
    BY <1>1, <1>6, <2>1 DEF GiveUp
<1>7. ASSUME NEW u \in Updaters, NEW vec \in Vector, Load(u, vec) PROVE LostOnlyToOverlap' /\ CopiesMissOverlaps'
  <2>1. \A v \in Updaters : loaded'[v] = loaded[v] \/ (cached # Missing /\ loaded'[v].profile = cached)
    BY <1>0, <1>7 DEF Load, TypeOK
  <2> QED
    BY <1>1, <1>7, <2>1 DEF Load
<1>8. CASE Expire
  BY <1>8 DEF Expire, LostOnlyToOverlap, CopiesMissOverlaps
<1> QED
  BY <1>2, <1>3, <1>4, <1>5, <1>6, <1>7, <1>8 DEF Next

\* Whatever is rebuilt or expires in between, an update is lost only if it was over after
\* one that replaced it had loaded its copy: updates one after another are all kept.
THEOREM OnlyOverlapLoses == Spec => []LostOnlyToOverlap
<1>1. Losses => LostOnlyToOverlap
  BY DEF Losses
<1> QED
  BY <1>1, InitLosses, NextLosses, PTL DEF Spec
=============================================================================
