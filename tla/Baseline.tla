------------------------------ MODULE Baseline -------------------------------
(***************************************************************************)
(* The cached profile of one user: features/feature_store.py, which keeps  *)
(* it in Redis under a TTL, features/profile_builder.py, which computes it *)
(* from the stored events, and models/online_updater.py, which moves it by *)
(* each new feature vector.  Builders and updaters run in any number of    *)
(* processes; a get and the set that follows it are two commands, so other *)
(* processes and the expiry of the entry come in between.                  *)
(*                                                                         *)
(* One metric is modelled, with its mean and its standard deviation;       *)
(* features are updated independently of each other but for the deviation  *)
(* an update of the mean looks up.  Values are integers in units of        *)
(* 1/Scale, so that MaxUpdates updates with alpha = 1/Rate are exact.      *)
(***************************************************************************)
EXTENDS Integers, Sequences

CONSTANTS
    Builders,     \* processes that build a profile and cache it
    Updaters,     \* processes that call update_baseline
    Means, Stds,  \* the metric's mean and deviation in a feature vector
    Rate,         \* 1 / alpha (20)
    Scale,        \* units a feature value of 1 is divided into
    MaxBuilds,    \* bound: profiles cached
    MaxUpdates,   \* bound: updates written
    Missing       \* no profile

ASSUME RateAssumption   == Rate \in Nat \ {0}
ASSUME ScaleAssumption  == Scale \in Nat \ {0} /\ Scale % (2 * Rate ^ MaxUpdates) = 0
ASSUME ValuesAssumption == Means \subseteq Int /\ Stds \subseteq Nat
ASSUME BoundsAssumption == MaxBuilds \in Nat /\ MaxUpdates \in Nat

VARIABLES
    cached,    \* Profile or Missing: the Redis entry
    built,     \* [Builders -> Vector or Missing]: a profile built, not yet cached
    loaded,    \* [Updaters -> [profile, vec, after] or Missing]: what update_baseline works on
    builds,    \* 0..MaxBuilds: profiles cached
    updates,   \* 0..MaxUpdates: updates written, numbered in this order
    seen,      \* history: the means profiles were built with and vectors brought
    finished,  \* history: [builds -> the updates written since it was cached]
    begun      \* history: Seq(Nat): for each update, how many had been written
               \* when its copy of the profile was loaded

vars == <<cached, built, loaded, builds, updates, seen, finished, begun>>

\* Feature values: compute_aggregates yields the mean before the deviation.
Vector == [mean : {m * Scale : m \in Means}, std : {s * Scale : s \in Stds}]

Abs(x) == IF x < 0 THEN -x ELSE x

-----------------------------------------------------------------------------
(* update_baseline, on the features of a profile.                          *)

\* Mutant: the error is applied with the wrong sign, away from the value.
Ema_Away(old, new) == ((Rate + 1) * old - new) \div Rate

\* alpha * new + (1 - alpha) * old.
Ema(old, new) == (new + (Rate - 1) * old) \div Rate

\* Mutant: an outlier below the baseline moves it up.
Moved_Unsigned(old, new, sigma) ==
    IF sigma > 0 /\ Abs(new - old) > 5 * sigma
      THEN old + sigma \div 2
      ELSE Ema(old, new)

\* A value further than five deviations away moves the mean by half a deviation.
Moved(old, new, sigma) ==
    IF sigma > 0 /\ Abs(new - old) > 5 * sigma
      THEN old + (IF new >= old THEN sigma \div 2 ELSE -(sigma \div 2))
      ELSE Ema(old, new)

\* The loop looks sigma up among the values it is updating; the mean comes
\* first, and the deviation has no deviation of its own.
Updated(p, vec) ==
    [mean |-> Moved(p.mean, vec.mean, p.std), std |-> Moved(p.std, vec.std, 0),
     from |-> p.from, with |-> p.with]

-----------------------------------------------------------------------------
\* from: the build the profile goes back to; with: the updates it carries.
Profile == [mean : Int, std : Nat, from : 1 .. builds, with : SUBSET (1 .. updates)]

\* after: how many updates had been written when the profile was loaded.
Copy == [profile : Profile, vec : Vector, after : 0 .. updates]

TypeOK ==
    /\ cached \in Profile \cup {Missing}
    /\ built \in [Builders -> Vector \cup {Missing}]
    /\ loaded \in [Updaters -> Copy \cup {Missing}]
    /\ builds \in 0 .. MaxBuilds
    /\ updates \in 0 .. MaxUpdates
    /\ seen \subseteq {v.mean : v \in Vector}
    /\ finished \in [1 .. builds -> SUBSET (1 .. updates)]
    /\ begun \in [1 .. updates -> 0 .. updates]

Init ==
    /\ cached = Missing
    /\ built = [b \in Builders |-> Missing]
    /\ loaded = [u \in Updaters |-> Missing]
    /\ builds = 0
    /\ updates = 0
    /\ seen = {}
    /\ finished = <<>>
    /\ begun = <<>>

\* build_user_profile: the features of the user's stored events.
Build(b) ==
    /\ built[b] = Missing
    /\ \E vec \in Vector : built' = [built EXCEPT ![b] = vec]
    /\ UNCHANGED <<cached, loaded, builds, updates, seen, finished, begun>>

\* set_profile with what was built.
Cache(b) ==
    /\ built[b] # Missing
    /\ builds < MaxBuilds
    /\ builds' = builds + 1
    /\ cached' = [mean |-> built[b].mean, std |-> built[b].std,
                  from |-> builds + 1, with |-> {}]
    /\ built' = [built EXCEPT ![b] = Missing]
    /\ seen' = seen \cup {built[b].mean}
    /\ finished' = [n \in 1 .. builds + 1 |-> IF n <= builds THEN finished[n] ELSE {}]
    /\ UNCHANGED <<loaded, updates, begun>>

\* Redis drops the entry when its TTL runs out.
Expire ==
    /\ cached # Missing
    /\ cached' = Missing
    /\ UNCHANGED <<built, loaded, builds, updates, seen, finished, begun>>

\* update_baseline's get_profile; on a miss it raises and changes nothing.
Load(u, vec) ==
    /\ loaded[u] = Missing
    /\ cached # Missing
    /\ loaded' = [loaded EXCEPT ![u] = [profile |-> cached, vec |-> vec,
                                          after |-> updates]]
    /\ UNCHANGED <<cached, built, builds, updates, seen, finished, begun>>

\* Mutant: the vector is applied to the profile, but the update is not carried
\* into the features that are written back.
Store_Unchanged(u) ==
    /\ loaded[u] # Missing
    /\ updates < MaxUpdates
    /\ updates' = updates + 1
    /\ cached' = loaded[u].profile
    /\ finished' = [n \in 1 .. builds |-> finished[n] \cup {updates + 1}]
    /\ begun' = Append(begun, loaded[u].after)
    /\ seen' = seen \cup {loaded[u].vec.mean}
    /\ loaded' = [loaded EXCEPT ![u] = Missing]
    /\ UNCHANGED <<built, builds>>

\* Its set_profile: the entry becomes the updated copy of what was loaded.
Store(u) ==
    /\ loaded[u] # Missing
    /\ updates < MaxUpdates
    /\ updates' = updates + 1
    /\ cached' = [Updated(loaded[u].profile, loaded[u].vec) EXCEPT
                    !.with = @ \cup {updates + 1}]
    /\ finished' = [n \in 1 .. builds |-> finished[n] \cup {updates + 1}]
    /\ begun' = Append(begun, loaded[u].after)
    /\ seen' = seen \cup {loaded[u].vec.mean}
    /\ loaded' = [loaded EXCEPT ![u] = Missing]
    /\ UNCHANGED <<built, builds>>

\* An error of Redis, or the death of the process, between get and set.
GiveUp(u) ==
    /\ loaded[u] # Missing
    /\ loaded' = [loaded EXCEPT ![u] = Missing]
    /\ UNCHANGED <<cached, built, builds, updates, seen, finished, begun>>

Next ==
    \/ \E b \in Builders : Build(b) \/ Cache(b)
    \/ \E u \in Updaters : Store(u) \/ GiveUp(u) \/ \E vec \in Vector : Load(u, vec)
    \/ Expire

Spec == Init /\ [][Next]_vars

-----------------------------------------------------------------------------
(* Properties.                                                             *)

\* However updates race with each other, with rebuilds and with the expiry of
\* the entry, and however they are capped (lines 64-66), the baseline stays
\* within what was observed: an outlier never throws it beyond the outlier.
StaysWithinObserved ==
    cached # Missing =>
        \E lo, hi \in seen : lo <= cached.mean /\ cached.mean <= hi

\* Of the updates written since the build it goes back to, the entry lacks only
\* such as were overwritten by an update already under way: an update that is
\* over when the next one begins is never lost, whatever is rebuilt or expires.
LostOnlyToOverlap ==
    cached # Missing =>
        \A n \in finished[cached.from] \ cached.with :
            \E m \in cached.with : begun[m] < n /\ n < m
=============================================================================
