------------------------------- MODULE Profiles ------------------------------
(***************************************************************************)
(* From stored events to a user's profile: the rows write_batch inserts    *)
(* (EventStore), what PROFILE_SQL and _coerce_event make of them, and the  *)
(* aggregates of features/rolling_aggregates.py.  Writers go on while      *)
(* profiles are built; a build reads the rows in one query.                *)
(*                                                                         *)
(* The table is external, as README.md:159-167 creates it: the columns the *)
(* INSERT does not name may be NULL, and then are.                         *)
(* Times are in hours.  A mean and a standard deviation are given by the   *)
(* count of the values, their total, and the square of count times the     *)
(* deviation.  Addresses are scrubbed one-to-one, so only whether there is *)
(* one, and how many, is kept.                                             *)
(***************************************************************************)
EXTENDS EventStore, Integers, FiniteSets, SequencesExt

CONSTANTS
    TimeOf,      \* [Events -> Int]: timestamp
    BytesOf,     \* [Events -> Nat \cup {Null}]: bytes_out
    Null,        \* None, and SQL's NULL
    BuildTimes,  \* when profiles are built
    WindowHours, \* the windows of WINDOWS, shortest first (1, 24, 168)
    ProfileHours \* window_days, in hours

ASSUME EventsAssumption == IsFiniteSet(Events)
ASSUME TimesAssumption ==
    /\ BuildTimes \subseteq Int /\ TimeOf \in [Events -> Int]
    /\ ProfileHours \in Nat \ {0}
ASSUME BytesAssumption == Null \notin Nat /\ BytesOf \in [Events -> Nat \cup {Null}]
ASSUME WindowsAssumption ==
    /\ WindowHours \in Seq(Nat \ {0}) /\ WindowHours # <<>>
    /\ \A i \in 2 .. Len(WindowHours) : WindowHours[i - 1] < WindowHours[i]

VARIABLE
    profile  \* the last profile built, or Null

profileVars == <<vars, profile>>

-----------------------------------------------------------------------------
(* What comes back from the table.                                         *)

\* The columns INSERT_SQL names, and NULL for the others PROFILE_SQL selects.
Row(e) == [time |-> TimeOf[e], bytes |-> Null, ip |-> Null]

\* Every copy of these events, when the table holds that many of each.
Copies(count, E) == UNION {{<<e, i>> : i \in 1 .. count[e]} : e \in E}

\* PROFILE_SQL, _coerce_event and scrub: the user's rows since then; every row holds an
\* event type that validates.  No aggregate depends on the order they come in.
Fetched(since) == Copies(rows, {e \in Events : TimeOf[e] >= since})

-----------------------------------------------------------------------------
(* compute_aggregates.                                                     *)

Total(value) == FoldFunction(+, 0, value)

\* _stats, of the values of these rows.
Stats(value) ==
    [count  |-> Cardinality(DOMAIN value),
     total  |-> Total(value),
     spread |-> Cardinality(DOMAIN value) * Total([c \in DOMAIN value |-> value[c] * value[c]])
                  - Total(value) * Total(value)]

Times(evs) == {Row(c[1]).time : c \in evs}

\* Mutant: a window ends when the profile is built.
ReferenceTime_Build(evs, now) == now

\* Mutant: the rows are taken to come newest first, and they come oldest first.
ReferenceTime_First(evs, now) == Min(Times(evs))

\* The newest event, whenever the profile is built.
ReferenceTime(evs, now) == Max(Times(evs))

\* The metrics of one window.
Metrics(evs) ==
    LET withBytes == {c \in evs : Row(c[1]).bytes # Null}
        ips == {Row(c[1]).ip : c \in evs} \ {Null}
    IN  [login_hour      |-> Stats([c \in evs |-> Row(c[1]).time % 24]),
         bytes_out       |-> Stats([c \in withBytes |-> Row(c[1]).bytes]),
         unique_ip_count |-> Cardinality(ips)]

\* The events of the k-th window, which ends with the newest event.
InWindow(k, evs, now) ==
    LET last == ReferenceTime(evs, now)
    IN  {c \in evs : last - WindowHours[k] <= Row(c[1]).time /\ Row(c[1]).time <= last}

\* Without events all metrics are zero.
Aggregates(evs, now) ==
    [k \in 1 .. Len(WindowHours) |->
        IF evs = {} THEN Metrics({}) ELSE Metrics(InWindow(k, evs, now))]

\* build_user_profile at that time.
Features(now) == Aggregates(Fetched(now - ProfileHours), now)

\* What is stored at the moment is kept as history.
BuildProfile(now) ==
    /\ profile' = [features |-> Features(now), at |-> now,
                   stored |-> [e \in Events |-> returned[e] + doubtful[e]]]
    /\ UNCHANGED vars

ProfilesInit == Init /\ profile = Null

ProfilesNext ==
    \/ Next /\ UNCHANGED profile
    \/ \E now \in BuildTimes : BuildProfile(now)

ProfilesSpec == ProfilesInit /\ [][ProfilesNext]_profileVars

\* A call of write_batch in progress keeps running.
FairProfilesSpec == ProfilesSpec /\ \A w \in Writers : WF_profileVars(Progress(w) /\ UNCHANGED profile)

-----------------------------------------------------------------------------
(* Properties.                                                             *)

\* How many rows the writers know, or cannot know, to be there, of events dated
\* from lo to hi.
StoredBetween(stored, lo, hi) ==
    Cardinality(Copies(stored, {e \in Events : lo <= TimeOf[e] /\ TimeOf[e] <= hi}))

\* Unless an event is dated after the build, which moves all windows, every stored
\* event of the last hour, day or week counts in that window, as often as it has
\* been stored; and nothing counts that is older than the profile's days, or that no
\* writer has sent.
RecentEventsCounted ==
    profile # Null =>
        \A k \in 1 .. Len(WindowHours) :
            LET count == profile.features[k].login_hour.count
                Dated(lo, hi) == StoredBetween(profile.stored, lo, hi)
                latest == Max({TimeOf[e] : e \in Events} \cup {profile.at})
                misdated == Dated(profile.at + 1, latest)
            IN  /\ (misdated = 0 /\ WindowHours[k] <= ProfileHours) =>
                      count >= Dated(profile.at - WindowHours[k], profile.at)
                /\ count <= Dated(profile.at - ProfileHours, latest)

\* The profile of a user nothing more is stored of stays what it is, down to its
\* last hour, until events of its longest window grow older than the profile's days.
IdleProfileStands ==
    \A early, late \in BuildTimes :
        LET evs  == Fetched(early - ProfileHours)
            from == Max(Times(evs)) - Last(WindowHours)
        IN  early < late /\ evs # {} /\ from >= late - ProfileHours
                => Features(early) = Features(late)

\* README.md:58: "Rolling aggregates (event counts, byte volumes, session stats) over
\* configurable time windows from TimescaleDB": byte volumes that were written with
\* the newest event show in the profile.
ByteVolumesProfiled ==
    profile # Null =>
        \A e \in Events :
            /\ profile.stored[e] > 0 /\ BytesOf[e] # Null
            /\ profile.at - ProfileHours <= TimeOf[e]
            /\ \A d \in Events : profile.stored[d] = 0 \/ TimeOf[d] <= TimeOf[e]
            => profile.features[1].bytes_out.count > 0
=============================================================================
