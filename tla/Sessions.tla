------------------------------ MODULE Sessions -------------------------------
(***************************************************************************)
(* features/sequence_builder.py: the token sequences of one user's events. *)
(* build_session_sequences is a function of the list it is given; the list *)
(* grows here by one event at a time, in any order of timestamps, so that  *)
(* properties can compare the sequences before and after.                  *)
(*                                                                         *)
(* An event is its timestamp and its type, in units of a fraction of       *)
(* SESSION_GAP.                                                            *)
(***************************************************************************)
EXTENDS OrderStatistics

CONSTANTS
    Timestamps, \* when events happen
    KnownTypes, \* event types that occur among those the defaults name
    NewTypes,   \* sequence: event types the defaults do not name, sorted
    Gap,        \* SESSION_GAP
    MaxLen,     \* max_len
    MaxEvents   \* bound: events of the list

ASSUME TimestampsAssumption == Timestamps \subseteq Nat
ASSUME TypesAssumption == KnownTypes \subseteq {"auth", "network", "file"}
ASSUME NewTypesAssumption ==
    /\ NewTypes \in Seq(STRING)
    /\ \A i \in 1 .. Len(NewTypes) : NewTypes[i] \notin {"unknown", "auth", "network", "file"}
    /\ \A i, j \in 1 .. Len(NewTypes) : NewTypes[i] = NewTypes[j] => i = j
ASSUME SessionsAssumption == Gap \in Nat /\ MaxLen \in Nat \ {0} /\ MaxEvents \in Nat

VARIABLE events

sessionsVars == <<events>>

PadIndex == 0
BaseEventIndex == [unknown |-> 1, auth |-> 2, network |-> 3, file |-> 4]

\* event_type is what validation lets through, or a type that is not named yet.
Type == KnownTypes \cup ToSet(NewTypes)
Event == [time : Timestamps, type : Type]

-----------------------------------------------------------------------------
(* build_session_sequences.                                                *)

\* The places, among all new types, of those that occur in evs.
Unseen(evs) ==
    {i \in 1 .. Len(NewTypes) : \E k \in 1 .. Len(evs) : evs[k].type = NewTypes[i]}

\* How many types that occur sort up to t.
UpToType(evs, t) == Cardinality({i \in Unseen(evs) : \E j \in i .. Len(NewTypes) : NewTypes[j] = t})

\* Mutant: numbering goes on at the largest default index, not behind it.
EventIndex_Overlaps(evs) ==
    [t \in DOMAIN BaseEventIndex \cup {NewTypes[i] : i \in Unseen(evs)} |->
        IF t \in DOMAIN BaseEventIndex THEN BaseEventIndex[t] ELSE 3 + UpToType(evs, t)]

\* The defaults, and the unseen types numbered on from them.
EventIndex(evs) ==
    [t \in DOMAIN BaseEventIndex \cup {NewTypes[i] : i \in Unseen(evs)} |->
        IF t \in DOMAIN BaseEventIndex THEN BaseEventIndex[t] ELSE 4 + UpToType(evs, t)]

\* Mutant: the events are taken in the order of the list.
Ordered_AsGiven(evs) == evs

\* sorted is stable.
Ordered(evs) ==
    LET order == StableOrder([i \in 1 .. Len(evs) |-> evs[i].time])
    IN  [k \in 1 .. Len(evs) |-> evs[order[k]]]

\* Mutant: the gap is measured from the session's first event.
Extended_FromFirst(acc, e) ==
    IF e.time - acc.last > Gap
      THEN [sessions |-> Append(acc.sessions, acc.current), current |-> <<e>>, last |-> e.time]
      ELSE [acc EXCEPT !.current = Append(@, e)]

\* One turn of the loop (the current session is never empty at a gap): e begins a session, or goes on with the current one.
Extended(acc, e) ==
    IF e.time - acc.last > Gap
      THEN [sessions |-> Append(acc.sessions, acc.current), current |-> <<e>>, last |-> e.time]
      ELSE [acc EXCEPT !.current = Append(@, e), !.last = e.time]

\* The loop: what it has made of the first i events.
Split(ordered) ==
    LET start == [sessions |-> <<>>, current |-> <<>>, last |-> ordered[1].time]
        after[i \in 0 .. Len(ordered)] ==
            IF i = 0 THEN start ELSE Extended(after[i - 1], ordered[i])
        end   == after[Len(ordered)]
    IN  Append(end.sessions, end.current)

\* The sessions, each the sequence of its events.
SessionsOf(evs) == IF evs = <<>> THEN <<>> ELSE Split(Ordered(evs))

\* _pad_or_truncate.
PadOrTruncate(tokens) ==
    [i \in 1 .. MaxLen |-> IF i <= Len(tokens) THEN tokens[i] ELSE PadIndex]

Rows(evs) ==
    LET index    == EventIndex(evs)
        sessions == SessionsOf(evs)
    IN  [k \in 1 .. Len(sessions) |->
            PadOrTruncate([i \in 1 .. Len(sessions[k]) |-> index[sessions[k][i].type]])]

-----------------------------------------------------------------------------
SessionsInit == events = <<>>

\* The list the function is called with next has one event more.
Arrive(e) ==
    /\ Len(events) < MaxEvents
    /\ events' = Append(events, e)

SessionsNext == \E e \in Event : Arrive(e)

SessionsSpec == SessionsInit /\ [][SessionsNext]_sessionsVars

-----------------------------------------------------------------------------
(* Properties.                                                             *)

Apart(x, y) == x + Gap < y \/ y + Gap < x
TimesOf(evs) == {e.time : e \in ToSet(evs)}

\* How often e stands in the sessions.
InSessions(sessions, e) ==
    Cardinality(UNION {{<<k, i>> : i \in {l \in 1 .. Len(sessions[k]) : sessions[k][l] = e}} :
                          k \in 1 .. Len(sessions)})

\* Two events share a session exactly if no gap lies between them: some chain of
\* events leads from one to the other in steps of at most SESSION_GAP.  Each event is
\* in the sessions as often as in the list.
SessionsAreRuns ==
    LET sessions == SessionsOf(events)
        Linked(x, y) ==
            \A t \in TimesOf(events) \cap (x .. y - 1) : TimesOf(events) \cap (t + 1 .. t + Gap) # {}
    IN  /\ \A s \in ToSet(sessions) : \A x, y \in TimesOf(s) : Linked(x, y)
        /\ \A j, k \in 1 .. Len(sessions) :
              j # k => \A x \in TimesOf(sessions[j]), y \in TimesOf(sessions[k]) : Apart(x, y)
        /\ \A e \in ToSet(events) : InSessions(sessions, e) = Cardinality({i \in 1 .. Len(events) : events[i] = e})
        /\ \A s \in ToSet(sessions) : ToSet(s) \subseteq ToSet(events)

\* A row can be read back: its tokens stand for the types of the session's first
\* max_len events, one token per type, and only what follows them is padding, up to
\* the length all rows of the tensor have.
RowsDecodable ==
    LET sessions == SessionsOf(events)
        rows     == Rows(events)
    IN  \A j, k \in 1 .. Len(rows), i, l \in 1 .. MaxLen :
            /\ Len(rows[k]) = MaxLen
            /\ rows[k][i] = PadIndex <=> i > Len(sessions[k])
            /\ (i <= Len(sessions[k]) /\ l <= Len(sessions[j]))
                  => (rows[k][i] = rows[j][l] <=> sessions[k][i].type = sessions[j][l].type)

\* An event that arrives late, or out of order, changes no session that is more
\* than SESSION_GAP away from it.
ArrivalsAreLocal ==
    [][LET new == Last(events')
       IN  \A s \in ToSet(SessionsOf(events)) :
              (\A i \in 1 .. Len(s) : Apart(s[i].time, new.time))
                  => s \in ToSet(SessionsOf(events'))]_sessionsVars
=============================================================================
