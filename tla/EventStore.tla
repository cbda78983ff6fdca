------------------------------ MODULE EventStore -----------------------------
(***************************************************************************)
(* storage/timescaledb_writer.py: write_batch, called by any number of     *)
(* tasks with a connection each.                                           *)
(*                                                                         *)
(* The database is external.  executemany inserts all records or none.  An *)
(* error the server reports leaves none; a connection that breaks leaves   *)
(* the caller without knowing which, raises a PostgresError as well, and   *)
(* makes any further use of the connection raise an InterfaceError, which  *)
(* write_batch does not retry.                                             *)
(***************************************************************************)
EXTENDS Naturals

CONSTANTS
    Writers,     \* tasks that call write_batch
    Events,      \* normalized events
    MaxAttempts, \* attempts of one call (3)
    MaxCalls,    \* bound: calls of write_batch
    MaxFaults    \* bound: server errors, broken connections, cancellations

ASSUME MaxAttemptsAssumption == MaxAttempts \in Nat \ {0}
ASSUME BoundsAssumption      == MaxCalls \in Nat /\ MaxFaults \in Nat

VARIABLES
    rows,      \* [Events -> Nat]: rows of security_events for each event
    at,        \* [Writers -> {"idle", "sending", "sleeping"}]
    batch,     \* [Writers -> SUBSET Events]: the argument of the call
    attempt,   \* [Writers -> 0..MaxAttempts - 1]: failed attempts of the call
    broken,    \* SUBSET Writers: those whose connection is closed
    returned,  \* history, [Events -> Nat]: calls that returned
    doubtful,  \* history, [Events -> Nat]: inserts whose outcome nobody was told
    calls,     \* 0..MaxCalls
    faults     \* 0..MaxFaults

vars == <<rows, at, batch, attempt, broken, returned, doubtful, calls, faults>>

\* count, one higher for every event of B.
Bumped(count, B) == [e \in Events |-> IF e \in B THEN count[e] + 1 ELSE count[e]]

TypeOK ==
    /\ rows \in [Events -> Nat]
    /\ at \in [Writers -> {"idle", "sending", "sleeping"}]
    /\ batch \in [Writers -> SUBSET Events]
    /\ attempt \in [Writers -> 0 .. MaxAttempts - 1]
    /\ broken \subseteq Writers
    /\ returned \in [Events -> Nat]
    /\ doubtful \in [Events -> Nat]
    /\ calls \in 0 .. MaxCalls
    /\ faults \in 0 .. MaxFaults

Init ==
    /\ rows = [e \in Events |-> 0]
    /\ at = [w \in Writers |-> "idle"]
    /\ batch = [w \in Writers |-> {}]
    /\ attempt = [w \in Writers |-> 0]
    /\ broken = {}
    /\ returned = [e \in Events |-> 0]
    /\ doubtful = [e \in Events |-> 0]
    /\ calls = 0
    /\ faults = 0

Fault ==
    /\ faults < MaxFaults
    /\ faults' = faults + 1

\* A call of write_batch, on a fresh connection; an empty batch returns at once.
Call(w, B) ==
    /\ at[w] = "idle"
    /\ B # {}
    /\ calls < MaxCalls
    /\ calls' = calls + 1
    /\ at' = [at EXCEPT ![w] = "sending"]
    /\ batch' = [batch EXCEPT ![w] = B]
    /\ attempt' = [attempt EXCEPT ![w] = 0]
    /\ broken' = broken \ {w}
    /\ UNCHANGED <<rows, returned, doubtful, faults>>

Finish(w) ==
    /\ at' = [at EXCEPT ![w] = "idle"]
    /\ batch' = [batch EXCEPT ![w] = {}]
    /\ attempt' = [attempt EXCEPT ![w] = 0]

\* executemany succeeds and write_batch returns.
Insert(w) ==
    /\ at[w] = "sending"
    /\ w \notin broken
    /\ rows' = Bumped(rows, batch[w])
    /\ returned' = Bumped(returned, batch[w])
    /\ Finish(w)
    /\ UNCHANGED <<broken, doubtful, calls, faults>>

\* Mutant: the third failure is logged and write_batch returns.
Fail_Swallowed(w) ==
    IF attempt[w] + 1 >= MaxAttempts
      THEN Finish(w) /\ returned' = Bumped(returned, batch[w])
      ELSE /\ attempt' = [attempt EXCEPT ![w] = @ + 1]
           /\ at' = [at EXCEPT ![w] = "sleeping"]
           /\ UNCHANGED <<batch, returned>>

\* A PostgresError: the last one raises, the others are slept on.
Fail(w) ==
    IF attempt[w] + 1 >= MaxAttempts
      THEN Finish(w) /\ UNCHANGED returned
      ELSE /\ attempt' = [attempt EXCEPT ![w] = @ + 1]
           /\ at' = [at EXCEPT ![w] = "sleeping"]
           /\ UNCHANGED <<batch, returned>>

\* The server reports an error, the transaction is rolled back.
ServerError(w) ==
    /\ at[w] = "sending"
    /\ w \notin broken
    /\ Fault
    /\ Fail(w)
    /\ UNCHANGED <<rows, broken, doubtful, calls>>

\* The connection breaks before or after the server has committed.
ConnectionBreaks(w) ==
    /\ at[w] = "sending"
    /\ w \notin broken
    /\ Fault
    /\ broken' = broken \cup {w}
    /\ \/ UNCHANGED <<rows, doubtful>>
       \/ /\ rows' = Bumped(rows, batch[w])
          /\ doubtful' = Bumped(doubtful, batch[w])
    /\ Fail(w)
    /\ UNCHANGED <<calls>>

\* Mutant: every error is slept on, an InterfaceError without being counted.
ClosedRaises_Slept(w) ==
    /\ at[w] = "sending"
    /\ w \in broken
    /\ at' = [at EXCEPT ![w] = "sleeping"]
    /\ UNCHANGED <<rows, batch, attempt, broken, returned, doubtful, calls, faults>>

\* The next attempt on a closed connection raises InterfaceError out of the call.
ClosedRaises(w) ==
    /\ at[w] = "sending"
    /\ w \in broken
    /\ Finish(w)
    /\ UNCHANGED <<rows, broken, returned, doubtful, calls, faults>>

\* The sleep is over.
Retry(w) ==
    /\ at[w] = "sleeping"
    /\ at' = [at EXCEPT ![w] = "sending"]
    /\ UNCHANGED <<rows, batch, attempt, broken, returned, doubtful, calls, faults>>

\* The task is cancelled at one of its awaits; a running insert may still commit.
Cancelled(w) ==
    /\ at[w] # "idle"
    /\ Fault
    /\ \/ UNCHANGED <<rows, doubtful>>
       \/ /\ at[w] = "sending" /\ w \notin broken
          /\ rows' = Bumped(rows, batch[w])
          /\ doubtful' = Bumped(doubtful, batch[w])
    /\ Finish(w)
    /\ UNCHANGED <<broken, returned, calls>>

\* What the call does by itself.
Progress(w) == Insert(w) \/ ClosedRaises(w) \/ Retry(w)

Next ==
    \E w \in Writers :
        \/ \E B \in SUBSET Events : Call(w, B)
        \/ Progress(w)
        \/ ServerError(w) \/ ConnectionBreaks(w) \/ Cancelled(w)

Spec == Init /\ [][Next]_vars

\* A call in progress keeps running.
FairSpec == Spec /\ \A w \in Writers : WF_vars(Progress(w))

-----------------------------------------------------------------------------
(* Properties.                                                             *)

\* A call that returned has stored its events, as often as calls returned;
\* any further row stems from an insert whose outcome the caller was not told,
\* be it by a broken connection or a cancellation.
StoredAsTold ==
    \A e \in Events : rows[e] = returned[e] + doubtful[e]

\* A call ends after bounded attempts, whatever the database does.
CallsEnd == \A w \in Writers : at[w] # "idle" ~> at[w] = "idle"
=============================================================================
