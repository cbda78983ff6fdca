--------------------------- MODULE AlertDispatcher ---------------------------
(***************************************************************************)
(* alerts/dispatcher.py: dispatch(alert), called by any number of          *)
(* processes.  A call makes at most MaxAttempts attempts to deliver, sleeps *)
(* between them, and after the last failure appends the alert to the       *)
(* dead-letter file.  Only the console signal of a critical alert can      *)
(* raise: logging handlers swallow their own errors.  A dead-letter write  *)
(* that raises (a full disk, an unreadable setting) raises out of          *)
(* dispatch, and so does KeyboardInterrupt, which is no Exception; the     *)
(* caller is outside dispatch again at once.                               *)
(*                                                                         *)
(* The dead-letter file is one file for all processes, appended to with    *)
(* open("a"); a failed or interrupted write may leave the first bytes of a *)
(* record behind, and the next record then continues that line.            *)
(***************************************************************************)
EXTENDS Integers, FiniteSets

CONSTANTS
    Workers,      \* processes that call dispatch
    Alerts,       \* alerts, told apart by what they report (alert_id is drawn per call)
    Scores,       \* scores alerts are built from, in hundredths
    MaxAttempts,  \* max_attempts (3)
    MaxCalls,     \* bound: dispatch calls per alert
    NoAlert       \* what a worker outside dispatch holds

ASSUME ScoresAssumption      == Scores \subseteq Int
ASSUME MaxAttemptsAssumption == MaxAttempts \in Nat \ {0}
ASSUME MaxCallsAssumption    == MaxCalls \in Nat
ASSUME NoAlertAssumption     == NoAlert \notin Alerts

VARIABLES
    severity,     \* [Alerts -> Severity]
    at,           \* [Workers -> Place]: where each worker is in dispatch
    alert,        \* [Workers -> Alerts \cup {NoAlert}]: the argument of its call
    attempt,      \* [Workers -> 0..MaxAttempts]
    calls,        \* [Alerts -> 0..MaxCalls]: calls begun
    logged,       \* [Alerts -> Nat]: "alert_dispatched" lines
    signalled,    \* [Alerts -> Nat]: console signals
    recorded,     \* [Alerts -> Nat]: dead-letter records written completely
    tail,         \* "whole" or "torn": the last line of the dead-letter file
    readable      \* SUBSET Alerts: dead letters a reader of the file can parse

channels == <<logged, signalled>>
deadLetters == <<recorded, tail, readable>>
vars == <<severity, at, alert, attempt, calls, channels, deadLetters>>

-----------------------------------------------------------------------------
(* alert_builder.py.                                                       *)

Severity == {"critical", "high", "medium", "low"}

SeverityFromScore(s) ==
    CASE s > 80 -> "critical"
      [] s > 60 /\ s <= 80 -> "high"
      [] s > 40 /\ s <= 60 -> "medium"
      [] s <= 40 -> "low"

-----------------------------------------------------------------------------
Place == {"idle", "delivering", "signalling", "backoff", "writing", "returned"}

InDispatch(w) == at[w] \in {"delivering", "signalling", "backoff", "writing"}

TypeOK ==
    /\ severity \in [Alerts -> Severity]
    /\ at \in [Workers -> Place]
    /\ alert \in [Workers -> Alerts \cup {NoAlert}]
    /\ attempt \in [Workers -> 0 .. MaxAttempts]
    /\ calls \in [Alerts -> 0 .. MaxCalls]
    /\ logged \in [Alerts -> Nat]
    /\ signalled \in [Alerts -> Nat]
    /\ recorded \in [Alerts -> Nat]
    /\ tail \in {"whole", "torn"}
    /\ readable \in SUBSET Alerts

Init ==
    /\ severity \in [Alerts -> {SeverityFromScore(s) : s \in Scores}]
    /\ at = [w \in Workers |-> "idle"]
    /\ alert = [w \in Workers |-> NoAlert]
    /\ attempt = [w \in Workers |-> 0]
    /\ calls = [a \in Alerts |-> 0]
    /\ logged = [a \in Alerts |-> 0]
    /\ signalled = [a \in Alerts |-> 0]
    /\ recorded = [a \in Alerts |-> 0]
    /\ tail = "whole"
    /\ readable = {}

Dispatch(w, a) ==
    /\ at[w] = "idle"
    /\ calls[a] < MaxCalls
    /\ at' = [at EXCEPT ![w] = "delivering"]
    /\ alert' = [alert EXCEPT ![w] = a]
    /\ attempt' = [attempt EXCEPT ![w] = 1]
    /\ calls' = [calls EXCEPT ![a] = @ + 1]
    /\ UNCHANGED <<severity, channels, deadLetters>>

\* _deliver writes its log line first, whatever the severity; only a critical
\* alert goes on to the console.
LogLine(w) ==
    /\ at[w] = "delivering"
    /\ logged' = [logged EXCEPT ![alert[w]] = @ + 1]
    /\ at' = [at EXCEPT ![w] = IF severity[alert[w]] = "critical" THEN "signalling"
                                                                  ELSE "returned"]
    /\ UNCHANGED <<severity, alert, attempt, calls, signalled, deadLetters>>

Signal(w) ==
    /\ at[w] = "signalling"
    /\ signalled' = [signalled EXCEPT ![alert[w]] = @ + 1]
    /\ at' = [at EXCEPT ![w] = "returned"]
    /\ UNCHANGED <<severity, alert, attempt, calls, logged, deadLetters>>

\* Mutant: the last failed attempt is only logged.
SignalRaises_NoDeadLetter(w) ==
    /\ at[w] = "signalling"
    /\ at' = [at EXCEPT ![w] = IF attempt[w] = MaxAttempts THEN "returned" ELSE "backoff"]
    /\ signalled' \in {signalled, [signalled EXCEPT ![alert[w]] = @ + 1]}
    /\ UNCHANGED <<severity, alert, attempt, calls, logged, deadLetters>>

\* Mutant: the last attempt is tested for with ">" and never recognised.
SignalRaises_OnePastLast(w) ==
    /\ at[w] = "signalling"
    /\ at' = [at EXCEPT ![w] = IF attempt[w] > MaxAttempts THEN "writing" ELSE "backoff"]
    /\ signalled' \in {signalled, [signalled EXCEPT ![alert[w]] = @ + 1]}
    /\ UNCHANGED <<severity, alert, attempt, calls, logged, deadLetters>>

\* Mutant: the alert is dead-lettered one attempt early.
SignalRaises_OneShort(w) ==
    /\ at[w] = "signalling"
    /\ at' = [at EXCEPT ![w] = IF attempt[w] = MaxAttempts - 1 THEN "writing" ELSE "backoff"]
    /\ signalled' \in {signalled, [signalled EXCEPT ![alert[w]] = @ + 1]}
    /\ UNCHANGED <<severity, alert, attempt, calls, logged, deadLetters>>

\* print raises, before or after its text has reached the console.
SignalRaises(w) ==
    /\ at[w] = "signalling"
    /\ at' = [at EXCEPT ![w] = IF attempt[w] = MaxAttempts THEN "writing" ELSE "backoff"]
    /\ signalled' \in {signalled, [signalled EXCEPT ![alert[w]] = @ + 1]}
    /\ UNCHANGED <<severity, alert, attempt, calls, logged, deadLetters>>

\* The sleep between attempts ends.
Retry(w) ==
    /\ at[w] = "backoff"
    /\ at' = [at EXCEPT ![w] = "delivering"]
    /\ attempt' = [attempt EXCEPT ![w] = @ + 1]
    /\ UNCHANGED <<severity, alert, calls, channels, deadLetters>>

\* Mutant: writers take turns by a lock that a call cut off in its write never
\* gives back.
WriteDeadLetter_Locked(w) ==
    /\ at[w] = "writing"
    /\ tail = "whole"
    /\ recorded' = [recorded EXCEPT ![alert[w]] = @ + 1]
    /\ readable' = readable \cup {alert[w]}
    /\ at' = [at EXCEPT ![w] = "returned"]
    /\ UNCHANGED <<severity, alert, attempt, calls, channels, tail>>

\* Mutant: a record behind a torn line leaves the file without a final newline.
WriteDeadLetter_NoNewline(w) ==
    /\ at[w] = "writing"
    /\ recorded' = [recorded EXCEPT ![alert[w]] = @ + 1]
    /\ readable' = IF tail = "torn" THEN readable ELSE readable \cup {alert[w]}
    /\ at' = [at EXCEPT ![w] = "returned"]
    /\ UNCHANGED <<severity, alert, attempt, calls, channels, tail>>

\* The record is appended with its newline; after a torn line it is part of
\* that line, which is then complete but no JSON.
WriteDeadLetter(w) ==
    /\ at[w] = "writing"
    /\ recorded' = [recorded EXCEPT ![alert[w]] = @ + 1]
    /\ readable' = IF tail = "torn" THEN readable ELSE readable \cup {alert[w]}
    /\ tail' = "whole"
    /\ at' = [at EXCEPT ![w] = "returned"]
    /\ UNCHANGED <<severity, alert, attempt, calls, channels>>

Forget(w) ==
    /\ at' = [at EXCEPT ![w] = "idle"]
    /\ alert' = [alert EXCEPT ![w] = NoAlert]
    /\ attempt' = [attempt EXCEPT ![w] = 0]

\* A call is cut off; inside the write, the first bytes of a record may remain.
Abandon(w) ==
    /\ at[w] # "idle"
    /\ Forget(w)
    /\ tail' \in IF at[w] = "writing" THEN {tail, "torn"} ELSE {tail}
    /\ UNCHANGED <<severity, calls, channels, recorded, readable>>

\* An error of the dead-letter write raises out of dispatch.
WriteRaises(w) ==
    /\ at[w] = "writing"
    /\ Abandon(w)

\* The caller goes on after dispatch has returned.
Leave(w) ==
    /\ at[w] = "returned"
    /\ Forget(w)
    /\ UNCHANGED <<severity, calls, channels, deadLetters>>

\* The call makes a step of its own; the dead-letter write succeeds.
Deliver(w) ==
    \/ LogLine(w) \/ Signal(w) \/ SignalRaises(w)
    \/ Retry(w) \/ WriteDeadLetter(w)

Next ==
    \E w \in Workers :
        \/ \E a \in Alerts : Dispatch(w, a)
        \/ Deliver(w) \/ WriteRaises(w) \/ Leave(w)
        \/ Abandon(w)    \* KeyboardInterrupt or the death of the process

Spec == Init /\ [][Next]_vars

\* A call in progress keeps running; nothing obliges a caller to make one.
Fairness == \A w \in Workers : WF_vars(Deliver(w))

FairSpec == Spec /\ Fairness

-----------------------------------------------------------------------------
(* Properties.                                                             *)

\* The alert has reached an analyst's channel, or the file kept for replay.
Reached(a) ==
    \/ recorded[a] > 0
    \/ IF severity[a] = "critical" THEN signalled[a] > 0 ELSE logged[a] > 0

\* A call that returns has not lost its alert: however many of its attempts
\* failed, the alert is in its channel or in the dead-letter file.
ReturnedMeansReached ==
    \A w \in Workers : at[w] = "returned" => Reached(alert[w])

\* Retries do not flood a channel: a call writes at most MaxAttempts lines and
\* one dead letter, so repeated alerts stay in proportion to the calls made.
RetriesBounded ==
    \A a \in Alerts :
        /\ logged[a] <= MaxAttempts * calls[a]
        /\ signalled[a] <= logged[a]
        /\ recorded[a] <= calls[a]
        /\ recorded[a] > 0 => logged[a] >= MaxAttempts

\* r counts something of each alert: one element for each time it counts.
Times(r) == {t \in Alerts \X (1 .. MaxCalls) : t[2] <= r[t[1]]}

\* dispatcher.py:18 persists alerts "so they can be reprocessed": a call cut off in
\* its write spoils, besides its own record, at most the one written next, so the
\* alerts that cannot be read back are no more than the calls that recorded none.
UnreadableNeedCuts ==
    Cardinality({a \in Alerts : recorded[a] > 0 /\ a \notin readable})
        <= Cardinality(Times(calls)) - Cardinality(Times(recorded))

\* Every call that is not cut off ends.
CallsEnd == \A w \in Workers : InDispatch(w) ~> ~InDispatch(w)
=============================================================================
