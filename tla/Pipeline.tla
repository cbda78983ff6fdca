------------------------------- MODULE Pipeline ------------------------------
(***************************************************************************)
(* The consumer group with alerting behind it: process_event scores the    *)
(* event, and when the score is over the threshold it builds an alert and  *)
(* dispatches it, inside the loop that will then commit the event.         *)
(* consume_loop takes process_event as a parameter; the only one in the    *)
(* repository prints the event (README.md:181).  The order score,          *)
(* build_alert, dispatch is that of the architecture in README.md:28-47.   *)
(*                                                                         *)
(* An event that is redelivered is scored and dispatched again under a     *)
(* fresh alert_id; here an alert is identified with the event it reports.  *)
(***************************************************************************)
EXTENDS KafkaConsumer, FiniteSets

CONSTANTS
    Scores,       \* scores alerts are built from, in hundredths
    MaxAttempts,  \* max_attempts (3)
    MaxCalls      \* bound: dispatch calls per alert

ASSUME PipelineAssumption ==
    Scores \subseteq Int /\ MaxAttempts \in Nat \ {0} /\ MaxCalls \in Nat
ASSUME PartitionsAssumption == IsFiniteSet(Partitions)

VARIABLES
    quiet,        \* SUBSET Messages: events that score at or below the threshold
    severity, at, alert, attempt, calls,              \* alerts/dispatcher.py
    logged, signalled, recorded, tail, readable

D == INSTANCE AlertDispatcher WITH
    Workers <- Consumers, Alerts <- Messages, NoAlert <- NoMessage

alerting == <<severity, at, alert, attempt, calls, logged, signalled, recorded,
              tail, readable>>
pipelineVars == <<vars, quiet, alerting>>

PipelineInit ==
    /\ Init
    /\ D!Init
    /\ quiet \in SUBSET Messages

\* Everything the loop, the group and the broker do outside process_event.
GroupStep(c) ==
    /\ \/ Start(c) \/ SessionExpires(c) \/ PollIntervalExpires(c)
       \/ \E p \in Partitions : Assign(c, p) \/ Revoke(c, p) \/ Poll(c, p)
       \/ Discard(c)
       \/ Commit(c) \/ CommitFenced(c) \/ CommitRaises(c)
    /\ UNCHANGED <<quiet, alerting>>

\* The score stays at or below the threshold: process_event returns.
QuietReturns(c) ==
    /\ cur[c] \in quiet
    /\ ProcessReturns(c)
    /\ UNCHANGED <<quiet, alerting>>

\* The score is over the threshold: an alert is built and dispatched.
RaiseAlert(c) ==
    /\ pc[c] = "received"
    /\ IsEvent(Current(c))
    /\ cur[c] \notin quiet
    /\ D!Dispatch(c, cur[c])
    /\ UNCHANGED <<vars, quiet>>

\* process_event fails before it dispatches.
ScoringRaises(c) ==
    /\ at[c] = "idle"
    /\ ProcessRaises(c)
    /\ UNCHANGED <<quiet, alerting>>

DispatchStep(c) ==
    /\ D!Deliver(c)
    /\ UNCHANGED <<vars, quiet>>

\* dispatch returned, so process_event does.
AlertReturns(c) ==
    /\ D!Leave(c)
    /\ ProcessReturns(c)
    /\ UNCHANGED quiet

\* The exception of the dead-letter write passes through process_event.
AlertRaises(c) ==
    /\ D!WriteRaises(c)
    /\ ProcessRaises(c)
    /\ UNCHANGED quiet

\* KeyboardInterrupt or the death of the process, inside dispatch or not.
Stops(c) ==
    /\ Interrupt(c) \/ Crash(c)
    /\ IF at[c] = "idle" THEN UNCHANGED alerting ELSE D!Abandon(c)
    /\ UNCHANGED quiet

PipelineNext ==
    \E c \in Consumers :
        \/ GroupStep(c) \/ QuietReturns(c)
        \/ RaiseAlert(c) \/ ScoringRaises(c) \/ DispatchStep(c)
        \/ AlertReturns(c) \/ AlertRaises(c) \/ Stops(c)

PipelineSpec == PipelineInit /\ [][PipelineNext]_pipelineVars

\* As in KafkaConsumer, with process_event's steps in place of its return.
PipelineFairness ==
    \A c \in Consumers :
        /\ WF_pipelineVars(Start(c) /\ GroupStep(c))
        /\ WF_pipelineVars(SessionExpires(c) /\ GroupStep(c))
        /\ WF_pipelineVars(Discard(c) /\ GroupStep(c))
        /\ WF_pipelineVars(Commit(c) /\ GroupStep(c))
        /\ WF_pipelineVars(CommitFenced(c) /\ GroupStep(c))
        /\ \A p \in Partitions :
              /\ WF_pipelineVars(Assign(c, p) /\ GroupStep(c))
              /\ WF_pipelineVars(Poll(c, p) /\ GroupStep(c))
        /\ WF_pipelineVars(QuietReturns(c) \/ RaiseAlert(c))
        /\ WF_pipelineVars(DispatchStep(c) \/ AlertReturns(c))

PipelineFairSpec == PipelineSpec /\ PipelineFairness

-----------------------------------------------------------------------------
(* Properties.                                                             *)

Alarming(p) == {o \in EventsIn(p) : <<p, o>> \notin quiet}

\* The offset of an alarming event is committed only when its alert is in an
\* analyst's channel or in the dead-letter file: neither failed deliveries nor
\* failed dead-letter writes, crashes or rebalances in between lose it.
CommittedAlertsReached ==
    \A p \in Partitions :
        \A o \in Alarming(p) : o < committed[p] => D!Reached(<<p, o>>)

\* Redelivery repeats alerts in proportion to what went wrong: each failure,
\* eviction or crash makes at most one alert be dispatched once more.
RepeatsNeedFaults ==
    Cardinality({r \in Messages \X (2 .. MaxCalls) : r[2] <= calls[r[1]]}) <= faults

\* Every alarming event's alert reaches an analyst or the dead-letter file.
EveryAlertReached ==
    <>[](\A p \in Partitions : \A o \in Alarming(p) : D!Reached(<<p, o>>))
=============================================================================
