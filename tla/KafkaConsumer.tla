---------------------------- MODULE KafkaConsumer ----------------------------
(***************************************************************************)
(* ingest/kafka_consumer.py: the processes of one consumer group, each     *)
(* running consume_loop.  A process polls a message, deserializes and      *)
(* normalizes it, hands the event to process_event and then commits its    *)
(* offset synchronously; a message that yields no event is skipped without *)
(* a commit.  Any exception other than KeyboardInterrupt escapes the loop, *)
(* and both end in consumer.close().                                       *)
(*                                                                         *)
(* The broker and the group coordinator are external; they are modelled    *)
(* from what the loop relies on: a partition is read by one member at a    *)
(* time, from its committed offset on ("auto.offset.reset": "earliest");   *)
(* partitions move between members only inside poll(), or when a member's  *)
(* session or poll interval expires; a commit by a member that lost the    *)
(* partition is refused.                                                   *)
(*                                                                         *)
(* A poll that returns None or an error message leaves every variable as   *)
(* it is (the loop only logs and polls again), hence it is a stuttering    *)
(* step here.                                                              *)
(***************************************************************************)
EXTENDS Integers

CONSTANTS
    Consumers,    \* processes running consume_loop with one KAFKA_GROUP_ID
    Partitions,   \* partitions of KAFKA_TOPIC
    LogEnd,       \* bound: messages per partition
    MaxFaults,    \* bound: failures, interrupts, evictions and rebalances
    Nobody,       \* the owner of an unassigned partition
    NoMessage     \* what a process that is not handling a message holds

Offsets  == 0 .. LogEnd - 1
Messages == Partitions \X Offsets

ASSUME LogEndAssumption    == LogEnd \in Nat
ASSUME MaxFaultsAssumption == MaxFaults \in Nat
ASSUME NobodyAssumption    == Nobody \notin Consumers
ASSUME NoMessageAssumption == NoMessage \notin Messages

VARIABLES
    log,        \* [Partitions -> [Offsets -> Payload]]
    owner,      \* [Partitions -> Consumers \cup {Nobody}]: the group's assignment
    position,   \* [Partitions -> 0..LogEnd]: the owner's next offset to fetch
    committed,  \* [Partitions -> 0..LogEnd]: the group's committed offset
    pc,         \* [Consumers -> Control]: where each process is in consume_loop
    cur,        \* [Consumers -> Messages \cup {NoMessage}]: the loop's `message`
    processed,  \* [Partitions -> SUBSET Offsets]: process_event has returned
    faults      \* 0..MaxFaults: disturbances so far

vars == <<log, owner, position, committed, pc, cur, processed, faults>>

-----------------------------------------------------------------------------
(* Messages.                                                               *)

\* No value or bytes that are not UTF-8 JSON; JSON that normalize rejects; an event.
Payload == {"malformed", "rejected", "event"}

\* _deserialize_message returns a payload, not None.
Deserializes(m) == m # "malformed"

\* normalize returns an event, not None.
Normalizes(m) == m # "rejected"

IsEvent(m) == Deserializes(m) /\ Normalizes(m)

EventsIn(p) == {o \in Offsets : IsEvent(log[p][o])}

Current(c) == log[cur[c][1]][cur[c][2]]

-----------------------------------------------------------------------------
(* Processes.                                                              *)

Control == {"stopped", "polling", "received", "committing"}

TypeOK ==
    /\ log \in [Partitions -> [Offsets -> Payload]]
    /\ owner \in [Partitions -> Consumers \cup {Nobody}]
    /\ position \in [Partitions -> 0 .. LogEnd]
    /\ committed \in [Partitions -> 0 .. LogEnd]
    /\ pc \in [Consumers -> Control]
    /\ cur \in [Consumers -> Messages \cup {NoMessage}]
    /\ processed \in [Partitions -> SUBSET Offsets]
    /\ faults \in 0 .. MaxFaults

Init ==
    /\ log \in [Partitions -> [Offsets -> Payload]]
    /\ owner = [p \in Partitions |-> Nobody]
    /\ position = [p \in Partitions |-> 0]
    /\ committed = [p \in Partitions |-> 0]
    /\ pc = [c \in Consumers |-> "stopped"]
    /\ cur = [c \in Consumers |-> NoMessage]
    /\ processed = [p \in Partitions |-> {}]
    /\ faults = 0

Fault ==
    /\ faults < MaxFaults
    /\ faults' = faults + 1

\* The coordinator takes every partition of c away.
Release(c) ==
    owner' = [p \in Partitions |-> IF owner[p] = c THEN Nobody ELSE owner[p]]

\* finally: consumer.close() leaves the group; nothing is committed on the way out.
Close(c) ==
    /\ Release(c)
    /\ pc' = [pc EXCEPT ![c] = "stopped"]
    /\ cur' = [cur EXCEPT ![c] = NoMessage]

\* A new process joins under a new member id, so a crashed predecessor's
\* partitions must have expired before they can reach it.
Start(c) ==
    /\ pc[c] = "stopped"
    /\ \A p \in Partitions : owner[p] # c
    /\ pc' = [pc EXCEPT ![c] = "polling"]
    /\ UNCHANGED <<log, owner, position, committed, cur, processed, faults>>

\* Mutant: the loop ignores the group's committed offset on assignment.
Assign_FromEarliest(c, p) ==
    /\ pc[c] = "polling"
    /\ owner[p] = Nobody
    /\ owner' = [owner EXCEPT ![p] = c]
    /\ position' = [position EXCEPT ![p] = 0]
    /\ UNCHANGED <<log, committed, pc, cur, processed, faults>>

Assign(c, p) ==
    /\ pc[c] = "polling"
    /\ owner[p] = Nobody
    /\ owner' = [owner EXCEPT ![p] = c]
    /\ position' = [position EXCEPT ![p] = committed[p]]
    /\ UNCHANGED <<log, committed, pc, cur, processed, faults>>

\* A rebalance takes p from a member that is inside poll().
Revoke(c, p) ==
    /\ pc[c] = "polling"
    /\ owner[p] = c
    /\ Fault
    /\ owner' = [owner EXCEPT ![p] = Nobody]
    /\ UNCHANGED <<log, position, committed, pc, cur, processed>>

\* process_event outlasts max.poll.interval.ms: the member is evicted while it works.
PollIntervalExpires(c) ==
    /\ pc[c] \in {"received", "committing"}
    /\ \E p \in Partitions : owner[p] = c
    /\ Fault
    /\ Release(c)
    /\ UNCHANGED <<log, position, committed, pc, cur, processed>>

\* The coordinator notices that a crashed member stopped sending heartbeats.
SessionExpires(c) ==
    /\ pc[c] = "stopped"
    /\ \E p \in Partitions : owner[p] = c
    /\ Release(c)
    /\ UNCHANGED <<log, position, committed, pc, cur, processed, faults>>

\* Mutant: "enable.auto.commit" left on, so polling a message acknowledges it.
Poll_AutoCommit(c, p) ==
    /\ pc[c] = "polling"
    /\ owner[p] = c
    /\ position[p] < LogEnd
    /\ cur' = [cur EXCEPT ![c] = <<p, position[p]>>]
    /\ position' = [position EXCEPT ![p] = @ + 1]
    /\ committed' = [committed EXCEPT ![p] = position[p] + 1]
    /\ pc' = [pc EXCEPT ![c] = "received"]
    /\ UNCHANGED <<log, owner, processed, faults>>

Poll(c, p) ==
    /\ pc[c] = "polling"
    /\ owner[p] = c
    /\ position[p] < LogEnd
    /\ cur' = [cur EXCEPT ![c] = <<p, position[p]>>]
    /\ position' = [position EXCEPT ![p] = @ + 1]
    /\ pc' = [pc EXCEPT ![c] = "received"]
    /\ UNCHANGED <<log, owner, committed, processed, faults>>

\* The message yields no event: `continue`, with no commit.
Discard(c) ==
    /\ pc[c] = "received"
    /\ ~IsEvent(Current(c))
    /\ pc' = [pc EXCEPT ![c] = "polling"]
    /\ cur' = [cur EXCEPT ![c] = NoMessage]
    /\ UNCHANGED <<log, owner, position, committed, processed, faults>>

ProcessReturns(c) ==
    /\ pc[c] = "received"
    /\ IsEvent(Current(c))
    /\ processed' = [processed EXCEPT ![cur[c][1]] = @ \cup {cur[c][2]}]
    /\ pc' = [pc EXCEPT ![c] = "committing"]
    /\ UNCHANGED <<log, owner, position, committed, cur, faults>>

\* Mutant: the loop logs an exception of process_event and goes on polling.
ProcessRaises_Swallowed(c) ==
    /\ pc[c] = "received"
    /\ IsEvent(Current(c))
    /\ Fault
    /\ pc' = [pc EXCEPT ![c] = "polling"]
    /\ cur' = [cur EXCEPT ![c] = NoMessage]
    /\ UNCHANGED <<log, owner, position, committed, processed>>

\* An exception of process_event ends the loop.
ProcessRaises(c) ==
    /\ pc[c] = "received"
    /\ IsEvent(Current(c))
    /\ Fault
    /\ Close(c)
    /\ UNCHANGED <<log, position, committed, processed>>

\* The coordinator records the offset after the message, if c still owns its partition.
RecordCommit(c) ==
    /\ pc[c] = "committing"
    /\ owner[cur[c][1]] = c
    /\ committed' = [committed EXCEPT ![cur[c][1]] = cur[c][2] + 1]

\* Mutant: the offset of the message itself is committed, not the one after it.
Commit_SameOffset(c) ==
    /\ pc[c] = "committing"
    /\ owner[cur[c][1]] = c
    /\ committed' = [committed EXCEPT ![cur[c][1]] = cur[c][2]]
    /\ pc' = [pc EXCEPT ![c] = "polling"]
    /\ cur' = [cur EXCEPT ![c] = NoMessage]
    /\ UNCHANGED <<log, owner, position, processed, faults>>

\* Mutant: the committed offset skips the message after the processed one.
Commit_SkipsNext(c) ==
    /\ pc[c] = "committing"
    /\ owner[cur[c][1]] = c
    /\ committed' = [committed EXCEPT ![cur[c][1]] = cur[c][2] + 2]
    /\ pc' = [pc EXCEPT ![c] = "polling"]
    /\ cur' = [cur EXCEPT ![c] = NoMessage]
    /\ UNCHANGED <<log, owner, position, processed, faults>>

Commit(c) ==
    /\ RecordCommit(c)
    /\ pc' = [pc EXCEPT ![c] = "polling"]
    /\ cur' = [cur EXCEPT ![c] = NoMessage]
    /\ UNCHANGED <<log, owner, position, processed, faults>>

\* An evicted member's commit is refused; the KafkaException ends the loop.
CommitFenced(c) ==
    /\ pc[c] = "committing"
    /\ owner[cur[c][1]] # c
    /\ Close(c)
    /\ UNCHANGED <<log, position, committed, processed, faults>>

\* The synchronous commit raises, whether or not the coordinator recorded it.
CommitRaises(c) ==
    /\ pc[c] = "committing"
    /\ Fault
    /\ RecordCommit(c) \/ UNCHANGED committed
    /\ Close(c)
    /\ UNCHANGED <<log, position, processed>>

\* KeyboardInterrupt, anywhere in the loop.
Interrupt(c) ==
    /\ pc[c] # "stopped"
    /\ Fault
    /\ Close(c)
    /\ UNCHANGED <<log, position, committed, processed>>

\* The process is killed; close() does not run.
Crash(c) ==
    /\ pc[c] # "stopped"
    /\ Fault
    /\ pc' = [pc EXCEPT ![c] = "stopped"]
    /\ cur' = [cur EXCEPT ![c] = NoMessage]
    /\ UNCHANGED <<log, owner, position, committed, processed>>

Next ==
    \E c \in Consumers :
        \/ Start(c) \/ SessionExpires(c) \/ PollIntervalExpires(c)
        \/ \E p \in Partitions : Assign(c, p) \/ Revoke(c, p) \/ Poll(c, p)
        \/ Discard(c) \/ ProcessReturns(c) \/ ProcessRaises(c)
        \/ Commit(c) \/ CommitFenced(c) \/ CommitRaises(c)
        \/ Interrupt(c) \/ Crash(c)

Spec == Init /\ [][Next]_vars

\* A running loop keeps stepping, the coordinator keeps assigning and expiring,
\* and a stopped process is started again; disturbances are never forced.
Fairness ==
    \A c \in Consumers :
        /\ WF_vars(Start(c))
        /\ WF_vars(SessionExpires(c))
        /\ WF_vars(Discard(c))
        /\ WF_vars(ProcessReturns(c))
        /\ WF_vars(Commit(c))
        /\ WF_vars(CommitFenced(c))
        /\ \A p \in Partitions : WF_vars(Assign(c, p)) /\ WF_vars(Poll(c, p))

FairSpec == Spec /\ Fairness

-----------------------------------------------------------------------------
(* Properties.                                                             *)

\* An event below the committed offset has been through process_event: a
\* crash, an exception, an eviction or a rebalance at any point never
\* acknowledges work that was not done.
NoEventAckedUnprocessed ==
    \A p \in Partitions :
        \A o \in EventsIn(p) : o < committed[p] => o \in processed[p]

\* The group's position sits right behind an event that was processed: messages
\* the loop skips (lines 85-96) never move it by themselves.
CommitsFollowProcessing ==
    \A p \in Partitions :
        committed[p] = 0 \/ committed[p] - 1 \in processed[p]

\* The owner of a partition has left no event behind its position unprocessed,
\* except the one it is processing now: a partition that changes hands while
\* its old owner is still busy (lines 98-100) opens no gap.
OwnerSkipsNothing ==
    \A p \in Partitions, c \in Consumers :
        owner[p] = c /\ pc[c] # "stopped" =>
            /\ committed[p] <= position[p]
            /\ \A o \in EventsIn(p) :
                  o < position[p] =>
                      o \in processed[p] \/ (pc[c] = "received" /\ cur[c] = <<p, o>>)

\* A process holds a message exactly between poll and the end of its commit.
HoldsMessage ==
    \A c \in Consumers : pc[c] \in {"stopped", "polling"} <=> cur[c] = NoMessage

\* While the process that handles a message owns its partition, the group stands
\* right behind that message and has not acknowledged it; the event a process is
\* about to commit has been processed.
HeldMessage ==
    \A c \in Consumers :
        /\ cur[c] # NoMessage /\ owner[cur[c][1]] = c =>
              /\ position[cur[c][1]] = cur[c][2] + 1
              /\ committed[cur[c][1]] <= cur[c][2]
        /\ pc[c] = "committing" => cur[c][2] \in processed[cur[c][1]]

\* The inductive invariant.
IInv ==
    /\ TypeOK
    /\ HoldsMessage
    /\ NoEventAckedUnprocessed
    /\ CommitsFollowProcessing
    /\ OwnerSkipsNothing
    /\ HeldMessage

\* Whatever rebalances, crashes and evictions do, no member is ever handed a
\* message the group has acknowledged.
AckedNeverRefetched ==
    [][\A c \in Consumers :
          cur'[c] # cur[c] /\ cur'[c] # NoMessage
              => cur'[c][2] >= committed[cur'[c][1]]]_vars

ALO == INSTANCE AtLeastOnce WITH
    events  <- [p \in Partitions |-> EventsIn(p)],
    handled <- processed,
    acked   <- committed

\* The group implements the at-least-once queue of the docstring (lines 47-48).
RefinesAtLeastOnce == ALO!Spec

LastEvent(p) == CHOOSE o \in EventsIn(p) : \A n \in EventsIn(p) : n <= o

\* Once disturbances cease, every event is processed and the partition is
\* committed up to its last event: skipped messages do not block the loop.
Drained ==
    \A p \in Partitions :
        /\ EventsIn(p) \subseteq processed[p]
        /\ EventsIn(p) # {} => committed[p] = LastEvent(p) + 1

EventuallyDrained == <>[]Drained
=============================================================================
