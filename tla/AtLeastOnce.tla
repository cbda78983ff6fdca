----------------------------- MODULE AtLeastOnce -----------------------------
(***************************************************************************)
(* What ingest/kafka_consumer.py promises its callers: "at-least-once      *)
(* processing with explicit commits only after successful downstream       *)
(* handling".  Each partition is a finite log; some of its offsets hold    *)
(* events.  Events are handled in any order and any number of times; the   *)
(* acknowledged prefix only grows, and only over events that were handled. *)
(* KafkaConsumer is shown to implement this module.                        *)
(***************************************************************************)
EXTENDS Integers

CONSTANTS
    Partitions,   \* the partitions of KAFKA_TOPIC
    LogEnd        \* bound: messages per partition

VARIABLES
    events,       \* [Partitions -> SUBSET Offsets]: offsets that hold an event
    handled,      \* [Partitions -> SUBSET Offsets]: events processed at least once
    acked         \* [Partitions -> 0..LogEnd]: length of the acknowledged prefix

vars == <<events, handled, acked>>

Offsets == 0 .. LogEnd - 1

Init ==
    /\ events \in [Partitions -> SUBSET Offsets]
    /\ handled = [p \in Partitions |-> {}]
    /\ acked = [p \in Partitions |-> 0]

Handle(p, o) ==
    /\ o \in events[p]
    /\ handled' = [handled EXCEPT ![p] = @ \cup {o}]
    /\ UNCHANGED <<events, acked>>

Ack(p, n) ==
    /\ acked[p] < n
    /\ \A o \in events[p] : o < n => o \in handled[p]
    /\ acked' = [acked EXCEPT ![p] = n]
    /\ UNCHANGED <<events, handled>>

Next ==
    \E p \in Partitions :
        \/ \E o \in Offsets : Handle(p, o)
        \/ \E n \in 1 .. LogEnd : Ack(p, n)

Spec == Init /\ [][Next]_vars
=============================================================================
