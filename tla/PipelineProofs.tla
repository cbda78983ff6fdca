--------------------------- MODULE PipelineProofs ----------------------------
(***************************************************************************)
(* Proofs about KafkaConsumer and Pipeline for every set of consumers and  *)
(* partitions, every log length and every number of faults.                *)
(*                                                                         *)
(* First the consumer group alone.  IInv is inductive; the step lemmas     *)
(* follow the actions of Next, and the theorems on the specification and   *)
(* the refinement of AtLeastOnce rest on them.                             *)
(*                                                                         *)
(* Then the composition.  It is a behaviour of the consumer group and, at  *)
(* the same time, one of the dispatcher, so the invariants proved of each  *)
(* hold here; what is left is that the event a process has processed is    *)
(* the one whose alert it saw dispatched.                                  *)
(***************************************************************************)
EXTENDS Pipeline, FiniteSetTheorems, TLAPS

-----------------------------------------------------------------------------
(* Types, and which control states hold a message.                         *)

Typed == TypeOK /\ HoldsMessage

\* A held message is a message of the log.
LEMMA HeldIsMessage ==
  ASSUME Typed, NEW c \in Consumers, pc[c] \in {"received", "committing"}
  PROVE  /\ cur[c] \in Messages
         /\ cur[c] # NoMessage
         /\ cur[c][1] \in Partitions
         /\ cur[c][2] \in Offsets
<1>1. cur[c] # NoMessage
  BY DEF Typed, HoldsMessage
<1>2. cur[c] \in Messages
  BY <1>1 DEF Typed, TypeOK
<1> QED
  BY <1>1, <1>2 DEF Messages

\* Processes start without a message.
LEMMA InitTyped == Init => Typed
  BY LogEndAssumption, MaxFaultsAssumption
  DEF Init, Typed, TypeOK, HoldsMessage, Control, Offsets

\* The actions that start or stop a process or move a partition keep the types.
LEMMA GroupStepTyped ==
  ASSUME Typed, NEW c \in Consumers,
         \/ Start(c) \/ SessionExpires(c) \/ PollIntervalExpires(c)
         \/ \E p \in Partitions : Assign(c, p) \/ Revoke(c, p)
         \/ Interrupt(c) \/ Crash(c)
  PROVE  Typed'
<1> USE LogEndAssumption, MaxFaultsAssumption
    DEF Typed, TypeOK, HoldsMessage, Control, Offsets
<1>1. CASE Start(c)
  BY <1>1 DEF Start
<1>2. CASE SessionExpires(c)
  BY <1>2 DEF SessionExpires, Release
<1>3. CASE PollIntervalExpires(c)
  BY <1>3 DEF PollIntervalExpires, Release, Fault
<1>4. ASSUME NEW p \in Partitions, Assign(c, p) PROVE Typed'
  BY <1>4 DEF Assign
<1>5. ASSUME NEW p \in Partitions, Revoke(c, p) PROVE Typed'
  BY <1>5 DEF Revoke, Fault
<1>6. CASE Interrupt(c)
  BY <1>6 DEF Interrupt, Close, Release, Fault
<1>7. CASE Crash(c)
  BY <1>7 DEF Crash, Fault
<1> QED
  BY <1>1, <1>2, <1>3, <1>4, <1>5, <1>6, <1>7

\* The actions of the loop keep the types.
LEMMA LoopStepTyped ==
  ASSUME Typed, NEW c \in Consumers,
         \/ \E p \in Partitions : Poll(c, p)
         \/ Discard(c) \/ ProcessReturns(c) \/ ProcessRaises(c)
         \/ Commit(c) \/ CommitFenced(c) \/ CommitRaises(c)
  PROVE  Typed'
<1> USE LogEndAssumption, MaxFaultsAssumption
    DEF Typed, TypeOK, HoldsMessage, Control, Offsets
<1>1. ASSUME NEW p \in Partitions, Poll(c, p) PROVE Typed'
  <2>1. position[p] \in Offsets /\ position[p] + 1 \in 0 .. LogEnd
    BY <1>1 DEF Poll
  <2>2. <<p, position[p]>> \in Messages /\ <<p, position[p]>> # NoMessage
    BY <2>1, NoMessageAssumption DEF Messages
  <2> QED
    BY <1>1, <2>1, <2>2 DEF Poll
<1>2. CASE Discard(c)
  BY <1>2 DEF Discard
<1>3. CASE ProcessReturns(c)
  BY <1>3, HeldIsMessage DEF ProcessReturns
<1>4. CASE ProcessRaises(c)
  BY <1>4 DEF ProcessRaises, Close, Release, Fault
<1>5. ASSUME RecordCommit(c) PROVE committed' \in [Partitions -> 0 .. LogEnd]
  BY <1>5, HeldIsMessage DEF RecordCommit
<1>6. CASE Commit(c)
  BY <1>5, <1>6 DEF Commit
<1>7. CASE CommitFenced(c)
  BY <1>7 DEF CommitFenced, Close, Release
<1>8. CASE CommitRaises(c)
  BY <1>5, <1>8 DEF CommitRaises, Close, Release, Fault
<1> QED
  BY <1>1, <1>2, <1>3, <1>4, <1>6, <1>7, <1>8

LEMMA NextTyped == Typed /\ [Next]_vars => Typed'
<1> SUFFICES ASSUME Typed, [Next]_vars PROVE Typed'
  OBVIOUS
<1>1. CASE Next
  BY <1>1, GroupStepTyped, LoopStepTyped DEF Next
<1>2. CASE UNCHANGED vars
  BY <1>2 DEF vars, Typed, TypeOK, HoldsMessage
<1> QED
  BY <1>1, <1>2

\* Every variable of the consumer group keeps its type.
THEOREM TypeCorrect == Spec => []TypeOK
<1>1. Typed => TypeOK
  BY DEF Typed
<1> QED
  BY <1>1, InitTyped, NextTyped, PTL DEF Spec

-----------------------------------------------------------------------------
(* The inductive invariant.                                                *)

\* No step rewrites the log.
LEMMA LogKept ==
  ASSUME [Next]_vars
  PROVE  /\ log' = log
         /\ \A p \in Partitions : EventsIn(p)' = EventsIn(p)
<1>1. log' = log
  BY DEF Next, vars, Start, SessionExpires, PollIntervalExpires, Assign, Revoke,
     Poll, Discard, ProcessReturns, ProcessRaises, Commit, CommitFenced,
     CommitRaises, Interrupt, Crash
<1> QED
  BY <1>1 DEF EventsIn

LEMMA InitInv == Init => IInv
<1> SUFFICES ASSUME Init PROVE IInv
  OBVIOUS
<1>1. Typed
  BY InitTyped
<1>2. NoEventAckedUnprocessed
  BY DEF Init, NoEventAckedUnprocessed, EventsIn, Offsets
<1>3. CommitsFollowProcessing
  BY DEF Init, CommitsFollowProcessing
<1>4. OwnerSkipsNothing
  BY DEF Init, OwnerSkipsNothing
<1>5. HeldMessage
  BY DEF Init, HeldMessage
<1> QED
  BY <1>1, <1>2, <1>3, <1>4, <1>5 DEF IInv, Typed

\* A step that leaves the offsets and the processed events alone, gives no
\* partition to anybody and brings no process into "received" or "committing"
\* keeps the invariant: every action by which work is abandoned is of this kind.
LEMMA AbandonKeepsInv ==
  ASSUME IInv, Typed', log' = log,
         UNCHANGED <<position, committed, processed>>,
         NEW c \in Consumers,
         \A p \in Partitions : owner'[p] = owner[p] \/ owner'[p] = Nobody,
         \A d \in Consumers \ {c} : pc'[d] = pc[d] /\ cur'[d] = cur[d],
         \/ pc'[c] = pc[c] /\ cur'[c] = cur[c]
         \/ pc'[c] = "stopped" /\ cur'[c] = NoMessage
         \/ /\ pc'[c] = "polling" /\ cur'[c] = NoMessage
            /\ \A p \in Partitions : owner'[p] # c
  PROVE  IInv'
<1> USE NobodyAssumption DEF IInv
<1>1. \A p \in Partitions : EventsIn(p)' = EventsIn(p)
  BY DEF EventsIn
<1>2. NoEventAckedUnprocessed'
  BY <1>1 DEF NoEventAckedUnprocessed
<1>3. CommitsFollowProcessing'
  BY DEF CommitsFollowProcessing
<1>4. OwnerSkipsNothing'
  <2> SUFFICES ASSUME NEW p \in Partitions, NEW d \in Consumers,
                      owner'[p] = d, pc'[d] # "stopped"
               PROVE  /\ committed[p] <= position[p]
                      /\ \A o \in EventsIn(p) : o < position[p] =>
                            o \in processed[p] \/ (pc'[d] = "received" /\ cur'[d] = <<p, o>>)
    BY <1>1 DEF OwnerSkipsNothing
  <2>1. owner[p] = d
    OBVIOUS
  <2>2. pc'[d] = pc[d] /\ cur'[d] = cur[d]
    OBVIOUS
  <2> QED
    BY <2>1, <2>2 DEF OwnerSkipsNothing
<1>5. HeldMessage'
  <2> SUFFICES ASSUME NEW d \in Consumers
               PROVE  /\ cur'[d] # NoMessage /\ owner'[cur'[d][1]] = d =>
                            /\ position[cur'[d][1]] = cur'[d][2] + 1
                            /\ committed[cur'[d][1]] <= cur'[d][2]
                      /\ pc'[d] = "committing" => cur'[d][2] \in processed[cur'[d][1]]
    BY DEF HeldMessage
  <2>1. CASE pc'[d] = pc[d] /\ cur'[d] = cur[d]
    <3>1. cur[d] # NoMessage => cur[d][1] \in Partitions
      BY DEF TypeOK, Messages
    <3> QED
      BY <2>1, <3>1 DEF HeldMessage
  <2>2. CASE pc'[d] # "committing" /\ cur'[d] = NoMessage
    BY <2>2
  <2> QED
    BY <2>1, <2>2
<1> QED
  BY <1>2, <1>3, <1>4, <1>5 DEF Typed

\* Recording a commit is safe because the owner has skipped no event: whether
\* the loop goes on afterwards or ends makes no difference.
LEMMA RecordKeepsInv ==
  ASSUME IInv, Typed', log' = log, UNCHANGED <<position, processed>>,
         NEW c \in Consumers, RecordCommit(c),
         \A p \in Partitions : owner'[p] = owner[p] \/ owner'[p] = Nobody,
         \A d \in Consumers \ {c} : pc'[d] = pc[d] /\ cur'[d] = cur[d],
         pc'[c] \in {"polling", "stopped"}, cur'[c] = NoMessage
  PROVE  IInv'
<1> USE NobodyAssumption DEF IInv
<1> DEFINE q == cur[c][1]
           n == cur[c][2]
<1>1. \A p \in Partitions : EventsIn(p)' = EventsIn(p)
  BY DEF EventsIn
<1>2. /\ pc[c] = "committing" /\ owner[q] = c
      /\ q \in Partitions /\ n \in Offsets /\ cur[c] # NoMessage
  BY HeldIsMessage DEF RecordCommit, Typed
<1>3. position[q] = n + 1 /\ committed[q] <= n /\ n \in processed[q]
  BY <1>2 DEF HeldMessage
<1>4. committed'[q] = position[q]
  BY <1>2, <1>3 DEF RecordCommit, TypeOK
<1>5. \A p \in Partitions \ {q} : committed'[p] = committed[p]
  BY DEF RecordCommit, TypeOK
<1>6. \A o \in EventsIn(q) : o < position[q] => o \in processed[q]
  BY <1>2 DEF OwnerSkipsNothing
<1>7. NoEventAckedUnprocessed'
  BY <1>1, <1>2, <1>4, <1>5, <1>6 DEF NoEventAckedUnprocessed
<1>8. CommitsFollowProcessing'
  <2>1. committed'[q] - 1 = n
    BY <1>2, <1>3, <1>4 DEF Offsets
  <2> QED
    BY <1>2, <1>3, <1>5, <2>1 DEF CommitsFollowProcessing
<1>9. OwnerSkipsNothing'
  <2> SUFFICES ASSUME NEW p \in Partitions, NEW d \in Consumers,
                      owner'[p] = d, pc'[d] # "stopped"
               PROVE  /\ committed'[p] <= position[p]
                      /\ \A o \in EventsIn(p) : o < position[p] =>
                            o \in processed[p] \/ (pc'[d] = "received" /\ cur'[d] = <<p, o>>)
    BY <1>1 DEF OwnerSkipsNothing
  <2>1. owner[p] = d /\ pc[d] # "stopped"
    BY <1>2
  <2>2. committed'[p] <= position[p]
    BY <1>4, <1>5, <2>1 DEF OwnerSkipsNothing, TypeOK
  <2>3. ASSUME NEW o \in EventsIn(p), o < position[p], o \notin processed[p]
        PROVE  pc'[d] = "received" /\ cur'[d] = <<p, o>>
    BY <1>2, <2>1, <2>3 DEF OwnerSkipsNothing
  <2> QED
    BY <2>2, <2>3
<1>10. HeldMessage'
  <2> SUFFICES ASSUME NEW d \in Consumers
               PROVE  /\ cur'[d] # NoMessage /\ owner'[cur'[d][1]] = d =>
                            /\ position[cur'[d][1]] = cur'[d][2] + 1
                            /\ committed'[cur'[d][1]] <= cur'[d][2]
                      /\ pc'[d] = "committing" => cur'[d][2] \in processed[cur'[d][1]]
    BY DEF HeldMessage
  <2>1. CASE d = c
    BY <2>1
  <2>2. CASE d # c
    <3>1. pc'[d] = pc[d] /\ cur'[d] = cur[d]
      BY <2>2
    <3>2. cur[d] # NoMessage => cur[d][1] \in Partitions
      BY DEF TypeOK, Messages
    <3>3. cur[d] # NoMessage /\ owner'[cur[d][1]] = d =>
             owner[cur[d][1]] = d /\ cur[d][1] # q
      BY <1>2, <2>2, <3>2
    <3> QED
      BY <1>5, <3>1, <3>2, <3>3 DEF HeldMessage
  <2> QED
    BY <2>1, <2>2
<1> QED
  BY <1>7, <1>8, <1>9, <1>10 DEF Typed

\* A new owner starts from the committed offset, below which nothing is missing.
LEMMA AssignKeepsInv ==
  ASSUME IInv, Typed', NEW c \in Consumers, NEW q \in Partitions, Assign(c, q)
  PROVE  IInv'
<1> USE NobodyAssumption DEF IInv
<1>1. \A p \in Partitions : EventsIn(p)' = EventsIn(p)
  BY DEF EventsIn, Assign
<1>2. NoEventAckedUnprocessed'
  BY <1>1 DEF NoEventAckedUnprocessed, Assign
<1>3. CommitsFollowProcessing'
  BY DEF CommitsFollowProcessing, Assign
<1>4. OwnerSkipsNothing'
  <2> SUFFICES ASSUME NEW p \in Partitions, NEW d \in Consumers,
                      owner'[p] = d, pc[d] # "stopped"
               PROVE  /\ committed[p] <= position'[p]
                      /\ \A o \in EventsIn(p) : o < position'[p] =>
                            o \in processed[p] \/ (pc[d] = "received" /\ cur[d] = <<p, o>>)
    BY <1>1 DEF OwnerSkipsNothing, Assign
  <2>1. CASE p = q
    BY <2>1 DEF Assign, TypeOK, NoEventAckedUnprocessed
  <2>2. CASE p # q
    BY <2>2 DEF Assign, TypeOK, OwnerSkipsNothing
  <2> QED
    BY <2>1, <2>2
<1>5. HeldMessage'
  BY DEF HeldMessage, HoldsMessage, Assign, TypeOK, Messages
<1> QED
  BY <1>2, <1>3, <1>4, <1>5 DEF Typed

\* The message handed out is the one exception OwnerSkipsNothing allows.
LEMMA PollKeepsInv ==
  ASSUME IInv, Typed', NEW c \in Consumers, NEW q \in Partitions, Poll(c, q)
  PROVE  IInv'
<1> USE DEF IInv
<1>1. \A p \in Partitions : EventsIn(p)' = EventsIn(p)
  BY DEF EventsIn, Poll
<1>2. NoEventAckedUnprocessed'
  BY <1>1 DEF NoEventAckedUnprocessed, Poll
<1>3. CommitsFollowProcessing'
  BY DEF CommitsFollowProcessing, Poll
<1>4. /\ pc[c] = "polling" /\ owner[q] = c
      /\ pc'[c] = "received" /\ cur'[c] = <<q, position[q]>>
      /\ position'[q] = position[q] + 1 /\ position[q] \in Nat
      /\ \A p \in Partitions \ {q} : position'[p] = position[p]
      /\ \A d \in Consumers \ {c} : pc'[d] = pc[d] /\ cur'[d] = cur[d]
      /\ UNCHANGED <<owner, committed, processed>>
  BY DEF Poll, TypeOK
<1>5. committed[q] <= position[q]
  BY <1>4 DEF OwnerSkipsNothing
<1>6. OwnerSkipsNothing'
  <2> SUFFICES ASSUME NEW p \in Partitions, NEW d \in Consumers,
                      owner[p] = d, pc'[d] # "stopped"
               PROVE  /\ committed[p] <= position'[p]
                      /\ \A o \in EventsIn(p) : o < position'[p] =>
                            o \in processed[p] \/ (pc'[d] = "received" /\ cur'[d] = <<p, o>>)
    BY <1>1, <1>4 DEF OwnerSkipsNothing
  <2>1. CASE p = q
    <3>1. d = c
      BY <1>4, <2>1
    <3>2. committed[q] <= position[q] + 1
      BY <1>4, <1>5 DEF TypeOK
    <3>3. ASSUME NEW o \in EventsIn(q), o < position[q] + 1
          PROVE  o \in processed[q] \/ cur'[c] = <<q, o>>
      <4>1. o \in Int
        BY DEF EventsIn, Offsets
      <4>2. o < position[q] \/ o = position[q]
        BY <1>4, <3>3, <4>1
      <4> QED
        BY <1>4, <4>2 DEF OwnerSkipsNothing
    <3> QED
      BY <1>4, <2>1, <3>1, <3>2, <3>3
  <2>2. CASE p # q
    <3>1. /\ committed[p] <= position[p]
          /\ \A o \in EventsIn(p) : o < position[p] =>
                o \in processed[p] \/ (pc[d] = "received" /\ cur[d] = <<p, o>>)
      BY <1>4 DEF OwnerSkipsNothing
    <3> QED
      BY <1>4, <2>2, <3>1
  <2> QED
    BY <2>1, <2>2
<1>7. HeldMessage'
  <2> SUFFICES ASSUME NEW d \in Consumers
               PROVE  /\ cur'[d] # NoMessage /\ owner[cur'[d][1]] = d =>
                            /\ position'[cur'[d][1]] = cur'[d][2] + 1
                            /\ committed[cur'[d][1]] <= cur'[d][2]
                      /\ pc'[d] = "committing" => cur'[d][2] \in processed[cur'[d][1]]
    BY <1>4 DEF HeldMessage
  <2>1. CASE d = c
    BY <1>4, <1>5, <2>1
  <2>2. CASE d # c
    <3>1. cur[d] # NoMessage => cur[d][1] \in Partitions
      BY DEF TypeOK, Messages
    <3> QED
      BY <1>4, <2>2, <3>1 DEF HeldMessage
  <2> QED
    BY <2>1, <2>2
<1> QED
  BY <1>2, <1>3, <1>6, <1>7 DEF Typed

\* Dropping the held message is safe when it is no event.
LEMMA DiscardKeepsInv ==
  ASSUME IInv, Typed', NEW c \in Consumers, Discard(c)
  PROVE  IInv'
<1> USE DEF IInv
<1>1. \A p \in Partitions : EventsIn(p)' = EventsIn(p)
  BY DEF EventsIn, Discard
<1>2. NoEventAckedUnprocessed' /\ CommitsFollowProcessing'
  BY <1>1 DEF NoEventAckedUnprocessed, CommitsFollowProcessing, Discard
<1>3. /\ pc[c] = "received" /\ pc'[c] = "polling" /\ cur'[c] = NoMessage
      /\ \A d \in Consumers \ {c} : pc'[d] = pc[d] /\ cur'[d] = cur[d]
      /\ UNCHANGED <<owner, position, committed, processed>>
  BY DEF Discard, TypeOK
<1>4. \A p \in Partitions : \A o \in EventsIn(p) : cur[c] # <<p, o>>
  BY DEF Discard, Current, EventsIn
<1>5. OwnerSkipsNothing'
  <2> SUFFICES ASSUME NEW p \in Partitions, NEW d \in Consumers,
                      owner[p] = d, pc'[d] # "stopped"
               PROVE  /\ committed[p] <= position[p]
                      /\ \A o \in EventsIn(p) : o < position[p] =>
                            o \in processed[p] \/ (pc'[d] = "received" /\ cur'[d] = <<p, o>>)
    BY <1>1, <1>3 DEF OwnerSkipsNothing
  <2> QED
    BY <1>3, <1>4 DEF OwnerSkipsNothing
<1>6. HeldMessage'
  BY <1>3 DEF HeldMessage
<1> QED
  BY <1>2, <1>5, <1>6 DEF Typed

\* The event that was held becomes a processed one.
LEMMA ProcessKeepsInv ==
  ASSUME IInv, Typed', NEW c \in Consumers, ProcessReturns(c)
  PROVE  IInv'
<1> USE DEF IInv
<1> DEFINE q == cur[c][1]
           n == cur[c][2]
<1>1. \A p \in Partitions : EventsIn(p)' = EventsIn(p)
  BY DEF EventsIn, ProcessReturns
<1>2. q \in Partitions /\ n \in Offsets
  BY HeldIsMessage DEF ProcessReturns, Typed
<1>3. /\ pc[c] = "received" /\ pc'[c] = "committing"
      /\ \A d \in Consumers \ {c} : pc'[d] = pc[d]
      /\ UNCHANGED <<cur, owner, position, committed>>
  BY DEF ProcessReturns, TypeOK
<1>4. /\ n \in processed'[q]
      /\ \A p \in Partitions : processed[p] \subseteq processed'[p]
  BY <1>2 DEF ProcessReturns, TypeOK
<1>5. NoEventAckedUnprocessed'
  BY <1>1, <1>3, <1>4 DEF NoEventAckedUnprocessed
<1>6. CommitsFollowProcessing'
  BY <1>3, <1>4 DEF CommitsFollowProcessing
<1>7. OwnerSkipsNothing'
  <2> SUFFICES ASSUME NEW p \in Partitions, NEW d \in Consumers,
                      owner[p] = d, pc'[d] # "stopped"
               PROVE  /\ committed[p] <= position[p]
                      /\ \A o \in EventsIn(p) : o < position[p] =>
                            o \in processed'[p] \/ (pc'[d] = "received" /\ cur[d] = <<p, o>>)
    BY <1>1, <1>3 DEF OwnerSkipsNothing
  <2>1. pc[d] # "stopped"
    BY <1>3
  <2>2. \A o \in EventsIn(p) : cur[c] = <<p, o>> => o \in processed'[p]
    BY <1>4
  <2> QED
    BY <1>3, <1>4, <2>1, <2>2 DEF OwnerSkipsNothing
<1>8. HeldMessage'
  <2> SUFFICES ASSUME NEW d \in Consumers
               PROVE  /\ cur[d] # NoMessage /\ owner[cur[d][1]] = d =>
                            /\ position[cur[d][1]] = cur[d][2] + 1
                            /\ committed[cur[d][1]] <= cur[d][2]
                      /\ pc'[d] = "committing" => cur[d][2] \in processed'[cur[d][1]]
    BY <1>3 DEF HeldMessage
  <2>1. pc[d] = "committing" => cur[d][1] \in Partitions
    BY HeldIsMessage DEF Typed
  <2> QED
    BY <1>3, <1>4, <2>1 DEF HeldMessage
<1> QED
  BY <1>5, <1>6, <1>7, <1>8 DEF Typed

\* Every step of the group keeps the invariant.
LEMMA NextInv == IInv /\ [Next]_vars => IInv'
<1> SUFFICES ASSUME IInv, [Next]_vars PROVE IInv'
  OBVIOUS
<1>1. Typed /\ Typed' /\ TypeOK
  BY NextTyped DEF IInv, Typed
<1>2. CASE UNCHANGED vars
  BY <1>2 DEF vars, IInv, TypeOK, HoldsMessage, NoEventAckedUnprocessed,
     CommitsFollowProcessing, OwnerSkipsNothing, HeldMessage, EventsIn
<1>3. ASSUME NEW c \in Consumers, Start(c) PROVE IInv'
  <2>1. cur[c] = NoMessage
    BY <1>1, <1>3 DEF Start, Typed, HoldsMessage
  <2> QED
    BY <1>1, <1>3, <2>1, AbandonKeepsInv DEF Start, TypeOK
<1>4. ASSUME NEW c \in Consumers, SessionExpires(c) PROVE IInv'
  BY <1>1, <1>4, AbandonKeepsInv DEF SessionExpires, Release
<1>5. ASSUME NEW c \in Consumers, PollIntervalExpires(c) PROVE IInv'
  BY <1>1, <1>5, AbandonKeepsInv DEF PollIntervalExpires, Release
<1>6. ASSUME NEW c \in Consumers, NEW p \in Partitions, Revoke(c, p) PROVE IInv'
  BY <1>1, <1>6, AbandonKeepsInv DEF Revoke, TypeOK
<1>7. ASSUME NEW c \in Consumers, NEW p \in Partitions, Assign(c, p) PROVE IInv'
  BY <1>1, <1>7, AssignKeepsInv
<1>8. ASSUME NEW c \in Consumers, NEW p \in Partitions, Poll(c, p) PROVE IInv'
  BY <1>1, <1>8, PollKeepsInv
<1>9. ASSUME NEW c \in Consumers, Discard(c) PROVE IInv'
  BY <1>1, <1>9, DiscardKeepsInv
<1>10. ASSUME NEW c \in Consumers, ProcessReturns(c) PROVE IInv'
  BY <1>1, <1>10, ProcessKeepsInv
<1>11. ASSUME NEW c \in Consumers, ProcessRaises(c) PROVE IInv'
  BY <1>1, <1>11, AbandonKeepsInv DEF ProcessRaises, Close, Release, TypeOK
<1>12. ASSUME NEW c \in Consumers, Commit(c) PROVE IInv'
  BY <1>1, <1>12, RecordKeepsInv DEF Commit, TypeOK
<1>13. ASSUME NEW c \in Consumers, CommitFenced(c) PROVE IInv'
  BY <1>1, <1>13, AbandonKeepsInv DEF CommitFenced, Close, Release, TypeOK
<1>14. ASSUME NEW c \in Consumers, CommitRaises(c) PROVE IInv'
  <2>1. CASE RecordCommit(c)
    BY <1>1, <1>14, <2>1, RecordKeepsInv DEF CommitRaises, Close, Release, TypeOK
  <2>2. CASE UNCHANGED committed
    BY <1>1, <1>14, <2>2, AbandonKeepsInv DEF CommitRaises, Close, Release, TypeOK
  <2> QED
    BY <1>14, <2>1, <2>2 DEF CommitRaises
<1>15. ASSUME NEW c \in Consumers, Interrupt(c) PROVE IInv'
  BY <1>1, <1>15, AbandonKeepsInv DEF Interrupt, Close, Release, TypeOK
<1>16. ASSUME NEW c \in Consumers, Crash(c) PROVE IInv'
  BY <1>1, <1>16, AbandonKeepsInv DEF Crash, TypeOK
<1> QED
  BY <1>2, <1>3, <1>4, <1>5, <1>6, <1>7, <1>8, <1>9, <1>10, <1>11, <1>12,
     <1>13, <1>14, <1>15, <1>16 DEF Next

LEMMA InvHolds == Spec => []IInv
  BY InitInv, NextInv, PTL DEF Spec

\* The loop never acknowledges an event it has not handed to process_event and
\* seen it return, whatever crashes, exceptions, evictions and rebalances do.
THEOREM NothingAckedUnprocessed == Spec => []NoEventAckedUnprocessed
<1>1. IInv => NoEventAckedUnprocessed
  BY DEF IInv
<1> QED
  BY <1>1, InvHolds, PTL

\* No gap of unprocessed events opens behind the position of a partition's owner.
THEOREM OwnerLeavesNoGap == Spec => []OwnerSkipsNothing
<1>1. IInv => OwnerSkipsNothing
  BY DEF IInv
<1> QED
  BY <1>1, InvHolds, PTL

\* A message below the committed offset is never handed out again.
THEOREM AckedStaysAcked == Spec => AckedNeverRefetched
<1>1. IInv /\ [Next]_vars =>
        [\A c \in Consumers :
            cur'[c] # cur[c] /\ cur'[c] # NoMessage
                => cur'[c][2] >= committed[cur'[c][1]]]_vars
  <2> SUFFICES ASSUME IInv, Next, NEW c \in Consumers,
                      cur'[c] # cur[c], cur'[c] # NoMessage
               PROVE  cur'[c][2] >= committed[cur'[c][1]]
    OBVIOUS
  <2>1. PICK p \in Partitions : Poll(c, p)
    BY DEF IInv, TypeOK, Next, Start, SessionExpires, PollIntervalExpires, Assign,
       Revoke, Poll, Discard, ProcessReturns, ProcessRaises, Commit, CommitFenced,
       CommitRaises, Interrupt, Crash, Close
  <2>2. cur'[c] = <<p, position[p]>>
    BY <2>1 DEF Poll, IInv, TypeOK
  <2>3. committed[p] <= position[p]
    BY <2>1 DEF Poll, IInv, OwnerSkipsNothing
  <2> QED
    BY <2>2, <2>3 DEF IInv, TypeOK
<1> QED
  BY <1>1, InvHolds, PTL DEF Spec, AckedNeverRefetched

-----------------------------------------------------------------------------
(* The group implements the at-least-once queue: process_event returning is *)
(* Handle, a recorded commit is Ack, everything else is invisible.          *)

\* A recorded commit acknowledges a longer prefix, all of it processed.
LEMMA RecordIsAck ==
  ASSUME IInv, log' = log, UNCHANGED processed, NEW c \in Consumers, RecordCommit(c)
  PROVE  ALO!Next
<1> DEFINE q == cur[c][1]
           n == cur[c][2]
<1>1. /\ pc[c] = "committing" /\ owner[q] = c
      /\ q \in Partitions /\ n \in Offsets /\ cur[c] # NoMessage
  BY HeldIsMessage DEF RecordCommit, IInv, Typed
<1>2. position[q] = n + 1 /\ committed[q] < n + 1
  BY <1>1 DEF IInv, HeldMessage, TypeOK, Offsets
<1>3. \A o \in EventsIn(q) : o < n + 1 => o \in processed[q]
  BY <1>1, <1>2 DEF IInv, OwnerSkipsNothing
<1>4. n + 1 \in 1 .. LogEnd
  BY <1>1, LogEndAssumption DEF Offsets
<1>5. [p \in Partitions |-> EventsIn(p)]' = [p \in Partitions |-> EventsIn(p)]
  BY DEF EventsIn
<1>6. ALO!Ack(q, n + 1)
  BY <1>1, <1>2, <1>3, <1>5 DEF ALO!Ack, RecordCommit
<1> QED
  BY <1>1, <1>4, <1>6 DEF ALO!Next

\* Under the mapping of ALO, a step is a step of the queue or changes nothing.
LEMMA StepRefines == IInv /\ [Next]_vars => [ALO!Next]_(ALO!vars)
<1> SUFFICES ASSUME IInv, [Next]_vars
             PROVE  ALO!Next \/ UNCHANGED ALO!vars
  OBVIOUS
<1>1. [p \in Partitions |-> EventsIn(p)]' = [p \in Partitions |-> EventsIn(p)]
  BY LogKept DEF EventsIn
<1>2. CASE UNCHANGED <<processed, committed>>
  BY <1>1, <1>2 DEF ALO!vars
<1>3. ASSUME NEW c \in Consumers, ProcessReturns(c)
      PROVE  ALO!Next
  <2>1. cur[c][1] \in Partitions /\ cur[c][2] \in EventsIn(cur[c][1])
    BY <1>3, HeldIsMessage DEF ProcessReturns, IInv, Typed, Current, EventsIn
  <2>2. ALO!Handle(cur[c][1], cur[c][2])
    BY <1>1, <1>3, <2>1 DEF ProcessReturns, ALO!Handle
  <2> QED
    BY <2>1, <2>2 DEF ALO!Next, ALO!Offsets, EventsIn, Offsets
<1>4. ASSUME NEW c \in Consumers, Commit(c)
      PROVE  ALO!Next
  BY <1>4, RecordIsAck DEF Commit
<1>5. ASSUME NEW c \in Consumers, CommitRaises(c)
      PROVE  ALO!Next \/ UNCHANGED ALO!vars
  BY <1>2, <1>5, RecordIsAck DEF CommitRaises
<1> QED
  BY <1>2, <1>3, <1>4, <1>5
  DEF Next, vars, Start, SessionExpires, PollIntervalExpires, Assign, Revoke, Poll,
      Discard, ProcessRaises, CommitFenced, Interrupt, Crash

\* The consumer group implements the at-least-once queue its docstring promises.
THEOREM GroupIsAtLeastOnce == Spec => RefinesAtLeastOnce
<1>1. Init => ALO!Init
  BY DEF Init, ALO!Init, EventsIn, ALO!Offsets, Offsets
<1> QED
  BY <1>1, StepRefines, InvHolds, PTL DEF Spec, ALO!Spec, RefinesAtLeastOnce

-----------------------------------------------------------------------------
(* The composition.                                                        *)

DP == INSTANCE AlertDispatcherProofs WITH
    Workers <- Consumers, Alerts <- Messages, NoAlert <- NoMessage

\* Every step of the pipeline is a step of the consumer group or leaves it alone.
LEMMA PipelineIsGroup == PipelineSpec => Spec
<1>1. PipelineInit => Init
  BY DEF PipelineInit
<1>2. [PipelineNext]_pipelineVars => [Next]_vars
  BY DEF PipelineNext, pipelineVars, Next, GroupStep, QuietReturns, RaiseAlert,
     ScoringRaises, DispatchStep, AlertReturns, AlertRaises, Stops
<1> QED
  BY <1>1, <1>2, PTL DEF PipelineSpec, Spec

\* D and DP instantiate the same definitions.
LEMMA SameDispatcher ==
  /\ DP!Init <=> D!Init
  /\ DP!Next <=> D!Next
  /\ DP!vars = D!vars
  /\ DP!ReturnedMeansReached <=> D!ReturnedMeansReached
  /\ \A a \in Messages : DP!Reached(a) <=> D!Reached(a)
<1>1. DP!vars = D!vars /\ DP!channels = D!channels /\ DP!deadLetters = D!deadLetters
  BY DEF D!vars, DP!vars, D!channels, DP!channels, D!deadLetters,
      DP!deadLetters
<1>2. DP!Init <=> D!Init
  BY DEF D!Init, DP!Init, D!SeverityFromScore, DP!SeverityFromScore
<1>3. DP!Next <=> D!Next
  BY DEF D!channels, DP!channels, D!deadLetters, DP!deadLetters,
      D!Next, DP!Next, D!Dispatch, DP!Dispatch, D!LogLine, DP!LogLine,
      D!Signal, DP!Signal, D!SignalRaises, DP!SignalRaises, D!Retry,
      DP!Retry, D!WriteDeadLetter, DP!WriteDeadLetter, D!Forget,
      DP!Forget, D!Abandon, DP!Abandon, D!WriteRaises, DP!WriteRaises,
      D!Leave, DP!Leave, D!Deliver, DP!Deliver
<1>4. DP!ReturnedMeansReached <=> D!ReturnedMeansReached
  BY DEF D!ReturnedMeansReached, DP!ReturnedMeansReached, D!Reached,
      DP!Reached
<1>5. \A a \in Messages : DP!Reached(a) <=> D!Reached(a)
  BY DEF D!Reached, DP!Reached
<1> QED
  BY <1>1, <1>2, <1>3, <1>4, <1>5

\* The dispatcher's invariant, as AlertDispatcherProofs has it.
LEMMA DispatcherInv ==
  /\ DP!Init => DP!DInv
  /\ DP!DInv /\ [DP!Next]_(DP!vars) => DP!DInv'
  /\ DP!DInv => /\ DP!ReturnedMeansReached
                /\ at \in [Consumers -> DP!Place]
                /\ alert \in [Consumers -> Messages \cup {NoMessage}]
                /\ logged \in [Messages -> Nat] /\ signalled \in [Messages -> Nat]
                /\ recorded \in [Messages -> Nat]
  BY DP!InitDInv, DP!NextDInv, PipelineAssumption, NoMessageAssumption
  DEF DP!DInv, DP!TypeOK

\* Every step of the pipeline is a step of the dispatcher or leaves it alone.
LEMMA StepIsDispatcher ==
  ASSUME IInv, [PipelineNext]_pipelineVars
  PROVE  D!Next \/ UNCHANGED alerting
<1>1. CASE UNCHANGED alerting
  BY <1>1
<1>2. ASSUME NEW c \in Consumers, RaiseAlert(c) PROVE D!Next
  <2>1. cur[c] \in Messages
    BY <1>2, HeldIsMessage DEF RaiseAlert, IInv, Typed
  <2> QED
    BY <1>2, <2>1 DEF RaiseAlert, D!Next
<1>3. ASSUME NEW c \in Consumers, Stops(c) PROVE D!Next \/ UNCHANGED alerting
  BY <1>3 DEF Stops, D!Next
<1> QED
  BY <1>1, <1>2, <1>3
  DEF PipelineNext, pipelineVars, GroupStep, QuietReturns, ScoringRaises,
      DispatchStep, AlertReturns, AlertRaises, D!Next

-----------------------------------------------------------------------------
(* The invariant of the composition.                                       *)

\* A process inside dispatch is there for the alarming event it holds, and such an
\* event has been processed only once its alert has reached a channel.
Handed ==
    \A c \in Consumers :
        at[c] # "idle" =>
            /\ pc[c] = "received" /\ alert[c] = cur[c]
            /\ IsEvent(Current(c)) /\ cur[c] \notin quiet

ProcessedReached ==
    \A p \in Partitions : \A o \in Alarming(p) : o \in processed[p] => D!Reached(<<p, o>>)

PInv == IInv /\ DP!DInv /\ Handed /\ ProcessedReached

LEMMA InitPInv == PipelineInit => PInv
<1> SUFFICES ASSUME PipelineInit PROVE PInv
  OBVIOUS
<1>1. IInv
  BY InitInv DEF PipelineInit
<1>2. DP!DInv
  BY SameDispatcher, DispatcherInv DEF PipelineInit
<1>3. Handed
  BY DEF PipelineInit, D!Init, Handed
<1>4. ProcessedReached
  BY DEF PipelineInit, Init, ProcessedReached
<1> QED
  BY <1>1, <1>2, <1>3, <1>4 DEF PInv

\* What has reached a channel stays there.
LEMMA PipelineReachedKept ==
  ASSUME PInv, [PipelineNext]_pipelineVars, NEW a \in Messages, D!Reached(a)
  PROVE  D!Reached(a)'
<1> USE DEF D!Reached, D!channels, D!deadLetters
<1>1. /\ logged \in [Messages -> Nat] /\ signalled \in [Messages -> Nat]
      /\ recorded \in [Messages -> Nat]
  BY DispatcherInv DEF PInv
<1>2. CASE UNCHANGED alerting
  BY <1>2 DEF alerting
<1>3. ASSUME NEW c \in Consumers, NEW b \in Messages, D!Dispatch(c, b)
      PROVE  D!Reached(a)'
  BY <1>3 DEF D!Dispatch
<1>4. ASSUME NEW c \in Consumers, D!LogLine(c) PROVE D!Reached(a)'
  BY <1>1, <1>4 DEF D!LogLine
<1>5. ASSUME NEW c \in Consumers, D!Signal(c) PROVE D!Reached(a)'
  BY <1>1, <1>5 DEF D!Signal
<1>6. ASSUME NEW c \in Consumers, D!SignalRaises(c) PROVE D!Reached(a)'
  BY <1>1, <1>6 DEF D!SignalRaises
<1>7. ASSUME NEW c \in Consumers, D!WriteDeadLetter(c) PROVE D!Reached(a)'
  BY <1>1, <1>7 DEF D!WriteDeadLetter
<1>8. ASSUME NEW c \in Consumers, D!Retry(c) \/ D!Abandon(c) \/ D!Leave(c)
      PROVE  D!Reached(a)'
  BY <1>8 DEF D!Retry, D!Abandon, D!Leave
<1>9. D!Next \/ UNCHANGED alerting
  BY StepIsDispatcher DEF PInv
<1> QED
  BY <1>2, <1>3, <1>4, <1>5, <1>6, <1>7, <1>8, <1>9
  DEF D!Next, D!Deliver, D!WriteRaises

\* The processes outside the step, and inside dispatch, keep their event.
LEMMA StepHanded ==
  ASSUME PInv, [PipelineNext]_pipelineVars
  PROVE  Handed'
<1> USE DEF PInv, IInv, TypeOK, Handed, Current
<1> at \in [Consumers -> DP!Place] /\ alert \in [Consumers -> Messages \cup {NoMessage}]
  BY DispatcherInv
<1>1. CASE UNCHANGED pipelineVars
  BY <1>1 DEF pipelineVars, vars, alerting
<1>2. ASSUME NEW c \in Consumers, GroupStep(c) PROVE Handed'
  BY <1>2
  DEF GroupStep, alerting, Start, SessionExpires, PollIntervalExpires, Assign, Revoke,
      Poll, Discard, Commit, CommitFenced, CommitRaises, RecordCommit, Close
<1>3. ASSUME NEW c \in Consumers, QuietReturns(c) PROVE Handed'
  BY <1>3 DEF QuietReturns, alerting, ProcessReturns
<1>4. ASSUME NEW c \in Consumers, RaiseAlert(c) PROVE Handed'
  BY <1>4 DEF RaiseAlert, vars, D!Dispatch
<1>5. ASSUME NEW c \in Consumers, ScoringRaises(c) PROVE Handed'
  BY <1>5 DEF ScoringRaises, alerting, ProcessRaises, Close
<1>6. ASSUME NEW c \in Consumers, DispatchStep(c) PROVE Handed'
  BY <1>6
  DEF DispatchStep, vars, D!Deliver, D!LogLine, D!Signal, D!SignalRaises, D!Retry,
      D!WriteDeadLetter
<1>7. ASSUME NEW c \in Consumers, AlertReturns(c) PROVE Handed'
  BY <1>7 DEF AlertReturns, ProcessReturns, D!Leave, D!Forget
<1>8. ASSUME NEW c \in Consumers, AlertRaises(c) PROVE Handed'
  BY <1>8 DEF AlertRaises, ProcessRaises, Close, D!WriteRaises, D!Abandon, D!Forget
<1>9. ASSUME NEW c \in Consumers, Stops(c) PROVE Handed'
  BY <1>9 DEF Stops, Interrupt, Crash, Close, alerting, D!Abandon, D!Forget
<1> QED
  BY <1>1, <1>2, <1>3, <1>4, <1>5, <1>6, <1>7, <1>8, <1>9 DEF PipelineNext

\* An event becomes processed by being quiet, or because dispatch has returned.
LEMMA StepProcessedReached ==
  ASSUME PInv, [PipelineNext]_pipelineVars
  PROVE  ProcessedReached'
<1> SUFFICES ASSUME NEW p \in Partitions, NEW o \in Alarming(p), o \in processed'[p]
             PROVE  D!Reached(<<p, o>>)'
  <2>1. [Next]_vars /\ quiet' = quiet
    BY DEF PipelineNext, pipelineVars, Next, GroupStep, QuietReturns, RaiseAlert,
       ScoringRaises, DispatchStep, AlertReturns, AlertRaises, Stops
  <2>2. \A q \in Partitions : Alarming(q)' = Alarming(q)
    BY <2>1, LogKept DEF Alarming
  <2> QED
    BY <2>2 DEF ProcessedReached
<1>1. <<p, o>> \in Messages
  BY DEF Alarming, EventsIn, Messages
<1>2. CASE o \in processed[p]
  BY <1>1, <1>2, PipelineReachedKept DEF PInv, ProcessedReached
<1>3. CASE o \notin processed[p]
  <2>1. PICK c \in Consumers : ProcessReturns(c) /\ (QuietReturns(c) \/ AlertReturns(c))
    BY <1>3
    DEF PipelineNext, pipelineVars, vars, GroupStep, QuietReturns, RaiseAlert,
        ScoringRaises, DispatchStep, AlertReturns, AlertRaises, Stops, Start,
        SessionExpires, PollIntervalExpires, Assign, Revoke, Poll, Discard, Commit,
        CommitFenced, CommitRaises, ProcessRaises, Interrupt, Crash
  <2>2. cur[c] \in Messages
    BY <2>1, HeldIsMessage DEF ProcessReturns, PInv, IInv, Typed
  <2>3. cur[c] = <<p, o>>
    BY <1>3, <2>1, <2>2 DEF ProcessReturns, PInv, IInv, TypeOK, Messages
  <2>4. AlertReturns(c)
    BY <2>1, <2>3 DEF QuietReturns, Alarming
  <2>5. alert[c] = <<p, o>> /\ at[c] = "returned"
    BY <2>3, <2>4 DEF AlertReturns, D!Leave, PInv, Handed
  <2>6. D!ReturnedMeansReached
    BY SameDispatcher, DispatcherInv DEF PInv
  <2>7. D!Reached(<<p, o>>)
    BY <2>5, <2>6 DEF D!ReturnedMeansReached
  <2> QED
    BY <1>1, <2>7, PipelineReachedKept
<1> QED
  BY <1>2, <1>3

LEMMA NextPInv == PInv /\ [PipelineNext]_pipelineVars => PInv'
<1> SUFFICES ASSUME PInv, [PipelineNext]_pipelineVars PROVE PInv'
  OBVIOUS
<1>1. [Next]_vars
  BY DEF PipelineNext, pipelineVars, Next, GroupStep, QuietReturns, RaiseAlert,
     ScoringRaises, DispatchStep, AlertReturns, AlertRaises, Stops
<1>2. IInv'
  BY <1>1, NextInv DEF PInv
<1>3. [DP!Next]_(DP!vars)
  <2>1. D!Next \/ UNCHANGED alerting
    BY StepIsDispatcher DEF PInv
  <2> QED
    BY <2>1, SameDispatcher
    DEF alerting, DP!vars, DP!channels, DP!deadLetters
<1>4. DP!DInv'
  BY <1>3, DispatcherInv DEF PInv
<1> QED
  BY <1>2, <1>4, StepHanded, StepProcessedReached DEF PInv

\* However deliveries, dead-letter writes, processes and rebalances fail, the
\* group never commits past an alarming event whose alert nobody can see.
THEOREM NoAlertLost == PipelineSpec => []CommittedAlertsReached
<1>1. PInv => CommittedAlertsReached
  BY DEF PInv, IInv, NoEventAckedUnprocessed, ProcessedReached, CommittedAlertsReached,
     Alarming
<1> QED
  BY <1>1, InitPInv, NextPInv, PTL DEF PipelineSpec

\* The pipeline leaves the consumer group's protocol as it is.
THEOREM PipelineImplementsGroup == PipelineSpec => RefinesAtLeastOnce
  BY PipelineIsGroup, GroupIsAtLeastOnce

-----------------------------------------------------------------------------
(* Repeats.  Everything that can still become a call of dispatch is counted *)
(* beside the calls that repeat one: a process that holds an alarming event *)
(* and has not dispatched its alert, and an alarming event the group will   *)
(* fetch, for the first time or once more.  Beyond one for each event whose *)
(* alert is still to be dispatched, these are paid for by disturbances.     *)

AlarmingMessage(m) == m \notin quiet /\ IsEvent(log[m[1]][m[2]])

Repeats == {r \in Messages \X (2 .. MaxCalls) : r[2] <= calls[r[1]]}

\* Processes that will dispatch the alert of the event they hold.
Waiting == {c \in Consumers : pc[c] = "received" /\ at[c] = "idle" /\ AlarmingMessage(cur[c])}

\* Alarming events not acknowledged, and ahead of whoever reads their partition.
Fetchable ==
    {m \in Messages :
        /\ AlarmingMessage(m)
        /\ committed[m[1]] <= m[2]
        /\ \A c \in Consumers :
              owner[m[1]] = c /\ pc[c] # "stopped" => position[m[1]] <= m[2]}

\* Alarming events whose alert was never dispatched.
Unraised == {m \in Messages : AlarmingMessage(m) /\ calls[m] = 0}

\* Between the group's committed offset and its reader's position there is no event
\* but the one in the reader's hands: an eviction or a crash gives back that one only.
OneEventOut ==
    \A p \in Partitions, c \in Consumers :
        owner[p] = c /\ pc[c] # "stopped" =>
            \A o \in EventsIn(p) : committed[p] <= o /\ o < position[p] => cur[c] = <<p, o>>

\* What is in dispatch or in a channel was dispatched.
CalledFirst ==
    /\ \A c \in Consumers : at[c] # "idle" => calls[alert[c]] > 0
    /\ \A m \in Messages : logged[m] > 0 \/ signalled[m] > 0 \/ recorded[m] > 0 => calls[m] > 0

FaultsPay ==
    /\ IsFiniteSet(Waiting)
    /\ Cardinality(Repeats) + Cardinality(Waiting) + Cardinality(Fetchable)
          <= Cardinality(Unraised) + faults

\* The invariant behind RepeatsNeedFaults.
RInv == PInv /\ OneEventOut /\ CalledFirst /\ FaultsPay

LEMMA MessagesFinite ==
  /\ IsFiniteSet(Messages)
  /\ \A m \in Messages : m = <<m[1], m[2]>> /\ m[1] \in Partitions /\ m[2] \in Offsets
<1>1. IsFiniteSet(Offsets)
  <2> DEFINE last == LogEnd - 1
  <2>1. last \in Int
    BY LogEndAssumption
  <2> HIDE DEF last
  <2>2. IsFiniteSet(0 .. last)
    BY <2>1, FS_Interval
  <2> QED
    BY <2>2 DEF Offsets, last
<1> QED
  BY <1>1, FS_Product, PartitionsAssumption DEF Messages

LEMMA RepeatsFinite == IsFiniteSet(Repeats)
<1>1. IsFiniteSet(2 .. MaxCalls)
  BY FS_Interval, PipelineAssumption
<1>2. IsFiniteSet(Messages \X (2 .. MaxCalls))
  BY <1>1, FS_Product, MessagesFinite
<1> QED
  BY <1>2, FS_Subset DEF Repeats

\* No step changes what the messages are, nor which of them are alarming.
LEMMA AlarmsKept ==
  ASSUME [PipelineNext]_pipelineVars
  PROVE  /\ UNCHANGED <<log, quiet>>
         /\ \A m : AlarmingMessage(m)' <=> AlarmingMessage(m)
<1>1. [Next]_vars /\ quiet' = quiet
  BY DEF PipelineNext, pipelineVars, Next, GroupStep, QuietReturns, RaiseAlert,
     ScoringRaises, DispatchStep, AlertReturns, AlertRaises, Stops
<1>2. log' = log
  BY <1>1, LogKept
<1> QED
  BY <1>1, <1>2 DEF AlarmingMessage

\* An event comes back only from the hands of the reader that loses its partition.
LEMMA FetchableKept ==
  ASSUME PInv, TypeOK', OneEventOut, UNCHANGED <<log, quiet>>,
         NEW m \in Fetchable', committed[m[1]] <= committed'[m[1]],
         \A c \in Consumers :
            owner[m[1]] = c /\ pc[c] # "stopped" =>
               \/ owner'[m[1]] = c /\ pc'[c] # "stopped" /\ position[m[1]] <= position'[m[1]]
               \/ cur[c] # m
  PROVE  m \in Fetchable
<1>1. m \in Messages /\ AlarmingMessage(m) /\ committed'[m[1]] <= m[2]
  BY DEF Fetchable, AlarmingMessage
<1>2. m[1] \in Partitions /\ m[2] \in Offsets /\ m = <<m[1], m[2]>> /\ m[2] \in EventsIn(m[1])
  BY <1>1, MessagesFinite DEF AlarmingMessage, EventsIn
<1>3. /\ committed[m[1]] \in Nat /\ committed'[m[1]] \in Int
      /\ position[m[1]] \in Nat /\ position'[m[1]] \in Int /\ m[2] \in Nat
  BY <1>2, LogEndAssumption DEF PInv, IInv, TypeOK, Offsets
<1>4. committed[m[1]] <= m[2]
  BY <1>1, <1>3
<1>5. ASSUME NEW c \in Consumers, owner[m[1]] = c, pc[c] # "stopped"
      PROVE  position[m[1]] <= m[2]
  <2>1. CASE cur[c] # m
    <3>1. ~(m[2] < position[m[1]])
      BY <1>2, <1>4, <1>5, <2>1 DEF OneEventOut
    <3> QED
      BY <1>3, <3>1
  <2>2. CASE owner'[m[1]] = c /\ pc'[c] # "stopped" /\ position[m[1]] <= position'[m[1]]
    <3>1. position'[m[1]] <= m[2]
      BY <2>2 DEF Fetchable
    <3> QED
      BY <1>3, <2>2, <3>1
  <2> QED
    BY <1>5, <2>1, <2>2
<1> QED
  BY <1>1, <1>4, <1>5 DEF Fetchable

\* A step that nothing disturbs takes nothing back: an event leaves a partition for
\* the hands of its reader, and these for dispatch.
Undisturbed ==
    /\ UNCHANGED <<faults, calls>>
    /\ Waiting' \subseteq Waiting /\ Fetchable' \subseteq Fetchable

\* A disturbance gives one event back at most.
Disturbed ==
    /\ faults' = faults + 1 /\ calls' = calls
    /\ Waiting' \subseteq Waiting
    /\ \E m : Fetchable' \subseteq Fetchable \cup {m}

Taken(c, m) ==
    /\ UNCHANGED <<faults, calls>>
    /\ m \in Fetchable
    /\ Waiting' \subseteq Waiting \cup {c} /\ Fetchable' \subseteq Fetchable \ {m}

Raised(c, m) ==
    /\ UNCHANGED faults /\ calls' = [calls EXCEPT ![m] = @ + 1]
    /\ m \in Messages /\ AlarmingMessage(m) /\ calls[m] < MaxCalls
    /\ c \in Waiting
    /\ Waiting' \subseteq Waiting \ {c} /\ Fetchable' \subseteq Fetchable

\* Steps in which readers keep their partitions and their positions.
LEMMA ReadersStay ==
  ASSUME PInv, TypeOK', OneEventOut, UNCHANGED <<log, quiet>>,
         \A p \in Partitions : committed[p] <= committed'[p],
         \A p \in Partitions, c \in Consumers :
            owner[p] = c /\ pc[c] # "stopped" =>
               owner'[p] = c /\ pc'[c] # "stopped" /\ position[p] <= position'[p]
  PROVE  Fetchable' \subseteq Fetchable
<1> SUFFICES ASSUME NEW m \in Fetchable' PROVE m \in Fetchable
  OBVIOUS
<1>1. m[1] \in Partitions
  BY MessagesFinite DEF Fetchable
<1> QED
  BY <1>1, FetchableKept

\* Steps in which one reader loses its partitions.
LEMMA ReaderLoses ==
  ASSUME PInv, TypeOK', OneEventOut, UNCHANGED <<log, quiet, position>>,
         \A p \in Partitions : committed[p] <= committed'[p],
         NEW d \in Consumers,
         \A p \in Partitions : owner[p] # d => owner'[p] = owner[p],
         \A c \in Consumers \ {d} : pc'[c] = pc[c]
  PROVE  Fetchable' \subseteq Fetchable \cup {m \in {cur[d]} : owner[m[1]] = d}
<1> SUFFICES ASSUME NEW m \in Fetchable', ~(m = cur[d] /\ owner[m[1]] = d)
             PROVE  m \in Fetchable
  OBVIOUS
<1>1. m[1] \in Partitions
  BY MessagesFinite DEF Fetchable
<1>2. position[m[1]] <= position'[m[1]]
  BY <1>1, LogEndAssumption DEF PInv, IInv, TypeOK
<1> QED
  BY <1>1, <1>2, FetchableKept

LEMMA WaitingKept ==
  ASSUME [PipelineNext]_pipelineVars,
         \A c \in Consumers : pc'[c] = "received" /\ at'[c] = "idle" =>
            pc[c] = "received" /\ at[c] = "idle" /\ cur'[c] = cur[c]
  PROVE  Waiting' \subseteq Waiting
<1>1. log' = log /\ quiet' = quiet
  BY AlarmsKept
<1> QED
  BY <1>1 DEF Waiting, AlarmingMessage

\* The facts about a step that the analysis below needs.
LEMMA StepFacts ==
  ASSUME PInv, PInv', [PipelineNext]_pipelineVars
  PROVE  /\ UNCHANGED <<log, quiet>> /\ TypeOK /\ TypeOK'
         /\ Handed /\ HoldsMessage /\ HeldMessage
         /\ at \in [Consumers -> DP!Place]
         /\ \A p \in Partitions : committed[p] \in Nat /\ position[p] \in Nat
         /\ \A c \in Consumers : pc[c] \in {"received", "committing"} =>
               cur[c] \in Messages /\ cur[c][1] \in Partitions /\ cur[c][2] \in Nat
  BY AlarmsKept, DispatcherInv, HeldIsMessage, LogEndAssumption
  DEF PInv, IInv, Typed, TypeOK, Offsets

\* The steps of the group that are neither disturbances nor polls.
LEMMA GroupUndisturbed ==
  ASSUME PInv, PInv', OneEventOut, PipelineNext, NEW c \in Consumers, GroupStep(c),
         \/ Start(c) \/ SessionExpires(c) \/ Discard(c) \/ Commit(c) \/ CommitFenced(c)
         \/ \E p \in Partitions : Assign(c, p)
  PROVE  Undisturbed
<1>1. UNCHANGED <<faults, calls, at>>
  BY DEF GroupStep, alerting, Start, SessionExpires, Discard, Commit, CommitFenced, Assign
<1>2. Waiting' \subseteq Waiting
  <2>1. \A d \in Consumers : pc'[d] = "received" => pc[d] = "received" /\ cur'[d] = cur[d]
    BY StepFacts
    DEF TypeOK, Start, SessionExpires, Discard, Commit, CommitFenced, Assign, Close
  <2> QED
    BY <1>1, <2>1, WaitingKept
<1>3. CASE Start(c) \/ SessionExpires(c) \/ Discard(c) \/ \E p \in Partitions : Assign(c, p)
  <2>1. committed' = committed
    BY <1>3 DEF Start, SessionExpires, Discard, Assign
  <2>2. ASSUME NEW p \in Partitions, NEW d \in Consumers, owner[p] = d, pc[d] # "stopped"
        PROVE  owner'[p] = d /\ pc'[d] # "stopped" /\ position[p] <= position'[p]
    BY <1>3, <2>2, StepFacts, NobodyAssumption
    DEF Start, SessionExpires, Discard, Assign, Release, TypeOK
  <2>3. Fetchable' \subseteq Fetchable
    BY <2>1, <2>2, StepFacts, ReadersStay
  <2> QED
    BY <1>1, <1>2, <2>3 DEF Undisturbed
<1>4. CASE Commit(c)
  <2>1. UNCHANGED <<owner, position>> /\ \A d \in Consumers : pc[d] # "stopped" => pc'[d] # "stopped"
    BY <1>4, StepFacts DEF Commit, TypeOK
  <2>2. \A p \in Partitions : committed[p] <= committed'[p]
    BY <1>4, StepFacts DEF Commit, RecordCommit, HeldMessage, HoldsMessage, TypeOK
  <2>3. Fetchable' \subseteq Fetchable
    BY <2>1, <2>2, StepFacts, ReadersStay
  <2> QED
    BY <1>1, <1>2, <2>3 DEF Undisturbed
<1>5. CASE CommitFenced(c)
  <2>1. /\ UNCHANGED <<committed, position>> /\ owner[cur[c][1]] # c
        /\ \A p \in Partitions : owner[p] # c => owner'[p] = owner[p]
        /\ \A d \in Consumers \ {c} : pc'[d] = pc[d]
    BY <1>5, StepFacts DEF CommitFenced, Close, Release, TypeOK
  <2>2. Fetchable' \subseteq Fetchable \cup {m \in {cur[c]} : owner[m[1]] = c}
    BY <2>1, StepFacts, ReaderLoses
  <2> QED
    BY <1>1, <1>2, <2>1, <2>2 DEF Undisturbed
<1> QED
  BY <1>3, <1>4, <1>5

\* The steps inside process_event, other than those that enter or leave it.
LEMMA ProcessUndisturbed ==
  ASSUME PInv, PInv', OneEventOut, PipelineNext, NEW c \in Consumers,
         QuietReturns(c) \/ DispatchStep(c) \/ AlertReturns(c)
  PROVE  Undisturbed
<1>1. /\ UNCHANGED <<faults, calls, owner, position, committed, cur>>
      /\ \A d \in Consumers : pc[d] # "stopped" => pc'[d] # "stopped"
      /\ \A d \in Consumers : pc'[d] = "received" /\ at'[d] = "idle" =>
            pc[d] = "received" /\ at[d] = "idle"
  BY StepFacts
  DEF QuietReturns, DispatchStep, AlertReturns, ProcessReturns, alerting, vars, TypeOK,
      D!Leave, D!Forget, D!Deliver, D!LogLine, D!Signal, D!SignalRaises, D!Retry, D!WriteDeadLetter
<1>2. Waiting' \subseteq Waiting
  BY <1>1, WaitingKept
<1>3. Fetchable' \subseteq Fetchable
  BY <1>1, StepFacts, ReadersStay
<1> QED
  BY <1>1, <1>2, <1>3 DEF Undisturbed

\* Failures, evictions, rebalances, interrupts and crashes.
LEMMA StepDisturbed ==
  ASSUME PInv, PInv', OneEventOut, PipelineNext, NEW c \in Consumers,
         \/ GroupStep(c) /\ (\/ PollIntervalExpires(c) \/ CommitRaises(c)
                              \/ \E p \in Partitions : Revoke(c, p))
         \/ ScoringRaises(c) \/ AlertRaises(c) \/ Stops(c)
  PROVE  Disturbed
<1>1. faults' = faults + 1 /\ calls' = calls /\ position' = position
  BY DEF GroupStep, PollIntervalExpires, CommitRaises, Revoke, ScoringRaises, AlertRaises, Stops,
         ProcessRaises, Interrupt, Crash, Fault, alerting, D!WriteRaises, D!Abandon
<1>2. /\ \A p \in Partitions : owner[p] # c => owner'[p] = owner[p]
      /\ \A d \in Consumers \ {c} : pc'[d] = pc[d]
  BY StepFacts
  DEF PollIntervalExpires, CommitRaises, Revoke, ScoringRaises, AlertRaises, Stops,
      ProcessRaises, Interrupt, Crash, Close, Release, TypeOK
<1>3. \A d \in Consumers : pc'[d] = "received" /\ at'[d] = "idle" =>
         pc[d] = "received" /\ at[d] = "idle" /\ cur'[d] = cur[d]
  BY StepFacts
  DEF GroupStep, PollIntervalExpires, CommitRaises, Revoke, ScoringRaises, AlertRaises, Stops,
      ProcessRaises, Interrupt, Crash, Close, alerting, D!WriteRaises, D!Abandon, D!Forget, TypeOK
<1>4. \A p \in Partitions : committed[p] <= committed'[p]
  <2>1. CASE RecordCommit(c)
    <3>1. pc[c] = "committing" /\ cur[c] \in Messages /\ owner[cur[c][1]] = c
      BY <2>1, StepFacts DEF RecordCommit
    <3>2. committed[cur[c][1]] <= cur[c][2] + 1
      BY <3>1, StepFacts, NoMessageAssumption DEF HeldMessage
    <3>3. \A p \in Partitions :
             committed'[p] = IF p = cur[c][1] THEN cur[c][2] + 1 ELSE committed[p]
      BY <2>1, StepFacts DEF RecordCommit, TypeOK
    <3> QED
      BY <3>2, <3>3, StepFacts
  <2>2. CASE committed' = committed
    BY <2>2, StepFacts
  <2> QED
    BY <2>1, <2>2
    DEF GroupStep, PollIntervalExpires, CommitRaises, Revoke, ScoringRaises, AlertRaises, Stops,
        ProcessRaises, Interrupt, Crash
<1>5. Fetchable' \subseteq Fetchable \cup {m \in {cur[c]} : owner[m[1]] = c}
  BY <1>1, <1>2, <1>4, StepFacts, ReaderLoses
<1>6. Waiting' \subseteq Waiting
  BY <1>3, WaitingKept
<1> QED
  BY <1>1, <1>5, <1>6 DEF Disturbed

\* A message is polled.
LEMMA PollTakes ==
  ASSUME PInv, PInv', OneEventOut, PipelineNext, NEW c \in Consumers, NEW p \in Partitions,
         GroupStep(c), Poll(c, p)
  PROVE  Undisturbed \/ \E m \in Messages : Taken(c, m)
<1> DEFINE m == <<p, position[p]>>
<1>1. /\ UNCHANGED <<faults, calls, at, owner, committed, log, quiet>>
      /\ pc[c] = "polling" /\ owner[p] = c /\ position[p] \in 0 .. LogEnd - 1
      /\ pc' = [pc EXCEPT ![c] = "received"] /\ cur' = [cur EXCEPT ![c] = m]
      /\ position' = [position EXCEPT ![p] = @ + 1]
  BY StepFacts, LogEndAssumption DEF GroupStep, Poll, alerting
<1>2. m \in Messages
  BY <1>1 DEF Messages, Offsets
<1>3. Fetchable' \subseteq Fetchable
  <2>1. \A q \in Partitions, d \in Consumers :
           owner[q] = d /\ pc[d] # "stopped" => pc'[d] # "stopped" /\ position[q] <= position'[q]
    BY <1>1, StepFacts DEF TypeOK
  <2> QED
    BY <1>1, <2>1, StepFacts, ReadersStay
<1>4. m \notin Fetchable'
  <2>1. pc'[c] # "stopped" /\ owner'[p] = c /\ ~(position'[p] <= position[p])
    BY <1>1, StepFacts DEF TypeOK
  <2> QED
    BY <2>1 DEF Fetchable
<1>5. \A d \in Consumers \ {c} : pc'[d] = pc[d] /\ cur'[d] = cur[d]
  BY <1>1, StepFacts DEF TypeOK
<1>6. cur'[c] = m
  BY <1>1, StepFacts DEF TypeOK
<1> HIDE DEF m
<1>7. CASE AlarmingMessage(m)
  <2>1. committed[p] <= position[p]
    BY <1>1 DEF PInv, IInv, OwnerSkipsNothing
  <2>2. m \in Fetchable
    BY <1>1, <1>2, <1>7, <2>1, StepFacts DEF Fetchable, m
  <2>3. Waiting' \subseteq Waiting \cup {c}
    BY <1>1, <1>5 DEF Waiting, AlarmingMessage
  <2> QED
    BY <1>1, <1>2, <1>3, <1>4, <2>2, <2>3 DEF Taken
<1>8. CASE ~AlarmingMessage(m)
  <2>1. Waiting' \subseteq Waiting
    BY <1>1, <1>5, <1>6, <1>8 DEF Waiting, AlarmingMessage
  <2> QED
    BY <1>1, <1>3, <2>1 DEF Undisturbed
<1> QED
  BY <1>7, <1>8

\* An alert is handed to dispatch.
LEMMA RaiseAlertRaises ==
  ASSUME PInv, PInv', OneEventOut, PipelineNext, NEW c \in Consumers, RaiseAlert(c)
  PROVE  \E m \in Messages : Raised(c, m)
<1>1. /\ UNCHANGED <<faults, owner, position, committed, pc, cur, log, quiet>>
      /\ calls' = [calls EXCEPT ![cur[c]] = @ + 1] /\ calls[cur[c]] < MaxCalls
      /\ pc[c] = "received" /\ at[c] = "idle" /\ at' = [at EXCEPT ![c] = "delivering"]
  BY DEF RaiseAlert, vars, D!Dispatch
<1>2. cur[c] \in Messages /\ AlarmingMessage(cur[c])
  BY <1>1, StepFacts DEF RaiseAlert, AlarmingMessage, Current
<1>3. c \in Waiting
  BY <1>1, <1>2 DEF Waiting
<1>4. Waiting' \subseteq Waiting \ {c}
  <2>1. at'[c] # "idle" /\ \A d \in Consumers \ {c} : at'[d] = at[d]
    BY <1>1, StepFacts
  <2> QED
    BY <1>1, <2>1 DEF Waiting, AlarmingMessage
<1>5. Fetchable' \subseteq Fetchable
  BY <1>1 DEF Fetchable, AlarmingMessage
<1> QED
  BY <1>1, <1>2, <1>3, <1>4, <1>5 DEF Raised

LEMMA StepKinds ==
  ASSUME PInv, PInv', OneEventOut, [PipelineNext]_pipelineVars
  PROVE  \/ Undisturbed \/ Disturbed
         \/ \E c \in Consumers, m \in Messages : Taken(c, m) \/ Raised(c, m)
<1>1. CASE UNCHANGED pipelineVars
  BY <1>1 DEF pipelineVars, vars, alerting, Undisturbed, Waiting, Fetchable, AlarmingMessage
<1>2. ASSUME PipelineNext, NEW c \in Consumers, GroupStep(c)
      PROVE  Undisturbed \/ Disturbed \/ \E m \in Messages : Taken(c, m)
  BY <1>2, GroupUndisturbed, StepDisturbed, PollTakes DEF GroupStep
<1> QED
  BY <1>1, <1>2, ProcessUndisturbed, StepDisturbed, RaiseAlertRaises DEF PipelineNext

LEMMA NextOneEventOut ==
  ASSUME PInv, PInv', OneEventOut, [PipelineNext]_pipelineVars
  PROVE  OneEventOut'
<1> SUFFICES ASSUME NEW p \in Partitions, NEW c \in Consumers, owner'[p] = c, pc'[c] # "stopped",
                    NEW o \in EventsIn(p), committed'[p] <= o, o < position'[p]
             PROVE  cur'[c] = <<p, o>>
  <2>1. [Next]_vars
    BY DEF PipelineNext, pipelineVars, Next, GroupStep, QuietReturns, RaiseAlert,
       ScoringRaises, DispatchStep, AlertReturns, AlertRaises, Stops
  <2> QED
    BY <2>1, LogKept DEF OneEventOut
<1>1. /\ o \in Nat /\ IsEvent(log[p][o]) /\ committed[p] \in Nat /\ position[p] \in Nat
      /\ owner[p] = c /\ pc[c] # "stopped" /\ committed[p] <= o /\ o < position[p]
            => cur[c] = <<p, o>>
  BY StepFacts DEF EventsIn, Offsets, OneEventOut
<1>2. CASE UNCHANGED <<owner, position, committed, cur>> /\ (pc'[c] # "stopped" => pc[c] # "stopped")
  BY <1>1, <1>2
<1>3. ASSUME NEW d \in Consumers,
             ScoringRaises(d) \/ AlertRaises(d) \/ Stops(d) \/ (GroupStep(d) /\ CommitRaises(d))
      PROVE  cur'[c] = <<p, o>>
  <2>1. /\ position' = position /\ pc' = [pc EXCEPT ![d] = "stopped"]
        /\ cur' = [cur EXCEPT ![d] = NoMessage]
        /\ owner' = owner \/ Release(d)
    BY <1>3
    DEF ScoringRaises, AlertRaises, Stops, CommitRaises, ProcessRaises, Interrupt, Crash, Close
  <2>2. c # d /\ pc[c] # "stopped" /\ cur'[c] = cur[c]
    BY <2>1, StepFacts DEF TypeOK
  <2>3. owner[p] = c
    BY <2>1, <2>2, NobodyAssumption DEF Release
  <2>4. committed'[p] = committed[p] \/ RecordCommit(d)
    BY <1>3 DEF ScoringRaises, AlertRaises, Stops, CommitRaises, ProcessRaises, Interrupt, Crash
  <2>5. committed'[p] = committed[p]
    BY <2>2, <2>3, <2>4, StepFacts DEF RecordCommit, TypeOK
  <2> QED
    BY <1>1, <2>1, <2>2, <2>3, <2>5
<1>4. ASSUME NEW d \in Consumers, GroupStep(d),
             \/ Start(d) \/ SessionExpires(d) \/ PollIntervalExpires(d) \/ CommitFenced(d)
             \/ \E q \in Partitions : Revoke(d, q)
      PROVE  cur'[c] = <<p, o>>
  <2>1. /\ position' = position /\ committed' = committed
        /\ owner[p] = c /\ pc[c] # "stopped" /\ cur'[c] = cur[c]
    BY <1>4, StepFacts, NobodyAssumption
    DEF Start, SessionExpires, PollIntervalExpires, CommitFenced, Revoke, Release, Close, TypeOK
  <2> QED
    BY <1>1, <2>1
<1>5. ASSUME NEW d \in Consumers, NEW q \in Partitions, Assign(d, q) PROVE cur'[c] = <<p, o>>
  <2>1. CASE p = q
    <3>1. position'[p] = committed[p] /\ committed'[p] = committed[p]
      BY <1>5, <2>1, StepFacts DEF Assign, TypeOK
    <3> QED
      BY <1>1, <3>1
  <2>2. CASE p # q
    BY <1>1, <1>5, <2>2, StepFacts DEF Assign, TypeOK
  <2> QED
    BY <2>1, <2>2
<1>6. ASSUME NEW d \in Consumers, NEW q \in Partitions, Poll(d, q) PROVE cur'[c] = <<p, o>>
  <2>1. /\ UNCHANGED <<owner, committed>> /\ pc[d] = "polling" /\ owner[q] = d
        /\ position' = [position EXCEPT ![q] = @ + 1]
        /\ cur' = [cur EXCEPT ![d] = <<q, position[q]>>]
        /\ pc' = [pc EXCEPT ![d] = "received"]
    BY <1>6 DEF Poll
  <2>2. pc[c] # "stopped"
    BY <2>1, StepFacts DEF TypeOK
  <2>3. cur[d] = NoMessage /\ \A n : NoMessage # <<p, n>> \/ <<p, n>> \notin Messages
    BY <2>1, StepFacts, NoMessageAssumption DEF HoldsMessage
  <2>4. <<p, o>> \in Messages
    BY DEF EventsIn, Messages
  <2>5. CASE p = q
    <3>1. c = d
      BY <2>1, <2>5
    <3>2. ~(o < position[p])
      BY <1>1, <2>1, <2>2, <2>3, <2>4, <3>1
    <3>3. position'[p] = position[p] + 1
      BY <2>1, <2>5, StepFacts DEF TypeOK
    <3>4. o = position[p]
      BY <1>1, <3>2, <3>3
    <3> QED
      BY <2>1, <2>5, <3>1, <3>4, StepFacts DEF TypeOK
  <2>6. CASE p # q
    <3>1. cur[c] = <<p, o>>
      BY <1>1, <2>1, <2>2, <2>6, StepFacts DEF TypeOK
    <3>2. c # d
      BY <2>3, <2>4, <3>1
    <3> QED
      BY <2>1, <3>1, <3>2, StepFacts DEF TypeOK
  <2> QED
    BY <2>5, <2>6
<1>7. ASSUME NEW d \in Consumers, Discard(d) PROVE cur'[c] = <<p, o>>
  <2>1. /\ UNCHANGED <<owner, position, committed>> /\ ~IsEvent(Current(d))
        /\ pc[d] = "received" /\ pc' = [pc EXCEPT ![d] = "polling"]
        /\ cur' = [cur EXCEPT ![d] = NoMessage]
    BY <1>7 DEF Discard
  <2>2. cur[c] = <<p, o>>
    BY <1>1, <2>1, StepFacts DEF TypeOK
  <2>3. c # d
    BY <1>1, <2>1, <2>2 DEF Current
  <2> QED
    BY <2>1, <2>2, <2>3, StepFacts DEF TypeOK
<1>8. ASSUME NEW d \in Consumers, Commit(d) PROVE cur'[c] = <<p, o>>
  <2>1. /\ UNCHANGED <<owner, position>> /\ owner[cur[d][1]] = d /\ pc[d] = "committing"
        /\ committed' = [committed EXCEPT ![cur[d][1]] = cur[d][2] + 1]
        /\ pc' = [pc EXCEPT ![d] = "polling"] /\ cur' = [cur EXCEPT ![d] = NoMessage]
    BY <1>8 DEF Commit, RecordCommit
  <2>2. /\ cur[d] \in Messages /\ cur[d] # NoMessage /\ cur[d][2] \in Nat
        /\ position[cur[d][1]] = cur[d][2] + 1 /\ committed[cur[d][1]] <= cur[d][2]
    BY <2>1, StepFacts, NoMessageAssumption DEF HeldMessage
  <2>3. CASE p = cur[d][1]
    <3>1. committed'[p] = position'[p]
      BY <2>1, <2>2, <2>3, StepFacts DEF TypeOK
    <3> QED
      BY <1>1, <2>1, <3>1
  <2>4. CASE p # cur[d][1]
    <3>1. cur[c] = <<p, o>>
      BY <1>1, <2>1, <2>4, StepFacts DEF TypeOK
    <3>2. c # d
      BY <2>4, <3>1
    <3> QED
      BY <2>1, <3>1, <3>2, StepFacts DEF TypeOK
  <2> QED
    BY <2>3, <2>4
<1>9. ASSUME NEW d \in Consumers,
             QuietReturns(d) \/ RaiseAlert(d) \/ DispatchStep(d) \/ AlertReturns(d)
      PROVE  cur'[c] = <<p, o>>
  <2>1. UNCHANGED <<owner, position, committed, cur>> /\ (pc'[c] # "stopped" => pc[c] # "stopped")
    BY <1>9, StepFacts
    DEF QuietReturns, RaiseAlert, DispatchStep, AlertReturns, ProcessReturns, vars, TypeOK
  <2> QED
    BY <1>2, <2>1
<1>10. CASE UNCHANGED pipelineVars
  BY <1>2, <1>10 DEF pipelineVars, vars
<1>11. ASSUME NEW d \in Consumers, GroupStep(d) PROVE cur'[c] = <<p, o>>
  BY <1>3, <1>4, <1>5, <1>6, <1>7, <1>8, <1>11 DEF GroupStep
<1>12. ASSUME PipelineNext PROVE cur'[c] = <<p, o>>
  <2>1. PICK d \in Consumers :
          \/ GroupStep(d) \/ QuietReturns(d) \/ RaiseAlert(d) \/ ScoringRaises(d)
          \/ DispatchStep(d) \/ AlertReturns(d) \/ AlertRaises(d) \/ Stops(d)
    BY <1>12 DEF PipelineNext
  <2>2. CASE GroupStep(d)
    BY <1>11, <2>2
  <2>3. CASE QuietReturns(d) \/ RaiseAlert(d) \/ DispatchStep(d) \/ AlertReturns(d)
    BY <1>9, <2>3
  <2>4. CASE ScoringRaises(d) \/ AlertRaises(d) \/ Stops(d)
    BY <1>3, <2>4
  <2> QED
    BY <2>1, <2>2, <2>3, <2>4
<1> QED
  BY <1>10, <1>12

LEMMA NextCalledFirst ==
  ASSUME PInv, CalledFirst, [PipelineNext]_pipelineVars
  PROVE  CalledFirst'
<1>1. /\ at \in [Consumers -> DP!Place] /\ alert \in [Consumers -> Messages \cup {NoMessage}]
      /\ logged \in [Messages -> Nat] /\ signalled \in [Messages -> Nat]
      /\ recorded \in [Messages -> Nat] /\ calls \in [Messages -> Nat]
      /\ \A c \in Consumers : at[c] # "idle" => alert[c] \in Messages
  BY DispatcherInv, PipelineAssumption DEF PInv, DP!DInv, DP!TypeOK, DP!Located
<1> USE <1>1 DEF CalledFirst
<1>2. CASE UNCHANGED alerting
  BY <1>2 DEF alerting
<1>3. ASSUME NEW c \in Consumers, NEW m \in Messages, D!Dispatch(c, m) PROVE CalledFirst'
  BY <1>3 DEF D!Dispatch, D!channels, D!deadLetters
<1>4. ASSUME NEW c \in Consumers, D!LogLine(c) PROVE CalledFirst'
  BY <1>4 DEF D!LogLine, D!deadLetters
<1>5. ASSUME NEW c \in Consumers, D!Signal(c) PROVE CalledFirst'
  BY <1>5 DEF D!Signal, D!deadLetters
<1>6. ASSUME NEW c \in Consumers, D!SignalRaises(c) PROVE CalledFirst'
  BY <1>6 DEF D!SignalRaises, D!deadLetters
<1>7. ASSUME NEW c \in Consumers, D!Retry(c) PROVE CalledFirst'
  BY <1>7 DEF D!Retry, D!channels, D!deadLetters
<1>8. ASSUME NEW c \in Consumers, D!WriteDeadLetter(c) PROVE CalledFirst'
  BY <1>8 DEF D!WriteDeadLetter, D!channels
<1>9. ASSUME NEW c \in Consumers, D!Abandon(c) \/ D!Leave(c) PROVE CalledFirst'
  BY <1>9 DEF D!Abandon, D!Leave, D!Forget, D!channels, D!deadLetters
<1>10. D!Next \/ UNCHANGED alerting
  BY StepIsDispatcher DEF PInv
<1> QED
  BY <1>2, <1>3, <1>4, <1>5, <1>6, <1>7, <1>8, <1>9, <1>10 DEF D!Next, D!Deliver, D!WriteRaises

-----------------------------------------------------------------------------
(* Counting.                                                               *)

LEMMA Fewer ==
  ASSUME NEW S, NEW T, IsFiniteSet(S), T \subseteq S
  PROVE  /\ IsFiniteSet(T) /\ Cardinality(T) \in Nat /\ Cardinality(S) \in Nat
         /\ Cardinality(T) <= Cardinality(S)
  BY FS_Subset, FS_CardinalityType

LEMMA OneMore ==
  ASSUME NEW S, NEW T, NEW x, IsFiniteSet(S), T \subseteq S \cup {x}
  PROVE  /\ IsFiniteSet(T) /\ Cardinality(T) \in Nat /\ Cardinality(S) \in Nat
         /\ Cardinality(T) <= Cardinality(S) + 1
<1>1. /\ IsFiniteSet(S \cup {x}) /\ Cardinality(S) \in Nat
      /\ Cardinality(S \cup {x}) = IF x \in S THEN Cardinality(S) ELSE Cardinality(S) + 1
  BY FS_AddElement, FS_CardinalityType
<1>2. Cardinality(S \cup {x}) <= Cardinality(S) + 1
  BY <1>1
<1>3. IsFiniteSet(T) /\ Cardinality(T) \in Nat /\ Cardinality(T) <= Cardinality(S \cup {x})
  BY <1>1, Fewer
<1>4. Cardinality(S \cup {x}) \in Nat
  BY <1>1, FS_CardinalityType
<1> QED
  BY <1>1, <1>2, <1>3, <1>4

LEMMA OneLess ==
  ASSUME NEW S, NEW T, NEW x \in S, IsFiniteSet(S), T \subseteq S \ {x}
  PROVE  /\ IsFiniteSet(T) /\ Cardinality(T) \in Nat /\ Cardinality(S) \in Nat
         /\ Cardinality(T) + 1 <= Cardinality(S)
<1>1. /\ IsFiniteSet(S \ {x}) /\ Cardinality(S) \in Nat
      /\ Cardinality(S \ {x}) = Cardinality(S) - 1
  BY FS_RemoveElement, FS_CardinalityType
<1>2. IsFiniteSet(T) /\ Cardinality(T) \in Nat /\ Cardinality(T) <= Cardinality(S \ {x})
  BY <1>1, Fewer
<1> QED
  BY <1>1, <1>2

LEMMA CountedFinite ==
  /\ IsFiniteSet(Repeats) /\ Cardinality(Repeats) \in Nat
  /\ IsFiniteSet(Fetchable) /\ Cardinality(Fetchable) \in Nat
  /\ IsFiniteSet(Unraised) /\ Cardinality(Unraised) \in Nat
<1>1. Fetchable \subseteq Messages /\ Unraised \subseteq Messages
  BY DEF Fetchable, Unraised
<1> QED
  BY <1>1, RepeatsFinite, MessagesFinite, Fewer

\* Where no alert is dispatched, only what may be dispatched yet can change.
LEMMA RepeatsKept ==
  ASSUME [PipelineNext]_pipelineVars, calls' = calls
  PROVE  Repeats' = Repeats /\ Unraised' = Unraised
  BY AlarmsKept DEF Repeats, Unraised, AlarmingMessage

\* A call for an alert is its first, or one more repeat.
LEMMA RaiseCounts ==
  ASSUME PInv, [PipelineNext]_pipelineVars, NEW c \in Consumers, NEW m \in Messages, Raised(c, m)
  PROVE  \/ Repeats' \subseteq Repeats /\ Unraised \subseteq Unraised' \cup {m}
         \/ (\E r : Repeats' \subseteq Repeats \cup {r}) /\ Unraised \subseteq Unraised'
<1>1. calls \in [Messages -> Nat] /\ calls' = [calls EXCEPT ![m] = @ + 1]
  BY PipelineAssumption DEF PInv, DP!DInv, DP!TypeOK, Raised
<1>2. ASSUME NEW u \in Unraised, u # m PROVE u \in Unraised'
  BY <1>1, <1>2, AlarmsKept DEF Unraised
<1>3. CASE calls[m] = 0
  <2>1. ASSUME NEW r \in Repeats' PROVE r \in Repeats
    <3>1. /\ r \in Messages \X (2 .. MaxCalls) /\ r[1] \in Messages
          /\ r[2] \in 2 .. MaxCalls /\ r[2] <= calls'[r[1]]
      BY DEF Repeats
    <3>2. calls'[r[1]] = calls[r[1]]
      BY <1>1, <1>3, <3>1, PipelineAssumption
    <3> QED
      BY <3>1, <3>2 DEF Repeats
  <2> QED
    BY <1>2, <2>1
<1>4. CASE calls[m] # 0
  <2> DEFINE new == <<m, calls[m] + 1>>
  <2>1. ASSUME NEW r \in Repeats', r # new PROVE r \in Repeats
    <3>1. /\ r \in Messages \X (2 .. MaxCalls) /\ r[1] \in Messages /\ r = <<r[1], r[2]>>
          /\ r[2] \in 2 .. MaxCalls /\ r[2] <= calls'[r[1]]
      BY DEF Repeats
    <3>2. CASE r[1] = m
      <4>1. r[2] <= calls[m] + 1 /\ r[2] # calls[m] + 1 /\ r[2] \in Int /\ calls[m] \in Nat
        BY <1>1, <2>1, <3>1, <3>2, PipelineAssumption
      <4> QED
        BY <3>1, <3>2, <4>1 DEF Repeats
    <3>3. CASE r[1] # m
      BY <1>1, <3>1, <3>3 DEF Repeats
    <3> QED
      BY <3>2, <3>3
  <2>2. m \notin Unraised
    BY <1>4 DEF Unraised
  <2> QED
    BY <1>2, <2>1, <2>2
<1> QED
  BY <1>3, <1>4

LEMMA NextFaultsPay ==
  ASSUME PInv, PInv', OneEventOut, FaultsPay, [PipelineNext]_pipelineVars
  PROVE  FaultsPay'
<1> DEFINE r == Cardinality(Repeats)    r1 == Cardinality(Repeats')
           w == Cardinality(Waiting)    w1 == Cardinality(Waiting')
           f == Cardinality(Fetchable)  f1 == Cardinality(Fetchable')
           u == Cardinality(Unraised)   u1 == Cardinality(Unraised')
<1>1. /\ r \in Nat /\ f \in Nat /\ u \in Nat /\ w \in Nat
      /\ IsFiniteSet(Repeats) /\ IsFiniteSet(Fetchable) /\ IsFiniteSet(Waiting)
      /\ IsFiniteSet(Unraised) /\ IsFiniteSet(Unraised') /\ u1 \in Nat
      /\ r + w + f <= u + faults /\ faults \in Nat
  <2>1. Unraised' \subseteq Messages
    BY DEF Unraised
  <2>2. faults \in Nat
    BY MaxFaultsAssumption DEF PInv, IInv, TypeOK
  <2> QED
    BY <2>1, <2>2, CountedFinite, MessagesFinite, Fewer, FS_CardinalityType DEF FaultsPay
<1> SUFFICES IsFiniteSet(Waiting') /\ r1 + w1 + f1 <= u1 + faults'
  BY DEF FaultsPay
<1>2. CASE Undisturbed
  <2>1. Repeats' = Repeats /\ Unraised' = Unraised
    BY <1>2, RepeatsKept DEF Undisturbed
  <2>2. IsFiniteSet(Waiting') /\ w1 \in Nat /\ w1 <= w
    BY <1>1, <1>2, Fewer DEF Undisturbed
  <2>3. f1 \in Nat /\ f1 <= f
    BY <1>1, <1>2, Fewer DEF Undisturbed
  <2>4. faults' = faults /\ r1 = r /\ u1 = u
    BY <1>2, <2>1 DEF Undisturbed
  <2> HIDE DEF r, w, f, u, r1, w1, f1, u1
  <2> QED
    BY <1>1, <2>2, <2>3, <2>4
<1>3. CASE Disturbed
  <2>1. Repeats' = Repeats /\ Unraised' = Unraised
    BY <1>3, RepeatsKept DEF Disturbed
  <2>2. IsFiniteSet(Waiting') /\ w1 \in Nat /\ w1 <= w
    BY <1>1, <1>3, Fewer DEF Disturbed
  <2>3. f1 \in Nat /\ f1 <= f + 1
    <3>1. PICK m : Fetchable' \subseteq Fetchable \cup {m}
      BY <1>3 DEF Disturbed
    <3> QED
      BY <1>1, <3>1, OneMore
  <2>4. faults' = faults + 1 /\ r1 = r /\ u1 = u
    BY <1>3, <2>1 DEF Disturbed
  <2> HIDE DEF r, w, f, u, r1, w1, f1, u1
  <2> QED
    BY <1>1, <2>2, <2>3, <2>4
<1>4. ASSUME NEW c \in Consumers, NEW m \in Messages, Taken(c, m)
      PROVE  IsFiniteSet(Waiting') /\ r1 + w1 + f1 <= u1 + faults'
  <2>1. Repeats' = Repeats /\ Unraised' = Unraised
    BY <1>4, RepeatsKept DEF Taken
  <2>2. IsFiniteSet(Waiting') /\ w1 \in Nat /\ w1 <= w + 1
    BY <1>1, <1>4, OneMore DEF Taken
  <2>3. f1 \in Nat /\ f1 + 1 <= f
    BY <1>1, <1>4, OneLess DEF Taken
  <2>4. faults' = faults /\ r1 = r /\ u1 = u
    BY <1>4, <2>1 DEF Taken
  <2> HIDE DEF r, w, f, u, r1, w1, f1, u1
  <2> QED
    BY <1>1, <2>2, <2>3, <2>4
<1>5. ASSUME NEW c \in Consumers, NEW m \in Messages, Raised(c, m)
      PROVE  IsFiniteSet(Waiting') /\ r1 + w1 + f1 <= u1 + faults'
  <2>1. IsFiniteSet(Waiting') /\ w1 \in Nat /\ w1 + 1 <= w
    BY <1>1, <1>5, OneLess DEF Raised
  <2>2. f1 \in Nat /\ f1 <= f
    BY <1>1, <1>5, Fewer DEF Raised
  <2>3. faults' = faults
    BY <1>5 DEF Raised
  <2>4. CASE Repeats' \subseteq Repeats /\ Unraised \subseteq Unraised' \cup {m}
    <3>1. r1 \in Nat /\ r1 <= r
      BY <1>1, <2>4, Fewer
    <3>2. u <= u1 + 1
      BY <1>1, <2>4, OneMore
    <3> HIDE DEF r, w, f, u, r1, w1, f1, u1
    <3> QED
      BY <1>1, <2>1, <2>2, <2>3, <3>1, <3>2
  <2>5. CASE (\E x : Repeats' \subseteq Repeats \cup {x}) /\ Unraised \subseteq Unraised'
    <3>1. r1 \in Nat /\ r1 <= r + 1
      <4>1. PICK x : Repeats' \subseteq Repeats \cup {x}
        BY <2>5
      <4> QED
        BY <1>1, <4>1, OneMore
    <3>2. u <= u1
      BY <1>1, <2>5, Fewer
    <3> HIDE DEF r, w, f, u, r1, w1, f1, u1
    <3> QED
      BY <1>1, <2>1, <2>2, <2>3, <3>1, <3>2
  <2> QED
    BY <1>5, <2>4, <2>5, RaiseCounts
<1> QED
  BY <1>2, <1>3, <1>4, <1>5, StepKinds

LEMMA InitRInv == PipelineInit => RInv
<1> SUFFICES ASSUME PipelineInit PROVE RInv
  OBVIOUS
<1>1. PInv
  BY InitPInv
<1>2. OneEventOut
  BY NobodyAssumption DEF PipelineInit, Init, OneEventOut
<1>3. CalledFirst
  BY DEF PipelineInit, D!Init, CalledFirst
<1>4. Repeats = {} /\ Waiting = {}
  BY PipelineAssumption DEF PipelineInit, Init, D!Init, Repeats, Waiting
<1>5. Fetchable \subseteq Unraised
  BY DEF PipelineInit, D!Init, Fetchable, Unraised
<1>6. Cardinality(Fetchable) <= Cardinality(Unraised)
  BY <1>5, CountedFinite, Fewer
<1>7. FaultsPay
  BY <1>4, <1>6, CountedFinite, FS_EmptySet DEF PipelineInit, Init, FaultsPay
<1> QED
  BY <1>1, <1>2, <1>3, <1>7 DEF RInv

LEMMA NextRInv == RInv /\ [PipelineNext]_pipelineVars => RInv'
<1> SUFFICES ASSUME RInv, [PipelineNext]_pipelineVars PROVE RInv'
  OBVIOUS
<1>1. PInv /\ PInv' /\ OneEventOut /\ CalledFirst /\ FaultsPay
  BY NextPInv DEF RInv
<1> QED
  BY <1>1, NextOneEventOut, NextCalledFirst, NextFaultsPay DEF RInv

\* An alarming event whose alert was never dispatched is in the hands of a process that
\* will dispatch it, or will be fetched.
LEMMA UnraisedPending ==
  ASSUME RInv, NEW m \in Unraised, m \notin Fetchable
  PROVE  \E c \in Waiting : cur[c] = m
<1>1. /\ m \in Messages /\ m[1] \in Partitions /\ m[2] \in Offsets /\ m = <<m[1], m[2]>>
      /\ AlarmingMessage(m) /\ calls[m] = 0
  BY MessagesFinite DEF Unraised
<1>2. m[2] \in EventsIn(m[1]) /\ m[2] \in Alarming(m[1])
  BY <1>1 DEF EventsIn, Alarming, AlarmingMessage
<1>3. m[2] \notin processed[m[1]]
  <2>1. /\ logged \in [Messages -> Nat] /\ signalled \in [Messages -> Nat]
        /\ recorded \in [Messages -> Nat]
    BY DispatcherInv DEF RInv, PInv
  <2>2. ~D!Reached(m)
    BY <1>1, <2>1 DEF RInv, CalledFirst, D!Reached
  <2> QED
    BY <1>1, <1>2, <2>2 DEF RInv, PInv, ProcessedReached
<1>4. ~(m[2] < committed[m[1]])
  BY <1>1, <1>2, <1>3 DEF RInv, PInv, IInv, NoEventAckedUnprocessed
<1>5. committed[m[1]] \in Nat /\ position[m[1]] \in Nat /\ m[2] \in Nat
  BY <1>1, LogEndAssumption DEF RInv, PInv, IInv, TypeOK, Offsets
<1>6. PICK c \in Consumers : owner[m[1]] = c /\ pc[c] # "stopped" /\ ~(position[m[1]] <= m[2])
  BY <1>1, <1>4, <1>5 DEF Fetchable
<1>7. pc[c] = "received" /\ cur[c] = m
  <2>1. OwnerSkipsNothing
    BY DEF RInv, PInv, IInv
  <2>2. m[2] < position[m[1]]
    BY <1>5, <1>6
  <2> QED
    BY <1>1, <1>2, <1>3, <1>6, <2>1, <2>2 DEF OwnerSkipsNothing
<1>8. at[c] = "idle"
  <2>1. Handed /\ \A d \in Consumers : at[d] # "idle" => calls[alert[d]] > 0
    BY DEF RInv, PInv, CalledFirst
  <2> QED
    BY <1>1, <1>7, <2>1 DEF Handed
<1> QED
  BY <1>1, <1>7, <1>8 DEF Waiting

LEMMA UnraisedFew ==
  ASSUME RInv
  PROVE  Cardinality(Unraised) <= Cardinality(Waiting) + Cardinality(Fetchable)
<1> DEFINE held == Unraised \ Fetchable
           f    == [m \in held |-> CHOOSE c \in Waiting : cur[c] = m]
<1>1. \A m \in held : f[m] \in Waiting /\ cur[f[m]] = m
  BY UnraisedPending
<1>2. f \in Injection(held, Waiting)
  <2>1. f \in [held -> Waiting]
    BY <1>1
  <2>2. \A m, n \in held : f[m] = f[n] => m = n
    BY <1>1
  <2> HIDE DEF f, held
  <2> QED
    BY <2>1, <2>2 DEF Injection, IsInjective
<1>3. IsFiniteSet(Waiting) /\ IsFiniteSet(Fetchable) /\ Cardinality(Fetchable) \in Nat
  BY CountedFinite DEF RInv, FaultsPay
<1>4. IsFiniteSet(held) /\ Cardinality(held) <= Cardinality(Waiting)
  BY <1>2, <1>3, FS_Injection
<1>5. /\ IsFiniteSet(held \cup Fetchable)
      /\ Cardinality(held \cup Fetchable)
            = Cardinality(held) + Cardinality(Fetchable) - Cardinality(held \cap Fetchable)
  BY <1>3, <1>4, FS_Union
<1>6. held \cap Fetchable = {} /\ Unraised \subseteq held \cup Fetchable
  OBVIOUS
<1>7. Cardinality(held \cap Fetchable) = 0
  BY <1>6, FS_EmptySet
<1>8. Cardinality(Unraised) <= Cardinality(held \cup Fetchable)
  BY <1>5, <1>6, Fewer
<1>9. /\ Cardinality(held) \in Nat /\ Cardinality(Waiting) \in Nat
      /\ Cardinality(Unraised) \in Nat /\ Cardinality(held \cup Fetchable) \in Nat
  BY <1>3, <1>4, <1>5, CountedFinite, FS_CardinalityType
<1> HIDE DEF held
<1> QED
  BY <1>3, <1>4, <1>5, <1>7, <1>8, <1>9

\* However processes fail, stall and take over from each other, an alert is dispatched
\* again only for a disturbance, and for each one of them at most once.
THEOREM RepeatsAreFew == PipelineSpec => []RepeatsNeedFaults
<1>1. RInv => RepeatsNeedFaults
  <2> SUFFICES ASSUME RInv PROVE Cardinality(Repeats) <= faults
    BY DEF RepeatsNeedFaults, Repeats
  <2>1. /\ Cardinality(Repeats) + Cardinality(Waiting) + Cardinality(Fetchable)
              <= Cardinality(Unraised) + faults
        /\ Cardinality(Waiting) \in Nat
    BY FS_CardinalityType DEF RInv, FaultsPay
  <2>2. faults \in Nat
    BY MaxFaultsAssumption DEF RInv, PInv, IInv, TypeOK
  <2> QED
    BY <2>1, <2>2, UnraisedFew, CountedFinite
<1> QED
  BY <1>1, InitRInv, NextRInv, PTL DEF PipelineSpec
=============================================================================
