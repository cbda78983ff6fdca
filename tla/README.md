# TLA+ models of the Adaptive Behavioral Security Monitor

The monitor (ABSM) reads security events from Kafka, scores each user's
behaviour against a learned baseline, and raises alerts for analysts, whose
verdicts tune the alerting threshold.  This directory holds TLA+ modules for the
parts of it that are stateful and hard to test, configurations that check them
with TLC on small instances, and proofs that the TLA+ proof system checks for
every instance.

The repository is a library of components: `ingest.kafka_consumer.consume_loop`
takes the processing function as a parameter, and no production wiring is
checked in (the README's own command passes a function that prints).  A
composition here follows the order of the architecture diagram (README.md:9-48).

## 1. Inventory

| Component | State it keeps | Operations | Hard behaviour | What makes it correct |
|---|---|---|---|---|
| `ingest/kafka_consumer.py` | position and offset at the broker; the message in hand | `consume_loop` | rebalances, evictions, crashes between processing and commit, skipped messages | at-least-once: an acknowledged event has been processed; everything is processed in the end |
| `ingest/normalizer.py`, `schema.py` | none | `normalize` | alias precedence, nulls | an event or nothing; canonical names win |
| `features/feature_store.py` | a Redis cache entry per user, with a TTL | `set_profile`, `get_profile` | concurrent read-modify-write, expiry between read and write | a baseline is derived from the user's events only |
| `features/profile_builder.py`, `rolling_aggregates.py`, `pii_scrubber.py` | none; they read the rows the writer stores | `build_user_profile`, `compute_aggregates`, `scrub` | builds amid writes, windows anchored at the newest event, columns that are NULL | an event that was stored counts in the windows it lies in, as often as it was stored |
| `features/sequence_builder.py` | none | `build_session_sequences`, `encode_sequences` | late events, window boundaries | sessions are maximal runs without a gap |
| `models/online_updater.py` | through the cache | `update_baseline` | lost updates, outliers | the baseline moves slowly |
| `storage/timescaledb_writer.py` | rows of `security_events` | `write_batch` | retry after an error of unknown outcome, partial failure | nothing dropped silently, nothing doubled |
| `models/model_registry.py`, `training/ae_trainer.py` | a weights file and a metadata file | `save_model`, `load_model`, `train_autoencoder` | crash between two files, early stopping | the metadata describes the weights beside it |
| `models/autoencoder.py`, `lstm_predictor.py`, `sequence_scorer.py`, `ensemble.py`, `threshold_calibrator.py` | weights | scoring | numeric | (numeric code) |
| `drift/*` | a sliding window | `add_element`, `reset`, `check_and_schedule_retrain` | window boundary, state across calls | a shift is reported, a stable stream is not |
| `rl/threshold_policy.py`, `reward_calculator.py` | Q-table in memory and in a file | `select_threshold`, `update`, load, save | crash during a save, several processes on one file | what was learned survives |
| `rl/policy_guard.py` | none | `get_threshold` | - | thresholds within bounds |
| `rl/feedback_collector.py` | an append-only file | `collect_feedback` | torn appends | accepted feedback is recorded |
| `explain/*`, `enrich/*` | none (a statistics file is read) | explanation, percentiles | numeric edges | (pure) |
| `alerts/alert_builder.py` | none | `build_alert` | thresholds | severity follows the score |
| `alerts/dispatcher.py` | console, log, dead-letter file | `dispatch` | retries, failed dead-letter writes, crashes | no alert is lost silently, none floods |
| `monitoring/*` | metrics, a window of errors | recording, health checks | bounded window | recent errors decide |
| `api/*` | rate-limit counters | requests through middlewares, role check, limiter, handler | three verifications of a token with time in between, fixed windows, restarts | quotas per user, the handler runs under a valid token of its role, the audit agrees with the response |

How they interact: the consumer calls `process_event` synchronously and commits
after it returns, so whatever runs inside it (scoring, `build_alert`,
`dispatch`) decides by returning or raising whether an event is acknowledged.
The updater and whoever caches a built profile share the Redis entry of a user; the
builder reads the rows the writer inserted; processes share the Q-table file,
the dead-letter file and the feedback file, none of them locked.

`PROJECT.json` lists every component with its status, and every hazard of the
code at its line with the properties that would catch it going wrong.

## 2. Modules

| Module | Models | Uses |
|---|---|---|
| `AtLeastOnce` | what the docstring of `consume_loop` promises (kafka_consumer.py:47-48), as an abstract queue: handle events, acknowledge a prefix all of whose events were handled | - |
| `KafkaConsumer` | the processes of one consumer group running `consume_loop`, with the coordinator as environment; refines `AtLeastOnce` | `AtLeastOnce` |
| `AlertDispatcher` | `dispatch` called by several processes, the channels, and the shared dead-letter file | - |
| `Pipeline` | the dispatcher inside `process_event` inside the loop | both above |
| `ThresholdPolicy` | processes with a `ContextualBanditPolicy` each and the Q-table file they share | - |
| `Baseline` | the cached profile of a user: builders, updaters, the expiry of the entry | - |
| `EventStore` | `write_batch` by several tasks | - |
| `Profiles` | the columns of a row, the profile query, the aggregates over rolling windows, while the writers go on | `EventStore` |
| `Requests` | the way of a request through `api/main.py`, the role check, the limiter and the audit | - |
| `ModelTraining` | training runs with early stopping that save to one registry path, and loads from it | - |
| `Sessions` | `build_session_sequences` over a growing list of events | `OrderStatistics` |
| `DriftDetector` | the detector's window and the check that feeds it batches | - |
| `ModelHealth` | the window of reconstruction errors and the decision on its 95th percentile | `OrderStatistics` |
| `Scoring` | the calibration of the threshold, and the ensemble's blend | `OrderStatistics` |
| `OrderStatistics` | `sorted()`: the element in a place, the place of an element | - |
| `AlertDispatcherProofs`, `PipelineProofs`, `ThresholdPolicyProofs`, `BaselineProofs`, `EventStoreProofs`, `RequestsProofs`, `SessionsProofs` | theorems (`PipelineProofs` also about `KafkaConsumer`, `EventStoreProofs` about `Profiles`) | the modules they are named after |
| `RetrainingProofs` | theorems about what a retraining is made of: the trainer with its files, the detector that asks for one, the model's health and its threshold | `ModelTraining`, `DriftDetector`, `ModelHealth`, `Scoring` |
| `MC*` | the modules as TLC checks them: symmetry sets and small values | the modules they are named after |
| `MCModels`, `MCMonitoring` | components that share no state, explored one at a time: one takes steps only while the others are as they began | trainer, calibrator, sequences; detector, health |

Operators whose name has an underscore (`Commit_SkipsNext`) are mutants: the
definition before the underscore with one plausible mistake.  No specification
uses them; they are there to show that each property can fail.

### KafkaConsumer

`pc[c]` is where process `c` is in the loop: *polling* (line 72), *received* a
message (84-98), *committing* (100), or *stopped*.  `cur[c]` is the loop's
`message`.  `owner`, `position` and `committed` are the group's assignment, the
owner's next offset and the group's committed offset, which live in the
client library and the broker.  `processed` is a history variable: the offsets
`process_event` has returned for.

| Code | Action |
|---|---|
| constructor, subscribe (54-62) | `Start` |
| `poll` returns a message (72) | `Poll` |
| `poll` returns None or an error (73-82) | a stuttering step: nothing but a log line |
| no event in it, `continue` (84-96) | `Discard` |
| `process_event` returns / raises (98) | `ProcessReturns` / `ProcessRaises` |
| `commit` succeeds (100) | `Commit` |
| `commit` is refused / raises (100) | `CommitFenced` / `CommitRaises`; the latter with or without the offset recorded |
| KeyboardInterrupt (101) and `finally` (104) | `Interrupt`, `Close` |
| death of the process | `Crash` |
| group coordinator | `Assign`, `Revoke`, `PollIntervalExpires`, `SessionExpires` |

What is assumed of Kafka: a partition has one owner at a time; an owner starts
at the committed offset; partitions are taken away inside `poll` or by a timeout;
the coordinator refuses the commit of a member that is no longer the owner.
A payload is one of three kinds, because that is all the loop distinguishes.
`MaxFaults` bounds what goes wrong; `LogEnd` the messages of a partition.

### AlertDispatcher

`at[w]` is where process `w` is in `dispatch`: *delivering* (the log line, 40/44/46),
*signalling* (the console text of a critical alert, 41), in *backoff* (74),
*writing* the dead letter (71), or *returned*.  The only statement of `_deliver`
that can raise is the `print` of a critical alert, as logging handlers swallow
their own errors; it may raise before or after the text has appeared.
`readable` is what a reader of the dead-letter file can parse; `tail` says
whether the file ends in a torn line.  `Abandon` is the end of a call that does
not return: a failed dead-letter write, an interrupt, the death of the process.

### Pipeline

A step is a step of the consumer and/or of the dispatcher: `RaiseAlert` enters
`dispatch` while the event stays *received*; `AlertReturns` is the return of
`dispatch` and of `process_event` in one; a failed dead-letter write raises
through both; a crash or an interrupt cuts both off.  Which events score over
the threshold (`quiet`) is arbitrary.

### ThresholdPolicy

| Code | Action |
|---|---|
| `__init__`, `_load_q_table` (27-64) | `Start`: an empty table, the file's, or the exception of `json.load` on a torn one |
| `select_threshold` (82-96) | `Select` |
| `update` up to its call of `_save_q_table` (98-110) | `Update` |
| `open("w")` (70) | `Truncate` |
| a full buffer of `json.dump` goes through (71) | `Spill` |
| the end of the `with` block flushes the rest and closes (70-71) | `Close` |
| `update` returns (110-116) | `Return` |
| `mkdir`, `open`, a write or the close raises (69-71); the process dies | `SaveRaises`, `Crash`: what is in the file then is `CutOff` |

The output of a single save parses only when all of it is in the file, which it is
from the flush on, before `update` returns: a process that is cut off between the two,
or in whose close an error comes late, leaves the whole table of an update that never
returned (`CutOff`).  Saves that have the file open at once write over each other, each
at its own offset, and what is left may parse: `layers` are the saves the file may
consist of, and `Pieced` the tables that can be pieced together from theirs, pair by
pair.  A boundary between two pieces is taken to fall between values, not inside a number
or a key, and a start reads the file in one step.

What may be expected of the file is told by histories: `taught`, what the last
`update` of a pair that returned has made of it; `promised`, the pairs the file
must answer for; `pending`, what a process has updated and not yet had promised; and
`behind`, what another process has saved since a process loaded the file.  A save
that opens the file takes over the pairs its process has updated or is behind on;
if it meets another one, nothing is promised any more.  The learning rate is 1/2 instead of
0.2, with values in units of 1/`Scale`, chosen so that no division of a run truncates: the
properties compare tables and do not depend on the rate.  The exploration coin only affects what
`select_threshold` returns, not the table, and is left out.

### Baseline

| Code | Action |
|---|---|
| `build_user_profile` (profile_builder.py:93-121) | `Build`: any mean and deviation |
| `set_profile` with it | `Cache` |
| `update_baseline`, its `get_profile` (online_updater.py:52) | `Load` |
| the loop over the vector and its `set_profile` (56-79) | `Store` |
| a miss, which raises (53-54) | nothing happens: `Load` is not enabled |
| Redis drops the entry; an error or a death between get and set | `Expire`; `GiveUp` |

One metric stands for all: the loop treats each alone, except that the update of
a mean looks up its deviation, which follows it in the vector.  Values are
integers in units of 1/`Scale`, chosen so that `MaxUpdates` averages and half deviations are exact.  A
profile carries, as a history, the build it stems from and the updates in it;
`begun` tells when the copy an update works on was loaded.

### EventStore

`Insert`, `ServerError` and `ConnectionBreaks` are the outcomes of `executemany`
(timescaledb_writer.py:45), which inserts all records or none; a broken connection
leaves the outcome open, and the next attempt on it raises an `InterfaceError`
out of the call (`ClosedRaises`), as the `except` clause names `PostgresError`
only.  `Fail` is that clause, `Retry` the end of its sleep.  `doubtful` counts
inserts that happened without anyone being told.

### Profiles

| Code | Definition |
|---|---|
| the columns of `INSERT_SQL` (timescaledb_writer.py:13-16, 39) against those of `PROFILE_SQL` (profile_builder.py:20-25) | `Row`: what the INSERT does not name is NULL |
| `_fetch_rows`, `_coerce_event`, `scrub` (profile_builder.py:64-111) | `Fetched`: the copies of events dated since then; a copy is an event and a number |
| `_stats` (rolling_aggregates.py:20-31) | `Stats` |
| `compute_aggregates` (34-102) | `ReferenceTime`, `InWindow`, `Metrics`, `Aggregates` |
| `build_user_profile` (profile_builder.py:93-121) | `BuildProfile`, between any two steps of the writers |

The table is external; README.md:159-167 creates it with the columns the query reads, of
which only the three the INSERT names are not nullable.  The windows end at the newest event that was
fetched, not at the time of the build.  Nothing in the aggregates depends on the order of the
rows, so they are a set.  A mean and a deviation are kept as count, total and
the square of count times deviation, which are integers.  `session_duration_s` is treated by the
code exactly as `bytes_out` and left out.  A profile carries, as a history, what was
stored when it was built.

### Requests

The middleware added last is the outermost: security headers, then CORS, then the
audit, then the router (main.py:31-48).  `at[w]` is where request `w` is: *received*, *authorized* by
the role check, *responded* by the router, *answered* to the client.

| Code | Action |
|---|---|
| a request comes in | `Arrive` |
| CORS answers a preflight by itself (main.py:32) | `AnswerPreflight` |
| `/health`, no dependencies and no limit (routes/health.py) | `CallHealth` |
| `get_current_user` and `require_role` (auth.py:56-86) | `CheckRole`: 401, 403 or onwards |
| the wrapper of `limiter.limit`: `limiter_key_func` verifies the token again (rate_limit.py:12-22), the counter is hit, the handler returns | `LimitAndHandle`: 401, 429 or 200 |
| the audit after `call_next` verifies it a third time (audit_logger.py:42-71) | `Audit` |
| time, and a restart of the process | `Tick`, `Restart` |

slowapi is external and taken with its defaults: counters in the memory of the process, one
per key and URL, that last a minute from their first hit and count refused requests too.
A token is its subject, role and the first and last moment of its validity (`nbf`, `exp`), which
`jwt.decode` both checks; whatever else makes one invalid is `BadToken`. An empty subject is left
out: for an empty key slowapi does not limit at all.  `decided` is a history: when the response was
decided on, which is what an audit record has to be compared with.
`limiter_key_func` falls back to the peer's address when there is no token, which the role
check excludes.  `granted` is a history of the hits within the limit.  The handlers return constants.

### ModelTraining

`Epoch` is one turn of the loop (ae_trainer.py:71-83) with any validation loss;
`OpenWeights`, `WriteWeights`, `OpenMetadata`, `WriteMetadata` are the two writes
of `save_model`, each a truncation and a write; `ReadWeights` and `ReadMetadata` are
`load_model`.  `Crash` is a death or a write that raises.  Two histories tell when weights and metadata
are known to belong together: `mixed` says that the last save overlapped with another one or
was cut short, and `disturbed` remembers the loads that met a save in progress or files of
that kind.

### Sessions, DriftDetector, ModelHealth, Scoring

These components are functions or windows without concurrency.  Their operators
follow the code's steps (the loop of `build_session_sequences` is a recursive
function with a turn, `Extended`, per event; `P95` is the interpolation of `statistics.quantiles`; `Excess` compares
means and deviation cross-multiplied; `Nth` picks an element by its place in `sorted()`,
`StableOrder` tells which one that is with ties in the order of the list, and `MCModels` assumes,
for TLC to evaluate on all short sequences, that `SortSeq` puts the same ones there), and the properties state independently
what comes out: maximal runs without a gap, the share of errors or of a window at
which something is reported, the number of scores above the threshold.  In `DriftDetector`
and `Scoring`, where a floating-point comparison of equal values may go either way, so does the
model.  `ModelHealth` compares exactly: its errors are integers and the baseline a multiple of ten,
and a percentile that meets a tenth of the baseline exactly, which rounding may put on either side
(model_health.py:71), counts as not below it.

## 3. What TLC checks

| Run | Instance | Shows |
|---|---|---|
| `consumer` | 2 processes, 2 partitions of 2 messages, 2 disturbances | `NoEventAckedUnprocessed`, `OwnerSkipsNothing`, `AckedNeverRefetched`, refinement of `AtLeastOnce`, and that every event is processed and committed (`EventuallyDrained`) |
| `dispatcher` | 2 processes, 2 alerts of any severity, 2 calls each, 3 attempts | `ReturnedMeansReached`, `RetriesBounded`, `UnreadableNeedCuts`, and that every call that is not cut off ends (`CallsEnd`) |
| `pipeline` | 2 processes, 2 messages, 2 severities, 2 disturbances, 2 attempts | `CommittedAlertsReached`, `RepeatsNeedFaults`, and that every alarming event's alert is seen (`EveryAlertReached`) |
| `policy` | 2 processes, 2 contexts, 1 action, 3 updates, 1 crash or failed save | `LearningDurable`, `TornByUnreturned`: whenever a process dies or raises, and however saves overlap |
| `baseline` | 2 updaters, 1 builder, 2 builds, 3 updates | `StaysWithinObserved`, `LostOnlyToOverlap`: whatever races or expires, and however outliers are capped |
| `profiles` | 2 tasks, 2 events 30 hours apart, 3 calls, 3 faults; builds 1, 31 and 260 hours after the first | `StoredAsTold`, `RecentEventsCounted`, `IdleProfileStands`, and that every call ends (`CallsEnd`) |
| `models` | one at a time: 2 trainers, 1 loader, 3 runs, 2 losses, 4 epochs, patience 2, 1 crash; up to 6 scores of 4 values, 5 targets; lists of up to 4 events, 7 timestamps, a gap of 2, 1 named and 2 unnamed types, rows of 2 | `StopsWhenStale`, `UndisturbedLoadMatches`; `FalsePositivesBounded`, `ThresholdTight`; `SessionsAreRuns`, `RowsDecodable`, `ArrivalsAreLocal` |
| `monitoring` | one at a time: windows of 10, streams of up to 19 values with 2 changes of level; windows of 21, 25 errors with 3 changes | `DecisionAnswersForBatch`, `StepsNoticedInTime`, `SilentAfterReset`; `DegradationReported`, `PermissivenessReported` |
| `requests` | 2 workers, 3 tokens of 2 users (one expires and one becomes valid on the way), a limit of 2, a minute of 2 ticks, 3 ticks, 5 requests, 1 restart | `BurstBounded`, `RefusedOnlyWhenOver`, `ServedWhileAuthorized`, `AuditNamesCaller` |
| `requests_audit` | the same | **violated**: every request leaves an audit record (`EveryRequestAudited`) |
| `profile_bytes` | 2 calls, 1 fault | **violated**: volumes that were written are profiled (`ByteVolumesProfiled`) |
| `scoring_ensemble` | 2 events | **violated**: a less likely session scores lower (`UnlikelyFlagged`) |

The runs of `KafkaConsumer`, `AlertDispatcher`, `ThresholdPolicy` and `Baseline` also check
the type invariant; those of `EventStore`, `Requests`, `DriftDetector` and `ModelTraining` are proved
only (section 5).  The runs of
`KafkaConsumer`, `AlertDispatcher`, `Pipeline` and `Profiles` check safety and
liveness on one instance, under the fair specification and without symmetry.

Deadlock checking is off where the system may stop: the log is finite, a fault
budget runs out, nobody has to call `dispatch`, `update` or `write_batch` or to send a request.

Why the bounds are enough.  Two processes are what it takes for one to be evicted
while the other takes over, and two disturbances let both be disturbed, or one
twice; two partitions are needed for a member to lose one and keep another,
since commits and positions are per partition.  Of two messages one may be
skipped before or behind an event.  `dispatch` treats all severities
but *critical* alike, so two stand for four in `Pipeline`; there `MaxCalls` exceeds the number of
disturbances plus one, so it never disables a call.  What does not depend on
bounds is proved instead (section 5).  Rows of two tokens make a session of three
overflow; the detector's smallest legal window is 10, and 19 values carry a step
through it until less than a fifth of the old level is left; 21 errors are the first window on which one error in
twenty is a whole one, and four more slide it.  Two changes of level let a shift
come and go within a batch.  Two trainers are what it takes to mix up the files, and a third run
to put them right again; early stopping compares losses only, so two of them suffice for gains, ties
and losses that come back.  Means that differ by 6 with a deviation of 1 lie beyond
the cap's five deviations, a deviation of 0 switches the cap off.
Two processes on the Q-table are what it takes for one to be behind the other or to meet it in the
file, and the third update lets either of them write again after that; two contexts keep what one has
updated apart from what the other has, which further actions would only do once more; one fault
comes at any point of any save, and starts, saves and updates of both follow it.
Three calls store an event twice while another one is in doubt, and three faults exhaust a call's
attempts; events 30 hours apart fall into different windows of an hour and a day and the same week;
a build at 260 hours no longer fetches the first event, and one at 1 hour may find the second one dated in the
future.  With a limit of 2, three requests go over it, and five reach the most two windows allow, three
within a minute; a clock of three ticks
lets a token expire, or become valid, between any two of its verifications.

## 4. Fairness

Weak fairness is assumed of what a running loop does next (`Poll`, `Discard`,
`ProcessReturns`, `Commit`, the steps of `dispatch`), of the coordinator (`Assign`,
`SessionExpires`), and of `Start`: the loop ends on any exception, so that it goes
on at all rests on a supervisor restarting the process, which the repository
leaves to its deployment.  Nothing forces a disturbance, and their number is
bounded, which is the usual "once failures cease".  `WF(ProcessReturns)` says that
processing a message is not for ever unsuccessful; an event on which
`process_event` always raises blocks its partition, and this assumption excludes it.
For `write_batch` fairness covers what the call does by itself: an insert answers,
a sleep ends.  No liveness is claimed of `Requests`: a client's answer depends on asyncio and the
handlers' threads, and on nothing this code decides.

## 5. What is proved

All theorems hold for every value of the constants, under the named assumptions in the modules
(`LogEnd`, `MaxFaults`, `MaxCalls` and the other bounds natural numbers, scores integers,
`MaxAttempts`, `Limit`, `Minute` and the windows positive, tokens with two moments of validity that are natural
numbers and a subject that is neither empty nor one of the audit's two placeholders, the placeholder values outside the sets
they stand in for, `Scale` a multiple of what the run's divisions need, losses that have a greatest
one, as the initial best is beyond all of them, and a window of at least ten values. Finite sets are
assumed only where a proof counts: the partitions of `Pipeline`, the events of `Profiles`).

A fact about sequences or sets of every size that would need an induction is derived from a least
counterexample instead: `Least` and `Highest` say, from the well-foundedness of `<` on the natural
numbers, that a set of them that is not empty has a least element, and a greatest one if it is finite.

* `PipelineProofs`, of `KafkaConsumer` first. The inductive invariant `IInv` adds to the properties `HoldsMessage` (a
  process holds a message exactly between `poll` and the end of its commit) and `HeldMessage` (the
  owner of the message's partition stands directly behind it and has not acknowledged it).
  `NoEventAckedUnprocessed` alone is not inductive: a commit of offset *o* acknowledges every event
  below it, so one must know that the committing owner has left none unprocessed
  (`OwnerSkipsNothing`), and that this survives `Assign`, which resets the position to the committed
  offset and so needs `NoEventAckedUnprocessed` in turn. Theorems: `TypeCorrect`,
  `NothingAckedUnprocessed`, `OwnerLeavesNoGap`, `AckedStaysAcked` (an action property) and
  `GroupIsAtLeastOnce` (refinement: `ProcessReturns` maps to `Handle`, a recorded commit to `Ack`,
  everything else to a stutter).
* `AlertDispatcherProofs`. The invariant locates each process in the call (`Located`) beside the
  property itself. `RetriesBounded` is shown by counting what the calls under way may still write:
  `LinesHaveRoom`, `SignalsHaveRoom` and `RecordsHaveRoom` add that to what is in each channel, and
  `Attempted` says that an attempt begins with its log line, and the dead letter follows the last
  attempt. `UnreadableNeedCuts` is an account too (`CutsPay`): each alert that cannot be read is
  charged to a call that ended without a record, a torn tail is a charge in advance, and a call
  under way has not been charged yet. Theorems: `DispatcherTypeCorrect`, `NoSilentLoss`,
  `RetriesStayBounded`, `CutsExplainUnreadable`.
* `PipelineProofs`, of `Pipeline`. Every step of the pipeline is a step or a stutter of each of its two components,
  so both invariants are inherited; `Handed` ties them together: a process inside `dispatch` is
  there for the alarming event it holds. Theorems: `NoAlertLost` (an alarming event is committed
  only after its alert has reached a channel or the dead-letter file) and `PipelineImplementsGroup`.
  `RepeatsAreFew` counts, beside the calls that repeat one, whatever may still become a call: the
  processes that hold an alarming event and have not dispatched its alert (`Waiting`), and the
  alarming events the group will fetch (`Fetchable`). Together they are at most the alerts never
  dispatched (`Unraised`) plus the disturbances (`FaultsPay`): the one that takes a partition away
  makes one event fetchable again, as there is at most one between the committed offset and the
  reader's position (`OneEventOut`).
* `ThresholdPolicyProofs`. `Learned` keeps a Q-value within the range of the rewards, which is what
  makes the type invariant hold for any number of updates. `LearningDurable` speaks of the file, but
  any process may write its table over it, so the invariant is about the tables in memory too:
  `PromisedIsKnown` says that a process agrees with every promise it has neither updated itself nor
  fallen behind on, so that its save, which withdraws those two, breaks none of the others, even if
  it is cut off after the flush. `SavedIsKnown` says the same of what a save under way will have
  promised once its `update` returns. `AloneWrites` ties the file to the only save it can hold
  anything of, `OpenListed` says that the saves that have it open are among `layers`, and
  `PromisesWait` that they have withdrawn what they may change. `TornByUnreturned` needs
  `SaverPending`: a save in progress is for an update that has something left to promise. Theorems:
  `PolicyTypeCorrect`, `LearningSurvives`, `TornIsUnreturned`.
* `BaselineProofs`. `StaysWithinObserved` speaks of the cached profile, but a stale copy may become
  the cached profile at any time, so the invariant (`CopiesObserved`) is about all the copies; its
  lemma is that neither the average nor the capped step leaves an interval that holds the old mean
  and the observed one. `CopiesMissOverlaps` says of each copy which updates it may lack. Theorems:
  `BaselineTypeCorrect`, `BaselineWithinObserved`, `OnlyOverlapLoses`.
* `RetrainingProofs`. Of the trainer: `RunIsCounted` ties the two counters of the epoch loop to its
  history (the best loss is that of the last epoch that improved, and patience has been running
  since then), from which `TrainingStopsWhenStale` follows. `FilesFollow` says that, unless the
  files were mixed up, a save in progress is the only one and has written what it should, and
  `LoadsFollow` that what an undisturbed load has read is still there. Of the detector:
  `WindowFollows`, that the window is the newest part of the stream, and `BatchInAdwin`, that a
  check under way has the verdicts on its batch so far in `adwin_triggered`, each on the window of
  its own moment. That a step of the level is noticed in time is arithmetic on top of it: on a
  window of two levels `Excess` is a positive number times *5k - n*, where *n* is the window's
  length and *k* that of the shorter level (`StepExcess`; the sums are by least counterexample in
  `StepSum` and `StepPart`). Of the health check: `VerdictStands`, that the window holds the most
  recent errors and the verdict is the one on them; `NthBelow` turns an element picked by its place
  into counts of the positions below and above it, and `P95Share` does so for the interpolation
  between two of them. Of the calibration: the rank it rounds up to leaves as many scores above it
  as the target allows, and one lower would not (`ThresholdRank`). Theorems: `TrainingTypeCorrect`,
  `TrainingStopsWhenStale`, `LoadsMatch`, `DetectorTypeCorrect`, `DecisionsAnswer`, `StartsSilent`,
  `StepsAreNoticed`, `DegradationIsReported`, `PermissivenessIsReported`, `FalsePositivesAreBounded`,
  `ThresholdIsTight`.
* `EventStoreProofs`. `StoredAsTold` is inductive together with the types. Theorems:
  `StoreTypeCorrect`, `RowsAccountedFor`; `BuildsOnlyRead`: a behaviour of `Profiles` is one of
  `EventStore`, so that the former hold of it too.
  `ProfileOfStored` keeps, from the build on, the profile and that history together: its features
  are those of the copies the history tells of. `CountsFollow` then compares sets of copies: a
  window that ends at the newest event fetched contains the stretch before the build, unless an event
  dated later has moved it, and lies in what was fetched. Of two builds the later one finds the
  events of the earlier one that are young enough, the newest among them (`IdleStands`), so the
  windows, none longer than the last (`WindowsGrow`), end alike and hold the same.
  Theorems: `RecentEventsAreCounted`, `IdleProfilesStand`.
* `RequestsProofs`. `Checked` says what the role check has established about a request that has
  passed it, except that its token is still valid, which it need not be: that is why the limiter's
  own verification is what `ServedAuthorized` rests on. `Answered` keeps, until the next request,
  what an answer tells of the token: it was valid when the answer was decided on, unless that is a
  401. `AuditAgrees` compares this with the audit's own verification, which comes later: of a token
  that was valid it can only find that it has expired, and of one that was not, that it is valid by
  now. `CountersCount`
  relates slowapi's counter to the history: a counter lasts at most a minute, and while it lasts its
  hits, up to the limit, are requests that were served within its minute, so that a refusal
  (`RefusedWhenOver`, an action property) has `Limit` of them behind it. Refused requests count on
  as well, which is why the counter itself exceeds what was served. `BurstsStayBounded` rests on
  `MinutesCount`: a counter is opened by a request that is served and counts at most `Limit`, and in
  less than a minute before its opening fewer than `Limit` were served, since such a stretch misses
  the request that opened the counter before it. Theorems: `RequestsTypeCorrect`,
  `ServedAuthorized`, `AuditAgrees`, `RefusedWhenOver`, `BurstsStayBounded`.
* `SessionsProofs`. All three properties are about what a function makes of a list, so the invariant
  is only that the list is one of events; the work is in the function. `Places` shows that a stable
  sort is a permutation in order, by counting what stands before an element. `Made` is the loop's
  invariant: what it has made of the first *n* events cuts them into pieces, and a piece begins
  where the gap before an event is more than `Gap`, and nowhere else. `SplitCuts` carries it to the end of the
  list, and `LoopRuns` shows first that a function with these turns exists; both are by least
  counterexample. `NextWithin` turns the absence of a beginning into a chain of small steps, and
  `PiecesCount` counts an event's copies through the sort and the cuts. `NumberedOn` says that the
  tokens of unnamed types increase with the type. For one event more, `PlaceMoves` and `Insertion`
  show that the sorted list takes it in at one place and is otherwise the same; a session that is
  apart from it lies on one side of that place (`Beside`), and stays (`StaysBefore`) or moves up by
  one (`MovesBehind`). Theorems: `SessionsFollowGaps`, `RowsReadBack`, `ArrivalsStayLocal` (an action
  property).

Only model-checked:

* liveness under fairness (`EventuallyDrained`, `CallsEnd`, `EveryAlertReached`), which the prover's
  backends do not reach.

## 6. Divergences from the documentation

**Ensemble** (`scoring_ensemble`).  README.md:238: "Low sequence log-likelihood flags
unusual action ordering".  The blend adds the log-likelihood to the error, so an
unusual ordering lowers the score.

**Audit** (`requests_audit`).  audit_logger.py:35: "Capture structured, privacy-safe audit records
for every HTTP request".  The CORS middleware is added after the audit (main.py:31-38) and so lies outside
of it: a preflight it answers leaves no record.

**Byte volumes** (`profile_bytes`).  README.md:58: "Rolling aggregates (event counts, byte volumes,
session stats) ... from TimescaleDB".  The writer inserts three columns; the query reads
seven, of which the others are NULL in every row, so the volume of a stored event is in no profile.

Others that no run records.  Where a property is stated in the weaker form that
does hold, it is named:

* dispatcher.py:18 persists undelivered alerts "so they can be reprocessed instead of
  silently lost".  A write cut off half-way leaves a torn line, the next record is
  appended to it, `dispatch` returns, and the record cannot be parsed
  (`UnreadableNeedCuts`: one record per cut-off write, at most).
* README.md:247: "Q-values are persisted to disk and survive restarts".  The file is
  truncated before it is written (threshold_policy.py:70); a crash in between leaves
  a file on which every later constructor raises (`TornByUnreturned`: no update that
  returned, having the file to itself, leaves one; `LearningDurable` speaks of files that parse).
* threshold_policy.py:67: "Persist Q-values after each update so runtime learning is
  durable".  With two processes on the file, a save drops or overwrites what the other has
  learned since they started, whether or not its own `update` gets to return, and two saves at
  once may leave a mixture; no failure is needed (`LearningDurable`: these are the only ways for
  a file that parses to lose what an update that returned has taught).
* online_updater.py:43 promises "outlier capping for robustness".  Beyond five
  deviations the mean moves by half a deviation, where the average at the default
  alpha moves it by a twentieth of the distance: up to ten deviations away the capped
  step is the larger one (`StaysWithinObserved`: it never leaves the observed range).
* model_registry.py:50: "Saving both state and metadata supports reproducibility and
  audit trails".  Both files are overwritten in place, one after the other, and
  nothing ties them together: a load meanwhile, or after a crash in between, returns
  the weights of one run with the metadata of another.  So does a load after two trainers have saved
  at once, until the next save (`UndisturbedLoadMatches`: only then).
* ae_trainer.py:90: "Save final trained state and metadata for reproducibility and later
  rollout."  `val_loss` is the best one, the weights are the last epoch's, so the
  recorded loss is a lower bound only.
* audit_logger.py:50 extracts the identity for the record after the response.  If the token
  expires in between, the record of a request that was served under a name reads
  "unauthenticated"; if a token is not valid before a moment in between, a request that was refused
  as unauthenticated is recorded under its name (`AuditNamesCaller`: these are the only ways for the
  two to disagree).
* routes/alerts.py:20, "100/minute": across the end of a counter up to 199 requests of a user are
  served within a minute, and after a restart the count begins anew (`BurstBounded`: never more
  within the life of a process).
* sequence_builder.py:24: "Build a stable token index for event types, extending defaults
  for unseen types."  It is rebuilt, sorted, from each list.

## 7. Plan

Done: the modules above, with every safety property that a passing run checks proved as well.
Next, in this order:

1. An abstract "deliver or record" of the dispatcher, and a store that is written as a whole, for the
   dispatcher, the Q-table and the registry to refine, the latter two in the absence of failures.
2. The field aliases of `normalize`.
3. A composition of `Profiles` and `Baseline`: rows, profile, cache, update.

## 8. Not modelled, and why

Neural networks, SHAP values, percentile ranking and data drift are numeric code without
protocol; Prometheus instruments and the SLA check are a comparison of one sample; the token of the API is verified by a
library, its signature is cryptography, as are the digests of the scrubber.  `GuardedPolicy` tests
that a threshold lies between 0.3 and 0.95; all actions of the policy do, so its error is never raised.
`collect_feedback` appends a line as the dead-letter writer does, without its retries; nothing in
`src/` calls it, the API's feedback route neither.  The settings are read from
the environment.  Infrastructure, CI and tests are not part of the running program.

Known and left without a run, because they are plain in the code and concern one call: a session longer than
`max_len` keeps its oldest events (sequence_builder.py:42); a generator of batches would be
empty from the second epoch on (ae_trainer.py:44); the token index depends on the list at hand
(sequence_builder.py:31); nothing in `src/` calls `reset` of the detector after a retraining
(retraining_scheduler.py:28).
