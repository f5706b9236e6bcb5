# Fyralis Core: ingestion and the Think pipeline in TLA+

Fyralis Core turns events from a company's tools into a substrate of models
(beliefs, predictions, relations). Ingestion fetches or receives the events and
stores each as an observation with a trigger; an LLM run, *Think*, follows every
trigger and every consequence of an earlier run. This directory specifies the
machinery around both: the workflows, topics, offsets, queues, leases, ledgers
and bounds that decide what is fetched, stored and run, how often, and what
becomes of it when something dies on the way. The content of a record and of a
run (retrieval, prompts, the diff) is data here.

Paths below are relative to the repository; those of ingestion to
`services/ingest/ingestion/`.

## 1. Inventory

| Part | State | Operations | What is hard | What makes it correct |
|---|---|---|---|---|
| Think trigger queue (`services/reasoning/think/worker.py`, `services/domain/triggers.py`) | `think_trigger_queue`, `model_reeval_queue`, tasks in memory | enqueue, promote, prune, poll and lease, batch, heartbeat, complete, fail, defer, recover | several workers, leases that expire under live tasks, crashes between transactions, batches over rows that others may settle | nothing stranded, nothing completed that was not applied, nothing settled twice, every trigger settles |
| Think run and applier (`reason.py`, `applier.py`) | `applied_triggers`, the substrate | one mutation transaction per run | failure after the commit, a second run of one trigger | the ledger is claimed in the transaction that applies the diff |
| Post-commit queue (`post_commit.py`) | `pending_post_commit_actions` | enqueue, process a batch, retry, dead-letter | handlers on the batch's own transaction, two workers, crash mid-batch | each effect exactly once, exact retry budget, every action settles |
| Cascade bound (`cascade.py`, `trigger_emitter.py`, `think/worker.py`, `topology/field.py`, `domain/substrate_promotion.py`, `domain/obligations.py`, the workers on a schedule) | `cascade_depth` in payloads | propagate, reject | the depth has to survive batches, other queues and workers that come back to what a run wrote | between two losses of its depth a lineage of runs is cut |
| Operator dead-letter API (`services/app/gateway/dead_letter_router.py`) | the two queues above, `model_reeval_dead_letter` | list, retry, quarantine | acts on rows the workers know nothing of any more | a retried row is picked up again, a quarantined one is not retried |
| Shard fetch (`workflows/shard_fetch.py`, `workflows/state.py`) | shard row, request and completion signals, cursor, one loop per process | claim, scan for orphans, fetch a page, publish, flush, advance, terminate | publish and cursor advance are two systems; a take-over does not stop a slow owner | no page skipped, one completion, the shard ends |
| Tenant onboarding (`workflows/oauth_poller.py`, `tenant_onboarding.py`, `source_onboarding.py`, `reconciler.py`, `periodic_reconciler.py`) | run, source and shard rows, signals with idempotency keys | create, fan out, plan, roll up, reconcile, re-share, re-open | outcomes in any order, signals swallowed by a used key, two reconcilers | a roll-up agrees with what it rolls up; every run and source settles |
| Normalizer (`normalizer/worker.py`, `dlq/publish.py`) | consumer offset, batch, the producer's local queue | poll, normalize, dead-letter, commit | produce is asynchronous, the commit is not | nothing committed that is neither normalized nor dead-lettered |
| Observation writer (`writers/observation_writer.py`) | consumer offset, batch, retry and poison counters, dead letters | poll, write, log, retry, give up, park, commit, exit | groups of a batch fail separately; counters outlive the process | no record lost, a message that always fails does not jam the topic |
| Observation store (`core.py`) | observations, triggers | `ingest_from_draft` | one record arrives several times, by several ways | one observation, one trigger |
| Live ingress and cutover (`services/app/webhooks/router.py`, `feature_flags/`) | `kafka_path_enabled`, a cache of it per process, the breaker's row | publish or ingest inline, fall back, trip, re-enable | two processes decide on one record from two caches | whoever publishes, somebody writes |
| Pollers, gateway workers, embedding and summarisation | cursors, requests | poll, consume | as above | not modelled |
| Database leases (`lib/shared/db_leases.py`) | `scheduler_leases` | acquire, refresh, release | a holder stalls past its expiry | one holder at a time |
| In-process circuit breakers (`lib/shared/circuit_breaker.py`, `think/circuit_breaker.py`) | state, window of outcomes | call, half-open, reset | the lock is not held during the call | open means no call, a probe decides |
| Region locks, realtime dispatcher, acts state machines, obligations | advisory locks; subscriber queues; lifecycles | lock; publish and subscribe; transition | lock order; slow subscribers; cascaded transitions | no deadlock; bounded queues; legal transitions only |
| Rate limiting, gateway, product surfaces, platform services, integrations, scripts | mostly none of their own | request handling and I/O | little | not modelled |

The parts meet in the database and on two topics. Onboarding requests shards; a
shard's fetch publishes pages to the raw topic, and so does live ingress while
the tenant's flag is on; the normalizer moves records to the normalized topic
and the writer stores each with its T1 trigger. A worker leases a trigger and
runs Think; the mutation transaction of the run writes the substrate, the ledger
row, the T2 triggers of new predictions and the post-commit actions together;
the post-commit worker delivers those and, through edge discovery, inserts T4
triggers; the operator puts dead letters back.

`PROJECT.json` lists the hazards behind this table, each at its line.

## 2. Modules

| Module | Models | Uses |
|---|---|---|
| `ThinkQueue` | the trigger queue and its workers | `Inbox` as its abstract specification |
| `Inbox` | what the trigger queue promises its producers | |
| `PostCommit` | the post-commit queue and its workers | `Outbox` as its abstract specification |
| `Outbox` | what a queue of side effects promises | |
| `CascadeLineage` | how `cascade_depth` travels, where it is lost and where it cuts | abstracts the two queues to one step per run |
| `ShardFetch` | the fetch of one shard by several processes | `ShardLifecycle` as its abstract specification |
| `ShardLifecycle` | what a shard promises to the workflow that requested it | |
| `Onboarding` | the five workflow services on one run | takes from a shard what `ShardLifecycle` promises; `TenantRun` as its abstract specification |
| `TenantRun` | what onboarding promises for a tenant | |
| `Partition` | a consumer of one Kafka partition | |
| `Observations` | the transaction that stores a record | |
| `Normalizer` | raw topic to normalized topic | `Partition` |
| `ObservationWriter` | normalized topic to observations | `Partition`, `Observations` |
| `Cutover` | live ingress, the flag, the ingestion breaker | `Observations` |
| `Ingestion` | the four above on shared topics and store | composes them; `Intake` as its abstract specification |
| `Intake` | what the way from a source to the store promises | |
| `MC...` | instances for TLC | |
| `...Proofs` | theorems with their proofs | the module of the same name; `ThinkLeaseProofs` and `ThinkAppliedProofs` are about `ThinkQueue` too |

Definitions whose comment says "Mutant of X" are deliberate faults: each
replaces X in a check that the property named for it in `PROJECT.json` notices.

### ThinkQueue

One row of `queue` is one row of `think_trigger_queue`: `completed_at` is
`stage = "closed"`, `last_error` is `error`, `locked_by` is `lockedBy`,
`locked_at` is reduced to whether it is older than `trigger_lock_timeout_s`
(`expired`), `scheduled_for` to whether it has passed (`due`),
`batch_parent_id` is `parent`, `payload.unbatched_from` is `unbatched`. `ledger`
is `applied_triggers`. `task` is what exists in a worker's memory only.

Each SQL transaction is one action:

| Action | Code |
|---|---|
| `Enqueue`, `EnqueueReeval` | `enqueue_trigger`, `enqueue_model_reeval` |
| `Promote` | `_promote_reeval_rows` |
| `PollPrune`, `PollSingle`, `PollBatch` | `_poll_and_dispatch`: prune, then lease or fold into a batch |
| `Reject`, `Defer`, `Begin` | the head of `_process_trigger`: depth bound, budget, start of `think()` |
| `Beat` | `_heartbeat_trigger` |
| `Apply`, `SkipApplied` | the mutation transaction, or `AlreadyAppliedError` |
| `Return`, `RunFails`, `Complete`, `Fail` | the end of `_process_trigger`, with `_mark_trigger_complete` and `_mark_trigger_failed` |
| `LoseTask` | a bookkeeping transaction raises: the task is gone, the lease stays |
| `Crash`, `Shutdown`, `Drained`, `Restart` | death of the process, SIGTERM, startup with `_recover_orphaned_trigger_locks` |
| `Expire`, `BackoffElapses` | time |
| `OperatorRetry`, `Quarantine` | the dead-letter API |

Abstractions: a poll that dispatches k triggers in one transaction is k
consecutive poll steps, which allows more interleavings than the code. Batch
windows, lanes, sizes above the minimum and priorities are a free choice among
the candidates. One tenant is modelled, since tenants share only slots. The two
downstream kinds never share a batch, so `Downstream` stands for one of them.
`RunFails` may follow the commit: `run_timeout_s` covers all of `think()`. The
operator's retry of a `model_reeval` dead letter, which writes a new request,
is not modelled.

`Inbox` is the queue as its producers see it: single triggers, each absent,
open, done, dead or quarantined. A trigger is done only if some run applied it,
alone or in a batch, or if it needs no run; done and quarantined are for ever,
and only an operator opens a dead letter again. `ThinkQueue` implements it with
`state` read off the columns of the event's own row (`Fate`) and `applied` off
the ledger, a batch's row standing for its members.

### PostCommit

`row` is the committed table, `tx` the batch transaction of each worker: the
rows it holds `FOR UPDATE`, the handlers that returned or raised, and what a
raising handler left behind. `Commit` makes marks, attempt counts and effects
visible together; `Crash` and `HandlerAborts` roll back. `Stepwise` is
`discover_model_edges`, whose steps run under savepoints of their own, so a
failure keeps the earlier ones. `Poison` are actions whose handler meets a SQL
error that `promote_pair_evidence_candidates` swallows without a savepoint. The
cooperative stop between two batches changes nothing and is left out.

`Outbox` says what users of the queue may rely on: an effect moves from pending
to done or dead, done is for ever, only an operator revives a dead letter, and
an atomic effect is delivered in the step that marks it done and in no other.
`PostCommit` implements it under the mapping `state <- row.stage`.

### CascadeLineage

`depth` is `payload.cascade_depth`; `gen` is a history variable, the number of
runs that really lie behind a trigger; `resets` counts where the chain lost its
depth. A run may emit T3s while planning (`EmitT3`), T2s in its mutation
transaction (`Apply`) and cascaded T1s (`EnqueueCascadeT1`, the helper
emitters of state changes are told to use; nothing in the repository calls it
yet). `Fold` is a downstream batch, `Discover` the edge discovery behind the
post-commit queue. `reeval` has the runs whose transaction may have archived or
superseded models: each dependent of such a model gets a row in
`model_reeval_queue` and an obligation that mirrors it.

Where one run leads to another and the trigger between them has no
`cascade_depth`, the action is an `Unstamped`:

| Action | Code |
|---|---|
| `ReviewPattern` | `_enqueue_pattern_review_if_possible`, called while the run plans its context |
| `PromoteReeval` | `_promote_reeval_rows` of the Think worker |
| `FireObligation` | `sweep_due_obligations` of the housekeeper |
| `PredictionOverdue`, `AnomalyFound`, `Precipitate` | the deadline resolver, the anomaly processor and the precipitation worker, each on its own schedule |

Which runs archive a model, how many rows that leaves and when a worker looks
is left open, so the model has more of these steps than the code. What a person
asks for (contesting a model, a clarification, a question, a recommendation) and
what ingestion triggers late (a resolved entity, a finished summary) starts a
lineage of its own and is an `Arrive`.

### ShardFetch and ShardLifecycle

`shard` is `onboarding_shards.state`, `request` and `completion` its two
signals, `cursor` the number of pages `workflow_states.state_data.cursor` has
passed, `fresh` whether `last_advanced_at` is within the lease, `loop` where a
process's fetch loop is and the cursor it has read, `raw` the pages on the
topic.

| Action | Code |
|---|---|
| `ClaimSignal` | `_process_one_signal`: claim, mark in progress |
| `Scan`, `RefreshLease` | `_scan_and_resume_orphans`: the query, then the stamp; nothing is locked between them |
| `LoadInstall`, `LoadCursor`, `FetchPage` | the head of `_run_fetch_loop` and of each turn |
| `Publish`, `AdvanceCursor` | the two halves of `advance_cursor_atomic_with_kafka_publish` |
| `FetchParks`, `PublishParks`, `LoopRaises`, `PublishRefused` | the transient and the permanent exits of a turn, and a record the broker refuses after `produce` took it |
| `Finish`, `Fail` | `_terminate_shard` with its signal |
| `FetcherCrash`, `LeaseLapses`, `Suspend`, `Resume` | death of a process, time, the provider |

A page is one record and its S3 body is part of the fetch. `ShardLifecycle` is
all that `Onboarding` needs of a shard: it is claimed once and ends once, with
one signal that agrees with the row.

### Onboarding

`run`, `source` and `shard` are the status columns of `onboarding_runs`,
`source_onboarding_runs` and `onboarding_shards`; `pass` is
`reconciliation_pass_count`, `reconciled` `reconciled_at`. A signal is in a set
while it waits (`created`, `requested`, `ended`, `handoff`, `news`); where its
idempotency key decides something the keys used are kept too (`handed`, `told`).

Every handler is one transaction and one action: `CreateRun` (OAuthPoller),
`RunCreated`, `SourceFailed`, `SourceCompleted` (TenantOnboarding),
`PlanSource`, `PlanFails`, `ShardCompleted` (SourceOnboarding), `ReconcileAgain`,
`ReconcileClean`, `ReconcileFails`, `ReconcileGaps` (Reconciler), `Recheck`
(PeriodicReconciler). `ShardEnds` is the step of `ShardLifecycle` in which a
shard ends. One run of one tenant is modelled, and a re-share replaces one shard
by one.

`TenantRun` is what the tenant gets of it: sources are chosen once, each is
collected or breaks, and the run fails or completes once, the latter in the step
that tells Bridge and only with every chosen source collected and none broken.
`Onboarding` implements it with `chosen` the sources that have a row,
`collected` those that have handed over in some pass (`HandedOver`) and `broken`
those whose completion signal says failed. A source may break after the run is
complete, which is what `onboarding_partial` shows, and one that
PeriodicReconciler re-opened may fail without breaking, since its signal is used.

### Partition, Observations, Normalizer, ObservationWriter, Cutover, Ingestion

`Partition` is a consumer as a record (`committed`, `upto`, `batch`): a batch is
worked off group by group, a group being one message key, the tenant; a new
process starts from the committed offset. Broker and client library are outside
the repository and marked external. `Observations.Ingest` is the transaction of
`ingest_from_draft`.

| Module | Action | Code |
|---|---|---|
| `Normalizer` | `Poll`, `Normalize`, `CommitRaw` | `run_worker`, `_normalize_one_with_envelope` |
| | `NormalizeFails`, `NormalizeDrops` | a record to the dead-letter topic, or not even there: `publish_dlq` swallows its errors |
| | `Deliver`, `DeliverRefused`, `Crash` | the delivery thread of the producer; a delivery report with an error, which only counts; death with what the queue holds |
| `ObservationWriter` | `Poll`, `Write`, `Shadow`, `CommitBatch` | `run_writer`, `_handle_message` in full and in shadow mode |
| | `Retry`, `GiveUp`, `GiveUpUncounted` | `_handle_message_with_retry`: back off, raise after counting, raise without (shutdown, or the counter's table is out of reach) |
| | `Doom`, `ParkPoison`, `ParkUnpublished` | at the durable cap: the count, committed on its own (`doomed`), then the dead letter, published or not (`clearing`) |
| | `ClearCounter`, `ClearFails` | `_clear_durable_poison_attempts`, best effort, after a dead letter and after a retry that succeeded |
| | `Reject`, `RejectUnpublished` | the dead letter of a permanent error, published or not |
| | `Exit`, `Crash`, `DeliverDeadLetters`, `RefuseDeadLetter` | the raised error ends the process; death; the delivery thread, and a dead letter the broker refuses |
| `Cutover` | `Accept`, `AcceptRefused`, `FallBack`, `IngestInline` | `_kafka_cutover_response`, `_attempt_kafka_path` (which answers 202 although the broker refused the record), `_inline_ingest_response` |
| | `RefreshCache`, `OperatorSets` | `FlagCache`, the operator |
| | `Healthy`, `Breach`, `Trip`, `TripFails`, `TripUnrecorded` | one tick of the breaker, with the two ways a trip can break off |
| `Ingestion` | `PublishPage` | what `ShardFetch` does to the topic: a page, and after a fault the same page again |

`lost` is a history variable. It names the holes the code has, each with its
cause: `"queue"`, a record that died in a producer's queue behind a committed
offset, `"dead_letter"`, one whose dead letter could not be published, and
`"refused"`, one the broker refused or let time out after `produce()` had
returned: the delivery report only counts it and the flush then has nothing
outstanding, so ingress, normalizer and writer all go on as if it had landed.
Records have an external id and mapping them is data. Writing in full mode is
decided from the writer's own cache, as in the code.

`Intake` forgets topics, offsets, queues, caches and processes: records are
received, stored with their trigger in one step, or set aside (dead-lettered,
shadow-logged or lost). `Ingestion` implements it with `Received`, the records
on the raw topic or answered for by ingress, and `SetAside`. It says nothing of
a record that is neither stored nor set aside; `NothingVanishes` does.

## 3. Runs

`CHECK_DEADLOCK FALSE` everywhere: a drained queue is a legal end.

| Run | Instance | Shows |
|---|---|---|
| `arrivals` | 1 worker with 2 tasks, 2 events, 1 batch, 1 fault, 1 expiry under a live task (218,907 states) | `TypeOK`, `NoStrandedRow`, `CleanMeansApplied`, `ClosedIsFinal` and, under fairness, `EveryTriggerSettles` |
| `downstream` | 2 workers with own ids, 2 downstream rows, 1 batch, pruner, 1 fault (551,952 states) | `LeasesExclude`, `AppliedOnce`, `ImplementsInbox`, `NoStrandedRow` and `CleanMeansApplied` while rows and batches are pruned under a running task |
| `reeval` | 2 workers sharing one id, a re-evaluation and a rejected trigger, budget pause, 2 operator acts (116,551 states) | `ReevalSettled`, `ImplementsInbox`, and under fairness `EveryReevalSettles` |
| `post_commit` | 2 workers, 3 kinds of action, 1 crash, 1 operator act (74,968 states) | `ImplementsOutbox`, `DeliveredExactlyOnce`, `PendingHasAttempts`, and under fairness `EveryActionSettles` |
| `lineage` | 4 triggers, bound 2 (capped from 3), batches, discovery and every way to lose the depth (116,289 states) | `TypeOK`, `LineageCut` |
| `shard_fetch` | 2 processes, 3 pages, 2 faults, 2 lapsed leases (40,771 states) | `NothingSkipped`, `ImplementsLifecycle`, and under fairness `ShardEnds` |
| `onboarding` | 2 sources, up to 3 shards, 1 re-share each (297,845 states) | `BridgeAgrees`, `CompletedWasCollected`, `ImplementsTenantRun`, and under fairness `RunEnds`, `SourcesSettle` |
| `pipeline` | a backfill record that always fails, a live record of another tenant, batches of 2, 2 tries, cap 2, breach window 2, 1 fault anywhere (259,128 states) | `NothingVanishes`, `TriggeredOnce`, `CapPassedByFaults`, `ImplementsIntake`, and under fairness `CatchesUp` |

Runs that refute something the repository says:

| Run | Refuted | How |
|---|---|---|
| `post_commit_poison` | "After 5 failed attempts the row is moved to dead-letter state" | an aborted transaction takes the attempt count with it, for ever |
| `cutover` | "a publishing ingress can never pair with a shadow-logging writer" (`writers/observation_writer.py:19`) | the record is published while the flag is on and read after the breaker, or an operator, turned it off: only logged |
| `normalizer` | "Commit AFTER processing — at-least-once semantics." (`normalizer/worker.py:250`) | the raw offset is committed while the normalized record is in the producer's queue, and the process dies or the broker refuses the record |
| `onboarding_partial` | "if Slack fails but Gmail succeeds, the tenant onboarding is failed not partial." (`workflows/tenant_onboarding.py:83`) | a source counts as completed before its reconciliation; its sibling completes the run, then the reconciliation fails |

### Known exceptions

What the properties leave room for, because the code does it. Each is a
behaviour of the modules unless it says otherwise.

- An event applied as a single, whose worker dies before completing it, is
  applied again under the fresh id of a batch: the ledger is keyed by row
  (`think/worker.py:1599`). A run that raises or times out after its commit has
  the same effect through its retry. `AppliedOnce` is conditional on the first
  (`Calm`) and asks for the failed attempt of the second.
- The operator's retry of a dead-lettered batch member keeps `batch_parent_id`,
  which every poll excludes (`dead_letter_router.py:553`), and the pruner may
  close a batch in flight, whose members a crash then leaves hidden
  (`think/worker.py:1011`). `NoStrandedRow` leaves both out by name: it says that
  there is no third way, and would not notice these two.
- A trigger may be dead-lettered although its diff was applied (P0-6 of
  `docs/hardening-backlog.md`): `RunFails` after `Apply`, until the attempts are
  used up.
- A lineage loses its `cascade_depth` in a downstream batch
  (`think/worker.py:2073`), behind edge discovery (`topology/field.py:501`,
  which starts at 1), by a pattern review (`domain/substrate_promotion.py:1091`),
  behind a re-evaluation (`think/worker.py:826`, and the obligation of the same
  row) and where the deadline resolver, the anomaly processor or the
  precipitation worker comes back to what a run wrote. `LineageCut` counts each
  as one of `resets` and bounds the runs between two of them; nothing in the code
  bounds their number.
- The flush reports a record the broker refused as delivered
  (`kafka/producer.py:183`): `refused` in `NothingSkipped`, and `lost` with
  `"refused"` in the pipeline, where ingress answers 202, the normalizer commits
  the raw offset, or a dead letter is dropped.
- A poison counter may stand at or above its cap: the process dies between the
  count, the dead letter and the removal, or the removal fails. The code calls a
  stale row harmless because its offset "never recurs"
  (`writers/observation_writer.py:1038`), but it recurs whenever the batch is
  read again. `CapPassedByFaults` bounds the count by the faults.
- Two loops may fetch one shard although the code expects that "only one wins"
  (`workflows/shard_fetch.py:1225`). They only repeat pages, which the store
  removes.
- Publishing a dead letter is best effort: `lost` with `"dead_letter"`.
- Two messages of different tenants that always fail, in one batch: whichever is
  parked, the other raises and the batch is read again, and a parked one starts
  its count anew (`writers/observation_writer.py:1113`). `CatchesUp` fails with
  two such records in `Poison`; its run has one.
- A source that PeriodicReconciler re-opens before its siblings are in cannot
  signal its completion again (`workflows/reconciler.py:690`), and its siblings
  may complete the run while it fetches (`workflows/periodic_reconciler.py:42`):
  `Reopened` in `RunEnds`.

### Bounds

Every bound is a constant. Two attempts are enough for each of first failure,
retry and dead letter; two events are the smallest batch; one crash and one
spurious expiry already give every pair of tasks on one row. In `CascadeLineage`
four triggers make a sweep at depth 1, two predictions at the bound and the batch
that runs them all the same.
Three pages let a stale loop move the cursor back over a page another loop has
passed; two lapses let each process take the shard from the other. Three shards
of a source are a first, a sibling and a re-share. In `pipeline` two records in
a batch of two are what makes one group fail beside another that succeeds, and
the poison cap of 2 needs a restart to be reached. `MaxFaults`, `MaxExpiries`,
`MaxLapses`, `MaxPasses`, `MaxDeferrals` and `MaxOperatorActs` limit what the
environment does, not what the code does. The theorems remove all these bounds
for the safety properties.

### Fairness

Trigger queue: each worker keeps promoting and polling while it is up (the loop
sleeps `poll_interval_s` and logs errors), a dispatched task moves on once it
gets the semaphore, `think()` ends because `run_timeout_s` cuts it off, a dead
process is restarted by its supervisor, abandoned leases age and backoffs
elapse. There is no fairness for producers, faults, the budget, the operator, a
spurious expiry, nor for which rows are folded into a batch. Post-commit: the
worker polls for ever and survives each iteration's errors, a batch that does
not die runs to its end, backoffs elapse. Shard fetch: each process keeps
ticking and its loop moving, and a heartbeat nobody renews ages; `ShardEnds`
assumes besides that the installation ends up enabled. Onboarding: every service
keeps ticking and claims its oldest signal first, and shards end; nothing makes
PeriodicReconciler find a gap. Pipeline: consumers work on or are restarted, and
the broker takes what waits in a producer's queue; ingress, operator, breaker
and faults have no fairness, so the flag may stay either way for ever.

## 4. Proofs

All for every value of the constants that satisfies the named assumptions of
the modules: id sets are disjoint, bounds are positive, the "nothing" value is
none of the statuses.

**ThinkQueueProofs**: `TypeCorrect`, `NothingStranded`, `CompletedWasApplied`,
`ReevalsSettleTogether`, `ClosedStaysClosed`. None of the three safety
invariants is inductive. `IndInv` adds
- `ClosedUnlocked`: every statement that closes a row clears its lock.
  `_mark_trigger_complete` checks the lock only, so this is what stops a stale
  task from re-closing a dead letter, and what `ClosedStaysClosed` rests on;
- `Lineage`: `batch_parent_id` and `batch_member_trigger_ids` agree, so that
  closing a batch finds all the rows hidden behind it;
- `TasksApplied`: a task about to report success has its id in the ledger;
- `AttemptsLeft`: an open row is below the cap that the poll tests.

The proof goes row by row: field lemmas for the SQL statements, then for each
group of actions what can happen to one row (`NextRows`) and to one task
(`NextTasks`), then one step per conjunct.

**ThinkLeaseProofs**: `ExclusiveLeases`, for any number of workers. `LeasesExclude`
is conditional, and so is its invariant `LeaseInv`: while ids are distinct, no
live task has outlived its lease and no operator has re-opened a row
(`Undisturbed`), every task holds a fresh lease on its row and hides its members
(`HoldsLease`), the members of an open batch are hidden behind it
(`MembersHidden`) and no two tasks have one row (`OneTaskPerRow`). Once the
condition fails it stays false. The proof uses `IndInv`.

**ThinkAppliedProofs**: `EventsAppliedOnce`, `InboxRefinement`. The ledger has
one entry per row, so nothing in it keeps an event from being applied by its own
row and by a batch's. `AppliedInv` says what does: an event is in one batch in
its life (`BatchedOnce`: a released member is marked and never folded again),
and, while leases hold and nothing is lost (`Calm`), an applied row without a
failed attempt is closed or still held by the task that applied it
(`AppliedInHand`), so that no poll folds it, and a batch without a failed attempt
still hides members that are not applied on their own (`BatchHides`). The proof
stands on `LeaseInv`. The refinement holds unconditionally, with shared ids,
crashes and expiries: `ClosedUnlocked` and `TasksApplied` of `IndInv` make every
close of an event a `Settle` of `Inbox`, and `QuarantinedDead` keeps the
operator's two marks apart.

**PostCommitProofs**: `TypeCorrect`, `RetryBudget`, `ExactlyOnce`, `Refinement`.
The strengthening is `BatchesApart`: an open batch holds pending rows only, no
two batches share a row, and a batch has one outcome per row. `Refinement` maps
each step to an `Outbox` step or a stutter; `Commit` delivers and marks the same
set.

**CascadeLineageProofs**: `CascadesAreCut`, `TypeCorrect`. The invariant is
`gen <= depth + DepthBound * resets`: what lies behind a trigger is paid for by
its depth and once per loss by the whole bound. A loss is paid for because what
leads to a trigger without a depth either ran, below the bound (`LossPaidFor`),
or was folded, at the bound at most.

**ShardFetchProofs**: `TypeCorrect`, `CursorNeverAhead`, `OneLifecycle`. `ShardInv`
adds that what a loop remembers was reached when it was read and is reached
still (`LoopsReached`; `raw` only grows, so a stale loop that moves the cursor
back does no harm) and that row and signals agree (`RowAndSignal`), from which
the refinement of `ShardLifecycle` follows step by step.

**OnboardingProofs**: `TypeCorrect`, `BridgeIsTold`, `HandedOverComplete`. That
Bridge is told only of a complete run needs to know why a failed source stays
failed: nothing is handed over for it any more, because its last hand-over used
the key of its pass, or a shard failed, or it never had one (`FailedStays`).
`SourceInv` carries this with what waits for a source, `RunStages` how run and
sources start together.

`TenantRunRefinement`, also there: the services implement `TenantRun`.
`RollUpInv` adds that a source which counts or is told as completed has handed
over at least once (`Accounted`), that a pending run still has its created
signal, and that a complete run has told Bridge. The last is why a second pass
of `_handle_source_completed` over a complete run shows nothing, although its
emit has no guard; the first, with `FailedStays`, is why the last sibling's news
finds every chosen source collected and none broken.

**IngestionProofs**: `TypeCorrect`, `NothingIsLost`, `OneTrigger`,
`CapOvershoot`, for the composition. `NothingVanishes` speaks of committed offsets; `IngestionInv`
accounts for a record by what has been settled (`Accounted`), so that a commit
changes nothing, and a crash puts back only what a queue held above the
committed offset. `QueuesAgree` says that it is found there again, `InOrder`
that a batch lies above the committed offset, and `ClearingDone` that a message
whose counter is to be removed next has landed or is parked, so that its offset
may be settled.

`CapOvershoot` is about `CapPassedByFaults`, with any number of faults. A count
reaches the cap only in `Doom`, of a message that is neither doomed nor being
cleared and is so from then on; leaving that state with the row still there
costs a fault, which pays for the one count more of the next time.

`IntakeRefinement`, also there: the pipeline implements `Intake`. Besides
`IngestionInv` it needs `CameIn` (whatever is stored, set aside or on the
normalized topic has been received; for the queues this follows from
`QueuesAgree`) and `ArrivesOnce` (a live record is not on the raw topic before
ingress has it, so the inline path always receives and stores at once).

Only model-checked: the liveness properties, since fairness is beyond the prover.

## 5. Not modelled, and the plan

Worth adding next:

1. `SchedulerLease`: `PostgresLease` (`lib/shared/db_leases.py`) with holders
   that stall past their expiry.
2. The in-process circuit breakers, whose lock is not held during the call.
3. The propagation inside one run (`cascade.py`) and the state machines of the
   acts as bounded algorithms; the realtime dispatcher's bounded queues; the
   order of region locks.
4. The operator's retry of a `model_reeval` dead letter, which writes a new
   request, in `ThinkQueue`.
5. The other producers and consumers of the topics: source pollers, the Discord
   gateway worker, embedding and summarisation. A long document's trigger is
   written only when its summary is done; `Observations` has the trigger in the
   ingest transaction.

In the modelled parts these are left out: records without an external id, which
the store does not recognise the second time; records of a kind the normalizer
does not support, which it skips; progress events of the workflows; several
runs of one tenant.

Not planned: retrieval and topology scoring (numerical), rendering and product
surfaces (read-only), authorisation and audit (single statements), integrations
(external I/O), deployment and benchmarks.
