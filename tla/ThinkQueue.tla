----------------------------- MODULE ThinkQueue -----------------------------
(***************************************************************************)
(* The durable Think trigger queue (table think_trigger_queue) and the     *)
(* ThinkWorker processes that drain it: services/reasoning/think/worker.py *)
(* with the enqueue helpers of services/domain/triggers.py, the            *)
(* applied_triggers ledger of services/reasoning/think/applier.py, and the *)
(* operator's retry and quarantine of services/app/gateway/                *)
(* dead_letter_router.py.                                                  *)
(*                                                                         *)
(* Every SQL transaction of the code is one action.  Between transactions  *)
(* a task is in memory only, and a crash loses it.  A lease is a pair      *)
(* (locked_by, locked_at); the clock is abstracted to whether locked_at is *)
(* older than trigger_lock_timeout_s.  One tenant is modelled: the tenants *)
(* of a deployment share nothing but the worker's slots.                   *)
(***************************************************************************)
EXTENDS Naturals, FiniteSets

CONSTANTS
  Arrivals,        \* T1:event_arrival rows
  Downstream,      \* rows of one downstream kind, T2:belief_updated or
                   \* T4:latent_relationship_candidate (a batch never mixes the two)
  Reevals,         \* model_reeval_queue rows, each with its T4:model_reeval row
  Batches,         \* ids a worker can draw for a synthetic batch parent row
  Deep,            \* rows whose payload cascade_depth reaches the bound
  Workers,         \* ThinkWorker processes
  Ids,             \* worker ids (THINK_WORKER_ID, by default worker-<pid>)
  WorkerId,        \* the id each process writes into locked_by
  Slots,           \* poll_batch: the tasks one process may have in flight
  TenantConcurrency, \* max_concurrency_per_tenant, the per-tenant semaphore
  MaxAttempts,     \* trigger_max_attempts
  ValidationCap,   \* THINK_VALIDATION_MAX_ATTEMPTS (MaxAttempts when unset)
  BatchMin,        \* smallest batch a worker forms
  None,            \* SQL NULL
  MaxFaults,       \* bound: crashes, shutdowns and tasks lost to a DB error
  MaxExpiries,     \* bound: leases that outlive trigger_lock_timeout_s
  MaxDeferrals,    \* bound: dispatches paused by the daily budget
  MaxOperatorActs  \* bound: operator retries and quarantines

Singles == Arrivals \cup Downstream \cup Reevals
Rows == Singles \cup Batches

ASSUME ConstantsAssumption ==
  /\ WorkerId \in [Workers -> Ids]
  /\ None \notin Ids \cup Rows
  /\ Batches \cap Singles = {}
  /\ Arrivals \cap (Downstream \cup Reevals) = {}
  /\ Downstream \cap Reevals = {}
  /\ Deep \subseteq Singles
  /\ MaxAttempts \in Nat \ {0}
  /\ ValidationCap \in 1..MaxAttempts
  /\ TenantConcurrency \in Nat \ {0}
  /\ BatchMin \in Nat \ {0}

VARIABLES
  queue,       \* think_trigger_queue
  members,     \* payload.batch_member_trigger_ids of a batch row
  primary,     \* the member whose model or candidate a batch row points at
  reeval,      \* model_reeval_queue: none, pending or processed
  lowValue,    \* downstream rows whose model or candidate is not worth judging
  ledger,      \* applied_triggers
  task,        \* the asyncio tasks of each process
  mode,        \* up, draining (shutdown requested) or down
  retried,     \* history: rows an operator has sent back to the queue
  deadReevals, \* model_reeval_dead_letter
  spent        \* how much of each bound has been used

vars == <<queue, members, primary, reeval, lowValue, ledger, task, mode,
          retried, deadReevals, spent>>

-----------------------------------------------------------------------------
(* Types *)

Stages == {"absent", "open", "closed"}       \* closed: completed_at is set
Phases == {"queued",     \* waiting for the tenant's semaphore
           "running",    \* inside think(), heartbeat on
           "committed",  \* the mutation transaction of think() committed
           "succeeded",  \* think() returned success or skipped_idempotent
           "failed"}     \* think() returned a failure, raised or timed out

Row == [stage : Stages, error : BOOLEAN, attempts : 0..MaxAttempts,
        lockedBy : Ids \cup {None}, expired : BOOLEAN, due : BOOLEAN,
        parent : Batches \cup {None}, unbatched : BOOLEAN, pruned : BOOLEAN,
        quarantined : BOOLEAN]

Task == [row : Rows, phase : Phases]
Idle == [row |-> None, phase |-> "idle"]

Bounds == {"faults", "expiries", "deferrals", "operator"}

(* Every table, task and process holds a value its column or variable allows. *)
TypeOK ==
  /\ queue \in [Rows -> Row]
  /\ members \in [Batches -> SUBSET Singles]
  /\ primary \in [Batches -> Singles \cup {None}]
  /\ reeval \in [Reevals -> {"none", "pending", "processed"}]
  /\ lowValue \subseteq Downstream
  /\ ledger \subseteq Rows
  /\ task \in [Workers -> [Slots -> Task \cup {Idle}]]
  /\ mode \in [Workers -> {"up", "draining", "down"}]
  /\ retried \subseteq Rows
  /\ deadReevals \subseteq Reevals
  /\ spent \in [Bounds -> Nat]

-----------------------------------------------------------------------------
(* Rows: what the SQL statements do to one row *)

NoRow == [stage |-> "absent", error |-> FALSE, attempts |-> 0,
          lockedBy |-> None, expired |-> FALSE, due |-> TRUE, parent |-> None,
          unbatched |-> FALSE, pruned |-> FALSE, quarantined |-> FALSE]

\* INSERT INTO think_trigger_queue, with or without the inserter's lock
NewRow(locker) == [NoRow EXCEPT !.stage = "open", !.lockedBy = locker]

Unlock(q) == [q EXCEPT !.lockedBy = None, !.expired = FALSE]

Lease(q, id) == [q EXCEPT !.lockedBy = id, !.expired = FALSE]

\* completed_at = now(), last_error = NULL
CloseClean(q) == [Unlock(q) EXCEPT !.stage = "closed", !.error = FALSE]

\* Mutant of CloseDead: attempts pushed past the cap
CloseDeadPastCap(q, n) ==
  [Unlock(q) EXCEPT !.stage = "closed", !.error = TRUE, !.attempts = n + 1]

\* completed_at = now(), last_error = ..., the row is its own dead letter
CloseDead(q, n) ==
  [Unlock(q) EXCEPT !.stage = "closed", !.error = TRUE, !.attempts = n]

\* Auto-completion by the pruner: last_error is left as it was
ClosePruned(q) == [Unlock(q) EXCEPT !.stage = "closed", !.pruned = TRUE]

\* Failed attempt with attempts left: backoff pushes scheduled_for out
Backoff(q, n) ==
  [Unlock(q) EXCEPT !.attempts = n, !.due = FALSE, !.error = TRUE]

\* A dead-lettered batch hands its members back as singles
Unbundle(q) ==
  [Unlock(q) EXCEPT !.parent = None, !.due = TRUE, !.unbatched = TRUE]

IsOpen(r) == queue[r].stage = "open"
IsClosed(r) == queue[r].stage = "closed"
DeadLettered(r) == IsClosed(r) /\ queue[r].error

-----------------------------------------------------------------------------
(* Selection: the WHERE clauses of the poll *)

\* The model or relationship candidate a row points at is not worth judging
Worthless(r) ==
  \/ r \in lowValue
  \/ r \in Batches /\ primary[r] \in lowValue

\* Rows the pruner completes at the start of every poll transaction
PruneTargets == {r \in Rows : IsOpen(r) /\ queue[r].parent = None /\ Worthless(r)}

\* Mutants of Leasable: locks ignored; expired locks never taken over
LeasableIgnoringLocks(r) ==
  /\ IsOpen(r) /\ r \notin PruneTargets
  /\ queue[r].parent = None
  /\ queue[r].due
  /\ queue[r].attempts < MaxAttempts

LeasableUnlockedOnly(r) ==
  /\ IsOpen(r) /\ r \notin PruneTargets
  /\ queue[r].parent = None
  /\ queue[r].lockedBy = None
  /\ queue[r].due
  /\ queue[r].attempts < MaxAttempts

Leasable(r) ==
  /\ IsOpen(r) /\ r \notin PruneTargets
  /\ queue[r].parent = None
  /\ queue[r].lockedBy = None \/ queue[r].expired
  /\ queue[r].due
  /\ queue[r].attempts < MaxAttempts

\* Candidates for a batch of one kind; batch rows and released members are not
BatchCandidates(kind) == {r \in kind : Leasable(r) /\ ~queue[r].unbatched}

\* queue after the prune of a poll transaction
PrunedQueue ==
  [r \in Rows |-> IF r \in PruneTargets THEN ClosePruned(queue[r]) ELSE queue[r]]

\* _poll_and_dispatch only runs in an up process with a free slot
CanPoll(w, s) == mode[w] = "up" /\ task[w][s] = Idle

\* The tasks that hold the per-tenant semaphore of process w
Holding(w) ==
  {s \in Slots : task[w][s].phase \in {"running", "committed", "succeeded", "failed"}}

Owns(w, r) == queue[r].lockedBy = WorkerId[w]

SetTask(w, s, t) == task' = [task EXCEPT ![w] = [@ EXCEPT ![s] = t]]

SetPhase(w, s, p) ==
  SetTask(w, s, [row |-> task[w][s].row, phase |-> p])

Spend(b, max) ==
  /\ spent[b] < max
  /\ spent' = [spent EXCEPT ![b] = @ + 1]

-----------------------------------------------------------------------------
Init ==
  /\ queue = [r \in Rows |-> NoRow]
  /\ members = [p \in Batches |-> {}]
  /\ primary = [p \in Batches |-> None]
  /\ reeval = [r \in Reevals |-> "none"]
  /\ lowValue = {}
  /\ ledger = {}
  /\ task = [w \in Workers |-> [s \in Slots |-> Idle]]
  /\ mode = [w \in Workers |-> "up"]
  /\ retried = {}
  /\ deadReevals = {}
  /\ spent = [b \in Bounds |-> 0]

(* Producers *)

\* enqueue_trigger: ingestion stores a T1, a sweep stores a T2 or T4
Enqueue(r) ==
  /\ r \in Arrivals \cup Downstream
  /\ queue[r].stage = "absent"
  /\ queue' = [queue EXCEPT ![r] = NewRow(None)]
  /\ UNCHANGED <<members, primary, reeval, lowValue, ledger, task, mode,
                 retried, deadReevals, spent>>

\* enqueue_model_reeval: unprocessed rows of one key collapse into one
EnqueueReeval(r) ==
  /\ reeval[r] = "none"
  /\ reeval' = [reeval EXCEPT ![r] = "pending"]
  /\ UNCHANGED <<queue, members, primary, lowValue, ledger, task, mode,
                 retried, deadReevals, spent>>

\* The model or candidate behind a downstream row stops being worth judging
Devalue(r) ==
  /\ r \in Downstream \ lowValue
  /\ lowValue' = lowValue \cup {r}
  /\ UNCHANGED <<queue, members, primary, reeval, ledger, task, mode, retried,
                 deadReevals, spent>>

(* The worker's loop *)

\* _promote_reeval_rows: unless a trigger of this reeval row is still open
Promote(w, r) ==
  /\ mode[w] = "up"
  /\ reeval[r] = "pending"
  /\ ~IsOpen(r)
  /\ queue' = [queue EXCEPT ![r] = NewRow(None)]
  /\ UNCHANGED <<members, primary, reeval, lowValue, ledger, task, mode,
                 retried, deadReevals, spent>>

\* _poll_and_dispatch that only prunes: nothing to lease, or nothing due
PollPrune(w, s) ==
  /\ CanPoll(w, s)
  /\ PruneTargets # {}
  /\ queue' = PrunedQueue
  /\ UNCHANGED <<members, primary, reeval, lowValue, ledger, task, mode,
                 retried, deadReevals, spent>>

\* _poll_and_dispatch that leases row r and creates its task
PollSingle(w, s, r) ==
  /\ CanPoll(w, s)
  /\ Leasable(r)
  /\ queue' = [PrunedQueue EXCEPT ![r] = Lease(queue[r], WorkerId[w])]
  /\ SetTask(w, s, [row |-> r, phase |-> "queued"])
  /\ UNCHANGED <<members, primary, reeval, lowValue, ledger, mode, retried,
                 deadReevals, spent>>

\* Mutant of PollBatch: the members stay in sight of the next poll
PollBatchVisible(w, s, p, M) ==
  /\ CanPoll(w, s)
  /\ queue[p].stage = "absent"
  /\ M \subseteq BatchCandidates(Arrivals) \/ M \subseteq BatchCandidates(Downstream)
  /\ Cardinality(M) >= BatchMin
  /\ queue' = [PrunedQueue EXCEPT ![p] = NewRow(WorkerId[w])]
  /\ members' = [members EXCEPT ![p] = M]
  /\ \E m \in M : primary' = [primary EXCEPT ![p] = m]
  /\ SetTask(w, s, [row |-> p, phase |-> "queued"])
  /\ UNCHANGED <<reeval, lowValue, ledger, mode, retried, deadReevals, spent>>

\* _poll_and_dispatch that folds the rows M into the new batch row p
PollBatch(w, s, p, M) ==
  /\ CanPoll(w, s)
  /\ queue[p].stage = "absent"
  /\ M \subseteq BatchCandidates(Arrivals) \/ M \subseteq BatchCandidates(Downstream)
  /\ Cardinality(M) >= BatchMin
  /\ queue' = [r \in Rows |->
                 IF r = p THEN NewRow(WorkerId[w])
                 ELSE IF r \in M THEN [queue[r] EXCEPT !.parent = p]
                 ELSE PrunedQueue[r]]
  /\ members' = [members EXCEPT ![p] = M]
  /\ \E m \in M : primary' = [primary EXCEPT ![p] = m]
  /\ SetTask(w, s, [row |-> p, phase |-> "queued"])
  /\ UNCHANGED <<reeval, lowValue, ledger, mode, retried, deadReevals, spent>>

(* One dispatched trigger: _dispatch_trigger and _process_trigger *)

MembersOf(r) == IF r \in Batches THEN members[r] ELSE {}

\* Members a batch row still carries; its completion or death touches only these
Carried(r) == {m \in MembersOf(r) : queue[m].parent = r /\ IsOpen(m)}

\* Mutants of MarkFailed: a dead batch keeps its members and a dead reeval
\* trigger its request; one attempt too many before the dead letter
MarkFailedAlone(w, r, cap, force) ==
  LET n == queue[r].attempts + 1 IN
  /\ queue' = IF IsOpen(r) /\ Owns(w, r)
              THEN [queue EXCEPT ![r] = IF force \/ n >= cap THEN CloseDead(@, n)
                                        ELSE Backoff(@, n)]
              ELSE queue
  /\ UNCHANGED <<reeval, deadReevals>>

MarkFailedLate(w, r, cap, force) ==
  LET n == queue[r].attempts + 1
      mine == IsOpen(r) /\ Owns(w, r)
  IN /\ queue' = [x \in Rows |->
                    IF ~mine THEN queue[x]
                    ELSE IF x = r THEN IF force \/ n > cap THEN CloseDead(queue[r], n)
                                       ELSE Backoff(queue[r], n)
                    ELSE IF x \in Carried(r) /\ (force \/ n > cap)
                         THEN Unbundle(queue[x])
                    ELSE queue[x]]
     /\ UNCHANGED <<reeval, deadReevals>>

\* _mark_trigger_failed: a no-op unless the row is open and still ours
MarkFailed(w, r, cap, force) ==
  LET n == queue[r].attempts + 1
      mine == IsOpen(r) /\ Owns(w, r)
      terminal == force \/ n >= cap
  IN \/ /\ ~mine
        /\ UNCHANGED <<queue, reeval, deadReevals>>
     \/ /\ mine /\ ~terminal
        /\ queue' = [queue EXCEPT ![r] = Backoff(@, n)]
        /\ UNCHANGED <<reeval, deadReevals>>
     \/ /\ mine /\ terminal
        /\ queue' = [x \in Rows |-> IF x = r THEN CloseDead(queue[r], n)
                                    ELSE IF x \in Carried(r) THEN Unbundle(queue[x])
                                    ELSE queue[x]]
        /\ reeval' = [x \in Reevals |-> IF x = r THEN "processed" ELSE reeval[x]]
        /\ deadReevals' = deadReevals \cup ({r} \cap Reevals)

\* Mutants of MarkComplete: no lease check; the row without its members and
\* its re-evaluation request
MarkCompleteUnowned(w, r) ==
  /\ queue' = [x \in Rows |-> IF x = r \/ x \in Carried(r)
                              THEN CloseClean(queue[x]) ELSE queue[x]]
  /\ reeval' = [x \in Reevals |-> IF x = r THEN "processed" ELSE reeval[x]]

MarkCompleteAlone(w, r) ==
  /\ queue' = IF Owns(w, r) THEN [queue EXCEPT ![r] = CloseClean(@)] ELSE queue
  /\ UNCHANGED reeval

\* _mark_trigger_complete: the row itself only if still ours, but the members
\* it carries and the reeval row in every case
MarkComplete(w, r) ==
  /\ queue' = [x \in Rows |-> IF \/ x = r /\ Owns(w, r)
                                 \/ x \in Carried(r)
                              THEN CloseClean(queue[x]) ELSE queue[x]]
  /\ reeval' = [x \in Reevals |-> IF x = r THEN "processed" ELSE reeval[x]]

SemaphoreFree(w) == Cardinality(Holding(w)) < TenantConcurrency

\* The task gets the semaphore; its cascade depth is at the bound
Reject(w, s) ==
  /\ task[w][s].phase = "queued" /\ task[w][s].row \in Deep
  /\ SemaphoreFree(w)
  /\ MarkFailed(w, task[w][s].row, MaxAttempts, TRUE)
  /\ SetTask(w, s, Idle)
  /\ UNCHANGED <<members, primary, lowValue, ledger, mode, retried, spent>>

\* The tenant is over its daily budget: unlock and reschedule, no attempt used
Defer(w, s) ==
  LET r == task[w][s].row IN
  /\ task[w][s].phase = "queued" /\ r \notin Deep
  /\ SemaphoreFree(w)
  /\ queue' = IF Owns(w, r)
              THEN [queue EXCEPT ![r] = [Unlock(@) EXCEPT !.due = FALSE]]
              ELSE queue
  /\ SetTask(w, s, Idle)
  /\ Spend("deferrals", MaxDeferrals)
  /\ UNCHANGED <<members, primary, reeval, lowValue, ledger, mode, retried,
                 deadReevals>>

\* think() starts and with it the heartbeat; nothing re-checks the lease
Begin(w, s) ==
  /\ task[w][s].phase = "queued" /\ task[w][s].row \notin Deep
  /\ SemaphoreFree(w)
  /\ SetPhase(w, s, "running")
  /\ UNCHANGED <<queue, members, primary, reeval, lowValue, ledger, mode,
                 retried, deadReevals, spent>>

\* _heartbeat_trigger
Beat(w, s) ==
  LET r == task[w][s].row IN
  /\ task[w][s].phase \in {"running", "committed"}
  /\ IsOpen(r) /\ Owns(w, r) /\ queue[r].expired
  /\ queue' = [queue EXCEPT ![r] = Lease(@, WorkerId[w])]
  /\ UNCHANGED <<members, primary, reeval, lowValue, ledger, task, mode,
                 retried, deadReevals, spent>>

\* The mutation transaction of think(): claim the trigger id in the ledger,
\* apply the diff and enqueue the T2s D of the predictions it wrote
Apply(w, s, D) ==
  LET r == task[w][s].row IN
  /\ task[w][s].phase = "running"
  /\ r \notin ledger
  /\ \A d \in D : queue[d].stage = "absent"
  /\ ledger' = ledger \cup {r}
  /\ queue' = [x \in Rows |-> IF x \in D THEN NewRow(None) ELSE queue[x]]
  /\ SetPhase(w, s, "committed")
  /\ UNCHANGED <<members, primary, reeval, lowValue, mode, retried,
                 deadReevals, spent>>

\* Mutant of SkipApplied: a run in progress counts as already applied
SkipUnapplied(w, s) ==
  /\ task[w][s].phase = "running"
  /\ SetPhase(w, s, "succeeded")
  /\ UNCHANGED <<queue, members, primary, reeval, lowValue, ledger, mode,
                 retried, deadReevals, spent>>

\* The ledger already holds the id: AlreadyAppliedError, skipped_idempotent
SkipApplied(w, s) ==
  /\ task[w][s].phase = "running"
  /\ task[w][s].row \in ledger
  /\ SetPhase(w, s, "succeeded")
  /\ UNCHANGED <<queue, members, primary, reeval, lowValue, ledger, mode,
                 retried, deadReevals, spent>>

\* think() returns success once its transaction has committed
Return(w, s) ==
  /\ task[w][s].phase = "committed"
  /\ SetPhase(w, s, "succeeded")
  /\ UNCHANGED <<queue, members, primary, reeval, lowValue, ledger, mode,
                 retried, deadReevals, spent>>

\* Retrieval, the LLM, validation or the transaction fails, or run_timeout_s
\* passes; also after the commit, while think() is still finishing
RunFails(w, s) ==
  /\ task[w][s].phase \in {"running", "committed"}
  /\ SetPhase(w, s, "failed")
  /\ UNCHANGED <<queue, members, primary, reeval, lowValue, ledger, mode,
                 retried, deadReevals, spent>>

Complete(w, s) ==
  /\ task[w][s].phase = "succeeded"
  /\ MarkComplete(w, task[w][s].row)
  /\ SetTask(w, s, Idle)
  /\ UNCHANGED <<members, primary, lowValue, ledger, mode, retried,
                 deadReevals, spent>>

\* A validation failure has its own, lower cap
Fail(w, s) ==
  /\ task[w][s].phase = "failed"
  /\ \E cap \in {MaxAttempts, ValidationCap} :
       MarkFailed(w, task[w][s].row, cap, FALSE)
  /\ SetTask(w, s, Idle)
  /\ UNCHANGED <<members, primary, lowValue, ledger, mode, retried, spent>>

(* Time *)

\* A live task still holds the lease of r
LiveTask(r) ==
  \E w \in Workers, s \in Slots : task[w][s].row = r /\ Owns(w, r)

\* locked_at falls behind trigger_lock_timeout_s: the owner is gone, is still
\* waiting for the semaphore without a heartbeat, or its heartbeats fail
Expire(r) ==
  /\ IsOpen(r) /\ queue[r].lockedBy # None /\ ~queue[r].expired
  /\ queue' = [queue EXCEPT ![r].expired = TRUE]
  /\ IF LiveTask(r) THEN Spend("expiries", MaxExpiries) ELSE UNCHANGED spent
  /\ UNCHANGED <<members, primary, reeval, lowValue, ledger, task, mode,
                 retried, deadReevals>>

\* scheduled_for is reached
BackoffElapses(r) ==
  /\ IsOpen(r) /\ ~queue[r].due
  /\ queue' = [queue EXCEPT ![r].due = TRUE]
  /\ UNCHANGED <<members, primary, reeval, lowValue, ledger, task, mode,
                 retried, deadReevals, spent>>

(* Crashes, shutdown and recovery *)

Crash(w) ==
  /\ mode[w] # "down"
  /\ mode' = [mode EXCEPT ![w] = "down"]
  /\ task' = [task EXCEPT ![w] = [s \in Slots |-> Idle]]
  /\ Spend("faults", MaxFaults)
  /\ UNCHANGED <<queue, members, primary, reeval, lowValue, ledger, retried,
                 deadReevals>>

\* The budget query or a bookkeeping transaction raises: the task dies, the
\* lease stays
LoseTask(w, s) ==
  /\ task[w][s].phase \in {"queued", "succeeded", "failed"}
  /\ SetTask(w, s, Idle)
  /\ Spend("faults", MaxFaults)
  /\ UNCHANGED <<queue, members, primary, reeval, lowValue, ledger, mode,
                 retried, deadReevals>>

\* SIGTERM: the loop ends, tasks in flight are awaited
Shutdown(w) ==
  /\ mode[w] = "up"
  /\ mode' = [mode EXCEPT ![w] = "draining"]
  /\ Spend("faults", MaxFaults)
  /\ UNCHANGED <<queue, members, primary, reeval, lowValue, ledger, task,
                 retried, deadReevals>>

Drained(w) ==
  /\ mode[w] = "draining"
  /\ \A s \in Slots : task[w][s] = Idle
  /\ mode' = [mode EXCEPT ![w] = "down"]
  /\ UNCHANGED <<queue, members, primary, reeval, lowValue, ledger, task,
                 retried, deadReevals, spent>>

\* run(): _recover_orphaned_trigger_locks clears the locks left under this id
\* and every expired one; its failure is logged and the loop starts anyway
Restart(w, recovers) ==
  /\ mode[w] = "down"
  /\ mode' = [mode EXCEPT ![w] = "up"]
  /\ queue' = [r \in Rows |->
                 IF /\ recovers /\ IsOpen(r)
                    /\ Owns(w, r) \/ queue[r].expired
                 THEN Unlock(queue[r]) ELSE queue[r]]
  /\ UNCHANGED <<members, primary, reeval, lowValue, ledger, task, retried,
                 deadReevals, spent>>

(* The operator: /api/admin/dead-letters *)

\* Mutant of OperatorRetry: quarantine is not honoured
OperatorRetryAny(r) ==
  /\ DeadLettered(r)
  /\ queue' = [queue EXCEPT ![r] =
                 [Unlock(@) EXCEPT !.stage = "open", !.due = TRUE,
                                   !.attempts = 0, !.error = FALSE]]
  /\ retried' = retried \cup {r}
  /\ Spend("operator", MaxOperatorActs)
  /\ UNCHANGED <<members, primary, reeval, lowValue, ledger, task, mode,
                 deadReevals>>

\* _retry_think_trigger: everything but batch_parent_id and payload is reset
OperatorRetry(r) ==
  /\ DeadLettered(r) /\ ~queue[r].quarantined
  /\ queue' = [queue EXCEPT ![r] =
                 [Unlock(@) EXCEPT !.stage = "open", !.due = TRUE,
                                   !.attempts = 0, !.error = FALSE]]
  /\ retried' = retried \cup {r}
  /\ Spend("operator", MaxOperatorActs)
  /\ UNCHANGED <<members, primary, reeval, lowValue, ledger, task, mode,
                 deadReevals>>

\* _quarantine_think_trigger
Quarantine(r) ==
  /\ DeadLettered(r) /\ ~queue[r].quarantined
  /\ queue' = [queue EXCEPT ![r].quarantined = TRUE]
  /\ Spend("operator", MaxOperatorActs)
  /\ UNCHANGED <<members, primary, reeval, lowValue, ledger, task, mode,
                 retried, deadReevals>>

-----------------------------------------------------------------------------
Produce ==
  \/ \E r \in Arrivals \cup Downstream : Enqueue(r)
  \/ \E r \in Reevals : EnqueueReeval(r)
  \/ \E r \in Downstream : Devalue(r)

Poll(w) ==
  \/ \E r \in Reevals : Promote(w, r)
  \/ \E s \in Slots :
       \/ PollPrune(w, s)
       \/ \E r \in Rows : PollSingle(w, s, r)
       \/ \E p \in Batches, M \in SUBSET (Arrivals \cup Downstream) :
            PollBatch(w, s, p, M)

Process(w, s) ==
  \/ Reject(w, s) \/ Defer(w, s) \/ Begin(w, s) \/ Beat(w, s)
  \/ \E D \in SUBSET Downstream : Apply(w, s, D)
  \/ SkipApplied(w, s) \/ Return(w, s) \/ RunFails(w, s)
  \/ Complete(w, s) \/ Fail(w, s) \/ LoseTask(w, s)

Lifecycle(w) ==
  \/ Crash(w) \/ Shutdown(w) \/ Drained(w)
  \/ \E recovers \in BOOLEAN : Restart(w, recovers)

Environment ==
  \/ \E r \in Rows : Expire(r) \/ BackoffElapses(r)
  \/ \E r \in Rows : OperatorRetry(r) \/ Quarantine(r)

Next ==
  \/ Produce
  \/ \E w \in Workers : Poll(w) \/ Lifecycle(w)
  \/ \E w \in Workers, s \in Slots : Process(w, s)
  \/ Environment

Spec == Init /\ [][Next]_vars

(***************************************************************************)
(* Fairness.  A live process keeps polling and its tasks keep moving: the  *)
(* loop sleeps poll_interval_s, think() is cut off by run_timeout_s, the   *)
(* supervisor restarts a dead process.  Abandoned leases age out and       *)
(* backoffs elapse because time passes.  Producers, faults, the budget,    *)
(* the operator and spurious expiries carry no fairness.                   *)
(***************************************************************************)
Fairness ==
  /\ \A w \in Workers :
       /\ WF_vars(\E r \in Reevals : Promote(w, r))
       /\ WF_vars(\E s \in Slots, r \in Rows : PollSingle(w, s, r))
       /\ WF_vars(\E recovers \in BOOLEAN : Restart(w, recovers))
       /\ WF_vars(Drained(w))
  /\ \A w \in Workers, s \in Slots :
       /\ WF_vars(Reject(w, s) \/ Begin(w, s))
       /\ WF_vars(Apply(w, s, {}) \/ SkipApplied(w, s) \/ RunFails(w, s))
       /\ WF_vars(Return(w, s))
       /\ WF_vars(Complete(w, s) \/ Fail(w, s))
  /\ \A r \in Rows :
       /\ WF_vars(~LiveTask(r) /\ Expire(r))
       /\ WF_vars(BackoffElapses(r))

FairSpec == Spec /\ Fairness

-----------------------------------------------------------------------------
(* Safety *)

(***************************************************************************)
(* No trigger is stranded.  The poll only sees rows without a parent and   *)
(* with attempts left, so an open row must have attempts left and, if a    *)
(* batch carries it, that batch must still be open: through stale leases,  *)
(* crashes and duplicate dispatches, completing or dead-lettering a batch  *)
(* always settles or releases its members.  The two exceptions are known:  *)
(* the pruner completes an in-flight batch row without looking at its      *)
(* members, and the operator's retry keeps a member's batch_parent_id.     *)
(***************************************************************************)
Stranded(r) == queue[r].parent # None /\ ~IsOpen(queue[r].parent)

NoStrandedRow ==
  \A r \in Rows : IsOpen(r) =>
    /\ queue[r].attempts < MaxAttempts
    /\ Stranded(r) => queue[queue[r].parent].pruned \/ r \in retried

(***************************************************************************)
(* Nothing is completed that was not done.  A row closed without an error  *)
(* and not by the pruner is in the applied_triggers ledger, itself or as a *)
(* member of a batch that is, although _mark_trigger_complete closes       *)
(* members without checking that the worker still holds the batch's lease. *)
(***************************************************************************)
AppliedAs(r, x) == x \in ledger /\ (x = r \/ r \in MembersOf(x))

CleanMeansApplied ==
  \A r \in Rows :
    IsClosed(r) /\ ~queue[r].error /\ ~queue[r].pruned
      => \E x \in Rows : AppliedAs(r, x)

(***************************************************************************)
(* A re-evaluation request is settled exactly when its trigger is: marked  *)
(* processed only if the trigger was applied or dead-lettered, and never   *)
(* left pending, to be promoted again, behind a trigger that is closed.    *)
(***************************************************************************)
ReevalSettled ==
  \A r \in Reevals :
    /\ reeval[r] = "processed" => r \in ledger \cup deadReevals
    /\ IsClosed(r) => reeval[r] = "processed"

(***************************************************************************)
(* Leases exclude.  As long as no live task outlived its lease, no two     *)
(* processes share a worker id and no operator re-opened a row, no event   *)
(* is worked on by two tasks at once, directly or through a batch.  This   *)
(* is what SKIP LOCKED, locked_by and the hidden members buy together;     *)
(* crashes, shutdowns and startup recovery do not break it.                *)
(***************************************************************************)
Events(r) == {r} \cup MembersOf(r)

DistinctIds == \A v, w \in Workers : WorkerId[v] = WorkerId[w] => v = w

Undisturbed == DistinctIds /\ spent["expiries"] = 0 /\ retried = {}

Busy(w, s) == task[w][s] # Idle

LeasesExclude ==
  Undisturbed =>
    \A v, w \in Workers, s, t \in Slots :
      /\ Busy(v, s) /\ Busy(w, t)
      /\ Events(task[v][s].row) \cap Events(task[w][t].row) # {}
      => v = w /\ s = t

(***************************************************************************)
(* A closed row stays as it was closed: a stale task that finishes late    *)
(* cannot turn a dead letter into a success, re-open it or spend another   *)
(* attempt.  _mark_trigger_complete does not test completed_at, so this    *)
(* rests on every close also clearing the lock.  Only the operator acts on *)
(* dead letters, and never re-opens one that is quarantined.               *)
(***************************************************************************)
ClosedIsFinal ==
  [][\A r \in Rows :
       IsClosed(r) =>
         \/ queue'[r] = queue[r]
         \/ queue[r].error /\ ~queue[r].quarantined
            /\ spent'["operator"] = spent["operator"] + 1]_vars

(***************************************************************************)
(* An event is applied once.  The ledger is keyed by row, and an event has *)
(* a row of its own and may be in the payload of a batch row; what keeps   *)
(* it from being applied under both is that a row is hidden while a batch  *)
(* carries it and closed once it is applied.  As long as leases hold, no   *)
(* process or task is lost and no operator interferes, two applications of *)
(* one event have a failed attempt between them: a run that timed out or   *)
(* raised after its transaction had committed.                             *)
(***************************************************************************)
Calm == Undisturbed /\ spent["faults"] = 0

AppliedOnce ==
  Calm =>
    \A x, y \in ledger :
      x # y /\ Events(x) \cap Events(y) # {}
        => queue[x].attempts > 0 \/ queue[y].attempts > 0

(***************************************************************************)
(* Producers may think of the queue as an Inbox of single events: the      *)
(* workers' batches, leases, retries and crashes never show.               *)
(***************************************************************************)
Fate(q) ==
  IF q.stage # "closed" THEN q.stage
  ELSE IF ~q.error THEN "done"
  ELSE IF q.quarantined THEN "quarantined" ELSE "dead"

Promise == INSTANCE Inbox WITH
  Items <- Singles,
  state <- [e \in Singles |-> Fate(queue[e])],
  applied <- {e \in Singles : \E x \in ledger : e \in Events(x)},
  worthless <- lowValue

ImplementsInbox == Promise!Spec

-----------------------------------------------------------------------------
(* What the safety invariants rest on, for the proofs *)

\* A row that can still be polled, or will be again, has an attempt left
AttemptsLeft == \A r \in Rows : IsOpen(r) => queue[r].attempts < MaxAttempts

\* Every UPDATE that sets completed_at also clears the lock
ClosedUnlocked == \A r \in Rows : ~IsOpen(r) => queue[r].lockedBy = None

\* batch_parent_id and batch_member_trigger_ids agree
Lineage ==
  /\ \A p \in Batches : members[p] \subseteq Arrivals \cup Downstream
  /\ \A p \in Batches : queue[p].stage = "absent" => members[p] = {}
  /\ \A r \in Rows : queue[r].parent # None => r \in members[queue[r].parent]

\* A task that reports success has its row in the ledger
TasksApplied ==
  \A w \in Workers, s \in Slots :
    task[w][s].phase \in {"committed", "succeeded"} => task[w][s].row \in ledger

(***************************************************************************)
(* The inductive invariant: each of the three safety invariants needs the  *)
(* lock discipline, the agreement of the two batch columns and what a      *)
(* task in memory knows to be kept by every step.                          *)
(***************************************************************************)
IndInv ==
  /\ TypeOK /\ AttemptsLeft /\ ClosedUnlocked /\ Lineage /\ TasksApplied
  /\ NoStrandedRow /\ CleanMeansApplied /\ ReevalSettled

(***************************************************************************)
(* What makes leases exclude, while Undisturbed: a task's row is held by   *)
(* the task's process and fresh, unless the pruner closed it; its members  *)
(* are hidden behind it; no two tasks have one row; a dead process has no  *)
(* tasks.                                                                  *)
(***************************************************************************)
HoldsLease(w, s) ==
  LET r == task[w][s].row IN
  /\ queue[r].stage # "absent" /\ queue[r].parent = None
  /\ \A m \in MembersOf(r) : queue[m].parent = r
  /\ IsOpen(r) => Owns(w, r) /\ ~queue[r].expired

MembersHidden ==
  /\ \A r \in Rows : queue[r].stage = "absent" => queue[r].parent = None
  /\ \A p \in Batches : IsOpen(p) => \A m \in members[p] : queue[m].parent = p

OneTaskPerRow ==
  \A v, w \in Workers, s, t \in Slots :
    Busy(v, s) /\ Busy(w, t) /\ task[v][s].row = task[w][t].row => v = w /\ s = t

Leased ==
  /\ MembersHidden /\ OneTaskPerRow
  /\ \A w \in Workers, s \in Slots : Busy(w, s) => mode[w] # "down" /\ HoldsLease(w, s)

LeaseInv == Undisturbed => Leased

(***************************************************************************)
(* What single application rests on: whatever is in a task, a batch or the *)
(* ledger exists, an event is in one batch in its life, and only dead      *)
(* letters are quarantined; and, while Calm, an applied row without a      *)
(* failed attempt is closed or still in the hands of the task that applied *)
(* it, so no batch takes it in, and a batch without one hides its members. *)
(***************************************************************************)
Exists(r) == queue[r].stage # "absent"

Present ==
  /\ \A r \in ledger : Exists(r)
  /\ \A p \in Batches : \A m \in members[p] : Exists(m)
  /\ \A w \in Workers, s \in Slots : Busy(w, s) => Exists(task[w][s].row)

BatchedOnce ==
  /\ \A p \in Batches : \A m \in members[p] : queue[m].parent = p \/ queue[m].unbatched
  /\ \A p, q \in Batches : p # q => members[p] \cap members[q] = {}

QuarantinedDead == \A r \in Rows : queue[r].quarantined => DeadLettered(r)

InHand(r) ==
  \E w \in Workers, s \in Slots :
    task[w][s].row = r /\ task[w][s].phase \in {"committed", "succeeded", "failed"}

AppliedInHand ==
  \A r \in ledger : queue[r].attempts = 0 => IsClosed(r) \/ InHand(r)

BatchHides ==
  \A p \in Batches : queue[p].attempts = 0 =>
    \A m \in members[p] :
      queue[m].parent = p /\ (m \in ledger => queue[m].attempts > 0)

AppliedInv ==
  /\ Present /\ BatchedOnce /\ QuarantinedDead
  /\ Calm => AppliedInHand /\ BatchHides

-----------------------------------------------------------------------------
(* Liveness *)

(***************************************************************************)
(* Every enqueued trigger is eventually completed or dead-lettered,        *)
(* whatever worker it is on, through crashes, lost tasks, stale leases,    *)
(* budget pauses and failing runs; a dead-lettered batch does not take its *)
(* members with it.                                                        *)
(***************************************************************************)
EveryTriggerSettles == \A r \in Rows : IsOpen(r) ~> IsClosed(r)

(***************************************************************************)
(* Every re-evaluation request is eventually promoted to a trigger and     *)
(* marked processed, so that a later request for the same model is not     *)
(* collapsed into one that nobody works on.                                *)
(***************************************************************************)
EveryReevalSettles ==
  \A r \in Reevals : reeval[r] = "pending" ~> reeval[r] = "processed"
=============================================================================
