----------------------------- MODULE PostCommit -----------------------------
(***************************************************************************)
(* The durable queue of post-commit side effects (table                    *)
(* pending_post_commit_actions) and the workers that drain it:             *)
(* services/reasoning/think/post_commit.py and the operator's retry and    *)
(* quarantine of services/app/gateway/dead_letter_router.py.               *)
(*                                                                         *)
(* process_batch runs a whole batch in ONE database transaction, and the   *)
(* handlers run on that transaction's connection: what they write, and the *)
(* NOTIFY they send, becomes visible only when the batch commits.  A       *)
(* transaction in progress is the variable tx; the rows it has locked are  *)
(* invisible to the other workers (SKIP LOCKED).                           *)
(***************************************************************************)
EXTENDS Naturals, FiniteSets

CONSTANTS
  Triggers,        \* Think triggers whose diffs are applied
  Kinds,           \* ACTION_KINDS
  Always,          \* broadcast_realtime, enqueued for every diff
  Stepwise,        \* discover_model_edges: each step under a savepoint of its
                   \* own, so what it did before it raised stays in the batch
  Workers,         \* post_commit_worker processes
  BatchSize,       \* BATCH_SIZE
  MaxAttempts,     \* MAX_ATTEMPTS
  Poison,          \* actions whose handler always meets a SQL error outside a
                   \* savepoint (promote_pair_evidence_candidates)
  MaxFaults,       \* bound: batches lost to a crash or a passing SQL error
  MaxOperatorActs  \* bound: operator retries and quarantines

Actions == Triggers \X Kinds

ASSUME ConstantsAssumption ==
  /\ Always \in Kinds \ Stepwise
  /\ Stepwise \subseteq Kinds
  /\ BatchSize \in Nat \ {0}
  /\ MaxAttempts \in Nat \ {0}
  /\ Poison \subseteq Triggers \X Stepwise

VARIABLES
  row,        \* pending_post_commit_actions, as committed
  tx,         \* the batch transaction of each worker
  delivered,  \* batches that committed some or all of the action's effect
  spent       \* how much of each bound has been used

vars == <<row, tx, delivered, spent>>

Stages == {"none", "pending", "done", "dead"}
Row == [stage : Stages, attempts : 0..MaxAttempts, due : BOOLEAN,
        quarantined : BOOLEAN]

Closed == [todo |-> {}, ok |-> {}, failed |-> {}, kept |-> {}]
Bounds == {"faults", "operator"}

(* Every row and every open transaction is well-formed. *)
TypeOK ==
  /\ row \in [Actions -> Row]
  /\ tx \in [Workers -> [todo : SUBSET Actions, ok : SUBSET Actions,
                         failed : SUBSET Actions, kept : SUBSET Actions]]
  /\ delivered \in [Actions -> Nat]
  /\ spent \in [Bounds -> Nat]

-----------------------------------------------------------------------------
\* Rows worker w has selected FOR UPDATE and not yet committed
Held(w) == tx[w].todo \cup tx[w].ok \cup tx[w].failed

Free(a) == \A w \in Workers : a \notin Held(w)

\* Mutant of Eligible: FOR UPDATE without the locks of the other workers
EligibleLocked ==
  {a \in Actions : row[a].stage = "pending" /\ row[a].due}

\* fetch_pending_actions: WHERE ... FOR UPDATE SKIP LOCKED
Eligible ==
  {a \in Actions : row[a].stage = "pending" /\ row[a].due /\ Free(a)}

Spend(b, max) ==
  /\ spent[b] < max
  /\ spent' = [spent EXCEPT ![b] = @ + 1]

Init ==
  /\ row = [a \in Actions |-> [stage |-> "none", attempts |-> 0, due |-> TRUE,
                               quarantined |-> FALSE]]
  /\ tx = [w \in Workers |-> Closed]
  /\ delivered = [a \in Actions |-> 0]
  /\ spent = [b \in Bounds |-> 0]

\* Mutant of Enqueue: a dead letter does not count as recorded
EnqueueAgain(t, K) ==
  LET new == {a \in {t} \X (K \cup {Always}) : row[a].stage \in {"none", "dead"}} IN
  /\ new # {}
  /\ row' = [a \in Actions |-> IF a \in new THEN [row[a] EXCEPT !.stage = "pending", !.attempts = 0]
                               ELSE row[a]]
  /\ UNCHANGED <<tx, delivered, spent>>

\* enqueue_post_commit_actions, inside the apply transaction of t: one row per
\* kind with content, none for a key that was ever recorded
Enqueue(t, K) ==
  LET new == {a \in {t} \X (K \cup {Always}) : row[a].stage = "none"} IN
  /\ new # {}
  /\ row' = [a \in Actions |-> IF a \in new THEN [row[a] EXCEPT !.stage = "pending"]
                               ELSE row[a]]
  /\ UNCHANGED <<tx, delivered, spent>>

\* process_batch opens its transaction and locks up to BatchSize due rows
Fetch(w, B) ==
  /\ tx[w] = Closed
  /\ B # {} /\ B \subseteq Eligible
  /\ \/ B = Eligible /\ Cardinality(B) <= BatchSize
     \/ Cardinality(B) = BatchSize
  /\ tx' = [tx EXCEPT ![w] = [Closed EXCEPT !.todo = B]]
  /\ UNCHANGED <<row, delivered, spent>>

\* The batch x after the handler of a returned, or raised and left kept behind
Returned(x, a) == [x EXCEPT !.todo = @ \ {a}, !.ok = @ \cup {a}]
Raised(x, a, kept) ==
  [x EXCEPT !.todo = @ \ {a}, !.failed = @ \cup {a}, !.kept = @ \cup kept]

\* dispatch_action returns, mark_action_processed
HandlerReturns(w, a) ==
  /\ a \in tx[w].todo \ Poison
  /\ tx' = [tx EXCEPT ![w] = Returned(@, a)]
  /\ UNCHANGED <<row, delivered, spent>>

\* dispatch_action raises, increment_attempts and perhaps move_to_dead_letter.
\* There is no savepoint around the handler: the steps it completed are kept
HandlerRaises(w, a, partial) ==
  /\ a \in tx[w].todo \ Poison
  /\ partial => a[2] \in Stepwise
  /\ tx' = [tx EXCEPT ![w] = Raised(@, a, IF partial THEN {a} ELSE {})]
  /\ UNCHANGED <<row, delivered, spent>>

\* A SQL error outside a savepoint, passing or not, aborts the shared
\* transaction; increment_attempts then raises too and the batch rolls back
HandlerAborts(w, a) ==
  /\ a \in tx[w].todo /\ a[2] \in Stepwise
  /\ IF a \in Poison THEN UNCHANGED spent ELSE Spend("faults", MaxFaults)
  /\ tx' = [tx EXCEPT ![w] = Closed]
  /\ UNCHANGED <<row, delivered>>

\* Mutants of Failed: the dead letter counts twice; one attempt too many; the
\* attempt is not recorded
FailedTwice(q) ==
  LET dead == q.attempts + 1 >= MaxAttempts IN
  [q EXCEPT !.attempts = IF dead THEN @ + 2 ELSE @ + 1, !.due = FALSE,
            !.stage = IF dead THEN "dead" ELSE "pending"]

FailedLate(q) ==
  [q EXCEPT !.attempts = @ + 1, !.due = FALSE,
            !.stage = IF q.attempts + 1 > MaxAttempts THEN "dead" ELSE "pending"]

FailedUncounted(q) == [q EXCEPT !.due = FALSE]

\* increment_attempts and move_to_dead_letter on the row of a failed action
Failed(q) ==
  [q EXCEPT !.attempts = @ + 1, !.due = FALSE,
            !.stage = IF q.attempts + 1 >= MaxAttempts THEN "dead" ELSE "pending"]

\* The end of process_batch: marks, attempts and NOTIFYs commit together
Commit(w) ==
  /\ tx[w] # Closed /\ tx[w].todo = {}
  /\ row' = [a \in Actions |->
               IF a \in tx[w].ok THEN [row[a] EXCEPT !.stage = "done"]
               ELSE IF a \in tx[w].failed THEN Failed(row[a]) ELSE row[a]]
  /\ delivered' = [a \in Actions |-> IF a \in tx[w].ok \cup tx[w].kept
                                     THEN delivered[a] + 1 ELSE delivered[a]]
  /\ tx' = [tx EXCEPT ![w] = Closed]
  /\ UNCHANGED spent

\* The worker dies, or its connection does: the transaction rolls back
Crash(w) ==
  /\ tx[w] # Closed
  /\ tx' = [tx EXCEPT ![w] = Closed]
  /\ Spend("faults", MaxFaults)
  /\ UNCHANGED <<row, delivered>>

\* scheduled_at is reached
BackoffElapses(a) ==
  /\ row[a].stage = "pending" /\ ~row[a].due
  /\ row' = [row EXCEPT ![a].due = TRUE]
  /\ UNCHANGED <<tx, delivered, spent>>

\* _retry_post_commit; no batch holds a dead-lettered row
OperatorRetry(a) ==
  /\ row[a].stage = "dead" /\ ~row[a].quarantined
  /\ row' = [row EXCEPT ![a] = [@ EXCEPT !.stage = "pending", !.attempts = 0,
                                        !.due = TRUE]]
  /\ Spend("operator", MaxOperatorActs)
  /\ UNCHANGED <<tx, delivered>>

\* _quarantine_post_commit
Quarantine(a) ==
  /\ row[a].stage = "dead" /\ ~row[a].quarantined
  /\ row' = [row EXCEPT ![a].quarantined = TRUE]
  /\ Spend("operator", MaxOperatorActs)
  /\ UNCHANGED <<tx, delivered>>

Next ==
  \/ \E t \in Triggers, K \in SUBSET Kinds : Enqueue(t, K)
  \/ \E w \in Workers :
       \/ \E B \in SUBSET Actions : Fetch(w, B)
       \/ \E a \in Actions :
            \/ HandlerReturns(w, a) \/ HandlerAborts(w, a)
            \/ \E partial \in BOOLEAN : HandlerRaises(w, a, partial)
       \/ Commit(w) \/ Crash(w)
  \/ \E a \in Actions : BackoffElapses(a) \/ OperatorRetry(a) \/ Quarantine(a)

Spec == Init /\ [][Next]_vars

(***************************************************************************)
(* Fairness: post_commit_worker polls for ever and survives every error of *)
(* an iteration, a batch runs to its end unless it dies, and time passes.  *)
(***************************************************************************)
Fairness ==
  /\ \A w \in Workers :
       /\ WF_vars(\E B \in SUBSET Actions : Fetch(w, B))
       /\ WF_vars(\E a \in Actions :
                    \/ HandlerReturns(w, a) \/ HandlerAborts(w, a)
                    \/ HandlerRaises(w, a, FALSE))
       /\ WF_vars(Commit(w))
  /\ \A a \in Actions : WF_vars(BackoffElapses(a))

FairSpec == Spec /\ Fairness

-----------------------------------------------------------------------------
(***************************************************************************)
(* The queue implements the outbox: through crashes in the middle of a     *)
(* batch, retries and concurrent workers, a row that is done stays done,   *)
(* only an operator revives a dead letter, and the effect of an action     *)
(* reaches the world only in the batch that marks it processed, except for *)
(* the steps a failed discover_model_edges leaves behind.  It rests on     *)
(* handlers and bookkeeping sharing one transaction and on SKIP LOCKED     *)
(* keeping the batches of two workers apart.                               *)
(***************************************************************************)
Promise == INSTANCE Outbox WITH Effects <- Actions,
                                Atomic <- Triggers \X (Kinds \ Stepwise),
                                state <- [a \in Actions |-> row[a].stage]

ImplementsOutbox == Promise!Spec

(***************************************************************************)
(* Exactly once: the NOTIFY of an action has been sent once if its row is  *)
(* marked processed and not at all otherwise, dead letters and retries     *)
(* included; model-edge discovery has run at least once if it is marked.   *)
(* "Handlers MUST be idempotent" is needed for that kind alone.            *)
(***************************************************************************)
DeliveredExactlyOnce == Promise!DeliveredIffDone

(***************************************************************************)
(* The retry budget is exact: a row that a worker may still pick up, or    *)
(* holds, has an attempt left, so no action is dispatched more than        *)
(* MAX_ATTEMPTS times between two operator retries.                        *)
(***************************************************************************)
PendingHasAttempts ==
  \A a \in Actions : row[a].stage = "pending" => row[a].attempts < MaxAttempts

(***************************************************************************)
(* What the promise rests on: an open batch holds only pending rows, no    *)
(* other batch holds them, and the outcomes recorded in it are disjoint.   *)
(***************************************************************************)
BatchesApart ==
  /\ \A w \in Workers, a \in Actions : a \in Held(w) => row[a].stage = "pending"
  /\ \A v, w \in Workers : v # w => Held(v) \cap Held(w) = {}
  /\ \A w \in Workers :
       /\ tx[w].todo \cap (tx[w].ok \cup tx[w].failed) = {}
       /\ tx[w].ok \cap tx[w].failed = {}
       /\ tx[w].kept \subseteq tx[w].failed
       /\ tx[w].kept \subseteq Triggers \X Stepwise

Unrecorded == \A a \in Actions : row[a].stage = "none" => row[a].attempts = 0

IndInv ==
  /\ TypeOK /\ Unrecorded /\ PendingHasAttempts /\ BatchesApart
  /\ DeliveredExactlyOnce

(***************************************************************************)
(* Every recorded action is eventually processed or dead-lettered, through *)
(* crashes and failing handlers ("After 5 failed attempts the row is moved *)
(* to dead-letter state", the module's docstring).                         *)
(***************************************************************************)
EveryActionSettles ==
  \A a \in Actions : row[a].stage = "pending" ~> row[a].stage \in {"done", "dead"}
=============================================================================
