--------------------------- MODULE CascadeLineage ---------------------------
(***************************************************************************)
(* The bound on how deep Think may trigger Think.  Every trigger carries   *)
(* cascade_depth in its payload; a run that enqueues further triggers      *)
(* stamps them with its own depth plus one (propagate_cascade_depth of     *)
(* services/reasoning/think/cascade.py), and the worker rejects a trigger  *)
(* whose depth has reached the bound.  The history variable gen is the     *)
(* number of runs that really lie between a trigger and the event or sweep *)
(* it stems from, which no column records, and resets how often a trigger  *)
(* on the way was enqueued without the depth of the run that led to it.    *)
(*                                                                         *)
(* The queue itself is abstracted to one step per run: ThinkQueue has its  *)
(* leases, retries and crashes, PostCommit the queue behind Discover.      *)
(***************************************************************************)
EXTENDS Integers, FiniteSets, FiniteSetsExt

CONSTANTS
  Triggers,      \* ids the queue can draw
  HardMax,       \* MAX_CASCADE_DEPTH
  LineageBound,  \* THINK_MAX_INFERENTIAL_LINEAGE_DEPTH (HardMax when unset)
  Batching,      \* downstream batching is on
  Discovery,     \* discover_model_edges enqueues T4 candidates
  None

ASSUME ConstantsAssumption ==
  /\ HardMax \in Nat \ {0}
  /\ LineageBound \in Int
  /\ Batching \in BOOLEAN
  /\ Discovery \in BOOLEAN
  /\ None \notin Triggers

VARIABLES
  kind,       \* trigger_kind
  state,      \* none, open, done (completed) or dead (dead-lettered)
  depth,      \* payload.cascade_depth, 0 when the key is missing
  parent,     \* batch_parent_id
  unbatchable, \* payload has batch or unbatched_from, or a subkind that
               \* downstream batching does not take: never folded (again)
  ran,        \* history: triggers dispatched to think()
  gen,        \* history: the real lineage depth
  resets,     \* history: how often the lineage lost its depth on the way
  discover,   \* applied triggers whose discover_model_edges is still queued
  reeval      \* applied triggers: their runs left model_reeval_queue rows, any
              \* number of them, and the think_obligations that mirror these

vars ==
  <<kind, state, depth, parent, unbatchable, ran, gen, resets, discover, reeval>>

Kinds == {"T1", "T2", "T3", "T4"}

(* Every column and history variable holds a value of its type. *)
TypeOK ==
  /\ kind \in [Triggers -> Kinds \cup {None}]
  /\ state \in [Triggers -> {"none", "open", "done", "dead"}]
  /\ depth \in [Triggers -> 0..HardMax]
  /\ parent \in [Triggers -> Triggers \cup {None}]
  /\ unbatchable \subseteq Triggers
  /\ ran \subseteq Triggers
  /\ discover \subseteq Triggers /\ reeval \subseteq Triggers
  /\ gen \in [Triggers -> Nat] /\ resets \in [Triggers -> Nat]

\* Mutant of DepthBound: the hard maximum is not applied
DepthBoundUncapped == Max({1, LineageBound})

\* _max_inferential_lineage_depth
DepthBound == Min({HardMax, Max({1, LineageBound})})

\* Mutant of PropagatedDepth: the parent's depth is handed on as it is
PropagatedDepthFlat(d) == d

\* propagate_cascade_depth of a payload with depth d
PropagatedDepth(d) == d + 1

Fresh == {t \in Triggers : state[t] = "none"}
Open == {t \in Triggers : state[t] = "open" /\ parent[t] = None}
Members(t) == {m \in Triggers : parent[m] = t /\ state[m] = "open"}

\* The largest value f takes on M, as a singleton
Latest(f, M) == {f[m] : m \in {x \in M : \A y \in M : f[y] <= f[x]}}

\* enqueue_trigger for every row of C
Insert(C, k, d, g, n) ==
  /\ C \subseteq Fresh
  /\ kind' = [t \in Triggers |-> IF t \in C THEN k ELSE kind[t]]
  /\ depth' = [t \in Triggers |-> IF t \in C THEN d ELSE depth[t]]
  /\ gen' = [t \in Triggers |-> IF t \in C THEN g ELSE gen[t]]
  /\ resets' = [t \in Triggers |-> IF t \in C THEN n ELSE resets[t]]

Opened(C) == [t \in Triggers |-> IF t \in C THEN "open" ELSE state[t]]

Init ==
  /\ kind = [t \in Triggers |-> None]
  /\ state = [t \in Triggers |-> "none"]
  /\ depth = [t \in Triggers |-> 0]
  /\ parent = [t \in Triggers |-> None]
  /\ unbatchable = {} /\ ran = {} /\ discover = {} /\ reeval = {}
  /\ gen = [t \in Triggers |-> 0] /\ resets = [t \in Triggers |-> 0]

\* Ingestion enqueues a T1:event_arrival: no cascade_depth in its payload
Arrive(t) ==
  /\ Insert({t}, "T1", 0, 0, 0)
  /\ state' = Opened({t})
  /\ UNCHANGED <<parent, unbatchable, ran, discover, reeval>>

\* A topology sweep enqueues a T4 candidate with no parent payload
Sweep(t) ==
  /\ Insert({t}, "T4", PropagatedDepth(0), 0, 0)
  /\ state' = Opened({t})
  /\ UNCHANGED <<parent, unbatchable, ran, discover, reeval>>

\* _mark_trigger_failed, terminal: a batch hands its members back as singles
DeadLetter(t) ==
  /\ state' = [state EXCEPT ![t] = "dead"]
  /\ parent' = [x \in Triggers |-> IF x \in Members(t) THEN None ELSE parent[x]]
  /\ unbatchable' = unbatchable \cup Members(t)

\* The check at the head of _process_trigger
Rejected(t) == depth[t] >= DepthBound

\* _process_trigger at the bound: dead-lettered without a run
Reject(t) ==
  /\ t \in Open /\ Rejected(t)
  /\ DeadLetter(t)
  /\ UNCHANGED <<kind, depth, ran, gen, resets, discover, reeval>>

Runs(t) == t \in Open /\ ~Rejected(t)

\* The run of t plans its context: a missing transition becomes a T3, which
\* stays in the queue whatever becomes of the run
EmitT3(t, c) ==
  /\ Runs(t)
  /\ Insert({c}, "T3", PropagatedDepth(depth[t]), gen[t] + 1, resets[t])
  /\ state' = Opened({c})
  /\ ran' = ran \cup {t}
  /\ UNCHANGED <<parent, unbatchable, discover, reeval>>

\* A state change of the run routed back as a T1, suppressed at
\* MAX_CASCADE_DEPTH: the helper every such emitter is told to use
EnqueueCascadeT1(t, c) ==
  /\ Runs(t) /\ PropagatedDepth(depth[t]) < HardMax
  /\ Insert({c}, "T1", PropagatedDepth(depth[t]), gen[t] + 1, resets[t])
  /\ state' = Opened({c})
  /\ ran' = ran \cup {t}
  /\ UNCHANGED <<parent, unbatchable, discover, reeval>>

\* apply_diff commits: a T2 for every new prediction model, the post-commit
\* discovery of model edges, a row to re-evaluate each dependent of the models
\* it archived or superseded (memory_lifecycle_ops: there may be none), and the
\* trigger and its members are complete
Apply(t, C) ==
  /\ Runs(t)
  /\ Insert(C, "T2", PropagatedDepth(depth[t]), gen[t] + 1, resets[t])
  /\ state' = [x \in Triggers |-> IF x = t \/ x \in Members(t) THEN "done"
                                  ELSE Opened(C)[x]]
  /\ ran' = ran \cup {t}
  /\ discover' = IF Discovery THEN discover \cup {t} ELSE discover
  /\ reeval' = reeval \cup {t}
  /\ UNCHANGED <<parent, unbatchable>>

\* The run of t fails for good
Fail(t) ==
  /\ Runs(t)
  /\ DeadLetter(t)
  /\ ran' = ran \cup {t}
  /\ UNCHANGED <<kind, depth, gen, resets, discover, reeval>>

\* _default_discover_model_edges for the models t wrote: generate_for_model_id
\* has no trigger at hand and passes no parent payload
Discover(t, C) ==
  /\ t \in discover
  /\ Insert(C, "T4", PropagatedDepth(0), gen[t] + 1, resets[t] + 1)
  /\ state' = Opened(C)
  /\ discover' = discover \ {t}
  /\ UNCHANGED <<parent, unbatchable, ran, reeval>>

\* What leads from the run of t to trigger c without a cascade_depth in its
\* payload, of a subkind that is never batched
Unstamped(t, c, k) ==
  /\ Insert({c}, k, 0, gen[t] + 1, resets[t] + 1)
  /\ state' = Opened({c})
  /\ unbatchable' = unbatchable \cup {c}
  /\ UNCHANGED <<parent, discover, reeval>>

\* The run of t, planning its context, promotes a recurring pattern:
\* _enqueue_pattern_review_if_possible inserts a T4:pattern_review
ReviewPattern(t, c) ==
  /\ Runs(t)
  /\ Unstamped(t, c, "T4")
  /\ ran' = ran \cup {t}

\* _promote_reeval_rows: a T4:model_reeval for a row the run of t wrote. As how
\* many it wrote is left open, t stays in reeval
PromoteReeval(t, c) ==
  /\ t \in reeval
  /\ Unstamped(t, c, "T4")
  /\ UNCHANGED ran

\* sweep_due_obligations of the housekeeper: another T4:model_reeval, for the
\* obligation that mirrors such a row
FireObligation(t, c) ==
  /\ t \in reeval
  /\ Unstamped(t, c, "T4")
  /\ UNCHANGED ran

\* Triggers whose run has written models
Applied == {t \in ran : state[t] = "done"}

\* The deadline resolver enqueues a T2:prediction_overdue for a prediction the
\* run of t wrote
PredictionOverdue(t, c) ==
  /\ t \in Applied
  /\ Unstamped(t, c, "T2")
  /\ UNCHANGED ran

\* The anomaly processor enqueues a T3 for a region the run of t changed
AnomalyFound(t, c) ==
  /\ t \in Applied
  /\ Unstamped(t, c, "T3")
  /\ UNCHANGED ran

\* The precipitation worker enqueues a T4:pattern_review for a cluster with a
\* model the run of t wrote
Precipitate(t, c) ==
  /\ t \in Applied
  /\ Unstamped(t, c, "T4")
  /\ UNCHANGED ran

\* _create_downstream_batch_rows: the payload builders write no cascade_depth
Fold(b, M) ==
  /\ Batching
  /\ M \subseteq Open \ unbatchable /\ Cardinality(M) >= 2
  /\ \E k \in {"T2", "T4"} :
       /\ \A m \in M : kind[m] = k
       /\ \E g \in Latest(gen, M), n \in Latest(resets, M) :
            Insert({b}, k, 0, g, n + 1)
  /\ state' = Opened({b})
  /\ parent' = [t \in Triggers |-> IF t \in M THEN b ELSE parent[t]]
  /\ unbatchable' = unbatchable \cup {b}
  /\ UNCHANGED <<ran, discover, reeval>>

Next ==
  \/ \E t \in Triggers : Arrive(t) \/ Sweep(t) \/ Reject(t) \/ Fail(t)
  \/ \E t, c \in Triggers :
       \/ EmitT3(t, c) \/ EnqueueCascadeT1(t, c) \/ ReviewPattern(t, c)
       \/ PromoteReeval(t, c) \/ FireObligation(t, c)
       \/ PredictionOverdue(t, c) \/ AnomalyFound(t, c) \/ Precipitate(t, c)
  \/ \E t \in Triggers, C \in SUBSET Triggers : Apply(t, C) \/ Discover(t, C)
  \/ \E b \in Triggers, M \in SUBSET Triggers : Fold(b, M)

Spec == Init /\ [][Next]_vars

-----------------------------------------------------------------------------
(***************************************************************************)
(* Cascades are cut: between two places where its depth is lost, a lineage *)
(* of triggers has fewer than DepthBound runs, whichever of T1 to T4 it    *)
(* goes through, in and out of batches that fail and hand their members    *)
(* back.  The depth is lost in a downstream batch, behind edge discovery,  *)
(* by a pattern review, behind a re-evaluation and where a worker on its   *)
(* own schedule comes back to what a run wrote; a trigger that any other   *)
(* step leads to carries it on.                                            *)
(***************************************************************************)
LineageCut == \A t \in ran : gen[t] < DepthBound * (resets[t] + 1)

(***************************************************************************)
(* Why: no depth exceeds the bound, the runs behind a trigger are paid for *)
(* by its depth and by the bound once per loss of it, and what has run was *)
(* below the bound when it did.                                            *)
(***************************************************************************)
DepthsBounded == \A t \in Triggers : depth[t] <= DepthBound

GenPaidFor == \A t \in Triggers : gen[t] <= depth[t] + DepthBound * resets[t]

RanBelowBound ==
  \A t \in ran \cup discover \cup reeval : state[t] # "none" /\ depth[t] < DepthBound

IndInv == TypeOK /\ DepthsBounded /\ GenPaidFor /\ RanBelowBound
=============================================================================
