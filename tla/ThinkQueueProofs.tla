-------------------------- MODULE ThinkQueueProofs --------------------------
(***************************************************************************)
(* Proofs about ThinkQueue for any number of rows, workers and slots, any  *)
(* retry caps and any number of faults.  The row lemmas say once what each *)
(* SQL statement does to a row; everything after them treats the           *)
(* statements as opaque.                                                   *)
(***************************************************************************)
EXTENDS ThinkQueue, TLAPS

-----------------------------------------------------------------------------
(* Rows *)

(* A fresh row: open, unlocked or locked by its inserter, no attempts used. *)
LEMMA NewRowFields ==
  ASSUME NEW id \in Ids \cup {None}
  PROVE  /\ NewRow(id) \in Row /\ NoRow \in Row
         /\ NoRow.stage = "absent" /\ NoRow.lockedBy = None /\ NoRow.parent = None
         /\ NoRow.attempts = 0 /\ ~NoRow.expired
         /\ NewRow(id).stage = "open" /\ NewRow(id).lockedBy = id
         /\ NewRow(id).parent = None /\ NewRow(id).attempts = 0
         /\ ~NewRow(id).expired
<1>1. MaxAttempts \in Nat
  BY ConstantsAssumption
<1>2. 0 \in 0..MaxAttempts
  BY <1>1
<1>3. NoRow \in Row
  BY <1>2 DEF NoRow, Row, Stages
<1>4. NewRow(id) \in Row
  BY <1>3 DEF NewRow, Row, Stages
<1>5. QED
  BY <1>3, <1>4 DEF NewRow, NoRow

(* Unlocking touches the two lock columns only. *)
LEMMA UnlockFields ==
  ASSUME NEW q \in Row
  PROVE  /\ Unlock(q) \in Row
         /\ Unlock(q).lockedBy = None /\ ~Unlock(q).expired
         /\ Unlock(q).stage = q.stage /\ Unlock(q).attempts = q.attempts
         /\ Unlock(q).parent = q.parent /\ Unlock(q).pruned = q.pruned
         /\ Unlock(q).error = q.error /\ Unlock(q).quarantined = q.quarantined
  BY DEF Unlock, Row

(* Leasing touches the two lock columns only. *)
LEMMA LeaseFields ==
  ASSUME NEW q \in Row, NEW id \in Ids
  PROVE  /\ Lease(q, id) \in Row
         /\ Lease(q, id).lockedBy = id /\ ~Lease(q, id).expired
         /\ Lease(q, id).stage = q.stage /\ Lease(q, id).attempts = q.attempts
         /\ Lease(q, id).parent = q.parent /\ Lease(q, id).pruned = q.pruned
         /\ Lease(q, id).error = q.error
  BY DEF Lease, Row

(* A completed row is closed, unlocked and without an error. *)
LEMMA CloseCleanFields ==
  ASSUME NEW q \in Row
  PROVE  /\ CloseClean(q) \in Row
         /\ CloseClean(q).stage = "closed" /\ CloseClean(q).lockedBy = None
         /\ CloseClean(q).parent = q.parent /\ CloseClean(q).pruned = q.pruned
  BY DEF CloseClean, Unlock, Row, Stages

(* A dead-lettered row is closed, unlocked and carries its error. *)
LEMMA CloseDeadFields ==
  ASSUME NEW q \in Row, NEW n \in 0..MaxAttempts
  PROVE  /\ CloseDead(q, n) \in Row
         /\ CloseDead(q, n).stage = "closed" /\ CloseDead(q, n).lockedBy = None
         /\ CloseDead(q, n).error
         /\ CloseDead(q, n).parent = q.parent /\ CloseDead(q, n).pruned = q.pruned
  BY DEF CloseDead, Unlock, Row, Stages

(* A pruned row is closed, unlocked and says so. *)
LEMMA ClosePrunedFields ==
  ASSUME NEW q \in Row
  PROVE  /\ ClosePruned(q) \in Row
         /\ ClosePruned(q).stage = "closed" /\ ClosePruned(q).lockedBy = None
         /\ ClosePruned(q).pruned /\ ClosePruned(q).parent = q.parent
  BY DEF ClosePruned, Unlock, Row, Stages

(* A backed-off row is unlocked and stays where it was otherwise. *)
LEMMA BackoffFields ==
  ASSUME NEW q \in Row, NEW n \in 0..MaxAttempts
  PROVE  /\ Backoff(q, n) \in Row
         /\ Backoff(q, n).stage = q.stage /\ Backoff(q, n).lockedBy = None
         /\ Backoff(q, n).attempts = n /\ Backoff(q, n).parent = q.parent
         /\ Backoff(q, n).pruned = q.pruned
  BY DEF Backoff, Unlock, Row

(* A released member has no parent any more. *)
LEMMA UnbundleFields ==
  ASSUME NEW q \in Row
  PROVE  /\ Unbundle(q) \in Row
         /\ Unbundle(q).stage = q.stage /\ Unbundle(q).lockedBy = None
         /\ Unbundle(q).attempts = q.attempts /\ Unbundle(q).parent = None
         /\ Unbundle(q).pruned = q.pruned
  BY DEF Unbundle, Unlock, Row

-----------------------------------------------------------------------------
(* Tasks *)

TaskTable == [Workers -> [Slots -> Task \cup {Idle}]]

(* SetTask changes one slot of one process. *)
LEMMA SetTaskAt ==
  ASSUME task \in TaskTable, NEW w \in Workers, NEW s \in Slots,
         NEW t \in Task \cup {Idle}, SetTask(w, s, t)
  PROVE  /\ task' \in TaskTable
         /\ task'[w][s] = t
         /\ \A v \in Workers, u \in Slots :
              v # w \/ u # s => task'[v][u] = task[v][u]
  BY DEF SetTask, TaskTable

(* A slot in one of the phases of a run holds a task. *)
LEMMA TaskAt ==
  ASSUME task \in TaskTable, NEW w \in Workers, NEW s \in Slots,
         task[w][s].phase \in Phases
  PROVE  task[w][s] \in Task /\ task[w][s].row \in Rows
  BY DEF TaskTable, Task, Idle, Phases

(* SetPhase moves a task on and keeps its row. *)
LEMMA SetPhaseAt ==
  ASSUME task \in TaskTable, NEW w \in Workers, NEW s \in Slots,
         NEW p \in Phases, task[w][s].phase \in Phases, SetPhase(w, s, p)
  PROVE  /\ task' \in TaskTable
         /\ task'[w][s].row = task[w][s].row /\ task'[w][s].phase = p
         /\ \A v \in Workers, u \in Slots :
              v # w \/ u # s => task'[v][u] = task[v][u]
<1> DEFINE t == [row |-> task[w][s].row, phase |-> p]
<1>1. t \in Task
  BY TaskAt DEF Task
<1>2. SetTask(w, s, t)
  BY DEF SetPhase
<1> HIDE DEF t
<1>3. QED
  BY <1>1, <1>2, SetTaskAt DEF t

-----------------------------------------------------------------------------
(* Types, attempts and locks *)

Locks == queue \in [Rows -> Row] /\ AttemptsLeft /\ ClosedUnlocked

(* Enough to look at each row of the next queue by itself. *)
RowLocked(q) ==
  /\ q \in Row
  /\ q.stage = "open" => q.attempts < MaxAttempts
  /\ q.stage # "open" => q.lockedBy = None

(* Locks is a property of each row by itself. *)
LEMMA LocksByRow ==
  Locks <=> queue \in [Rows -> Row] /\ \A r \in Rows : RowLocked(queue[r])
  BY DEF Locks, AttemptsLeft, ClosedUnlocked, IsOpen, RowLocked

(* The statements that close, release or create a row keep it well-formed. *)
LEMMA RowLockedOps ==
  ASSUME NEW q \in Row, RowLocked(q), NEW id \in Ids
  PROVE  /\ RowLocked(NoRow) /\ RowLocked(NewRow(None)) /\ RowLocked(NewRow(id))
         /\ RowLocked(Unlock(q)) /\ RowLocked(CloseClean(q))
         /\ RowLocked(ClosePruned(q)) /\ RowLocked(Unbundle(q))
         /\ q.stage = "open" => RowLocked(Lease(q, id))
         /\ \A n \in 0..MaxAttempts : RowLocked(CloseDead(q, n))
         /\ \A n \in 0..MaxAttempts : n < MaxAttempts => RowLocked(Backoff(q, n))
<1> MaxAttempts \in Nat \ {0}
  BY ConstantsAssumption
<1>1. RowLocked(NoRow) /\ RowLocked(NewRow(None)) /\ RowLocked(NewRow(id))
  BY NewRowFields DEF RowLocked
<1>2. RowLocked(Unlock(q))
  BY UnlockFields DEF RowLocked
<1>3. RowLocked(CloseClean(q)) /\ RowLocked(ClosePruned(q))
  BY CloseCleanFields, ClosePrunedFields DEF RowLocked
<1>4. RowLocked(Unbundle(q))
  BY UnbundleFields DEF RowLocked
<1>5. q.stage = "open" => RowLocked(Lease(q, id))
  BY LeaseFields DEF RowLocked
<1>6. \A n \in 0..MaxAttempts : RowLocked(CloseDead(q, n))
  BY CloseDeadFields DEF RowLocked
<1>7. \A n \in 0..MaxAttempts : n < MaxAttempts => RowLocked(Backoff(q, n))
  BY BackoffFields DEF RowLocked
<1>8. QED
  BY <1>1, <1>2, <1>3, <1>4, <1>5, <1>6, <1>7

(* A deferred row is unlocked and not due. *)
LEMMA DeferFields ==
  ASSUME NEW q \in Row
  PROVE  LET x == [Unlock(q) EXCEPT !.due = FALSE] IN
         /\ x \in Row /\ x.stage = q.stage /\ x.lockedBy = None
         /\ x.attempts = q.attempts /\ x.parent = q.parent
         /\ x.pruned = q.pruned /\ x.error = q.error
  BY DEF Row, Unlock

(* A retried row is open, unlocked and has all its attempts again. *)
LEMMA RetryFields ==
  ASSUME NEW q \in Row
  PROVE  LET x == [Unlock(q) EXCEPT !.stage = "open", !.due = TRUE,
                                    !.attempts = 0, !.error = FALSE] IN
         /\ x \in Row /\ x.stage = "open" /\ x.lockedBy = None
         /\ x.attempts = 0 /\ x.parent = q.parent /\ x.pruned = q.pruned
<1> 0 \in 0..MaxAttempts
  BY ConstantsAssumption
<1>1. QED
  BY DEF Row, Unlock, Stages

-----------------------------------------------------------------------------
(* What each action does to the queue, row by row *)

(* The prune that every poll starts with. *)
LEMMA PruneAt ==
  ASSUME queue \in [Rows -> Row]
  PROVE  /\ PrunedQueue \in [Rows -> Row]
         /\ \A r \in Rows : PrunedQueue[r] =
              IF r \in PruneTargets THEN ClosePruned(queue[r]) ELSE queue[r]
  BY ClosePrunedFields DEF PrunedQueue

(* A failed run touches its row and, if it is terminal, the members. *)
LEMMA MarkFailedAt ==
  ASSUME queue \in [Rows -> Row], NEW w \in Workers, NEW r \in Rows,
         NEW cap \in 1..MaxAttempts, NEW force \in BOOLEAN, AttemptsLeft,
         MarkFailed(w, r, cap, force)
  PROVE  /\ queue' \in [Rows -> Row]
         /\ \/ queue' = queue /\ reeval' = reeval /\ deadReevals' = deadReevals
            \/ /\ IsOpen(r) /\ Owns(w, r)
               /\ \E n \in 0..MaxAttempts :
                    /\ n < MaxAttempts
                    /\ queue'[r] = Backoff(queue[r], n)
               /\ \A x \in Rows : x # r => queue'[x] = queue[x]
               /\ reeval' = reeval /\ deadReevals' = deadReevals
            \/ /\ IsOpen(r) /\ Owns(w, r)
               /\ \E n \in 0..MaxAttempts : queue'[r] = CloseDead(queue[r], n)
               /\ \A x \in Rows : x # r =>
                    queue'[x] = IF x \in Carried(r) THEN Unbundle(queue[x])
                                ELSE queue[x]
               /\ reeval' = [x \in Reevals |-> IF x = r THEN "processed"
                                               ELSE reeval[x]]
               /\ deadReevals' = deadReevals \cup ({r} \cap Reevals)
<1> DEFINE n == queue[r].attempts + 1
<1>1. CASE ~(IsOpen(r) /\ Owns(w, r))
  BY <1>1 DEF MarkFailed
<1>2. CASE IsOpen(r) /\ Owns(w, r)
  <2>1. MaxAttempts \in Nat /\ cap <= MaxAttempts
    BY ConstantsAssumption
  <2>2. queue[r] \in Row /\ queue[r].attempts \in Nat
        /\ queue[r].attempts < MaxAttempts
    BY <1>2 DEF AttemptsLeft, Row
  <2>3. n \in 0..MaxAttempts
    BY <2>1, <2>2
  <2>4. CASE force \/ n >= cap
    <3>1. queue' = [x \in Rows |-> IF x = r THEN CloseDead(queue[r], n)
                                   ELSE IF x \in Carried(r) THEN Unbundle(queue[x])
                                   ELSE queue[x]]
          /\ reeval' = [x \in Reevals |-> IF x = r THEN "processed" ELSE reeval[x]]
          /\ deadReevals' = deadReevals \cup ({r} \cap Reevals)
      BY <1>2, <2>4 DEF MarkFailed
    <3> HIDE DEF n
    <3>2. CloseDead(queue[r], n) \in Row
      BY <2>2, <2>3, CloseDeadFields
    <3>3. \A x \in Rows : Unbundle(queue[x]) \in Row
      BY UnbundleFields
    <3>4. QED
      BY <1>2, <2>3, <3>1, <3>2, <3>3
  <2>5. CASE ~(force \/ n >= cap)
    <3>1. queue' = [queue EXCEPT ![r] = Backoff(queue[r], n)]
          /\ reeval' = reeval /\ deadReevals' = deadReevals
      BY <1>2, <2>5 DEF MarkFailed
    <3>2. n < MaxAttempts
      BY <2>1, <2>2, <2>5
    <3> HIDE DEF n
    <3>3. Backoff(queue[r], n) \in Row
      BY <2>2, <2>3, BackoffFields
    <3>4. QED
      BY <1>2, <2>3, <3>1, <3>2, <3>3
  <2>6. QED
    BY <2>4, <2>5
<1>3. QED
  BY <1>1, <1>2

(* A completed run closes its row if it is still held, and the members. *)
LEMMA MarkCompleteAt ==
  ASSUME queue \in [Rows -> Row], NEW w \in Workers, NEW r \in Rows,
         MarkComplete(w, r)
  PROVE  /\ queue' \in [Rows -> Row]
         /\ \A x \in Rows : queue'[x] =
              IF (x = r /\ Owns(w, r)) \/ x \in Carried(r) THEN CloseClean(queue[x])
              ELSE queue[x]
  BY CloseCleanFields DEF MarkComplete

-----------------------------------------------------------------------------
(* The ways a step can change a row, and the only ones *)

\* Open rows may change hands or time; closed and absent rows do not change
Keeps(r) ==
  /\ queue'[r].stage = queue[r].stage
  /\ queue'[r].parent = queue[r].parent
  /\ queue'[r].pruned = queue[r].pruned
  /\ ~IsOpen(r) => queue'[r] = queue[r]

Appears(r) ==
  /\ ~IsOpen(r)
  /\ IsClosed(r) => r \in Reevals /\ reeval[r] = "pending"
  /\ r \in Singles \/ queue[r].stage = "absent"
  /\ queue'[r].stage = "open" /\ queue'[r].parent = None

Hides(r) ==
  /\ IsOpen(r) /\ queue[r].parent = None
  /\ queue'[r].stage = "open" /\ queue'[r].parent \in Batches
  /\ queue'[queue'[r].parent].stage = "open"
  /\ r \in members'[queue'[r].parent]

Completes(r) ==
  /\ IsOpen(r) /\ queue'[r].stage = "closed"
  /\ queue'[r].parent = queue[r].parent
  /\ \E x \in Rows : AppliedAs(r, x)'
  /\ r \in Reevals => reeval'[r] = "processed"

Dies(r) ==
  /\ IsOpen(r) /\ queue'[r].stage = "closed" /\ queue'[r].error
  /\ queue'[r].parent = queue[r].parent
  /\ r \in Reevals => reeval'[r] = "processed"

IsPruned(r) ==
  /\ IsOpen(r) /\ queue'[r].stage = "closed" /\ queue'[r].pruned
  /\ queue'[r].parent = queue[r].parent
  /\ r \notin Reevals

Released(r) ==
  /\ IsOpen(r) /\ queue'[r].stage = "open" /\ queue'[r].parent = None

\* Only an operator changes a closed row, and only one that is dead-lettered
Operated(r) ==
  /\ DeadLettered(r) /\ ~queue[r].quarantined
  /\ spent'["operator"] = spent["operator"] + 1
  /\ queue'[r].parent = queue[r].parent /\ queue'[r].pruned = queue[r].pruned
  /\ \/ queue'[r].stage = "open" /\ r \in retried'
     \/ queue'[r].stage = "closed" /\ queue'[r].error

RowStep(r) ==
  \/ Keeps(r) \/ Appears(r) \/ Hides(r) \/ Completes(r) \/ Dies(r)
  \/ IsPruned(r) \/ Released(r) \/ Operated(r)

QueueStep ==
  /\ queue' \in [Rows -> Row]
  /\ \A r \in Rows : RowLocked(queue'[r]) /\ RowStep(r)

\* A batch that leaves the queue, unless pruned, leaves no open member behind
GroupStep ==
  \A p \in Batches, m \in Rows :
    /\ IsOpen(p) /\ queue'[p].stage # "open"
    /\ IsOpen(m) /\ queue[m].parent = p
    => queue'[p].pruned \/ queue'[m].stage # "open" \/ queue'[m].parent = None

MembersStep ==
  \A p \in Batches :
    \/ members'[p] = members[p]
    \/ /\ queue[p].stage = "absent" /\ queue'[p].stage = "open"
       /\ members'[p] \subseteq Arrivals \cup Downstream

(* A row whose columns other than the locks are untouched is kept. *)
LEMMA SameRow ==
  ASSUME NEW r \in Rows, queue'[r] = queue[r]
  PROVE  Keeps(r)
  BY DEF Keeps

(* Only a batch that is closed other than by the pruner has members to settle. *)
LEMMA GroupKept ==
  ASSUME \A p \in Batches :
           IsOpen(p) => queue'[p].stage = "open" \/ queue'[p].pruned
  PROVE  GroupStep
  BY DEF GroupStep

(* Producers only add rows. *)
LEMMA ProduceRows ==
  ASSUME IndInv, Produce
  PROVE  QueueStep /\ GroupStep /\ MembersStep
<1> USE DEF IndInv
<1>0. queue \in [Rows -> Row] /\ \A r \in Rows : RowLocked(queue[r])
  BY LocksByRow DEF TypeOK, Locks
<1>1. ASSUME NEW x \in Arrivals \cup Downstream, Enqueue(x)
      PROVE  QueueStep /\ GroupStep /\ MembersStep
  <2>1. x \in Rows /\ x \in Singles
    BY DEF Rows, Singles
  <2>2. queue' = [queue EXCEPT ![x] = NewRow(None)]
    BY <1>1 DEF Enqueue
  <2>3. NewRow(None) \in Row /\ RowLocked(NewRow(None))
        /\ NewRow(None).stage = "open" /\ NewRow(None).parent = None
    BY NewRowFields, ConstantsAssumption DEF RowLocked
  <2>4. Appears(x)
    BY <1>0, <1>1, <2>1, <2>2, <2>3 DEF Appears, Enqueue, IsOpen, IsClosed
  <2>5. QED
    BY <1>0, <1>1, <2>1, <2>2, <2>3, <2>4, SameRow
    DEF QueueStep, GroupStep, MembersStep, RowStep, Enqueue, IsOpen
<1>2. ASSUME NEW x \in Reevals, EnqueueReeval(x)
      PROVE  QueueStep /\ GroupStep /\ MembersStep
  BY <1>0, <1>2, SameRow
  DEF QueueStep, GroupStep, MembersStep, RowStep, EnqueueReeval, IsOpen
<1>3. ASSUME NEW x \in Downstream, Devalue(x)
      PROVE  QueueStep /\ GroupStep /\ MembersStep
  BY <1>0, <1>3, SameRow
  DEF QueueStep, GroupStep, MembersStep, RowStep, Devalue, IsOpen
<1>4. QED
  BY <1>1, <1>2, <1>3 DEF Produce

(* Polling adds, prunes, leases or hides rows, and never closes one else. *)
LEMMA PollRows ==
  ASSUME IndInv, NEW w \in Workers, Poll(w)
  PROVE  QueueStep /\ GroupStep /\ MembersStep
<1> USE DEF IndInv
<1>0. queue \in [Rows -> Row] /\ \A r \in Rows : RowLocked(queue[r])
  BY LocksByRow DEF TypeOK, Locks
<1>1. \A r \in PruneTargets :
        /\ r \in Rows /\ IsOpen(r) /\ r \notin Reevals
        /\ ClosePruned(queue[r]) \in Row /\ RowLocked(ClosePruned(queue[r]))
        /\ ClosePruned(queue[r]).stage = "closed" /\ ClosePruned(queue[r]).pruned
        /\ ClosePruned(queue[r]).parent = queue[r].parent
  <2>1. \A r \in Rows : Worthless(r) => r \notin Reevals
    BY ConstantsAssumption DEF Worthless, TypeOK, Singles
  <2>2. QED
    BY <1>0, <2>1, ClosePrunedFields DEF PruneTargets, RowLocked
<1>2. WorkerId[w] \in Ids
  BY ConstantsAssumption
<1>3. ASSUME NEW x \in Reevals, Promote(w, x)
      PROVE  QueueStep /\ GroupStep /\ MembersStep
  <2>1. x \in Rows /\ x \in Singles
    BY DEF Rows, Singles
  <2>2. queue' = [queue EXCEPT ![x] = NewRow(None)]
    BY <1>3 DEF Promote
  <2>3. NewRow(None) \in Row /\ RowLocked(NewRow(None))
        /\ NewRow(None).stage = "open" /\ NewRow(None).parent = None
    BY NewRowFields, ConstantsAssumption DEF RowLocked
  <2>4. Appears(x)
    BY <1>0, <1>3, <2>1, <2>2, <2>3 DEF Appears, Promote, IsOpen
  <2>5. QED
    BY <1>0, <1>3, <2>1, <2>2, <2>3, <2>4, SameRow
    DEF QueueStep, GroupStep, MembersStep, RowStep, Promote, IsOpen
<1>4. ASSUME NEW s \in Slots, PollPrune(w, s)
      PROVE  QueueStep /\ GroupStep /\ MembersStep
  <2>1. queue' = PrunedQueue /\ members' = members
    BY <1>4 DEF PollPrune
  <2>2. \A r \in Rows : RowLocked(queue'[r])
        /\ (r \in PruneTargets => IsPruned(r)) /\ (r \notin PruneTargets => Keeps(r))
    BY <1>0, <1>1, <2>1, PruneAt, SameRow DEF IsPruned
  <2>3. GroupStep
    BY <2>2, GroupKept DEF Rows, IsPruned, Keeps, IsOpen
  <2>4. QED
    BY <1>0, <2>1, <2>2, <2>3, PruneAt DEF QueueStep, MembersStep, RowStep
<1>5. ASSUME NEW s \in Slots, NEW x \in Rows, PollSingle(w, s, x)
      PROVE  QueueStep /\ GroupStep /\ MembersStep
  <2>1. queue' = [PrunedQueue EXCEPT ![x] = Lease(queue[x], WorkerId[w])]
        /\ members' = members
    BY <1>5 DEF PollSingle
  <2>2. IsOpen(x) /\ x \notin PruneTargets
    BY <1>5 DEF PollSingle, Leasable
  <2>3. Lease(queue[x], WorkerId[w]) \in Row /\ RowLocked(Lease(queue[x], WorkerId[w]))
        /\ Lease(queue[x], WorkerId[w]).stage = "open"
        /\ Lease(queue[x], WorkerId[w]).parent = queue[x].parent
        /\ Lease(queue[x], WorkerId[w]).pruned = queue[x].pruned
    BY <1>0, <1>2, <2>2, LeaseFields DEF RowLocked, IsOpen
  <2>4. queue' \in [Rows -> Row]
    BY <1>0, <2>1, <2>3, PruneAt
  <2>5. queue'[x] = Lease(queue[x], WorkerId[w])
        /\ \A r \in Rows : r # x => queue'[r] =
              IF r \in PruneTargets THEN ClosePruned(queue[r]) ELSE queue[r]
    BY <1>0, <2>1, PruneAt
  <2>6. Keeps(x)
    BY <2>2, <2>3, <2>5 DEF Keeps, IsOpen
  <2>7. \A r \in Rows : RowLocked(queue'[r])
        /\ (r \in PruneTargets => IsPruned(r)) /\ (r \notin PruneTargets => Keeps(r))
    BY <1>0, <1>1, <2>2, <2>3, <2>5, <2>6, SameRow DEF IsPruned
  <2>8. GroupStep
    BY <2>7, GroupKept DEF Rows, IsPruned, Keeps, IsOpen
  <2>9. QED
    BY <2>1, <2>4, <2>7, <2>8 DEF QueueStep, MembersStep, RowStep
<1>6. ASSUME NEW s \in Slots, NEW p \in Batches,
             NEW M \in SUBSET (Arrivals \cup Downstream), PollBatch(w, s, p, M)
      PROVE  QueueStep /\ GroupStep /\ MembersStep
  <2>1. p \in Rows /\ M \subseteq Rows /\ p \notin M
    BY ConstantsAssumption DEF Rows, Singles
  <2>2. queue[p].stage = "absent"
    BY <1>6 DEF PollBatch
  <2>3. \A m \in M : IsOpen(m) /\ m \notin PruneTargets /\ queue[m].parent = None
    BY <1>6 DEF PollBatch, BatchCandidates, Leasable
  <2>4. queue'[p] = NewRow(WorkerId[w])
        /\ \A r \in Rows : r # p =>
             queue'[r] = IF r \in M THEN [queue[r] EXCEPT !.parent = p]
                         ELSE PrunedQueue[r]
    BY <1>6, <2>1 DEF PollBatch
  <2>5. NewRow(WorkerId[w]) \in Row /\ RowLocked(NewRow(WorkerId[w]))
        /\ NewRow(WorkerId[w]).stage = "open" /\ NewRow(WorkerId[w]).parent = None
    BY <1>2, NewRowFields, ConstantsAssumption DEF RowLocked
  <2>6. \A m \in M : queue'[m] \in Row /\ RowLocked(queue'[m])
        /\ queue'[m].stage = "open" /\ queue'[m].parent = p
    <3> TAKE m \in M
    <3>1. m \in Rows /\ queue[m] \in Row /\ RowLocked(queue[m])
          /\ queue[m].stage = "open"
      BY <1>0, <2>1, <2>3 DEF IsOpen
    <3>2. queue'[m] = [queue[m] EXCEPT !.parent = p]
      BY <2>1, <2>4
    <3>3. QED
      BY <3>1, <3>2 DEF RowLocked, Row
  <2>7. \A r \in Rows : queue'[r] \in Row
    BY <1>0, <2>4, <2>5, <2>6, PruneAt
  <2>8. queue' \in [Rows -> Row]
    BY <1>6, <2>7 DEF PollBatch
  <2>9. members'[p] = M /\ \A b \in Batches : b # p => members'[b] = members[b]
    BY <1>6 DEF PollBatch, TypeOK
  <2>10. Appears(p)
    BY <2>1, <2>2, <2>4, <2>5 DEF Appears, IsOpen, IsClosed
  <2>11. \A m \in M : Hides(m)
    BY <2>1, <2>3, <2>4, <2>5, <2>6, <2>9 DEF Hides
  <2>12. ASSUME NEW r \in Rows, r # p, r \notin M
         PROVE  RowLocked(queue'[r]) /\ (IsPruned(r) \/ Keeps(r))
    BY <1>0, <1>1, <2>4, <2>12, PruneAt, SameRow DEF IsPruned
  <2>13. GroupStep
    BY <2>1, <2>4, <2>5, <2>6, <2>12, GroupKept DEF Rows, IsPruned, Keeps, IsOpen
  <2>14. QED
    BY <2>2, <2>4, <2>5, <2>6, <2>8, <2>9, <2>10, <2>11, <2>12, <2>13
    DEF QueueStep, MembersStep, RowStep
<1>7. QED
  BY <1>3, <1>4, <1>5, <1>6 DEF Poll

(* _mark_trigger_failed backs a row off, or closes it and frees its members. *)
LEMMA MarkFailedRows ==
  ASSUME IndInv, NEW w \in Workers, NEW r \in Rows, NEW cap \in 1..MaxAttempts,
         NEW force \in BOOLEAN, MarkFailed(w, r, cap, force), members' = members
  PROVE  QueueStep /\ GroupStep /\ MembersStep
<1> USE DEF IndInv
<1>0. queue \in [Rows -> Row] /\ \A x \in Rows : RowLocked(queue[x])
  BY LocksByRow DEF TypeOK, Locks
<1>1. MembersStep
  BY DEF MembersStep
<1>2. CASE queue' = queue
  BY <1>0, <1>1, <1>2, SameRow, GroupKept DEF QueueStep, RowStep, IsOpen
<1>3. CASE /\ IsOpen(r)
           /\ \E n \in 0..MaxAttempts :
                n < MaxAttempts /\ queue'[r] = Backoff(queue[r], n)
           /\ \A x \in Rows : x # r => queue'[x] = queue[x]
           /\ queue' \in [Rows -> Row]
  <2>1. PICK n \in 0..MaxAttempts : n < MaxAttempts /\ queue'[r] = Backoff(queue[r], n)
    BY <1>3
  <2>2. Keeps(r) /\ RowLocked(queue'[r]) /\ queue'[r].stage = "open"
    BY <1>0, <1>3, <2>1, BackoffFields DEF Keeps, RowLocked, IsOpen
  <2>3. \A x \in Rows : Keeps(x) /\ RowLocked(queue'[x])
    BY <1>0, <1>3, <2>2, SameRow
  <2>4. GroupStep
    BY <2>3, GroupKept DEF Keeps, IsOpen, Rows
  <2>5. QED
    BY <1>1, <1>3, <2>3, <2>4 DEF QueueStep, RowStep
<1>4. CASE /\ IsOpen(r)
           /\ \E n \in 0..MaxAttempts : queue'[r] = CloseDead(queue[r], n)
           /\ \A x \in Rows : x # r =>
                queue'[x] = IF x \in Carried(r) THEN Unbundle(queue[x]) ELSE queue[x]
           /\ queue' \in [Rows -> Row]
           /\ reeval' = [x \in Reevals |-> IF x = r THEN "processed" ELSE reeval[x]]
  <2>1. PICK n \in 0..MaxAttempts : queue'[r] = CloseDead(queue[r], n)
    BY <1>4
  <2>2. Dies(r) /\ RowLocked(queue'[r])
    BY <1>0, <1>4, <2>1, CloseDeadFields DEF Dies, RowLocked
  <2>3. \A x \in Carried(r) : x \in Rows /\ IsOpen(x)
    BY DEF Carried, MembersOf, TypeOK, Rows
  <2>4. ASSUME NEW x \in Carried(r), x # r
        PROVE  Released(x) /\ RowLocked(queue'[x])
    BY <1>0, <1>4, <2>3, <2>4, UnbundleFields DEF Released, RowLocked, IsOpen
  <2>5. ASSUME NEW x \in Rows, x \notin Carried(r), x # r
        PROVE  Keeps(x) /\ RowLocked(queue'[x])
    BY <1>0, <1>4, <2>5, SameRow
  <2>6. GroupStep
    <3> SUFFICES ASSUME NEW p \in Batches, NEW m \in Rows,
                        IsOpen(p), queue'[p].stage # "open",
                        IsOpen(m), queue[m].parent = p
                 PROVE  queue'[m].stage # "open" \/ queue'[m].parent = None
      BY DEF GroupStep
    <3>1. p = r
      BY <2>4, <2>5 DEF Released, Keeps, IsOpen, Rows
    <3>2. m \in Carried(r)
      BY <3>1, ConstantsAssumption DEF Carried, MembersOf, Lineage, Rows
    <3>3. CASE m = r
      BY <2>2, <3>3 DEF Dies
    <3>4. CASE m # r
      BY <2>4, <3>2, <3>4 DEF Released
    <3>5. QED
      BY <3>3, <3>4
  <2>7. QED
    BY <1>1, <1>4, <2>2, <2>4, <2>5, <2>6 DEF QueueStep, RowStep
<1>5. QED
  BY <1>0, <1>2, <1>3, <1>4, MarkFailedAt

(* _mark_trigger_complete closes a batch only together with its members. *)
LEMMA MarkCompleteRows ==
  ASSUME IndInv, NEW w \in Workers, NEW r \in Rows, r \in ledger,
         MarkComplete(w, r), members' = members, ledger' = ledger
  PROVE  QueueStep /\ GroupStep /\ MembersStep
<1> USE DEF IndInv
<1>0. queue \in [Rows -> Row] /\ \A x \in Rows : RowLocked(queue[x])
  BY LocksByRow DEF TypeOK, Locks
<1> DEFINE Done == {x \in Rows : (x = r /\ Owns(w, r)) \/ x \in Carried(r)}
<1>1. /\ queue' \in [Rows -> Row]
      /\ \A x \in Rows :
           queue'[x] = IF x \in Done THEN CloseClean(queue[x]) ELSE queue[x]
  BY <1>0, MarkCompleteAt
<1>2. \A x \in Done : IsOpen(x)
  BY <1>0, ConstantsAssumption DEF Owns, Carried, RowLocked, IsOpen
<1>3. \A x \in Done : x \in Reevals => x = r
  BY ConstantsAssumption DEF Carried, MembersOf, Lineage
<1>4. ASSUME NEW x \in Done
      PROVE  Completes(x) /\ RowLocked(queue'[x])
  <2>1. AppliedAs(x, r)'
    BY DEF AppliedAs, MembersOf, Carried
  <2>2. x \in Reevals => reeval'[x] = "processed"
    BY <1>3 DEF MarkComplete
  <2>3. queue'[x].stage = "closed" /\ queue'[x].parent = queue[x].parent
        /\ RowLocked(queue'[x])
    BY <1>0, <1>1, CloseCleanFields DEF RowLocked
  <2>4. QED
    BY <1>2, <2>1, <2>2, <2>3 DEF Completes
<1>5. ASSUME NEW x \in Rows, x \notin Done
      PROVE  Keeps(x) /\ RowLocked(queue'[x])
  BY <1>0, <1>1, <1>5, SameRow
<1>6. GroupStep
  <2> SUFFICES ASSUME NEW p \in Batches, NEW m \in Rows,
                      IsOpen(p), queue'[p].stage # "open",
                      IsOpen(m), queue[m].parent = p
               PROVE  queue'[m].stage # "open"
    BY DEF GroupStep
  <2>1. p \in Done
    BY <1>5 DEF Keeps, IsOpen, Rows
  <2>2. p = r
    BY <2>1, ConstantsAssumption DEF Carried, MembersOf, Lineage, Singles
  <2>3. m \in Done
    BY <2>2, ConstantsAssumption DEF Carried, MembersOf, Lineage, Rows
  <2>4. QED
    BY <1>4, <2>3 DEF Completes
<1>7. QED
  BY <1>1, <1>4, <1>5, <1>6 DEF QueueStep, MembersStep, RowStep

(* A dispatched task: only its bookkeeping closes rows. *)
LEMMA ProcessRows ==
  ASSUME IndInv, NEW w \in Workers, NEW s \in Slots, Process(w, s)
  PROVE  QueueStep /\ GroupStep /\ MembersStep
<1> USE DEF IndInv
<1> DEFINE r == task[w][s].row
<1>0. queue \in [Rows -> Row] /\ \A x \in Rows : RowLocked(queue[x])
  BY LocksByRow DEF TypeOK, Locks
<1>1. task \in TaskTable
  BY DEF TypeOK, TaskTable
<1>2. task[w][s].phase \in Phases => r \in Rows
  BY <1>1, TaskAt
<1>3. MaxAttempts \in 1..MaxAttempts /\ ValidationCap \in 1..MaxAttempts
  BY ConstantsAssumption
<1>4. WorkerId[w] \in Ids
  BY ConstantsAssumption
<1> HIDE DEF r
<1>5. CASE Reject(w, s)
  <2>1. MarkFailed(w, r, MaxAttempts, TRUE) /\ members' = members /\ r \in Rows
    BY <1>2, <1>5 DEF Reject, Phases, r
  <2>2. QED
    BY <1>3, <2>1, MarkFailedRows
<1>6. CASE Fail(w, s)
  <2>1. r \in Rows /\ members' = members
    BY <1>2, <1>6 DEF Fail, Phases
  <2>2. PICK cap \in {MaxAttempts, ValidationCap} : MarkFailed(w, r, cap, FALSE)
    BY <1>6 DEF Fail, r
  <2>3. QED
    BY <1>3, <2>1, <2>2, MarkFailedRows
<1>7. CASE Complete(w, s)
  <2>1. r \in Rows /\ r \in ledger /\ members' = members /\ ledger' = ledger
    BY <1>2, <1>7 DEF Complete, Phases, TasksApplied, r
  <2>2. MarkComplete(w, r)
    BY <1>7 DEF Complete, r
  <2>3. QED
    BY <2>1, <2>2, MarkCompleteRows
<1>8. CASE Defer(w, s)
  <2>1. r \in Rows /\ members' = members
    BY <1>2, <1>8 DEF Defer, Phases
  <2>2. queue' = IF Owns(w, r)
                 THEN [queue EXCEPT ![r] = [Unlock(queue[r]) EXCEPT !.due = FALSE]]
                 ELSE queue
    BY <1>8 DEF Defer, r
  <2>3. Owns(w, r) => IsOpen(r)
    BY <1>0, <1>4, <2>1, ConstantsAssumption DEF Owns, RowLocked, IsOpen
  <2>4. \A x \in Rows : x # r => queue'[x] = queue[x]
    BY <1>0, <2>2
  <2>5. queue' \in [Rows -> Row] /\ Keeps(r) /\ RowLocked(queue'[r])
    <3>1. CASE Owns(w, r)
      <4>1. queue'[r] = [Unlock(queue[r]) EXCEPT !.due = FALSE]
        BY <1>0, <2>1, <2>2, <3>1
      <4>2. QED
        BY <1>0, <2>1, <2>2, <2>3, <3>1, <4>1, DeferFields DEF Keeps, RowLocked
    <3>2. CASE ~Owns(w, r)
      BY <1>0, <2>1, <2>2, <3>2, SameRow
    <3>3. QED
      BY <3>1, <3>2
  <2>6. \A x \in Rows : Keeps(x) /\ RowLocked(queue'[x])
    BY <1>0, <2>4, <2>5, SameRow
  <2>7. GroupStep
    BY <2>6, GroupKept DEF Keeps, IsOpen, Rows
  <2>8. QED
    BY <2>1, <2>5, <2>6, <2>7 DEF QueueStep, MembersStep, RowStep
<1>9. CASE Beat(w, s)
  <2>1. r \in Rows /\ members' = members /\ IsOpen(r)
    BY <1>2, <1>9 DEF Beat, Phases, r
  <2>2. queue' = [queue EXCEPT ![r] = Lease(queue[r], WorkerId[w])]
    BY <1>9 DEF Beat, r
  <2>3. queue' \in [Rows -> Row] /\ Keeps(r) /\ RowLocked(queue'[r])
    BY <1>0, <1>4, <2>1, <2>2, LeaseFields DEF Keeps, RowLocked, IsOpen
  <2>4. \A x \in Rows : Keeps(x) /\ RowLocked(queue'[x])
    BY <1>0, <2>2, <2>3, SameRow
  <2>5. GroupStep
    BY <2>4, GroupKept DEF Keeps, IsOpen, Rows
  <2>6. QED
    BY <2>1, <2>3, <2>4, <2>5 DEF QueueStep, MembersStep, RowStep
<1>10. ASSUME NEW D \in SUBSET Downstream, Apply(w, s, D)
       PROVE  QueueStep /\ GroupStep /\ MembersStep
  <2>1. D \subseteq Singles /\ Singles \subseteq Rows /\ members' = members
    BY <1>10 DEF Apply, Rows, Singles
  <2>2. \A d \in D : queue[d].stage = "absent"
    BY <1>10 DEF Apply
  <2>3. queue' = [x \in Rows |-> IF x \in D THEN NewRow(None) ELSE queue[x]]
    BY <1>10 DEF Apply
  <2>4. NewRow(None) \in Row /\ RowLocked(NewRow(None))
        /\ NewRow(None).stage = "open" /\ NewRow(None).parent = None
    BY NewRowFields, ConstantsAssumption DEF RowLocked
  <2>5. \A x \in Rows : RowLocked(queue'[x])
        /\ (x \in D => Appears(x)) /\ (x \notin D => Keeps(x))
    BY <1>0, <2>1, <2>2, <2>3, <2>4, SameRow DEF Appears, IsOpen, IsClosed
  <2>6. GroupStep
    BY <2>5, GroupKept DEF Keeps, Appears, IsOpen, Rows
  <2>7. QED
    BY <1>0, <2>1, <2>3, <2>4, <2>5, <2>6 DEF QueueStep, MembersStep, RowStep
<1>11. CASE \/ Begin(w, s) \/ SkipApplied(w, s) \/ Return(w, s)
            \/ RunFails(w, s) \/ LoseTask(w, s)
  <2>1. queue' = queue /\ members' = members
    BY <1>11 DEF Begin, SkipApplied, Return, RunFails, LoseTask
  <2>2. QED
    BY <1>0, <2>1, SameRow, GroupKept DEF QueueStep, MembersStep, RowStep, IsOpen
<1>12. QED
  BY <1>5, <1>6, <1>7, <1>8, <1>9, <1>10, <1>11 DEF Process

(* Crashes and restarts close nothing: recovery only clears locks. *)
LEMMA LifecycleRows ==
  ASSUME IndInv, NEW w \in Workers, Lifecycle(w)
  PROVE  QueueStep /\ GroupStep /\ MembersStep
<1> USE DEF IndInv
<1>0. queue \in [Rows -> Row] /\ \A x \in Rows : RowLocked(queue[x])
  BY LocksByRow DEF TypeOK, Locks
<1>1. CASE Crash(w) \/ Shutdown(w) \/ Drained(w)
  <2>1. queue' = queue /\ members' = members
    BY <1>1 DEF Crash, Shutdown, Drained
  <2>2. QED
    BY <1>0, <2>1, SameRow, GroupKept DEF QueueStep, MembersStep, RowStep, IsOpen
<1>2. ASSUME NEW recovers \in BOOLEAN, Restart(w, recovers)
      PROVE  QueueStep /\ GroupStep /\ MembersStep
  <2> DEFINE Freed == {x \in Rows : /\ recovers /\ IsOpen(x)
                                    /\ Owns(w, x) \/ queue[x].expired}
  <2>1. members' = members
        /\ queue' = [x \in Rows |-> IF x \in Freed THEN Unlock(queue[x]) ELSE queue[x]]
    BY <1>2 DEF Restart
  <2>2. \A x \in Freed : x \in Rows /\ IsOpen(x)
    OBVIOUS
  <2> HIDE DEF Freed
  <2>3. ASSUME NEW x \in Rows
        PROVE  queue'[x] \in Row /\ Keeps(x) /\ RowLocked(queue'[x])
    <3>1. CASE x \in Freed
      BY <1>0, <2>1, <2>2, <3>1, UnlockFields DEF Keeps, RowLocked
    <3>2. CASE x \notin Freed
      BY <1>0, <2>1, <3>2, SameRow
    <3>3. QED
      BY <3>1, <3>2
  <2>4. GroupStep
    BY <2>3, GroupKept DEF Keeps, IsOpen, Rows
  <2>5. QED
    BY <2>1, <2>3, <2>4 DEF QueueStep, MembersStep, RowStep
<1>3. QED
  BY <1>1, <1>2 DEF Lifecycle

(* Time moves open rows only; the operator moves dead letters only. *)
LEMMA EnvironmentRows ==
  ASSUME IndInv, Environment
  PROVE  QueueStep /\ GroupStep /\ MembersStep
<1> USE DEF IndInv
<1>0. queue \in [Rows -> Row] /\ \A x \in Rows : RowLocked(queue[x])
  BY LocksByRow DEF TypeOK, Locks
<1>1. ASSUME NEW r \in Rows, Expire(r) \/ BackoffElapses(r)
      PROVE  QueueStep /\ GroupStep /\ MembersStep
  <2>1. members' = members /\ IsOpen(r)
        /\ \/ queue' = [queue EXCEPT ![r].expired = TRUE]
           \/ queue' = [queue EXCEPT ![r].due = TRUE]
    BY <1>1 DEF Expire, BackoffElapses
  <2>2. queue' \in [Rows -> Row] /\ Keeps(r) /\ RowLocked(queue'[r])
    <3>1. queue[r] \in Row /\ RowLocked(queue[r]) /\ queue[r].stage = "open"
      BY <1>0, <2>1 DEF IsOpen
    <3>2. CASE queue' = [queue EXCEPT ![r].expired = TRUE]
      <4>1. queue'[r] = [queue[r] EXCEPT !.expired = TRUE]
        BY <1>0, <3>2
      <4>2. QED
        BY <1>0, <2>1, <3>1, <3>2, <4>1 DEF Keeps, RowLocked, Row
    <3>3. CASE queue' = [queue EXCEPT ![r].due = TRUE]
      <4>1. queue'[r] = [queue[r] EXCEPT !.due = TRUE]
        BY <1>0, <3>3
      <4>2. QED
        BY <1>0, <2>1, <3>1, <3>3, <4>1 DEF Keeps, RowLocked, Row
    <3>4. QED
      BY <2>1, <3>2, <3>3
  <2>3. \A x \in Rows : Keeps(x) /\ RowLocked(queue'[x])
    BY <1>0, <2>1, <2>2, SameRow
  <2>4. GroupStep
    BY <2>3, GroupKept DEF Keeps, IsOpen, Rows
  <2>5. QED
    BY <2>1, <2>2, <2>3, <2>4 DEF QueueStep, MembersStep, RowStep
<1>2. ASSUME NEW r \in Rows, OperatorRetry(r) \/ Quarantine(r)
      PROVE  QueueStep /\ GroupStep /\ MembersStep
  <2>1. members' = members /\ DeadLettered(r) /\ ~queue[r].quarantined
        /\ spent'["operator"] = spent["operator"] + 1
    BY <1>2 DEF OperatorRetry, Quarantine, Spend, TypeOK, Bounds
  <2>2. queue[r] \in Row /\ queue[r].stage = "closed" /\ queue[r].error
        /\ queue[r].lockedBy = None
    BY <1>0, <2>1 DEF DeadLettered, IsClosed, RowLocked
  <2>3. CASE OperatorRetry(r)
    <3> DEFINE x == [Unlock(queue[r]) EXCEPT !.stage = "open", !.due = TRUE,
                                             !.attempts = 0, !.error = FALSE]
    <3>1. queue' = [queue EXCEPT ![r] = x] /\ r \in retried'
      BY <2>3 DEF OperatorRetry
    <3>2. x \in Row /\ x.stage = "open" /\ x.lockedBy = None /\ x.attempts = 0
          /\ x.parent = queue[r].parent /\ x.pruned = queue[r].pruned
      BY <2>2, RetryFields
    <3> HIDE DEF x
    <3>3. MaxAttempts \in Nat \ {0}
      BY ConstantsAssumption
    <3>4. queue' \in [Rows -> Row] /\ RowLocked(queue'[r]) /\ Operated(r)
      BY <1>0, <2>1, <3>1, <3>2, <3>3 DEF RowLocked, Operated
    <3>5. \A y \in Rows : y # r => Keeps(y) /\ RowLocked(queue'[y])
      BY <1>0, <3>1, SameRow
    <3>6. GroupStep
      BY <2>2, <3>5, GroupKept DEF Keeps, IsOpen, Rows
    <3>7. QED
      BY <2>1, <3>4, <3>5, <3>6 DEF QueueStep, MembersStep, RowStep
  <2>4. CASE Quarantine(r)
    <3>1. queue' = [queue EXCEPT ![r].quarantined = TRUE]
      BY <2>4 DEF Quarantine
    <3>2. queue' \in [Rows -> Row] /\ RowLocked(queue'[r]) /\ Operated(r)
      BY <1>0, <2>1, <2>2, <3>1 DEF RowLocked, Operated, Row
    <3>3. \A y \in Rows : y # r => Keeps(y) /\ RowLocked(queue'[y])
      BY <1>0, <3>1, SameRow
    <3>4. GroupStep
      BY <2>2, <3>3, GroupKept DEF Keeps, IsOpen, Rows
    <3>5. QED
      BY <2>1, <3>2, <3>3, <3>4 DEF QueueStep, MembersStep, RowStep
  <2>5. QED
    BY <1>2, <2>3, <2>4
<1>3. QED
  BY <1>1, <1>2 DEF Environment

(* Every step changes every row in one of the ways listed. *)
LEMMA NextRows ==
  ASSUME IndInv, Next
  PROVE  QueueStep /\ GroupStep /\ MembersStep
  BY ProduceRows, PollRows, ProcessRows, LifecycleRows, EnvironmentRows DEF Next

-----------------------------------------------------------------------------
(* The other tables and the tasks *)

Tables ==
  /\ members \in [Batches -> SUBSET Singles]
  /\ primary \in [Batches -> Singles \cup {None}]
  /\ lowValue \subseteq Downstream
  /\ mode \in [Workers -> {"up", "draining", "down"}]
  /\ spent \in [Bounds -> Nat]
  /\ ledger \subseteq Rows /\ retried \subseteq Rows /\ deadReevals \subseteq Reevals

Grows == ledger \subseteq ledger' /\ retried \subseteq retried' /\ deadReevals \subseteq deadReevals'

\* A request is new, or settled by a run that applied or died, or unchanged
ReevalStep ==
  /\ reeval' \in [Reevals -> {"none", "pending", "processed"}]
  /\ \A r \in Reevals :
       \/ reeval'[r] = reeval[r]
       \/ reeval[r] = "none" /\ reeval'[r] = "pending"
       \/ reeval'[r] = "processed" /\ r \in ledger' \cup deadReevals'

RestStep == Tables' /\ Grows /\ ReevalStep

(* What steps outside the tasks do to the other tables. *)
LEMMA OutsideRest ==
  ASSUME IndInv, \/ Produce \/ Environment
                 \/ \E w \in Workers : Poll(w) \/ Lifecycle(w)
  PROVE  RestStep
<1> USE DEF IndInv
<1>0. Tables /\ reeval \in [Reevals -> {"none", "pending", "processed"}]
  BY DEF TypeOK, Tables
<1>1. ASSUME NEW b \in Bounds, NEW m, Spend(b, m)
      PROVE  spent' \in [Bounds -> Nat]
  BY <1>0, <1>1 DEF Spend, Tables
<1>2. CASE Produce
  BY <1>0, <1>2 DEF Produce, Enqueue, EnqueueReeval, Devalue, RestStep, Tables,
                    Grows, ReevalStep
<1>3. ASSUME NEW r \in Rows, Expire(r) \/ BackoffElapses(r) \/ OperatorRetry(r)
                              \/ Quarantine(r)
      PROVE  RestStep
  <2>1. spent' \in [Bounds -> Nat]
    BY <1>0, <1>1, <1>3
    DEF Expire, BackoffElapses, OperatorRetry, Quarantine, Bounds, Tables
  <2>2. /\ UNCHANGED <<members, primary, lowValue, mode, reeval, ledger, deadReevals>>
        /\ retried' = retried \/ retried' = retried \cup {r}
    BY <1>3 DEF Expire, BackoffElapses, OperatorRetry, Quarantine
  <2>3. QED
    BY <1>0, <2>1, <2>2 DEF RestStep, Tables, Grows, ReevalStep
<1>4. ASSUME NEW w \in Workers, Lifecycle(w)
      PROVE  RestStep
  <2>1. spent' \in [Bounds -> Nat]
    BY <1>0, <1>1, <1>4
    DEF Lifecycle, Crash, Shutdown, Drained, Restart, Bounds, Tables
  <2>2. /\ UNCHANGED <<members, primary, lowValue, reeval, ledger, retried, deadReevals>>
        /\ \E x \in {"up", "draining", "down"} : mode' = [mode EXCEPT ![w] = x]
    BY <1>4 DEF Lifecycle, Crash, Shutdown, Drained, Restart
  <2>3. mode' \in [Workers -> {"up", "draining", "down"}]
    BY <1>0, <2>2 DEF Tables
  <2>4. QED
    BY <1>0, <2>1, <2>2, <2>3 DEF RestStep, Tables, Grows, ReevalStep
<1>5. ASSUME NEW w \in Workers, NEW s \in Slots, NEW p \in Batches,
             NEW M \in SUBSET (Arrivals \cup Downstream), PollBatch(w, s, p, M)
      PROVE  RestStep
  <2>1. M \subseteq Singles
    BY DEF Singles
  <2>2. members' = [members EXCEPT ![p] = M]
        /\ \E m \in M : primary' = [primary EXCEPT ![p] = m]
        /\ UNCHANGED <<reeval, lowValue, ledger, mode, retried, deadReevals, spent>>
    BY <1>5 DEF PollBatch
  <2>3. members' \in [Batches -> SUBSET Singles]
        /\ primary' \in [Batches -> Singles \cup {None}]
    BY <1>0, <2>1, <2>2 DEF Tables
  <2>4. QED
    BY <1>0, <2>2, <2>3 DEF RestStep, Tables, Grows, ReevalStep
<1>6. ASSUME NEW w \in Workers,
             \/ \E r \in Reevals : Promote(w, r)
             \/ \E s \in Slots : PollPrune(w, s) \/ \E r \in Rows : PollSingle(w, s, r)
      PROVE  RestStep
  BY <1>0, <1>6 DEF Promote, PollPrune, PollSingle, RestStep, Tables, Grows, ReevalStep
<1>7. QED
  BY <1>2, <1>3, <1>4, <1>5, <1>6 DEF Environment, Poll

(* What a task does to the other tables. *)
LEMMA ProcessRest ==
  ASSUME IndInv, NEW w \in Workers, NEW s \in Slots, Process(w, s)
  PROVE  RestStep
<1> USE DEF IndInv
<1> DEFINE r == task[w][s].row
<1>0. Tables /\ reeval \in [Reevals -> {"none", "pending", "processed"}]
      /\ queue \in [Rows -> Row] /\ task \in TaskTable
  BY DEF TypeOK, Tables, TaskTable
<1>1. task[w][s].phase \in Phases => r \in Rows
  BY <1>0, TaskAt
<1> HIDE DEF r
<1>2. MaxAttempts \in 1..MaxAttempts /\ ValidationCap \in 1..MaxAttempts
  BY ConstantsAssumption
<1>3. ASSUME NEW cap \in 1..MaxAttempts, NEW force \in BOOLEAN, r \in Rows,
             MarkFailed(w, r, cap, force),
             UNCHANGED <<members, primary, lowValue, ledger, mode, retried, spent>>
      PROVE  RestStep
  <2>1. \/ reeval' = reeval /\ deadReevals' = deadReevals
        \/ /\ reeval' = [x \in Reevals |-> IF x = r THEN "processed" ELSE reeval[x]]
           /\ deadReevals' = deadReevals \cup ({r} \cap Reevals)
    BY <1>0, <1>3, MarkFailedAt
  <2>2. QED
    BY <1>0, <1>3, <2>1 DEF RestStep, Tables, Grows, ReevalStep
<1>4. CASE Reject(w, s)
  <2>1. r \in Rows /\ MarkFailed(w, r, MaxAttempts, TRUE)
        /\ UNCHANGED <<members, primary, lowValue, ledger, mode, retried, spent>>
    BY <1>1, <1>4 DEF Reject, Phases, r
  <2>2. QED
    BY <1>2, <1>3, <2>1
<1>5. CASE Fail(w, s)
  <2>1. r \in Rows
        /\ UNCHANGED <<members, primary, lowValue, ledger, mode, retried, spent>>
    BY <1>1, <1>5 DEF Fail, Phases
  <2>2. PICK cap \in {MaxAttempts, ValidationCap} : MarkFailed(w, r, cap, FALSE)
    BY <1>5 DEF Fail, r
  <2>3. QED
    BY <1>2, <1>3, <2>1, <2>2
<1>6. CASE Complete(w, s)
  <2>1. r \in ledger /\ MarkComplete(w, r)
        /\ UNCHANGED <<members, primary, lowValue, ledger, mode, retried,
                       deadReevals, spent>>
    BY <1>6 DEF Complete, TasksApplied, r
  <2>2. QED
    BY <1>0, <2>1 DEF MarkComplete, RestStep, Tables, Grows, ReevalStep
<1>7. ASSUME NEW D \in SUBSET Downstream, Apply(w, s, D)
      PROVE  RestStep
  <2>1. r \in Rows /\ ledger' = ledger \cup {r}
        /\ UNCHANGED <<members, primary, reeval, lowValue, mode, retried,
                       deadReevals, spent>>
    BY <1>1, <1>7 DEF Apply, Phases, r
  <2>2. QED
    BY <1>0, <2>1 DEF RestStep, Tables, Grows, ReevalStep
<1>8. CASE Defer(w, s) \/ LoseTask(w, s)
  <2>1. spent' \in [Bounds -> Nat]
    BY <1>0, <1>8 DEF Defer, LoseTask, Spend, Bounds, Tables
  <2>2. UNCHANGED <<members, primary, reeval, lowValue, ledger, mode, retried,
                    deadReevals>>
    BY <1>8 DEF Defer, LoseTask
  <2>3. QED
    BY <1>0, <2>1, <2>2 DEF RestStep, Tables, Grows, ReevalStep
<1>9. CASE \/ Begin(w, s) \/ Beat(w, s) \/ SkipApplied(w, s) \/ Return(w, s)
           \/ RunFails(w, s)
  BY <1>0, <1>9 DEF Begin, Beat, SkipApplied, Return, RunFails, RestStep, Tables,
                    Grows, ReevalStep
<1>10. QED
  BY <1>4, <1>5, <1>6, <1>7, <1>8, <1>9 DEF Process

-----------------------------------------------------------------------------
(* The ways a step can change a slot, and the only ones *)

\* The task goes on with its row; it reports success only when applied
Moves(w, s) ==
  /\ task[w][s].phase \in Phases /\ task'[w][s].phase \in Phases
  /\ task'[w][s].row = task[w][s].row
  /\ task'[w][s].phase \in {"committed", "succeeded"} => task'[w][s].row \in ledger'

\* A poll starts a task in a free slot
Starts(w, s) == task[w][s] = Idle /\ task'[w][s].phase = "queued"

SlotStep(w, s) ==
  \/ task'[w][s] = task[w][s] \/ task'[w][s] = Idle \/ Moves(w, s) \/ Starts(w, s)

TaskStep ==
  /\ task' \in TaskTable
  /\ \A w \in Workers, s \in Slots : SlotStep(w, s)

(* Every step changes every slot in one of those ways. *)
LEMMA NextTasks ==
  ASSUME IndInv, Next
  PROVE  TaskStep
<1> USE DEF IndInv
<1>0. task \in TaskTable
  BY DEF TypeOK, TaskTable
<1>1. Idle \in Task \cup {Idle}
  OBVIOUS
<1>2. ASSUME task' = task PROVE TaskStep
  BY <1>0, <1>2 DEF TaskStep, SlotStep
<1>3. ASSUME NEW w \in Workers, NEW s \in Slots, SetTask(w, s, Idle)
      PROVE  TaskStep
  BY <1>0, <1>1, <1>3, SetTaskAt DEF TaskStep, SlotStep
<1>4. ASSUME NEW w \in Workers, NEW s \in Slots, NEW r \in Rows, task[w][s] = Idle,
             SetTask(w, s, [row |-> r, phase |-> "queued"])
      PROVE  TaskStep
  <2> DEFINE t == [row |-> r, phase |-> "queued"]
  <2>1. t \in Task /\ t.phase = "queued"
    BY DEF Task, Phases
  <2> HIDE DEF t
  <2>2. SetTask(w, s, t)
    BY <1>4 DEF t
  <2>3. QED
    BY <1>0, <1>4, <2>1, <2>2, SetTaskAt DEF TaskStep, SlotStep, Starts
<1>5. ASSUME NEW w \in Workers, NEW s \in Slots, NEW p \in Phases,
             task[w][s].phase \in Phases, SetPhase(w, s, p),
             p \in {"committed", "succeeded"} => task[w][s].row \in ledger'
      PROVE  TaskStep
  BY <1>0, <1>5, SetPhaseAt DEF TaskStep, SlotStep, Moves
<1>6. CASE Produce \/ Environment
  BY <1>2, <1>6 DEF Produce, Enqueue, EnqueueReeval, Devalue, Environment, Expire,
                    BackoffElapses, OperatorRetry, Quarantine
<1>7. ASSUME NEW w \in Workers, Poll(w)
      PROVE  TaskStep
  <2>1. ASSUME NEW s \in Slots, NEW r \in Rows, PollSingle(w, s, r)
        PROVE  TaskStep
    BY <1>4, <2>1 DEF PollSingle, CanPoll
  <2>2. ASSUME NEW s \in Slots, NEW p \in Batches, NEW M, PollBatch(w, s, p, M)
        PROVE  TaskStep
    BY <1>4, <2>2 DEF PollBatch, CanPoll, Rows
  <2>3. CASE \/ \E r \in Reevals : Promote(w, r)
             \/ \E s \in Slots : PollPrune(w, s)
    BY <1>2, <2>3 DEF Promote, PollPrune
  <2>4. QED
    BY <1>7, <2>1, <2>2, <2>3 DEF Poll
<1>8. ASSUME NEW w \in Workers, Lifecycle(w)
      PROVE  TaskStep
  <2>1. CASE Crash(w)
    <3>1. task' = [task EXCEPT ![w] = [s \in Slots |-> Idle]]
      BY <2>1 DEF Crash
    <3>2. task' \in TaskTable
      BY <1>0, <3>1 DEF TaskTable
    <3>3. QED
      BY <1>0, <3>1, <3>2 DEF TaskStep, SlotStep, TaskTable
  <2>2. CASE Shutdown(w) \/ Drained(w) \/ \E b \in BOOLEAN : Restart(w, b)
    BY <1>2, <2>2 DEF Shutdown, Drained, Restart
  <2>3. QED
    BY <1>8, <2>1, <2>2 DEF Lifecycle
<1>9. ASSUME NEW w \in Workers, NEW s \in Slots, Process(w, s)
      PROVE  TaskStep
  <2>1. CASE \/ Reject(w, s) \/ Defer(w, s) \/ Complete(w, s) \/ Fail(w, s)
             \/ LoseTask(w, s)
    BY <1>3, <2>1 DEF Reject, Defer, Complete, Fail, LoseTask
  <2>2. CASE Beat(w, s)
    BY <1>2, <2>2 DEF Beat
  <2>3. CASE Begin(w, s) \/ RunFails(w, s)
    BY <1>5, <2>3 DEF Begin, RunFails, Phases
  <2>4. CASE SkipApplied(w, s)
    BY <1>5, <2>4 DEF SkipApplied, Phases
  <2>5. CASE Return(w, s)
    BY <1>5, <2>5 DEF Return, Phases, TasksApplied
  <2>6. ASSUME NEW D \in SUBSET Downstream, Apply(w, s, D)
        PROVE  TaskStep
    BY <1>5, <2>6 DEF Apply, Phases
  <2>7. QED
    BY <1>9, <2>1, <2>2, <2>3, <2>4, <2>5, <2>6 DEF Process
<1>10. QED
  BY <1>6, <1>7, <1>8, <1>9 DEF Next

-----------------------------------------------------------------------------
(* The inductive invariant *)

(* It holds when the tables are empty. *)
LEMMA IndInvInit == Init => IndInv
<1> SUFFICES ASSUME Init PROVE IndInv
  OBVIOUS
<1>1. TypeOK
  <2>1. NoRow \in Row
    BY NewRowFields
  <2>2. queue \in [Rows -> Row]
    BY <2>1 DEF Init
  <2>3. task \in [Workers -> [Slots -> Task \cup {Idle}]]
    BY DEF Init
  <2>4. QED
    BY <2>2, <2>3 DEF Init, TypeOK
<1>2. \A r \in Rows : queue[r] = NoRow
  BY DEF Init
<1>3. \A r \in Rows : queue[r].stage = "absent" /\ queue[r].lockedBy = None
        /\ queue[r].parent = None
  BY <1>2, NewRowFields
<1>4. \A w \in Workers, s \in Slots : task[w][s].phase = "idle"
  BY DEF Init, Idle
<1>5. AttemptsLeft /\ ClosedUnlocked /\ NoStrandedRow /\ CleanMeansApplied
  BY <1>3 DEF AttemptsLeft, ClosedUnlocked, NoStrandedRow, CleanMeansApplied,
              IsOpen, IsClosed
<1>6. Lineage
  BY <1>3 DEF Lineage, Init, Rows
<1>7. TasksApplied
  BY <1>4 DEF TasksApplied
<1>8. ReevalSettled
  BY <1>3 DEF ReevalSettled, Init, IsClosed, Rows, Singles
<1>9. QED
  BY <1>1, <1>5, <1>6, <1>7, <1>8 DEF IndInv

(* And every step keeps it. *)
LEMMA IndInvStep == IndInv /\ [Next]_vars => IndInv'
<1> SUFFICES ASSUME IndInv, [Next]_vars PROVE IndInv'
  OBVIOUS
<1>1. CASE UNCHANGED vars
  BY <1>1 DEF vars, IndInv, TypeOK, AttemptsLeft, ClosedUnlocked, Lineage,
     TasksApplied, NoStrandedRow, CleanMeansApplied, ReevalSettled, IsOpen,
     IsClosed, Stranded, AppliedAs, MembersOf
<1>2. CASE Next
  <2> USE DEF IndInv
  <2>1. QueueStep /\ GroupStep /\ MembersStep
    BY <1>2, NextRows
  <2>2. RestStep
    BY <1>2, OutsideRest, ProcessRest DEF Next
  <2>3. TaskStep
    BY <1>2, NextTasks
  <2>4. TypeOK'
    BY <2>1, <2>2, <2>3
    DEF TypeOK, QueueStep, RestStep, Tables, ReevalStep, TaskStep, TaskTable
  <2>5. AttemptsLeft' /\ ClosedUnlocked'
    BY <2>1 DEF QueueStep, RowLocked, AttemptsLeft, ClosedUnlocked, IsOpen
  <2>6. Lineage'
    <3>1. \A p \in Batches : members[p] \subseteq members'[p]
            /\ members'[p] \subseteq Arrivals \cup Downstream
      BY <2>1 DEF MembersStep, Lineage
    <3>2. ASSUME NEW p \in Batches, queue'[p].stage = "absent"
          PROVE  members'[p] = {}
      <4>1. queue[p].stage = "absent" /\ members'[p] = members[p]
        BY <2>1, <3>2 DEF QueueStep, MembersStep, RowStep, Keeps, Appears, Hides,
           Completes, Dies, IsPruned, Released, Operated, Rows
      <4>2. QED
        BY <4>1 DEF Lineage
    <3>3. ASSUME NEW r \in Rows, queue'[r].parent # None
          PROVE  r \in members'[queue'[r].parent]
      <4>1. queue'[r].parent = queue[r].parent \/ Hides(r)
        BY <2>1, <3>3 DEF QueueStep, RowStep, Keeps, Appears, Completes, Dies,
           IsPruned, Released, Operated
      <4>2. queue'[r].parent \in Batches
        BY <2>4, <3>3 DEF TypeOK, Row
      <4>3. QED
        BY <3>1, <3>3, <4>1, <4>2 DEF Lineage, Hides
    <3>4. QED
      BY <3>1, <3>2, <3>3 DEF Lineage
  <2>7. TasksApplied'
    BY <2>2, <2>3 DEF TasksApplied, TaskStep, SlotStep, Moves, Starts, Idle,
       RestStep, Grows
  <2>8. NoStrandedRow'
    <3> SUFFICES ASSUME NEW r \in Rows, queue'[r].stage = "open",
                        queue'[r].parent # None,
                        queue'[queue'[r].parent].stage # "open"
                 PROVE  queue'[queue'[r].parent].pruned \/ r \in retried'
      BY <2>5 DEF NoStrandedRow, AttemptsLeft, IsOpen, Stranded
    <3> DEFINE p == queue'[r].parent
    <3>1. p \in Batches /\ p \in Rows
      BY <2>4 DEF TypeOK, Row, Rows
    <3>2. Keeps(r) \/ Operated(r)
      BY <2>1 DEF QueueStep, RowStep, Appears, Hides, Completes, Dies,
         IsPruned, Released
    <3>3. CASE Operated(r)
      BY <3>3 DEF Operated
    <3>4. CASE Keeps(r)
      <4>1. IsOpen(r) /\ queue[r].parent = p
        BY <3>4 DEF Keeps, IsOpen
      <4>2. CASE IsOpen(p)
        BY <2>1, <3>1, <4>1, <4>2 DEF GroupStep
      <4>3. CASE ~IsOpen(p)
        <5>1. queue[p].pruned \/ r \in retried
          BY <3>1, <4>1, <4>3 DEF NoStrandedRow, Stranded
        <5>2. queue'[p].pruned = queue[p].pruned
          BY <2>1, <3>1, <4>3 DEF QueueStep, RowStep, Keeps, Appears, Hides,
             Completes, Dies, IsPruned, Released, Operated, IsOpen
        <5>3. QED
          BY <2>2, <5>1, <5>2 DEF RestStep, Grows
      <4>4. QED
        BY <4>2, <4>3
    <3>5. QED
      BY <3>2, <3>3, <3>4
  <2>9. CleanMeansApplied'
    <3> SUFFICES ASSUME NEW r \in Rows, queue'[r].stage = "closed",
                        ~queue'[r].error, ~queue'[r].pruned
                 PROVE  \E x \in Rows : AppliedAs(r, x)'
      BY DEF CleanMeansApplied, IsClosed
    <3>1. Keeps(r) \/ Completes(r)
      BY <2>1 DEF QueueStep, RowStep, Appears, Hides, Dies, IsPruned, Released,
         Operated
    <3>2. CASE Completes(r)
      BY <3>2 DEF Completes
    <3>3. CASE Keeps(r)
      <4>1. PICK x \in Rows : AppliedAs(r, x)
        BY <3>3 DEF Keeps, CleanMeansApplied, IsClosed, IsOpen
      <4>2. x \in ledger'
        BY <2>2, <4>1 DEF AppliedAs, RestStep, Grows
      <4>3. MembersOf(x) \subseteq MembersOf(x)'
        BY <2>1 DEF MembersOf, MembersStep, Lineage
      <4>4. QED
        BY <4>1, <4>2, <4>3 DEF AppliedAs
    <3>4. QED
      BY <3>1, <3>2, <3>3
  <2>10. ReevalSettled'
    <3> SUFFICES ASSUME NEW r \in Reevals
                 PROVE  /\ reeval'[r] = "processed" => r \in ledger' \cup deadReevals'
                        /\ queue'[r].stage = "closed" => reeval'[r] = "processed"
      BY DEF ReevalSettled, IsClosed
    <3>1. r \in Rows
      BY DEF Rows, Singles
    <3>2. reeval'[r] = "processed" => r \in ledger' \cup deadReevals'
      BY <2>2 DEF RestStep, ReevalStep, Grows, ReevalSettled
    <3>3. ASSUME queue'[r].stage = "closed"
          PROVE  reeval'[r] = "processed"
      <4>1. queue[r].stage = "closed" \/ Completes(r) \/ Dies(r)
        BY <2>1, <3>1, <3>3 DEF QueueStep, RowStep, Keeps, Appears, Hides,
           IsPruned, Released, Operated, DeadLettered, IsClosed
      <4>2. CASE queue[r].stage = "closed"
        BY <2>2, <4>2 DEF RestStep, ReevalStep, ReevalSettled, IsClosed
      <4>3. QED
        BY <4>1, <4>2 DEF Completes, Dies
    <3>4. QED
      BY <3>2, <3>3
  <2>11. QED
    BY <2>4, <2>5, <2>6, <2>7, <2>8, <2>9, <2>10
<1>3. QED
  BY <1>1, <1>2

-----------------------------------------------------------------------------
(* Theorems *)

(* The inductive invariant holds in every reachable state. *)
LEMMA Invariance == Spec => []IndInv
<1>1. QED
  BY IndInvInit, IndInvStep, PTL DEF Spec

(***************************************************************************)
(* Every table, task and process keeps its type; in particular attempts    *)
(* never passes trigger_max_attempts, although a validation failure, a     *)
(* forced rejection and a stale task all count attempts.                   *)
(***************************************************************************)
THEOREM TypeCorrect == Spec => []TypeOK
<1>1. IndInv => TypeOK
  BY DEF IndInv
<1>2. QED
  BY <1>1, Invariance, PTL

(***************************************************************************)
(* No interleaving of polls, crashes, stale leases and duplicate           *)
(* dispatches leaves an open trigger without attempts, or behind a closed  *)
(* batch, other than through the pruner or an operator's retry.            *)
(***************************************************************************)
THEOREM NothingStranded == Spec => []NoStrandedRow
<1>1. IndInv => NoStrandedRow
  BY DEF IndInv
<1>2. QED
  BY <1>1, Invariance, PTL

(***************************************************************************)
(* A trigger that ends without an error and was not pruned has been        *)
(* applied, itself or in a batch: _mark_trigger_complete never reports     *)
(* work that was lost with a crashed or superseded run.                    *)
(***************************************************************************)
THEOREM CompletedWasApplied == Spec => []CleanMeansApplied
<1>1. IndInv => CleanMeansApplied
  BY DEF IndInv
<1>2. QED
  BY <1>1, Invariance, PTL

(***************************************************************************)
(* Re-evaluation requests and their triggers are settled together, by      *)
(* application or dead letter.                                             *)
(***************************************************************************)
THEOREM ReevalsSettleTogether == Spec => []ReevalSettled
<1>1. IndInv => ReevalSettled
  BY DEF IndInv
<1>2. QED
  BY <1>1, Invariance, PTL

(***************************************************************************)
(* Once closed, a row changes only by an operator's hand, and only if it   *)
(* is a dead letter that is not quarantined.                               *)
(***************************************************************************)
THEOREM ClosedStaysClosed == Spec => ClosedIsFinal
<1> DEFINE Final ==
      \A r \in Rows :
        IsClosed(r) =>
          \/ queue'[r] = queue[r]
          \/ queue[r].error /\ ~queue[r].quarantined
             /\ spent'["operator"] = spent["operator"] + 1
<1>1. IndInv /\ [Next]_vars => [Final]_vars
  <2> SUFFICES ASSUME IndInv, Next, NEW r \in Rows, IsClosed(r)
               PROVE  \/ queue'[r] = queue[r]
                      \/ queue[r].error /\ ~queue[r].quarantined
                         /\ spent'["operator"] = spent["operator"] + 1
    OBVIOUS
  <2>1. RowStep(r)
    BY NextRows DEF QueueStep
  <2>2. ~Appears(r)
    BY DEF Appears, IndInv, ReevalSettled
  <2>3. QED
    BY <2>1, <2>2 DEF RowStep, Keeps, Hides, Completes, Dies, IsPruned,
       Released, Operated, DeadLettered, IsOpen, IsClosed
<1>2. QED
  BY <1>1, Invariance, PTL DEF Spec, ClosedIsFinal
=============================================================================
