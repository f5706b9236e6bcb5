------------------------- MODULE ThinkAppliedProofs -------------------------
(***************************************************************************)
(* What producers see of the Think queue, for any number of rows, workers  *)
(* and slots: that ThinkQueue's AppliedInv is inductive, so an event is    *)
(* applied once while nothing disturbs the workers, and that the queue     *)
(* implements Inbox.  Course says what a step may do to the columns that   *)
(* neither of the other two proof modules follows: attempts,               *)
(* batch_parent_id, the released mark and the quarantine mark.             *)
(***************************************************************************)
EXTENDS ThinkLeaseProofs

\* attempts never falls, and the row is batched, released and quarantined as before
Onward(q, x) ==
  /\ x.attempts >= q.attempts
  /\ x.parent = q.parent /\ x.unbatched = q.unbatched
  /\ x.quarantined = q.quarantined

(* An update other than a batch's, an insert or the operator's is onward. *)
LEMMA OnwardOps ==
  ASSUME NEW q \in Row, NEW id \in Ids
  PROVE  /\ Onward(q, q) /\ Onward(q, Unlock(q)) /\ Onward(q, Lease(q, id))
         /\ Onward(q, CloseClean(q)) /\ Onward(q, ClosePruned(q))
         /\ Onward(q, [Unlock(q) EXCEPT !.due = FALSE])
         /\ Onward(q, [q EXCEPT !.expired = TRUE])
         /\ Onward(q, [q EXCEPT !.due = TRUE])
<1>1. q.attempts \in Nat
  BY ConstantsAssumption DEF Row
<1>2. Onward(q, q) /\ Onward(q, Unlock(q)) /\ Onward(q, Lease(q, id))
  BY <1>1 DEF Onward, Unlock, Lease, Row
<1>3. Onward(q, CloseClean(q)) /\ Onward(q, ClosePruned(q))
  BY <1>1 DEF Onward, CloseClean, ClosePruned, Unlock, Row
<1>4. Onward(q, [Unlock(q) EXCEPT !.due = FALSE])
  BY <1>1 DEF Onward, Unlock, Row
<1>5. Onward(q, [q EXCEPT !.expired = TRUE]) /\ Onward(q, [q EXCEPT !.due = TRUE])
  BY <1>1 DEF Onward, Row
<1>6. QED
  BY <1>2, <1>3, <1>4, <1>5

(* A failure counts one attempt and is onward too. *)
LEMMA FailedOnward ==
  ASSUME NEW q \in Row, NEW n \in Nat, n = q.attempts + 1
  PROVE  /\ Onward(q, CloseDead(q, n)) /\ CloseDead(q, n).attempts > 0
         /\ Onward(q, Backoff(q, n)) /\ Backoff(q, n).attempts > 0
<1>1. q.attempts \in Nat
  BY ConstantsAssumption DEF Row
<1>2. CloseDead(q, n).attempts = n /\ Backoff(q, n).attempts = n
  BY DEF CloseDead, Backoff, Unlock, Row
<1>3. QED
  BY <1>1, <1>2 DEF Onward, CloseDead, Backoff, Unlock, Row

(* How the columns that producers see follow from each update. *)
LEMMA FateOps ==
  ASSUME NEW q \in Row, NEW id \in Ids
  PROVE  /\ Fate(Unlock(q)) = Fate(q) /\ Fate(Lease(q, id)) = Fate(q)
         /\ Fate([Unlock(q) EXCEPT !.due = FALSE]) = Fate(q)
         /\ Fate([q EXCEPT !.expired = TRUE]) = Fate(q)
         /\ Fate([q EXCEPT !.due = TRUE]) = Fate(q)
         /\ q.stage = "open" => Fate(q) = "open" /\ Fate(Unbundle(q)) = "open"
         /\ Fate(CloseClean(q)) = "done"
         /\ ~q.quarantined =>
              Fate(ClosePruned(q)) = IF q.error THEN "dead" ELSE "done"
<1>1. Fate(Unlock(q)) = Fate(q) /\ Fate(Lease(q, id)) = Fate(q)
  BY DEF Fate, Unlock, Lease, Row
<1>2. Fate([Unlock(q) EXCEPT !.due = FALSE]) = Fate(q)
  BY DEF Fate, Unlock, Row
<1>3. Fate([q EXCEPT !.expired = TRUE]) = Fate(q) /\ Fate([q EXCEPT !.due = TRUE]) = Fate(q)
  BY DEF Fate, Row
<1>4. q.stage = "open" => Fate(q) = "open" /\ Fate(Unbundle(q)) = "open"
  BY DEF Fate, Unbundle, Unlock, Row
<1>5. Fate(CloseClean(q)) = "done"
  BY DEF Fate, CloseClean, Unlock, Row
<1>6. ~q.quarantined => Fate(ClosePruned(q)) = IF q.error THEN "dead" ELSE "done"
  BY DEF Fate, ClosePruned, Unlock, Row
<1>7. QED
  BY <1>1, <1>2, <1>3, <1>4, <1>5, <1>6

(* The same for a failure, an insert and the operator's two updates. *)
LEMMA FateFailed ==
  ASSUME NEW q \in Row, NEW n
  PROVE  /\ q.stage = "open" => Fate(Backoff(q, n)) = "open"
         /\ ~q.quarantined => Fate(CloseDead(q, n)) = "dead"
         /\ Fate([Unlock(q) EXCEPT !.stage = "open", !.due = TRUE,
                                   !.attempts = 0, !.error = FALSE]) = "open"
         /\ q.stage = "closed" /\ q.error =>
              Fate([q EXCEPT !.quarantined = TRUE]) = "quarantined"
  BY DEF Fate, Backoff, CloseDead, Unlock, Row

(* A new row is open, without attempts, and not in a batch. *)
LEMMA NewRowMarks ==
  ASSUME NEW id \in Ids \cup {None}
  PROVE  /\ Fate(NewRow(id)) = "open" /\ NewRow(id).attempts = 0
         /\ NewRow(id).parent = None
         /\ ~NewRow(id).unbatched /\ ~NewRow(id).quarantined
  BY DEF Fate, NewRow, NoRow

-----------------------------------------------------------------------------
(* What a step does to one row *)

Born(r) == ~Exists(r) /\ \E id \in Ids \cup {None} : queue'[r] = NewRow(id)

\* A poll folds a free row that was never batched into a new batch
Folded(r) ==
  /\ Leasable(r) /\ ~queue[r].unbatched
  /\ \E p \in Batches : /\ ~Exists(p) /\ r \in members'[p]
                        /\ queue'[r] = [queue[r] EXCEPT !.parent = p]

\* The failure that frees a member is counted in its batch row
Freed(r) ==
  /\ IsOpen(r) /\ queue[r].parent \in Batches
  /\ queue'[r] = Unbundle(queue[r])
  /\ queue'[queue[r].parent].attempts > 0

Reset(q) ==
  [Unlock(q) EXCEPT !.stage = "open", !.due = TRUE, !.attempts = 0, !.error = FALSE]

\* What the operator does to a dead letter
Marked(r) ==
  /\ DeadLettered(r) /\ ~queue[r].quarantined
  /\ \/ r \in retried' /\ queue'[r] = Reset(queue[r])
     \/ queue'[r] = [queue[r] EXCEPT !.quarantined = TRUE]

Course(r) ==
  Onward(queue[r], queue'[r]) \/ Born(r) \/ Folded(r) \/ Freed(r) \/ Marked(r)

(* A row that a step leaves alone, or locks, unlocks or closes, is onward. *)
LEMMA SameCourse ==
  ASSUME IndInv, NEW r \in Rows, NEW id \in Ids,
         \/ queue'[r] = queue[r] \/ queue'[r] = Unlock(queue[r])
         \/ queue'[r] = Lease(queue[r], id) \/ queue'[r] = CloseClean(queue[r])
         \/ queue'[r] = ClosePruned(queue[r])
         \/ queue'[r] = [Unlock(queue[r]) EXCEPT !.due = FALSE]
         \/ queue'[r] = [queue[r] EXCEPT !.expired = TRUE]
         \/ queue'[r] = [queue[r] EXCEPT !.due = TRUE]
  PROVE  Onward(queue[r], queue'[r])
<1>1. queue[r] \in Row
  BY DEF IndInv, TypeOK
<1> HIDE DEF Onward
<1>2. QED
  BY <1>1, OnwardOps

(* A row that a step leaves alone. *)
LEMMA IdleCourse ==
  ASSUME IndInv, NEW r \in Rows, queue'[r] = queue[r]
  PROVE  Course(r)
<1>1. queue[r] \in Row /\ queue[r].attempts \in Nat
  BY ConstantsAssumption DEF IndInv, TypeOK, Row
<1>2. QED
  BY <1>1 DEF Course, Onward

(* Inserts: the producers, a promotion and the T2s of a run. *)
LEMMA InsertCourse ==
  ASSUME IndInv, NEW D, NEW r \in Rows,
         \A x \in D : ~Exists(x),
         queue'[r] = IF r \in D THEN NewRow(None) ELSE queue[r]
  PROVE  Course(r)
<1>1. CASE r \in D
  BY <1>1 DEF Course, Born
<1>2. CASE r \notin D
  BY <1>2, IdleCourse
<1>3. QED
  BY <1>1, <1>2

(* A promotion inserts the trigger of a request that has none yet. *)
LEMMA PromoteInserts ==
  ASSUME IndInv, NEW w \in Workers, NEW x \in Reevals, Promote(w, x)
  PROVE  ~Exists(x) /\ queue' = [queue EXCEPT ![x] = NewRow(None)]
<1>1. x \in Rows /\ queue[x].stage \in {"absent", "open", "closed"}
  BY DEF IndInv, TypeOK, Row, Stages, Rows, Singles
<1>2. QED
  BY <1>1 DEF Promote, Exists, IsOpen, IsClosed, IndInv, ReevalSettled

LEMMA PollCourse ==
  ASSUME IndInv, NEW w \in Workers, Poll(w), NEW r \in Rows
  PROVE  Course(r)
<1>0. queue \in [Rows -> Row] /\ WorkerId[w] \in Ids
      /\ members \in [Batches -> SUBSET Singles]
  BY ConstantsAssumption DEF IndInv, TypeOK
<1>1. ASSUME NEW x \in Reevals, Promote(w, x) PROVE Course(r)
  <2>1. ~Exists(x) /\ queue'[r] = IF r \in {x} THEN NewRow(None) ELSE queue[r]
    BY <1>0, <1>1, PromoteInserts
  <2>2. QED
    BY <2>1, InsertCourse
<1>2. ASSUME queue'[r] = PrunedQueue[r] PROVE Course(r)
  BY <1>0, <1>2, PruneAt, SameCourse DEF Course
<1>3. ASSUME NEW s \in Slots, NEW x \in Rows, PollSingle(w, s, x) PROVE Course(r)
  <2>1. queue'[r] = IF r = x THEN Lease(queue[r], WorkerId[w]) ELSE PrunedQueue[r]
    BY <1>0, <1>3, PruneAt DEF PollSingle
  <2>2. QED
    BY <1>0, <1>2, <2>1, SameCourse DEF Course
<1>4. ASSUME NEW s \in Slots, NEW p \in Batches,
             NEW M \in SUBSET (Arrivals \cup Downstream), PollBatch(w, s, p, M)
      PROVE  Course(r)
  <2>1. queue'[r] = IF r = p THEN NewRow(WorkerId[w])
                    ELSE IF r \in M THEN [queue[r] EXCEPT !.parent = p]
                    ELSE PrunedQueue[r]
    BY <1>4 DEF PollBatch
  <2>2. ~Exists(p) /\ members'[p] = M
        /\ \A m \in M : Leasable(m) /\ ~queue[m].unbatched
    BY <1>0, <1>4 DEF PollBatch, Exists, BatchCandidates
  <2>3. CASE r = p
    BY <1>0, <2>1, <2>2, <2>3 DEF Course, Born
  <2>4. CASE r # p /\ r \in M
    BY <2>1, <2>2, <2>4 DEF Course, Folded
  <2>5. QED
    BY <1>2, <2>1, <2>3, <2>4
<1>5. ASSUME NEW s \in Slots, PollPrune(w, s) PROVE Course(r)
  BY <1>2, <1>5 DEF PollPrune
<1>6. QED
  BY <1>1, <1>3, <1>4, <1>5 DEF Poll

(* A failure is counted, and counted before members are freed. *)
LEMMA FailedCourse ==
  ASSUME IndInv, NEW w \in Workers, NEW x \in Rows, NEW cap \in 1..MaxAttempts,
         NEW force \in BOOLEAN, MarkFailed(w, x, cap, force), NEW r \in Rows
  PROVE  /\ Course(r)
         /\ IsOpen(x) /\ Owns(w, x) => queue'[x].attempts > 0
<1> DEFINE n == queue[x].attempts + 1
<1>0. queue \in [Rows -> Row] /\ queue[x] \in Row /\ queue[r] \in Row
      /\ WorkerId[w] \in Ids /\ n \in Nat
  <2>1. queue \in [Rows -> Row] /\ WorkerId[w] \in Ids
    BY ConstantsAssumption DEF IndInv, TypeOK
  <2>2. queue[x].attempts \in Nat
    BY <2>1, ConstantsAssumption DEF Row
  <2>3. QED
    BY <2>1, <2>2
<1>1. CASE ~(IsOpen(x) /\ Owns(w, x))
  BY <1>0, <1>1, SameCourse DEF MarkFailed, Course
<1>2. ASSUME IsOpen(x), Owns(w, x), ~(force \/ n >= cap)
      PROVE  Course(r) /\ queue'[x].attempts > 0
  <2>1. queue' = [queue EXCEPT ![x] = Backoff(queue[x], n)]
    BY <1>2 DEF MarkFailed
  <2> HIDE DEF n
  <2>2. Onward(queue[x], Backoff(queue[x], n)) /\ Backoff(queue[x], n).attempts > 0
    BY <1>0, FailedOnward DEF n
  <2>3. QED
    BY <1>0, <2>1, <2>2, SameCourse DEF Course
<1>3. ASSUME IsOpen(x), Owns(w, x), force \/ n >= cap
      PROVE  Course(r) /\ queue'[x].attempts > 0
  <2>1. \A y \in Rows : queue'[y] =
          IF y = x THEN CloseDead(queue[x], n)
          ELSE IF y \in Carried(x) THEN Unbundle(queue[y]) ELSE queue[y]
    BY <1>3 DEF MarkFailed
  <2> HIDE DEF n
  <2>2. Onward(queue[x], CloseDead(queue[x], n)) /\ CloseDead(queue[x], n).attempts > 0
    BY <1>0, FailedOnward DEF n
  <2>3. queue'[x].attempts > 0
    BY <2>1, <2>2
  <2>4. CASE r = x
    BY <2>1, <2>2, <2>4 DEF Course
  <2>5. CASE r # x /\ r \in Carried(x)
    <3>1. IsOpen(r) /\ queue[r].parent = x /\ x \in Batches
      BY <2>5 DEF Carried, MembersOf
    <3>2. QED
      BY <2>1, <2>3, <2>5, <3>1 DEF Course, Freed
  <2>6. CASE r # x /\ r \notin Carried(x)
    BY <2>1, <2>3, <2>6, IdleCourse
  <2>7. QED
    BY <2>3, <2>4, <2>5, <2>6
<1>4. QED
  BY <1>1, <1>2, <1>3

LEMMA ProcessCourse ==
  ASSUME IndInv, NEW w \in Workers, NEW s \in Slots, Process(w, s), NEW r \in Rows
  PROVE  Course(r)
<1> DEFINE x == task[w][s].row
<1>0. queue \in [Rows -> Row] /\ task \in TaskTable /\ WorkerId[w] \in Ids
  BY ConstantsAssumption DEF IndInv, TypeOK, TaskTable
<1>1. task[w][s].phase \in Phases => x \in Rows
  BY <1>0, TaskAt
<1> HIDE DEF x
<1>2. CASE Reject(w, s)
  <2>1. x \in Rows /\ MarkFailed(w, x, MaxAttempts, TRUE)
    BY <1>1, <1>2 DEF Reject, Phases, x
  <2>2. MaxAttempts \in 1..MaxAttempts
    BY ConstantsAssumption
  <2>3. QED
    BY <2>1, <2>2, FailedCourse
<1>3. CASE Fail(w, s)
  <2>1. PICK cap \in {MaxAttempts, ValidationCap} : MarkFailed(w, x, cap, FALSE)
    BY <1>3 DEF Fail, x
  <2>2. x \in Rows /\ cap \in 1..MaxAttempts
    BY <1>1, <1>3, ConstantsAssumption DEF Fail, Phases
  <2>3. QED
    BY <2>1, <2>2, FailedCourse
<1>4. CASE Complete(w, s)
  <2>1. x \in Rows /\ MarkComplete(w, x)
    BY <1>1, <1>4 DEF Complete, Phases, x
  <2>2. queue'[r] = CloseClean(queue[r]) \/ queue'[r] = queue[r]
    BY <1>0, <2>1, MarkCompleteAt
  <2>3. QED
    BY <1>0, <2>2, SameCourse DEF Course
<1>5. CASE Defer(w, s) \/ Beat(w, s)
  <2>1. x \in Rows
    BY <1>1, <1>5 DEF Defer, Beat, Phases
  <2>2. \/ queue'[r] = queue[r] \/ queue'[r] = Lease(queue[r], WorkerId[w])
        \/ queue'[r] = [Unlock(queue[r]) EXCEPT !.due = FALSE]
    BY <1>0, <1>5, <2>1 DEF Defer, Beat, x
  <2>3. QED
    BY <1>0, <2>2, SameCourse DEF Course
<1>6. ASSUME NEW D \in SUBSET Downstream, Apply(w, s, D) PROVE Course(r)
  <2>1. \A d \in D : ~Exists(d)
    BY <1>6 DEF Apply, Exists
  <2>2. queue'[r] = IF r \in D THEN NewRow(None) ELSE queue[r]
    BY <1>6 DEF Apply
  <2>3. QED
    BY <2>1, <2>2, InsertCourse
<1>7. CASE \/ Begin(w, s) \/ SkipApplied(w, s) \/ Return(w, s) \/ RunFails(w, s)
           \/ LoseTask(w, s)
  <2>1. queue' = queue
    BY <1>7 DEF Begin, SkipApplied, Return, RunFails, LoseTask
  <2>2. QED
    BY <1>0, <2>1, SameCourse DEF Course
<1>8. QED
  BY <1>2, <1>3, <1>4, <1>5, <1>6, <1>7 DEF Process

(* No step takes a row any other course. *)
LEMMA NextCourse ==
  ASSUME IndInv, Next, NEW r \in Rows
  PROVE  Course(r)
<1>0. queue \in [Rows -> Row]
  BY DEF IndInv, TypeOK
<1>1. CASE Produce
  <2>1. ASSUME NEW x \in Arrivals \cup Downstream, Enqueue(x) PROVE Course(r)
    <3>1. ~Exists(x) /\ queue'[r] = IF r \in {x} THEN NewRow(None) ELSE queue[r]
      BY <1>0, <2>1 DEF Enqueue, Exists
    <3>2. QED
      BY <3>1, InsertCourse
  <2>2. ASSUME queue' = queue PROVE Course(r)
    BY <2>2, IdleCourse
  <2>3. QED
    BY <1>1, <2>1, <2>2 DEF Produce, EnqueueReeval, Devalue
<1>2. ASSUME NEW w \in Workers, Lifecycle(w) PROVE Course(r)
  <2>1. queue'[r] = queue[r] \/ queue'[r] = Unlock(queue[r])
    BY <1>2 DEF Lifecycle, Crash, Shutdown, Drained, Restart
  <2>2. QED
    BY <2>1, SameCourse, ConstantsAssumption DEF Course
<1>3. CASE Environment
  <2>1. ASSUME NEW x \in Rows, Expire(x) \/ BackoffElapses(x) PROVE Course(r)
    <3>1. /\ Onward(queue[r], queue[r])
          /\ Onward(queue[r], [queue[r] EXCEPT !.expired = TRUE])
          /\ Onward(queue[r], [queue[r] EXCEPT !.due = TRUE])
      <4>1. queue[r] \in Row /\ queue[r].attempts \in Nat
        BY <1>0, ConstantsAssumption DEF Row
      <4>2. QED
        BY <4>1 DEF Onward, Row
    <3>2. \/ queue'[r] = queue[r] \/ queue'[r] = [queue[r] EXCEPT !.expired = TRUE]
          \/ queue'[r] = [queue[r] EXCEPT !.due = TRUE]
      BY <1>0, <2>1 DEF Expire, BackoffElapses
    <3>3. QED
      BY <3>1, <3>2 DEF Course
  <2>2. ASSUME NEW x \in Rows, OperatorRetry(x) \/ Quarantine(x) PROVE Course(r)
    <3>1. CASE r # x
      <4>1. queue'[r] = queue[r]
        BY <1>0, <2>2, <3>1 DEF OperatorRetry, Quarantine
      <4>2. QED
        BY <4>1, IdleCourse
    <3>2. CASE r = x
      <4>1. Marked(r)
        BY <1>0, <2>2, <3>2 DEF OperatorRetry, Quarantine, Marked, Reset
      <4>2. QED
        BY <4>1 DEF Course
    <3>3. QED
      BY <3>1, <3>2
  <2>3. QED
    BY <1>3, <2>1, <2>2 DEF Environment
<1>4. QED
  BY <1>1, <1>2, <1>3, PollCourse, ProcessCourse DEF Next

-----------------------------------------------------------------------------
(* What a step does to the batches, the ledger and the tasks *)

(* Rows are never deleted. *)
LEMMA RowsRemain ==
  ASSUME IndInv, Next, NEW r \in Rows, Exists(r)
  PROVE  Exists(r)'
<1>1. RowStep(r)
  BY NextRows DEF QueueStep
<1>2. QED
  BY <1>1 DEF RowStep, Keeps, Appears, Hides, Completes, Dies, IsPruned, Released,
              Operated, Exists

(* Only a poll that forms a batch writes batch_member_trigger_ids. *)
LEMMA MembersMove ==
  ASSUME IndInv, Next
  PROVE  \/ members' = members
         \/ \E w \in Workers, s \in Slots, p \in Batches,
               M \in SUBSET (Arrivals \cup Downstream) : PollBatch(w, s, p, M)
<1>1. CASE Produce \/ Environment
  BY <1>1 DEF Produce, Enqueue, EnqueueReeval, Devalue, Environment, Expire,
              BackoffElapses, OperatorRetry, Quarantine
<1>2. ASSUME NEW w \in Workers, Lifecycle(w) PROVE members' = members
  BY <1>2 DEF Lifecycle, Crash, Shutdown, Drained, Restart
<1>3. ASSUME NEW w \in Workers, Poll(w)
      PROVE  \/ members' = members
             \/ \E s \in Slots, p \in Batches,
                   M \in SUBSET (Arrivals \cup Downstream) : PollBatch(w, s, p, M)
  BY <1>3 DEF Poll, Promote, PollPrune, PollSingle
<1>4. ASSUME NEW w \in Workers, NEW s \in Slots, Process(w, s)
      PROVE  members' = members
  BY <1>4 DEF Process, Reject, Defer, Begin, Beat, Apply, SkipApplied, Return,
              RunFails, Complete, Fail, LoseTask
<1>5. QED
  BY <1>1, <1>2, <1>3, <1>4 DEF Next

(* Only the transaction of a run writes applied_triggers. *)
LEMMA LedgerMoves ==
  ASSUME IndInv, Next
  PROVE  \/ ledger' = ledger
         \/ \E w \in Workers, s \in Slots :
              /\ task[w][s].phase = "running" /\ task[w][s].row \in Rows
              /\ ledger' = ledger \cup {task[w][s].row}
              /\ task'[w][s].row = task[w][s].row
              /\ task'[w][s].phase = "committed"
<1>0. task \in TaskTable
  BY DEF IndInv, TypeOK, TaskTable
<1>1. CASE Produce \/ Environment
  BY <1>1 DEF Produce, Enqueue, EnqueueReeval, Devalue, Environment, Expire,
              BackoffElapses, OperatorRetry, Quarantine
<1>2. ASSUME NEW w \in Workers, Lifecycle(w) \/ Poll(w) PROVE ledger' = ledger
  BY <1>2 DEF Lifecycle, Crash, Shutdown, Drained, Restart, Poll, Promote,
              PollPrune, PollSingle, PollBatch
<1>3. ASSUME NEW w \in Workers, NEW s \in Slots, NEW D \in SUBSET Downstream,
             Apply(w, s, D)
      PROVE  /\ task[w][s].phase = "running" /\ task[w][s].row \in Rows
             /\ ledger' = ledger \cup {task[w][s].row}
             /\ task'[w][s].row = task[w][s].row
             /\ task'[w][s].phase = "committed"
  <2>1. /\ task[w][s].phase = "running" /\ SetPhase(w, s, "committed")
        /\ ledger' = ledger \cup {task[w][s].row}
    BY <1>3 DEF Apply
  <2>2. task[w][s].phase \in Phases /\ "committed" \in Phases
    BY <2>1 DEF Phases
  <2>3. QED
    BY <1>0, <2>1, <2>2, TaskAt, SetPhaseAt
<1>4. ASSUME NEW w \in Workers, NEW s \in Slots, Process(w, s)
      PROVE  ledger' = ledger \/ \E D \in SUBSET Downstream : Apply(w, s, D)
  BY <1>4 DEF Process, Reject, Defer, Begin, Beat, SkipApplied, Return, RunFails,
              Complete, Fail, LoseTask
<1>5. QED
  BY <1>1, <1>2, <1>3, <1>4 DEF Next

Handed == {"committed", "succeeded", "failed"}

\* A task past its transaction goes on, is lost to a fault, or has closed its
\* row or counted a failure, if the row was still open and its own
HandStep(w, s) ==
  LET r == task[w][s].row IN
  \/ task'[w][s].row = r /\ task'[w][s].phase \in Handed
  \/ spent'["faults"] # 0
  \/ IsOpen(r) /\ Owns(w, r) => queue'[r].stage = "closed" \/ queue'[r].attempts > 0

(* No step forgets a task past its transaction otherwise. *)
LEMMA HandsMove ==
  ASSUME IndInv, Next, NEW w \in Workers, NEW s \in Slots,
         task[w][s].phase \in Handed
  PROVE  HandStep(w, s)
<1>0. task \in TaskTable /\ queue \in [Rows -> Row] /\ spent \in [Bounds -> Nat]
      /\ "faults" \in Bounds
  BY DEF IndInv, TypeOK, TaskTable, Bounds
<1>1. task[w][s].phase \in Phases /\ task[w][s].row \in Rows
  BY <1>0, TaskAt DEF Handed, Phases
<1>2. ASSUME task'[w][s] = task[w][s] PROVE HandStep(w, s)
  BY <1>2 DEF HandStep
<1>3. \A m : Spend("faults", m) => spent'["faults"] # 0
  BY <1>0 DEF Spend
<1>4. CASE Produce \/ Environment
  BY <1>2, <1>4 DEF Produce, Enqueue, EnqueueReeval, Devalue, Environment, Expire,
                    BackoffElapses, OperatorRetry, Quarantine
<1>5. ASSUME NEW v \in Workers, Lifecycle(v) PROVE HandStep(w, s)
  <2>1. CASE Crash(v) \/ Shutdown(v)
    BY <1>3, <2>1 DEF HandStep, Crash, Shutdown
  <2>2. CASE Drained(v) \/ \E b \in BOOLEAN : Restart(v, b)
    BY <1>2, <2>2 DEF Drained, Restart
  <2>3. QED
    BY <1>5, <2>1, <2>2 DEF Lifecycle
<1>6. ASSUME NEW v \in Workers, Poll(v) PROVE HandStep(w, s)
  <2>1. ASSUME NEW t \in Slots, CanPoll(v, t), NEW r \in Rows,
               SetTask(v, t, [row |-> r, phase |-> "queued"])
        PROVE  HandStep(w, s)
    <3> DEFINE n == [row |-> r, phase |-> "queued"]
    <3>1. n \in Task \cup {Idle}
      BY DEF Task, Phases
    <3> HIDE DEF n
    <3>2. SetTask(v, t, n)
      BY <2>1 DEF n
    <3>3. w # v \/ s # t
      BY <2>1 DEF CanPoll, Idle, Handed
    <3>4. QED
      BY <1>0, <1>2, <3>1, <3>2, <3>3, SetTaskAt
  <2>2. ASSUME NEW t \in Slots, NEW p \in Batches, NEW M, PollBatch(v, t, p, M)
        PROVE  HandStep(w, s)
    BY <2>1, <2>2 DEF PollBatch, Rows
  <2>3. ASSUME NEW t \in Slots, NEW r \in Rows, PollSingle(v, t, r)
        PROVE  HandStep(w, s)
    BY <2>1, <2>3 DEF PollSingle
  <2>4. CASE \/ \E r \in Reevals : Promote(v, r) \/ \E t \in Slots : PollPrune(v, t)
    BY <1>2, <2>4 DEF Promote, PollPrune
  <2>5. QED
    BY <1>2, <1>6, <2>2, <2>3, <2>4 DEF Poll, Promote, PollPrune
<1>7. ASSUME NEW v \in Workers, NEW t \in Slots, Process(v, t) PROVE HandStep(w, s)
  <2>1. ASSUME w # v \/ s # t PROVE HandStep(w, s)
    <3>1. CASE \/ Reject(v, t) \/ Defer(v, t) \/ Complete(v, t) \/ Fail(v, t)
               \/ LoseTask(v, t)
      <4>1. SetTask(v, t, Idle)
        BY <3>1 DEF Reject, Defer, Complete, Fail, LoseTask
      <4>2. QED
        BY <1>0, <1>2, <2>1, <4>1, SetTaskAt
    <3>2. CASE Beat(v, t)
      BY <1>2, <3>2 DEF Beat
    <3>3. CASE \/ Begin(v, t) \/ SkipApplied(v, t) \/ Return(v, t) \/ RunFails(v, t)
               \/ \E D \in SUBSET Downstream : Apply(v, t, D)
      <4>1. task[v][t].phase \in Phases /\ \E p \in Phases : SetPhase(v, t, p)
        BY <3>3 DEF Begin, SkipApplied, Return, RunFails, Apply, Phases
      <4>2. QED
        BY <1>0, <1>2, <2>1, <4>1, SetPhaseAt
    <3>4. QED
      BY <1>7, <3>1, <3>2, <3>3 DEF Process
  <2>2. ASSUME w = v, s = t PROVE HandStep(w, s)
    <3> DEFINE r == task[w][s].row
    <3>1. CASE Complete(w, s)
      <4>1. MarkComplete(w, r)
        BY <3>1 DEF Complete
      <4>2. Owns(w, r) => queue'[r].stage = "closed"
        BY <1>0, <1>1, <4>1, MarkCompleteAt, CloseCleanFields
      <4>3. QED
        BY <4>2 DEF HandStep
    <3>2. CASE Fail(w, s)
      <4>1. PICK cap \in {MaxAttempts, ValidationCap} : MarkFailed(w, r, cap, FALSE)
        BY <3>2 DEF Fail
      <4>2. cap \in 1..MaxAttempts
        BY ConstantsAssumption
      <4>3. QED
        BY <1>1, <4>1, <4>2, FailedCourse DEF HandStep
    <3>3. CASE LoseTask(w, s)
      BY <1>3, <3>3 DEF LoseTask, HandStep
    <3>4. CASE Beat(w, s)
      BY <1>2, <3>4 DEF Beat
    <3>5. CASE Return(w, s) \/ RunFails(w, s)
      <4>1. SetPhase(w, s, "succeeded") \/ SetPhase(w, s, "failed")
        BY <3>5 DEF Return, RunFails
      <4>2. "succeeded" \in Phases /\ "failed" \in Phases
        BY DEF Phases
      <4>3. QED
        BY <1>0, <1>1, <4>1, <4>2, SetPhaseAt DEF HandStep, Handed
    <3>6. task[w][s].phase # "queued" /\ task[w][s].phase # "running"
      BY DEF Handed
    <3>7. QED
      BY <1>7, <2>2, <3>1, <3>2, <3>3, <3>4, <3>5, <3>6
      DEF Process, Reject, Defer, Begin, Apply, SkipApplied
  <2>3. QED
    BY <2>1, <2>2
<1>8. QED
  BY <1>4, <1>5, <1>6, <1>7 DEF Next

(* A task is dispatched for a row that exists. *)
LEMMA TasksExist ==
  ASSUME IndInv, Present, Next, NEW w \in Workers, NEW s \in Slots, Busy(w, s)'
  PROVE  Exists(task[w][s].row)'
<1>0. task \in TaskTable /\ queue \in [Rows -> Row] /\ WorkerId \in [Workers -> Ids]
  BY ConstantsAssumption DEF IndInv, TypeOK, TaskTable
<1>1. ASSUME Busy(w, s), task'[w][s].row = task[w][s].row
      PROVE  Exists(task[w][s].row)'
  <2>1. Exists(task[w][s].row)
    BY <1>1 DEF Present
  <2>2. task[w][s].row \in Rows
    BY <1>0, <1>1 DEF TaskTable, Task, Busy
  <2>3. QED
    BY <1>1, <2>1, <2>2, RowsRemain DEF Exists
<1>2. CASE ~Starts(w, s)
  <2>1. SlotStep(w, s)
    BY NextTasks DEF TaskStep
  <2>2. Busy(w, s) /\ task'[w][s].row = task[w][s].row
    BY <1>2, <2>1 DEF SlotStep, Moves, Busy, Idle, Phases
  <2>3. QED
    BY <1>1, <2>2
<1>3. ASSUME NEW v \in Workers, NEW t \in Slots, NEW r \in Rows,
             SetTask(v, t, [row |-> r, phase |-> "queued"]), queue'[r].stage = "open"
      PROVE  Exists(task[w][s].row)'
  <2> DEFINE n == [row |-> r, phase |-> "queued"]
  <2>1. n \in Task \cup {Idle} /\ n.row = r
    BY DEF Task, Phases
  <2> HIDE DEF n
  <2>2. SetTask(v, t, n)
    BY <1>3 DEF n
  <2>3. CASE w = v /\ s = t
    BY <1>0, <1>3, <2>1, <2>2, <2>3, SetTaskAt DEF Exists
  <2>4. CASE w # v \/ s # t
    BY <1>0, <1>1, <2>1, <2>2, <2>4, SetTaskAt DEF Busy
  <2>5. QED
    BY <2>3, <2>4
<1>4. CASE Starts(w, s)
  <2>1. ASSUME NEW v \in Workers, NEW t \in Slots, NEW r \in Rows, PollSingle(v, t, r)
        PROVE  Exists(task[w][s].row)'
    <3>1. queue'[r].stage = "open"
      <4>1. queue'[r] = Lease(queue[r], WorkerId[v]) /\ queue[r].stage = "open"
        BY <1>0, <2>1, PruneAt DEF PollSingle, Leasable, IsOpen
      <4>2. queue[r] \in Row /\ WorkerId[v] \in Ids
        BY <1>0
      <4>3. QED
        BY <4>1, <4>2, LeaseFields
    <3>2. QED
      BY <1>3, <2>1, <3>1 DEF PollSingle
  <2>2. ASSUME NEW v \in Workers, NEW t \in Slots, NEW p \in Batches, NEW M,
               PollBatch(v, t, p, M)
        PROVE  Exists(task[w][s].row)'
    <3>1. p \in Rows /\ queue'[p] = NewRow(WorkerId[v])
      BY <2>2 DEF PollBatch, Rows
    <3>2. queue'[p].stage = "open"
      BY <1>0, <3>1, NewRowFields
    <3>3. QED
      BY <1>3, <2>2, <3>1, <3>2 DEF PollBatch
  <2>3. ASSUME task' = task PROVE FALSE
    BY <1>4, <2>3 DEF Starts, Idle
  <2>4. ASSUME NEW v \in Workers, Poll(v) PROVE Exists(task[w][s].row)'
    BY <2>1, <2>2, <2>3, <2>4 DEF Poll, Promote, PollPrune
  <2>5. ASSUME NEW v \in Workers, Lifecycle(v) PROVE FALSE
    <3>1. CASE Crash(v)
      BY <1>0, <1>4, <3>1 DEF Crash, Starts, Idle, TaskTable
    <3>2. QED
      BY <2>3, <2>5, <3>1 DEF Lifecycle, Shutdown, Drained, Restart
  <2>6. ~Produce /\ ~Environment
    BY <2>3 DEF Produce, Enqueue, EnqueueReeval, Devalue, Environment, Expire,
                BackoffElapses, OperatorRetry, Quarantine
  <2>7. ASSUME NEW v \in Workers, NEW t \in Slots, Process(v, t) PROVE FALSE
    <3>1. Busy(v, t)
      <4>1. task[v][t].phase \in Phases
        BY <2>7 DEF Process, Reject, Defer, Begin, Beat, Apply, SkipApplied, Return,
                    RunFails, Complete, Fail, LoseTask, Phases
      <4>2. QED
        BY <4>1 DEF Busy, Idle, Phases
    <3>2. w # v \/ s # t
      BY <1>4, <3>1 DEF Starts, Busy
    <3>3. task' = task \/ SetTask(v, t, Idle)
          \/ (task[v][t].phase \in Phases /\ \E p \in Phases : SetPhase(v, t, p))
      BY <2>7 DEF Process, Reject, Defer, Begin, Beat, Apply, SkipApplied, Return,
                  RunFails, Complete, Fail, LoseTask, Phases
    <3>4. task'[w][s] = task[w][s]
      BY <1>0, <3>2, <3>3, SetTaskAt, SetPhaseAt
    <3>5. QED
      BY <1>4, <3>4 DEF Starts, Idle
  <2>8. QED
    BY <2>4, <2>5, <2>6, <2>7 DEF Next
<1>5. QED
  BY <1>2, <1>4

-----------------------------------------------------------------------------
(* The parts of the invariant that hold whatever disturbs the workers *)

(* attempts only falls when an operator retries the row. *)
LEMMA AttemptsGrow ==
  ASSUME IndInv, Next, NEW r \in Rows, Exists(r), r \notin retried'
  PROVE  queue'[r].attempts >= queue[r].attempts /\ queue'[r].attempts \in Nat
<1>0. queue[r] \in Row /\ queue[r].attempts \in Nat
  BY ConstantsAssumption DEF IndInv, TypeOK, Row
<1>1. queue'[r] \in Row
  BY NextRows DEF QueueStep
<1>2. queue'[r].attempts \in Nat
  BY <1>1, ConstantsAssumption DEF Row
<1>3. Course(r)
  BY NextCourse
<1>4. CASE Onward(queue[r], queue'[r])
  BY <1>2, <1>4 DEF Onward
<1>5. CASE Folded(r)
  BY <1>0, <1>2, <1>5 DEF Folded, Row
<1>6. CASE Freed(r)
  BY <1>0, <1>2, <1>6, UnbundleFields DEF Freed
<1>7. CASE Marked(r)
  BY <1>0, <1>2, <1>7 DEF Marked, Row
<1>8. QED
  BY <1>3, <1>4, <1>5, <1>6, <1>7 DEF Course, Born

\* r is folded into a new batch, from where no batch had it
FoldedRow(r) ==
  /\ Leasable(r) /\ ~queue[r].unbatched /\ queue[r].parent = None
  /\ queue'[r].parent \in Batches /\ ~Exists(queue'[r].parent)
  /\ r \in members'[queue'[r].parent]

(* batch_parent_id is set by a fold and cleared by a counted failure. *)
LEMMA ParentMoves ==
  ASSUME IndInv, Next, NEW r \in Rows, Exists(r)
  PROVE  \/ /\ queue'[r].parent = queue[r].parent
            /\ queue'[r].unbatched = queue[r].unbatched
         \/ FoldedRow(r)
         \/ /\ queue'[r].unbatched /\ queue[r].parent \in Batches
            /\ queue'[queue[r].parent].attempts > 0
<1>0. queue[r] \in Row
  BY DEF IndInv, TypeOK
<1>1. Course(r)
  BY NextCourse
<1>2. CASE Folded(r)
  <2>1. queue'[r].parent \in Batches /\ ~Exists(queue'[r].parent)
        /\ r \in members'[queue'[r].parent]
    BY <1>0, <1>2 DEF Folded, Row
  <2>2. QED
    BY <1>2, <2>1 DEF Folded, FoldedRow, Leasable
<1>3. CASE Freed(r)
  <2>1. queue'[r].unbatched
    BY <1>0, <1>3 DEF Freed, Unbundle, Unlock, Row
  <2>2. QED
    BY <1>3, <2>1 DEF Freed
<1>4. CASE Marked(r)
  BY <1>0, <1>4 DEF Marked, Reset, Unlock, Row
<1>5. QED
  BY <1>1, <1>2, <1>3, <1>4 DEF Course, Born, Onward

(* A new batch takes rows that no batch ever had. *)
LEMMA NewMembers ==
  ASSUME IndInv, BatchedOnce, NEW w \in Workers, NEW s \in Slots, NEW p \in Batches,
         NEW M \in SUBSET (Arrivals \cup Downstream), PollBatch(w, s, p, M)
  PROVE  /\ ~Exists(p) /\ members'[p] = M
         /\ \A b \in Batches : b # p => members'[b] = members[b]
         /\ \A m \in M : /\ m \in Rows /\ Leasable(m) /\ queue'[m].parent = p
                         /\ queue'[m].stage = "open"
                         /\ \A b \in Batches : m \notin members[b]
<1>0. queue \in [Rows -> Row] /\ members \in [Batches -> SUBSET Singles]
  BY DEF IndInv, TypeOK
<1>1. ~Exists(p) /\ members'[p] = M
      /\ \A b \in Batches : b # p => members'[b] = members[b]
  BY <1>0 DEF PollBatch, Exists
<1>2. ASSUME NEW m \in M
      PROVE  /\ m \in Rows /\ Leasable(m) /\ queue'[m].parent = p
             /\ queue'[m].stage = "open"
             /\ \A b \in Batches : m \notin members[b]
  <2>1. m \in Rows /\ m # p
    BY ConstantsAssumption DEF Rows, Singles
  <2>2. Leasable(m) /\ ~queue[m].unbatched /\ queue[m].parent = None
        /\ queue[m].stage = "open"
    BY <1>2 DEF PollBatch, BatchCandidates, Leasable, IsOpen
  <2>3. queue'[m] = [queue[m] EXCEPT !.parent = p]
    BY <1>2, <2>1 DEF PollBatch
  <2>4. queue'[m].parent = p /\ queue'[m].stage = "open"
    BY <1>0, <2>1, <2>2, <2>3 DEF Row
  <2>5. \A b \in Batches : m \notin members[b]
    BY <2>2, ConstantsAssumption DEF BatchedOnce, Rows
  <2>6. QED
    BY <2>1, <2>2, <2>4, <2>5
<1>3. QED
  BY <1>1, <1>2

(* Nothing in a task, a batch or the ledger is without a row. *)
LEMMA PresentStep ==
  ASSUME IndInv, Present, BatchedOnce, Next
  PROVE  Present'
<1>0. ledger \subseteq Rows /\ members \in [Batches -> SUBSET Singles]
  BY DEF IndInv, TypeOK
<1>1. ASSUME NEW r \in ledger' PROVE Exists(r)'
  <2>1. CASE r \in ledger
    BY <1>0, <2>1, RowsRemain DEF Present
  <2>2. CASE r \notin ledger
    <3>1. PICK w \in Workers, s \in Slots :
            task[w][s].phase = "running" /\ task[w][s].row = r /\ r \in Rows
      BY <1>1, <2>2, LedgerMoves
    <3>2. Busy(w, s)
      BY <3>1 DEF Busy, Idle
    <3>3. QED
      BY <3>1, <3>2, RowsRemain DEF Present
  <2>3. QED
    BY <2>1, <2>2
<1>2. ASSUME NEW p \in Batches, NEW m \in members'[p] PROVE Exists(m)'
  <2>1. CASE m \in members[p]
    <3>1. m \in Rows /\ Exists(m)
      BY <1>0, <2>1 DEF Present, Rows
    <3>2. QED
      BY <3>1, RowsRemain
  <2>2. CASE m \notin members[p]
    <3>1. PICK w \in Workers, s \in Slots, b \in Batches,
               M \in SUBSET (Arrivals \cup Downstream) : PollBatch(w, s, b, M)
      BY <1>2, <2>2, MembersMove
    <3>2. b = p /\ m \in M
      BY <1>2, <2>2, <3>1, NewMembers
    <3>3. QED
      BY <3>1, <3>2, NewMembers DEF Exists
  <2>3. QED
    BY <2>1, <2>2
<1>3. QED
  BY <1>1, <1>2, TasksExist DEF Present

(* No event gets into a second batch. *)
LEMMA BatchedOnceStep ==
  ASSUME IndInv, Present, BatchedOnce, Next
  PROVE  BatchedOnce'
<1>0. members \in [Batches -> SUBSET Singles] /\ None \notin Batches
      /\ \A b \in Batches : ~Exists(b) => members[b] = {}
  BY ConstantsAssumption DEF IndInv, TypeOK, Lineage, Exists, Rows
<1>1. ASSUME NEW p \in Batches, NEW m \in members[p]
      PROVE  /\ m \in Rows /\ Exists(m)
             /\ queue[m].parent = p \/ queue[m].unbatched
  BY <1>0 DEF Present, BatchedOnce, Rows
<1>2. ASSUME NEW p \in Batches, NEW m \in members[p], FoldedRow(m) PROVE FALSE
  BY <1>0, <1>1, <1>2 DEF FoldedRow
<1>3. ASSUME NEW p \in Batches, NEW m \in members[p]
      PROVE  queue'[m].parent = p \/ queue'[m].unbatched
  BY <1>1, <1>2, <1>3, ParentMoves
<1>4. CASE members' = members
  BY <1>3, <1>4 DEF BatchedOnce
<1>5. ASSUME NEW w \in Workers, NEW s \in Slots, NEW b \in Batches,
             NEW M \in SUBSET (Arrivals \cup Downstream), PollBatch(w, s, b, M)
      PROVE  BatchedOnce'
  <2>1. /\ ~Exists(b) /\ members'[b] = M
        /\ \A q \in Batches : q # b => members'[q] = members[q]
        /\ \A m \in M : queue'[m].parent = b /\ \A q \in Batches : m \notin members[q]
    BY <1>5, NewMembers
  <2>2. ASSUME NEW p \in Batches, NEW m \in members'[p]
        PROVE  queue'[m].parent = p \/ queue'[m].unbatched
    BY <1>3, <2>1, <2>2
  <2>3. ASSUME NEW p \in Batches, NEW q \in Batches, p # q
        PROVE  members'[p] \cap members'[q] = {}
    BY <2>1, <2>3 DEF BatchedOnce
  <2>4. QED
    BY <2>2, <2>3 DEF BatchedOnce
<1>6. QED
  BY <1>4, <1>5, MembersMove

(* The quarantine mark is only ever on a dead letter. *)
LEMMA QuarantinedStep ==
  ASSUME IndInv, QuarantinedDead, Next
  PROVE  QuarantinedDead'
<1> SUFFICES ASSUME NEW r \in Rows, queue'[r].quarantined
             PROVE  queue'[r].stage = "closed" /\ queue'[r].error
  BY DEF QuarantinedDead, DeadLettered, IsClosed
<1>0. queue[r] \in Row
  BY DEF IndInv, TypeOK
<1>1. Course(r) /\ RowStep(r)
  BY NextCourse, NextRows DEF QueueStep
<1>2. CASE queue[r].quarantined
  <2>1. queue[r].stage = "closed" /\ queue[r].error
    BY <1>2 DEF QuarantinedDead, DeadLettered, IsClosed
  <2>2. Keeps(r) \/ Appears(r)
    BY <1>1, <1>2, <2>1 DEF RowStep, Hides, Completes, Dies, IsPruned, Released,
       Operated, IsOpen
  <2>3. ~Appears(r)
    BY <2>1 DEF Appears, IndInv, ReevalSettled, IsClosed
  <2>4. QED
    BY <2>1, <2>2, <2>3 DEF Keeps, IsOpen
<1>3. CASE ~queue[r].quarantined
  <2>1. ~Onward(queue[r], queue'[r]) /\ ~Born(r) /\ ~Folded(r) /\ ~Freed(r)
    <3>1. ~Onward(queue[r], queue'[r])
      BY <1>3 DEF Onward
    <3>2. ~Born(r)
      BY NewRowMarks DEF Born
    <3>3. ~Folded(r)
      BY <1>0, <1>3 DEF Folded, Row
    <3>4. ~Freed(r)
      <4>1. Unbundle(queue[r]).quarantined = queue[r].quarantined
        BY <1>0 DEF Unbundle, Unlock, Row
      <4>2. QED
        BY <1>3, <4>1 DEF Freed
    <3>5. QED
      BY <3>1, <3>2, <3>3, <3>4
  <2>2. Marked(r)
    BY <1>1, <2>1 DEF Course
  <2>3. queue'[r] # Reset(queue[r])
    BY <1>0, <1>3 DEF Reset, Unlock, Row
  <2>4. QED
    BY <1>0, <2>2, <2>3 DEF Marked, DeadLettered, IsClosed, Row
<1>4. QED
  BY <1>2, <1>3

-----------------------------------------------------------------------------
(* Single application, while Calm *)

(* A fault, once spent, is never taken back. *)
LEMMA CalmBefore ==
  ASSUME IndInv, Next, Calm'
  PROVE  Calm /\ Undisturbed /\ retried' = {} /\ spent'["faults"] = 0
<1>0. spent \in [Bounds -> Nat] /\ "faults" \in Bounds
  BY DEF IndInv, TypeOK, Bounds
<1>1. \A m : \A b \in Bounds : Spend(b, m) =>
        spent["faults"] <= spent'["faults"] /\ spent'["faults"] \in Nat
  BY <1>0 DEF Spend
<1>2. spent' = spent \/ \E m : \E b \in Bounds : Spend(b, m)
  <2>1. CASE Produce
    BY <2>1 DEF Produce, Enqueue, EnqueueReeval, Devalue
  <2>2. CASE Environment
    BY <2>2 DEF Environment, Expire, BackoffElapses, OperatorRetry, Quarantine, Bounds
  <2>3. ASSUME NEW w \in Workers, Poll(w) \/ Lifecycle(w)
        PROVE  spent' = spent \/ \E m : \E b \in Bounds : Spend(b, m)
    BY <2>3 DEF Poll, Promote, PollPrune, PollSingle, PollBatch, Lifecycle, Crash,
                Shutdown, Drained, Restart, Bounds
  <2>4. ASSUME NEW w \in Workers, NEW s \in Slots, Process(w, s)
        PROVE  spent' = spent \/ \E m : \E b \in Bounds : Spend(b, m)
    BY <2>4 DEF Process, Reject, Defer, Begin, Beat, Apply, SkipApplied, Return,
                RunFails, Complete, Fail, LoseTask, Bounds
  <2>5. QED
    BY <2>1, <2>2, <2>3, <2>4 DEF Next
<1>3. spent'["faults"] = 0 => spent["faults"] = 0
  BY <1>0, <1>1, <1>2
<1>4. Undisturbed' /\ spent'["faults"] = 0
  BY DEF Calm
<1>5. Undisturbed
  BY <1>4, UndisturbedBefore
<1>6. QED
  BY <1>3, <1>4, <1>5 DEF Calm, Undisturbed

(* Without an operator, a closed row stays closed. *)
LEMMA ClosedRemains ==
  ASSUME IndInv, Next, retried' = {}, NEW r \in Rows, IsClosed(r)
  PROVE  queue'[r].stage = "closed"
<1>1. RowStep(r)
  BY NextRows DEF QueueStep
<1>2. ~Appears(r)
  BY DEF Appears, IndInv, ReevalSettled
<1>3. QED
  BY <1>1, <1>2 DEF RowStep, Keeps, Hides, Completes, Dies, IsPruned, Released,
     Operated, IsOpen, IsClosed

(* The row of an applied run without a failure is closed or in hand. *)
LEMMA AppliedInHandStep ==
  ASSUME IndInv, Leased, Present, AppliedInHand, Next, retried' = {},
         spent'["faults"] = 0
  PROVE  AppliedInHand'
<1> SUFFICES ASSUME NEW r \in ledger', queue'[r].attempts = 0,
                    queue'[r].stage # "closed"
             PROVE  InHand(r)'
  BY DEF AppliedInHand, IsClosed
<1>1. CASE r \notin ledger
  <2>1. PICK w \in Workers, s \in Slots :
          /\ task[w][s].row = r /\ task'[w][s].row = task[w][s].row
          /\ task'[w][s].phase = "committed"
    BY <1>1, LedgerMoves
  <2>2. QED
    BY <2>1 DEF InHand
<1>2. CASE r \in ledger
  <2>1. r \in Rows /\ Exists(r) /\ queue[r].attempts \in Nat
    BY <1>2, ConstantsAssumption DEF IndInv, TypeOK, Present, Row
  <2>2. queue[r].attempts = 0
    BY <2>1, AttemptsGrow
  <2>3. ~IsClosed(r)
    BY <2>1, ClosedRemains
  <2>4. PICK w \in Workers, s \in Slots :
          task[w][s].row = r /\ task[w][s].phase \in Handed
    BY <1>2, <2>2, <2>3 DEF AppliedInHand, InHand, Handed
  <2>5. HandStep(w, s)
    BY <2>4, HandsMove
  <2>6. Busy(w, s)
    BY <2>4 DEF Busy, Idle, Handed
  <2>7. IsOpen(r) /\ Owns(w, r)
    <3>1. queue[r].stage \in {"absent", "open", "closed"}
      BY <2>1 DEF IndInv, TypeOK, Row, Stages
    <3>2. IsOpen(r)
      BY <2>1, <2>3, <3>1 DEF Exists, IsOpen, IsClosed
    <3>3. QED
      BY <2>4, <2>6, <3>2, BusyTask DEF HoldsLease
  <2>8. task'[w][s].row = r /\ task'[w][s].phase \in Handed
    BY <2>4, <2>5, <2>7 DEF HandStep
  <2>9. QED
    BY <2>8 DEF InHand, Handed
<1>3. QED
  BY <1>1, <1>2

(* A batch without a failure hides its members, and holds no applied row *)
(* that has not failed.                                                  *)
LEMMA BatchHidesStep ==
  ASSUME IndInv, Leased, Present, BatchedOnce, AppliedInHand, BatchHides, Next,
         retried' = {}
  PROVE  BatchHides'
<1> SUFFICES ASSUME NEW p \in Batches, queue'[p].attempts = 0, NEW m \in members'[p]
             PROVE  queue'[m].parent = p /\ (m \in ledger' => queue'[m].attempts > 0)
  BY DEF BatchHides
<1>0. members \in [Batches -> SUBSET Singles] /\ p \in Rows /\ p # None
      /\ \A r \in Rows : queue[r].attempts \in Nat
      /\ \A b \in Batches : ~Exists(b) => members[b] = {}
  BY ConstantsAssumption DEF IndInv, TypeOK, Row, Rows, Lineage, Exists
<1>1. CASE m \in members[p]
  <2>1. m \in Rows /\ Exists(m) /\ Exists(p)
    BY <1>0, <1>1 DEF Present, Rows
  <2>2. queue[p].attempts = 0
    BY <1>0, <2>1, AttemptsGrow
  <2>3. queue[m].parent = p /\ (m \in ledger => queue[m].attempts > 0)
    BY <1>1, <2>2 DEF BatchHides
  <2>4. queue'[m].parent = p
    BY <1>0, <2>1, <2>3, ParentMoves DEF FoldedRow
  <2>5. ASSUME m \in ledger', m \notin ledger PROVE FALSE
    <3>1. PICK w \in Workers, s \in Slots :
            task[w][s].phase = "running" /\ task[w][s].row = m
      BY <2>5, LedgerMoves
    <3>2. Busy(w, s)
      BY <3>1 DEF Busy, Idle
    <3>3. QED
      BY <1>0, <2>3, <3>1, <3>2, BusyTask DEF HoldsLease
  <2>6. queue[m].attempts > 0 => queue'[m].attempts > 0
    BY <1>0, <2>1, AttemptsGrow
  <2>7. QED
    BY <2>3, <2>4, <2>5, <2>6
<1>2. CASE m \notin members[p]
  <2>1. PICK w \in Workers, s \in Slots, b \in Batches,
             M \in SUBSET (Arrivals \cup Downstream) : PollBatch(w, s, b, M)
    BY <1>2, MembersMove
  <2>2. b = p /\ m \in M
    BY <1>2, <2>1, NewMembers
  <2>3. m \in Rows /\ Leasable(m) /\ queue'[m].parent = p /\ ledger' = ledger
    <3>1. ledger' = ledger
      BY <2>1 DEF PollBatch
    <3>2. QED
      BY <2>1, <2>2, <3>1, NewMembers
  <2>4. IsOpen(m) /\ Exists(m) /\ ~IsClosed(m)
    BY <2>3 DEF Leasable, IsOpen, Exists, IsClosed
  <2>5. ~InHand(m)
    <3>1. ASSUME NEW v \in Workers, NEW t \in Slots,
                 task[v][t].row = m, task[v][t].phase \in Handed
          PROVE  FALSE
      <4>1. Busy(v, t)
        BY <3>1 DEF Busy, Idle, Handed
      <4>2. QED
        BY <2>3, <3>1, <4>1, LeasableIsFree
    <3>2. QED
      BY <3>1 DEF InHand, Handed
  <2>6. m \in ledger => queue[m].attempts > 0
    BY <1>0, <2>3, <2>4, <2>5 DEF AppliedInHand
  <2>7. queue[m].attempts > 0 => queue'[m].attempts > 0
    BY <1>0, <2>3, <2>4, AttemptsGrow
  <2>8. QED
    BY <2>3, <2>6, <2>7
<1>3. QED
  BY <1>1, <1>2

(* Nothing is in a batch, a task or the ledger at first. *)
LEMMA AppliedInvInit == Init => AppliedInv
<1> SUFFICES ASSUME Init PROVE AppliedInv
  OBVIOUS
<1>1. Present
  BY DEF Init, Present, Busy
<1>2. BatchedOnce
  BY DEF Init, BatchedOnce
<1>3. QuarantinedDead
  BY DEF Init, QuarantinedDead, NoRow
<1>4. AppliedInHand /\ BatchHides
  BY DEF Init, AppliedInHand, BatchHides
<1>5. QED
  BY <1>1, <1>2, <1>3, <1>4 DEF AppliedInv

(* Every step keeps it. *)
LEMMA AppliedInvStep == IndInv /\ LeaseInv /\ AppliedInv /\ [Next]_vars => AppliedInv'
<1> SUFFICES ASSUME IndInv, LeaseInv, AppliedInv, [Next]_vars PROVE AppliedInv'
  OBVIOUS
<1>1. CASE UNCHANGED vars
  BY <1>1 DEF vars, AppliedInv, Present, BatchedOnce, QuarantinedDead, Calm,
              Undisturbed, DistinctIds, AppliedInHand, BatchHides, InHand, Exists,
              Busy, DeadLettered, IsClosed
<1>2. CASE Next
  <2>1. Present' /\ BatchedOnce' /\ QuarantinedDead'
    BY <1>2, PresentStep, BatchedOnceStep, QuarantinedStep DEF AppliedInv
  <2>2. ASSUME Calm' PROVE AppliedInHand' /\ BatchHides'
    <3>1. Calm /\ Leased /\ retried' = {} /\ spent'["faults"] = 0
      BY <1>2, <2>2, CalmBefore DEF LeaseInv
    <3>2. QED
      BY <1>2, <3>1, AppliedInHandStep, BatchHidesStep DEF AppliedInv
  <2>3. QED
    BY <2>1, <2>2 DEF AppliedInv
<1>3. QED
  BY <1>1, <1>2

LEMMA AppliedInvariance == Spec => [](IndInv /\ AppliedInv)
<1>1. Spec => []IndInv
  BY Invariance
<1>2. Spec => []LeaseInv
  BY <1>1, LeaseInvInit, LeaseInvStep, PTL DEF Spec
<1>3. QED
  BY <1>1, <1>2, AppliedInvInit, AppliedInvStep, PTL DEF Spec

(* Two rows of one event are the event's own and one batch's. *)
LEMMA AppliedInvApplies == IndInv /\ AppliedInv => AppliedOnce
<1> SUFFICES ASSUME IndInv, AppliedInv, Calm, NEW x \in ledger, NEW y \in ledger,
                    x # y, NEW e \in Events(x) \cap Events(y)
             PROVE  queue[x].attempts > 0 \/ queue[y].attempts > 0
  BY DEF AppliedOnce
<1>0. members \in [Batches -> SUBSET Singles] /\ ledger \subseteq Rows
      /\ \A r \in Rows : queue[r].attempts \in Nat
  BY ConstantsAssumption DEF IndInv, TypeOK, Row
<1>1. ASSUME NEW p \in ledger, p \in Batches, NEW m \in members[p], m \in ledger
      PROVE  queue[p].attempts > 0 \/ queue[m].attempts > 0
  BY <1>0, <1>1 DEF AppliedInv, BatchHides
<1>2. /\ e = x \/ (x \in Batches /\ e \in members[x])
      /\ e = y \/ (y \in Batches /\ e \in members[y])
  BY DEF Events, MembersOf
<1>3. ~(x \in Batches /\ y \in Batches /\ e \in members[x] /\ e \in members[y])
  BY DEF AppliedInv, BatchedOnce
<1>4. QED
  BY <1>1, <1>2, <1>3

(***************************************************************************)
(* An event is applied once: while leases hold, nothing crashes and no     *)
(* operator interferes, an event that the ledger holds twice, as itself    *)
(* and in a batch, failed in between, for any number of workers and rows   *)
(* and any order of polls, batches and budget pauses.                      *)
(***************************************************************************)
THEOREM EventsAppliedOnce == Spec => []AppliedOnce
<1>1. QED
  BY AppliedInvariance, AppliedInvApplies, PTL

-----------------------------------------------------------------------------
(* The refinement of Inbox, action by action *)

AppliedEvents == {e \in Singles : \E x \in ledger : e \in Events(x)}

(* A row is absent for producers exactly when it is not there. *)
LEMMA FateStage ==
  ASSUME NEW q \in Row
  PROVE  (Fate(q) = "absent") <=> (q.stage = "absent")
  BY DEF Fate, Row, Stages

(* The ledger shows the same events if neither it nor its batches change. *)
LEMMA AppliedKept ==
  ASSUME ledger' = ledger, members' = members
  PROVE  AppliedEvents' = AppliedEvents
  BY DEF AppliedEvents, Events, MembersOf

(* A step that changes nobody's fate is not seen. *)
LEMMA QuietStep ==
  ASSUME \A e \in Singles : Fate(queue'[e]) = Fate(queue[e]),
         AppliedEvents' = AppliedEvents, lowValue' = lowValue
  PROVE  UNCHANGED Promise!vars
  BY DEF Promise!vars, AppliedEvents

(* Items that settle, for one of the two reasons there are. *)
LEMMA SettleStep ==
  ASSUME NEW Done \in SUBSET Singles, NEW Dead \in SUBSET Singles,
         Done \cap Dead = {},
         \A e \in Done \cup Dead : Fate(queue[e]) = "open",
         Done \subseteq AppliedEvents \cup lowValue,
         \A e \in Singles : Fate(queue'[e]) =
           IF e \in Done THEN "done" ELSE IF e \in Dead THEN "dead"
           ELSE Fate(queue[e]),
         AppliedEvents' = AppliedEvents, lowValue' = lowValue
  PROVE  Promise!Next
<1>1. Promise!Settle(Done, Dead)
  BY DEF Promise!Settle, Promise!In, AppliedEvents
<1>2. QED
  BY <1>1 DEF Promise!Next

(* Items that one run applies, and items that it submits. *)
LEMMA ApplyStep ==
  ASSUME NEW S \in SUBSET Singles, NEW D \in SUBSET Singles,
         \A e \in S : Fate(queue[e]) # "absent",
         \A e \in D : Fate(queue[e]) = "absent",
         \A e \in Singles :
           Fate(queue'[e]) = IF e \in D THEN "open" ELSE Fate(queue[e]),
         AppliedEvents' = AppliedEvents \cup S, lowValue' = lowValue
  PROVE  Promise!Next
<1>1. Promise!Apply(S, D)
  BY DEF Promise!Apply, Promise!In, Promise!Move, AppliedEvents
<1>2. QED
  BY <1>1 DEF Promise!Next

(* An insert by a producer or a promotion. *)
LEMMA SubmitStep ==
  ASSUME IndInv, NEW r \in Singles, ~Exists(r),
         queue' = [queue EXCEPT ![r] = NewRow(None)],
         ledger' = ledger, members' = members, lowValue' = lowValue
  PROVE  Promise!Next
<1>0. queue \in [Rows -> Row] /\ r \in Rows /\ \A e \in Singles : e \in Rows
  BY DEF IndInv, TypeOK, Rows
<1>1. \A e \in Singles : Fate(queue'[e]) = IF e \in {r} THEN "open" ELSE Fate(queue[e])
  BY <1>0, NewRowMarks
<1>2. Fate(queue[r]) = "absent"
  BY <1>0, FateStage DEF Exists
<1>3. AppliedEvents' = AppliedEvents
  BY AppliedKept
<1>4. Promise!Submit({r})
  BY <1>1, <1>2, <1>3 DEF Promise!Submit, Promise!In, Promise!Move, AppliedEvents
<1>5. QED
  BY <1>4 DEF Promise!Next

(* Pruned rows are worthless and settle; the others keep their fate. *)
LEMMA PruneSettles ==
  ASSUME IndInv, QuarantinedDead, AppliedEvents' = AppliedEvents,
         lowValue' = lowValue,
         \A e \in Singles : e \in PruneTargets => queue'[e] = ClosePruned(queue[e]),
         \A e \in Singles : e \notin PruneTargets =>
           Fate(queue'[e]) = Fate(queue[e])
  PROVE  Promise!Next
<1> DEFINE Dead == {e \in Singles : e \in PruneTargets /\ queue[e].error}
           Done == {e \in Singles : e \in PruneTargets /\ ~queue[e].error}
<1>1. ASSUME NEW e \in Singles
      PROVE  /\ e \in PruneTargets => Fate(queue[e]) = "open" /\ e \in lowValue
             /\ Fate(queue'[e]) = IF e \in Done THEN "done"
                                  ELSE IF e \in Dead THEN "dead" ELSE Fate(queue[e])
  <2>1. e \in Rows /\ queue[e] \in Row /\ e \notin Batches
    BY ConstantsAssumption DEF IndInv, TypeOK, Rows
  <2>2. CASE e \in PruneTargets
    <3>1. queue[e].stage = "open" /\ e \in lowValue
      BY <2>1, <2>2 DEF PruneTargets, IsOpen, Worthless
    <3>2. ~queue[e].quarantined
      BY <2>1, <3>1 DEF QuarantinedDead, DeadLettered, IsClosed
    <3>3. Fate(queue[e]) = "open"
      BY <3>1 DEF Fate
    <3>4. Fate(ClosePruned(queue[e])) = IF queue[e].error THEN "dead" ELSE "done"
      BY <2>1, <3>2 DEF Fate, ClosePruned, Unlock, Row
    <3>5. QED
      BY <2>2, <3>1, <3>3, <3>4
  <2>3. QED
    BY <2>2
<1>2. QED
  <2>1. Done \in SUBSET Singles /\ Dead \in SUBSET Singles /\ Done \cap Dead = {}
    OBVIOUS
  <2>2. \A e \in Done \cup Dead : Fate(queue[e]) = "open"
    BY <1>1
  <2>3. Done \subseteq AppliedEvents \cup lowValue
    BY <1>1
  <2> HIDE DEF Done, Dead
  <2>4. QED
    BY <1>1, <2>1, <2>2, <2>3, SettleStep

LEMMA PollRefines ==
  ASSUME IndInv, AppliedInv, NEW w \in Workers, Poll(w)
  PROVE  Promise!Next \/ UNCHANGED Promise!vars
<1>0. queue \in [Rows -> Row] /\ WorkerId[w] \in Ids
      /\ members \in [Batches -> SUBSET Singles]
      /\ \A e \in Singles : e \in Rows /\ e \notin Batches
  BY ConstantsAssumption DEF IndInv, TypeOK, Rows
<1>1. QuarantinedDead
  BY DEF AppliedInv
<1>2. ASSUME NEW x \in Reevals, Promote(w, x) PROVE Promise!Next
  <2>1. x \in Singles /\ UNCHANGED <<ledger, members, lowValue>>
    BY <1>2 DEF Promote, Singles
  <2>2. QED
    BY <1>2, <2>1, PromoteInserts, SubmitStep
<1>3. ASSUME NEW s \in Slots, PollPrune(w, s) PROVE Promise!Next
  <2>1. queue' = PrunedQueue /\ UNCHANGED <<ledger, members, lowValue>>
    BY <1>3 DEF PollPrune
  <2>2. QED
    BY <1>0, <1>1, <2>1, PruneAt, PruneSettles, AppliedKept
<1>4. ASSUME NEW s \in Slots, NEW x \in Rows, PollSingle(w, s, x) PROVE Promise!Next
  <2>1. \A r \in Rows : queue'[r] = IF r = x THEN Lease(queue[r], WorkerId[w])
                                    ELSE PrunedQueue[r]
    BY <1>0, <1>4, PruneAt DEF PollSingle
  <2>2. x \notin PruneTargets /\ UNCHANGED <<ledger, members, lowValue>>
    BY <1>4 DEF PollSingle, Leasable
  <2>3. \A e \in Singles : e \in PruneTargets => queue'[e] = ClosePruned(queue[e])
    BY <1>0, <2>1, <2>2, PruneAt
  <2>4. \A e \in Singles : e \notin PruneTargets => Fate(queue'[e]) = Fate(queue[e])
    <3>1. Fate(Lease(queue[x], WorkerId[w])) = Fate(queue[x])
      BY <1>0, FateOps
    <3>2. QED
      BY <1>0, <2>1, <3>1, PruneAt
  <2>5. QED
    BY <1>1, <2>2, <2>3, <2>4, PruneSettles, AppliedKept
<1>5. ASSUME NEW s \in Slots, NEW p \in Batches,
             NEW M \in SUBSET (Arrivals \cup Downstream), PollBatch(w, s, p, M)
      PROVE  Promise!Next
  <2>1. \A r \in Rows : queue'[r] = IF r = p THEN NewRow(WorkerId[w])
                                    ELSE IF r \in M THEN [queue[r] EXCEPT !.parent = p]
                                    ELSE PrunedQueue[r]
    BY <1>5 DEF PollBatch
  <2>2. /\ \A m \in M : m \notin PruneTargets
        /\ UNCHANGED <<ledger, lowValue>>
    BY <1>5 DEF PollBatch, BatchCandidates, Leasable
  <2>3. \A e \in Singles : e \in PruneTargets => queue'[e] = ClosePruned(queue[e])
    BY <1>0, <2>1, <2>2, PruneAt
  <2>4. ASSUME NEW e \in Singles, e \notin PruneTargets
        PROVE  Fate(queue'[e]) = Fate(queue[e])
    <3>1. e # p /\ queue[e] \in Row /\ PrunedQueue[e] = queue[e]
      BY <1>0, <2>4, PruneAt
    <3>2. Fate([queue[e] EXCEPT !.parent = p]) = Fate(queue[e])
      BY <3>1 DEF Fate, Row
    <3>3. QED
      BY <1>0, <2>1, <3>1, <3>2
  <2>5. AppliedEvents' = AppliedEvents
    <3>1. p \notin ledger /\ \A b \in Batches : b # p => members'[b] = members[b]
      BY <1>0, <1>5 DEF PollBatch, AppliedInv, Present, Exists
    <3>2. \A x \in ledger : Events(x)' = Events(x)
      BY <3>1 DEF Events, MembersOf
    <3>3. QED
      BY <2>2, <3>2 DEF AppliedEvents
  <2>6. QED
    BY <1>1, <2>2, <2>3, <2>4, <2>5, PruneSettles
<1>6. QED
  BY <1>2, <1>3, <1>4, <1>5 DEF Poll

(* A failure is not seen unless it is the last, which makes a dead letter. *)
LEMMA FailedRefines ==
  ASSUME IndInv, QuarantinedDead, NEW w \in Workers, NEW x \in Rows,
         NEW cap \in 1..MaxAttempts, NEW force \in BOOLEAN,
         MarkFailed(w, x, cap, force), UNCHANGED <<ledger, members, lowValue>>
  PROVE  Promise!Next \/ UNCHANGED Promise!vars
<1>0. queue \in [Rows -> Row] /\ AttemptsLeft
      /\ \A e \in Singles : e \in Rows /\ queue[e] \in Row
  BY DEF IndInv, TypeOK, Rows
<1>1. AppliedEvents' = AppliedEvents
  BY AppliedKept
<1>2. CASE queue' = queue
  BY <1>1, <1>2, QuietStep
<1>3. ASSUME IsOpen(x), NEW n \in 0..MaxAttempts, queue'[x] = Backoff(queue[x], n),
             \A y \in Rows : y # x => queue'[y] = queue[y]
      PROVE  UNCHANGED Promise!vars
  <2>1. Fate(queue'[x]) = "open" /\ Fate(queue[x]) = "open"
    BY <1>0, <1>3, FateFailed DEF IsOpen, Fate
  <2>2. \A e \in Singles : Fate(queue'[e]) = Fate(queue[e])
    BY <1>0, <1>3, <2>1
  <2>3. QED
    BY <1>1, <2>2, QuietStep
<1>4. ASSUME IsOpen(x), NEW n \in 0..MaxAttempts, queue'[x] = CloseDead(queue[x], n),
             \A y \in Rows : y # x =>
               queue'[y] = IF y \in Carried(x) THEN Unbundle(queue[y]) ELSE queue[y]
      PROVE  Promise!Next
  <2> DEFINE Dead == {x} \cap Singles
             Done == {}
  <2>1. queue[x].stage = "open" /\ ~queue[x].quarantined
    BY <1>4 DEF QuarantinedDead, DeadLettered, IsOpen, IsClosed
  <2>2. Fate(queue[x]) = "open" /\ Fate(queue'[x]) = "dead"
    BY <1>0, <1>4, <2>1, FateFailed DEF Fate
  <2>3. \A e \in Singles : e \in Carried(x) =>
          Fate(queue[e]) = "open" /\ Fate(Unbundle(queue[e])) = "open"
    <3> TAKE e \in Singles
    <3> HAVE e \in Carried(x)
    <3>1. queue[e].stage = "open" /\ queue[e] \in Row
      BY <1>0 DEF Carried, IsOpen
    <3>2. QED
      BY <3>1 DEF Fate, Unbundle, Unlock, Row
  <2>4. \A e \in Singles : Fate(queue'[e]) = IF e \in Done THEN "done"
                             ELSE IF e \in Dead THEN "dead" ELSE Fate(queue[e])
    BY <1>0, <1>4, <2>2, <2>3
  <2>5. \A e \in Done \cup Dead : Fate(queue[e]) = "open"
    BY <2>2
  <2>6. Done \in SUBSET Singles /\ Dead \in SUBSET Singles /\ Done \cap Dead = {}
        /\ Done \subseteq AppliedEvents \cup lowValue
    OBVIOUS
  <2> HIDE DEF Done, Dead
  <2>7. QED
    BY <1>1, <2>4, <2>5, <2>6, SettleStep
<1>5. \/ queue' = queue
      \/ /\ IsOpen(x)
         /\ \E n \in 0..MaxAttempts : queue'[x] = Backoff(queue[x], n)
         /\ \A y \in Rows : y # x => queue'[y] = queue[y]
      \/ /\ IsOpen(x)
         /\ \E n \in 0..MaxAttempts : queue'[x] = CloseDead(queue[x], n)
         /\ \A y \in Rows : y # x =>
              queue'[y] = IF y \in Carried(x) THEN Unbundle(queue[y]) ELSE queue[y]
  BY <1>0, MarkFailedAt
<1>6. QED
  BY <1>2, <1>3, <1>4, <1>5

(* A completion settles the events of a row that was applied. *)
LEMMA CompleteRefines ==
  ASSUME IndInv, NEW w \in Workers, NEW s \in Slots, Complete(w, s)
  PROVE  Promise!Next
<1> DEFINE x == task[w][s].row
           Done == {e \in Singles : (e = x /\ Owns(w, x)) \/ e \in Carried(x)}
           Dead == {}
<1>0. queue \in [Rows -> Row] /\ task \in TaskTable /\ WorkerId[w] # None
      /\ \A e \in Singles : e \in Rows /\ queue[e] \in Row
  BY ConstantsAssumption DEF IndInv, TypeOK, TaskTable, Rows
<1>1. /\ task[w][s].phase = "succeeded" /\ MarkComplete(w, x)
      /\ UNCHANGED <<ledger, members, lowValue>>
  BY DEF Complete
<1>2. x \in Rows /\ x \in ledger
  BY <1>0, <1>1, TaskAt DEF Phases, IndInv, TasksApplied
<1>3. \A y \in Rows : queue'[y] =
        IF (y = x /\ Owns(w, x)) \/ y \in Carried(x) THEN CloseClean(queue[y])
        ELSE queue[y]
  BY <1>0, <1>1, <1>2, MarkCompleteAt
<1> HIDE DEF x
<1>4. \A e \in Done : queue[e].stage = "open" /\ e \in AppliedEvents
  <2> TAKE e \in Done
  <2>1. e \in Rows /\ e \in Singles
    BY <1>0
  <2>2. queue[e].stage = "open"
    BY <1>0, <2>1 DEF Carried, IsOpen, Owns, IndInv, ClosedUnlocked
  <2>3. e \in Events(x)
    BY DEF Carried, Events
  <2>4. QED
    BY <1>2, <2>1, <2>2, <2>3 DEF AppliedEvents
<1>5. \A e \in Done \cup Dead : Fate(queue[e]) = "open"
  BY <1>4 DEF Fate
<1>6. \A e \in Singles : Fate(CloseClean(queue[e])) = "done"
  BY <1>0 DEF Fate, CloseClean, Unlock, Row
<1>7. \A e \in Singles : Fate(queue'[e]) = IF e \in Done THEN "done"
                           ELSE IF e \in Dead THEN "dead" ELSE Fate(queue[e])
  BY <1>0, <1>3, <1>6
<1>8. Done \in SUBSET Singles /\ Dead \in SUBSET Singles /\ Done \cap Dead = {}
      /\ Done \subseteq AppliedEvents \cup lowValue
  BY <1>4
<1> HIDE DEF Done, Dead
<1>9. AppliedEvents' = AppliedEvents
  BY <1>1, AppliedKept
<1>10. QED
  BY <1>1, <1>5, <1>7, <1>8, <1>9, SettleStep

(* A run applies the events of its row and submits what it enqueues. *)
LEMMA ApplyRefines ==
  ASSUME IndInv, Present, NEW w \in Workers, NEW s \in Slots,
         NEW D \in SUBSET Downstream, Apply(w, s, D)
  PROVE  Promise!Next
<1> DEFINE x == task[w][s].row
           S == Events(x) \cap Singles
<1>0. queue \in [Rows -> Row] /\ task \in TaskTable
      /\ members \in [Batches -> SUBSET Singles]
      /\ \A e \in Singles : e \in Rows /\ queue[e] \in Row
  BY DEF IndInv, TypeOK, TaskTable, Rows
<1>1. /\ task[w][s].phase = "running" /\ ledger' = ledger \cup {x}
      /\ \A d \in D : ~Exists(d)
      /\ \A y \in Rows : queue'[y] = IF y \in D THEN NewRow(None) ELSE queue[y]
      /\ UNCHANGED <<members, lowValue>>
  BY DEF Apply, Exists
<1>2. Exists(x) /\ \A m \in MembersOf(x) : Exists(m)
  <2>1. Busy(w, s)
    BY <1>1 DEF Busy, Idle
  <2>2. QED
    BY <2>1 DEF Present, MembersOf
<1> HIDE DEF x
<1>3. D \subseteq Singles /\ S \subseteq Singles
  BY DEF Singles
<1>4. \A d \in D : Fate(queue[d]) = "absent"
  BY <1>0, <1>1, <1>3, FateStage DEF Exists
<1>5. \A e \in S : Fate(queue[e]) # "absent"
  BY <1>0, <1>2, FateStage DEF Events, Exists
<1>6. \A e \in Singles : Fate(queue'[e]) = IF e \in D THEN "open" ELSE Fate(queue[e])
  BY <1>0, <1>1, NewRowMarks
<1>7. AppliedEvents' = AppliedEvents \cup S
  BY <1>1 DEF AppliedEvents, Events, MembersOf
<1> HIDE DEF S
<1>8. QED
  BY <1>1, <1>3, <1>4, <1>5, <1>6, <1>7, ApplyStep

LEMMA ProcessRefines ==
  ASSUME IndInv, AppliedInv, NEW w \in Workers, NEW s \in Slots, Process(w, s)
  PROVE  Promise!Next \/ UNCHANGED Promise!vars
<1> DEFINE x == task[w][s].row
<1>0. queue \in [Rows -> Row] /\ task \in TaskTable /\ WorkerId[w] \in Ids
      /\ \A e \in Singles : e \in Rows /\ queue[e] \in Row
  BY ConstantsAssumption DEF IndInv, TypeOK, TaskTable, Rows
<1>1. task[w][s].phase \in Phases => x \in Rows
  BY <1>0, TaskAt
<1>2. Present /\ QuarantinedDead
  BY DEF AppliedInv
<1> HIDE DEF x
<1>3. CASE Reject(w, s)
  <2>1. x \in Rows /\ MarkFailed(w, x, MaxAttempts, TRUE)
        /\ UNCHANGED <<ledger, members, lowValue>>
    BY <1>1, <1>3 DEF Reject, Phases, x
  <2>2. MaxAttempts \in 1..MaxAttempts
    BY ConstantsAssumption
  <2>3. QED
    BY <1>2, <2>1, <2>2, FailedRefines
<1>4. CASE Fail(w, s)
  <2>1. PICK cap \in {MaxAttempts, ValidationCap} : MarkFailed(w, x, cap, FALSE)
    BY <1>4 DEF Fail, x
  <2>2. x \in Rows /\ cap \in 1..MaxAttempts /\ UNCHANGED <<ledger, members, lowValue>>
    BY <1>1, <1>4, ConstantsAssumption DEF Fail, Phases
  <2>3. QED
    BY <1>2, <2>1, <2>2, FailedRefines
<1>5. CASE Defer(w, s) \/ Beat(w, s)
  <2>1. x \in Rows /\ UNCHANGED <<ledger, members, lowValue>>
    BY <1>1, <1>5 DEF Defer, Beat, Phases
  <2>2. \A e \in Singles :
          \/ queue'[e] = queue[e] \/ queue'[e] = Lease(queue[e], WorkerId[w])
          \/ queue'[e] = [Unlock(queue[e]) EXCEPT !.due = FALSE]
    BY <1>0, <1>5, <2>1 DEF Defer, Beat, x
  <2>3. \A e \in Singles : Fate(queue'[e]) = Fate(queue[e])
    <3> TAKE e \in Singles
    <3>1. /\ Fate(Lease(queue[e], WorkerId[w])) = Fate(queue[e])
          /\ Fate([Unlock(queue[e]) EXCEPT !.due = FALSE]) = Fate(queue[e])
      BY <1>0, FateOps
    <3>2. QED
      BY <2>2, <3>1
  <2>4. QED
    BY <2>1, <2>3, QuietStep, AppliedKept
<1>6. CASE \/ Begin(w, s) \/ SkipApplied(w, s) \/ Return(w, s) \/ RunFails(w, s)
           \/ LoseTask(w, s)
  <2>1. UNCHANGED <<queue, ledger, members, lowValue>>
    BY <1>6 DEF Begin, SkipApplied, Return, RunFails, LoseTask
  <2>2. QED
    BY <2>1, QuietStep, AppliedKept
<1>7. QED
  BY <1>2, <1>3, <1>4, <1>5, <1>6, CompleteRefines, ApplyRefines DEF Process

LEMMA EnvironmentRefines ==
  ASSUME IndInv, Environment
  PROVE  Promise!Next \/ UNCHANGED Promise!vars
<1>0. queue \in [Rows -> Row] /\ \A e \in Singles : e \in Rows /\ queue[e] \in Row
  BY DEF IndInv, TypeOK, Rows
<1>1. AppliedEvents' = AppliedEvents /\ lowValue' = lowValue
  <2>1. UNCHANGED <<ledger, members, lowValue>>
    BY DEF Environment, Expire, BackoffElapses, OperatorRetry, Quarantine
  <2>2. QED
    BY <2>1, AppliedKept
<1>2. ASSUME NEW x \in Rows, Expire(x) \/ BackoffElapses(x)
      PROVE  UNCHANGED Promise!vars
  <2>1. ASSUME NEW e \in Singles PROVE Fate(queue'[e]) = Fate(queue[e])
    <3>1. \/ queue'[e] = queue[e] \/ queue'[e] = [queue[e] EXCEPT !.expired = TRUE]
          \/ queue'[e] = [queue[e] EXCEPT !.due = TRUE]
      BY <1>0, <1>2 DEF Expire, BackoffElapses
    <3>2. QED
      BY <1>0, <3>1 DEF Fate, Row
  <2>2. QED
    BY <1>1, <2>1, QuietStep
<1>3. ASSUME NEW x \in Rows, OperatorRetry(x) \/ Quarantine(x)
      PROVE  Promise!Next \/ UNCHANGED Promise!vars
  <2>1. /\ queue[x].stage = "closed" /\ queue[x].error /\ ~queue[x].quarantined
        /\ \A y \in Rows : y # x => queue'[y] = queue[y]
        /\ \/ queue'[x] = Reset(queue[x])
           \/ queue'[x] = [queue[x] EXCEPT !.quarantined = TRUE]
    BY <1>0, <1>3 DEF OperatorRetry, Quarantine, DeadLettered, IsClosed, Reset
  <2>2. Fate(queue[x]) = "dead" /\ Fate(queue'[x]) \in {"open", "quarantined"}
    <3>1. Fate(queue[x]) = "dead"
      BY <2>1 DEF Fate
    <3>2. /\ Fate(Reset(queue[x])) = "open"
          /\ Fate([queue[x] EXCEPT !.quarantined = TRUE]) = "quarantined"
      BY <1>0, <2>1 DEF Fate, Reset, Unlock, Row
    <3>3. QED
      BY <2>1, <3>1, <3>2
  <2>3. CASE x \notin Singles
    <3>1. \A e \in Singles : Fate(queue'[e]) = Fate(queue[e])
      BY <1>0, <2>1, <2>3
    <3>2. QED
      BY <1>1, <3>1, QuietStep
  <2>4. CASE x \in Singles
    <3>1. \A e \in Singles :
            Fate(queue'[e]) = IF e = x THEN Fate(queue'[x]) ELSE Fate(queue[e])
      BY <1>0, <2>1
    <3>2. Promise!Operate(x, Fate(queue'[x]))
      BY <1>1, <2>2, <2>4, <3>1 DEF Promise!Operate, AppliedEvents
    <3>3. QED
      BY <2>2, <2>4, <3>2 DEF Promise!Next
  <2>5. QED
    BY <2>3, <2>4
<1>4. QED
  BY <1>2, <1>3 DEF Environment

(* Every step is a step of the inbox, or nothing to it. *)
LEMMA RefinementStep ==
  IndInv /\ AppliedInv /\ [Next]_vars => [Promise!Next]_(Promise!vars)
<1> SUFFICES ASSUME IndInv, AppliedInv, [Next]_vars
             PROVE  Promise!Next \/ UNCHANGED Promise!vars
  OBVIOUS
<1>0. queue \in [Rows -> Row] /\ \A e \in Singles : e \in Rows /\ queue[e] \in Row
  BY DEF IndInv, TypeOK, Rows
<1>1. CASE UNCHANGED vars
  BY <1>1, QuietStep, AppliedKept DEF vars
<1>2. CASE Produce
  <2>1. ASSUME NEW x \in Arrivals \cup Downstream, Enqueue(x) PROVE Promise!Next
    <3>1. /\ x \in Singles /\ ~Exists(x) /\ UNCHANGED <<ledger, members, lowValue>>
          /\ queue' = [queue EXCEPT ![x] = NewRow(None)]
      BY <2>1 DEF Enqueue, Exists, Singles
    <3>2. QED
      BY <3>1, SubmitStep
  <2>2. ASSUME NEW x \in Reevals, EnqueueReeval(x) PROVE UNCHANGED Promise!vars
    BY <2>2, QuietStep, AppliedKept DEF EnqueueReeval
  <2>3. ASSUME NEW x \in Downstream, Devalue(x) PROVE Promise!Next
    <3>1. /\ x \in Singles /\ lowValue' = lowValue \cup {x}
          /\ UNCHANGED <<queue, ledger, members>>
      BY <2>3 DEF Devalue, Singles
    <3>2. AppliedEvents' = AppliedEvents
      BY <3>1, AppliedKept
    <3>3. Promise!Devalue(x)
      BY <3>1, <3>2 DEF Promise!Devalue, AppliedEvents
    <3>4. QED
      BY <3>1, <3>3 DEF Promise!Next
  <2>4. QED
    BY <1>2, <2>1, <2>2, <2>3 DEF Produce
<1>3. ASSUME NEW w \in Workers, Lifecycle(w) PROVE UNCHANGED Promise!vars
  <2>1. UNCHANGED <<ledger, members, lowValue>>
        /\ \A e \in Singles : queue'[e] = queue[e] \/ queue'[e] = Unlock(queue[e])
    BY <1>0, <1>3 DEF Lifecycle, Crash, Shutdown, Drained, Restart
  <2>2. \A e \in Singles : Fate(Unlock(queue[e])) = Fate(queue[e])
    BY <1>0 DEF Fate, Unlock, Row
  <2>3. QED
    BY <2>1, <2>2, QuietStep, AppliedKept
<1>4. QED
  BY <1>1, <1>2, <1>3, PollRefines, ProcessRefines, EnvironmentRefines DEF Next

(***************************************************************************)
(* Producers may take the queue for an Inbox: a trigger they put in stays  *)
(* open until it was applied, needs no run or is a dead letter; completed  *)
(* and quarantined triggers are never re-opened, and nothing is applied    *)
(* that nobody put in.  Batches, leases, retries, crashes and duplicate    *)
(* dispatches only ever show as one of these steps.                        *)
(***************************************************************************)
THEOREM InboxRefinement == Spec => ImplementsInbox
<1>1. Init => Promise!Init
  <2> SUFFICES ASSUME Init PROVE Promise!Init
    OBVIOUS
  <2>1. \A e \in Singles : Fate(queue[e]) = "absent"
    BY DEF Init, Fate, NoRow, Rows
  <2>2. AppliedEvents = {} /\ lowValue = {}
    BY DEF Init, AppliedEvents
  <2>3. QED
    BY <2>1, <2>2 DEF Promise!Init, AppliedEvents
<1>2. QED
  BY <1>1, AppliedInvariance, RefinementStep, PTL DEF Spec, ImplementsInbox, Promise!Spec
=============================================================================
