-------------------------- MODULE ThinkLeaseProofs --------------------------
(***************************************************************************)
(* Leases exclude, for any number of rows, workers and slots: the proof    *)
(* that ThinkQueue's LeaseInv is inductive.  Every action but the two      *)
(* polls leaves the leases of the tasks that go on alone (LeasesKept); a   *)
(* poll only takes rows that no task has.                                  *)
(***************************************************************************)
EXTENDS ThinkQueueProofs

\* The task goes on or is new to nobody else: its row, parent, members and
\* lease are as they were, or the row is closed
KeepsLease(w, s) ==
  LET r == task[w][s].row IN
  /\ Busy(w, s) /\ task'[w][s].row = r /\ mode'[w] # "down"
  /\ queue'[r].stage # "absent" /\ queue'[r].parent = queue[r].parent
  /\ \A m \in MembersOf(r) : queue'[m].parent = queue[m].parent
  /\ queue'[r].stage = "open" =>
       /\ IsOpen(r) /\ queue'[r].lockedBy = queue[r].lockedBy
       /\ queue'[r].expired => queue[r].expired

\* Rows appear without a parent, and an open batch keeps its members hidden
KeepsHidden ==
  /\ \A r \in Rows : queue'[r].stage = "absent" =>
       queue[r].stage = "absent" /\ queue'[r].parent = queue[r].parent
  /\ \A p \in Batches : queue'[p].stage = "open" =>
       IsOpen(p) /\ \A m \in members[p] : queue'[m].parent = queue[m].parent

(* A step that lets every remaining task keep its lease keeps Leased. *)
LEMMA LeasesKept ==
  ASSUME IndInv, Leased, members' = members, KeepsHidden,
         \A w \in Workers, s \in Slots : Busy(w, s)' => KeepsLease(w, s)
  PROVE  Leased'
<1>1. MembersHidden'
  BY DEF Leased, MembersHidden, KeepsHidden, IsOpen
<1>2. OneTaskPerRow'
  BY DEF Leased, OneTaskPerRow, KeepsLease
<1>3. ASSUME NEW w \in Workers, NEW s \in Slots, Busy(w, s)'
      PROVE  mode'[w] # "down" /\ HoldsLease(w, s)'
  <2>1. KeepsLease(w, s) /\ HoldsLease(w, s)
    BY <1>3 DEF Leased, KeepsLease
  <2>2. QED
    BY <2>1 DEF KeepsLease, HoldsLease, MembersOf, Owns, IsOpen
<1>4. QED
  BY <1>1, <1>2, <1>3 DEF Leased

(* Rows whose parent, stage and lock do not change keep every lease. *)
LEMMA QueueKept ==
  ASSUME IndInv, Leased, members' = members,
         \A r \in Rows : /\ queue'[r].stage = queue[r].stage
                         /\ queue'[r].parent = queue[r].parent,
         \A w \in Workers, s \in Slots : Busy(w, s)' =>
           LET r == task[w][s].row IN
           /\ Busy(w, s) /\ task'[w][s].row = r /\ mode'[w] # "down"
           /\ IsOpen(r) => /\ queue'[r].lockedBy = queue[r].lockedBy
                           /\ queue'[r].expired => queue[r].expired
  PROVE  Leased'
<1>1. KeepsHidden
  BY DEF KeepsHidden, IsOpen, IndInv, TypeOK, Rows
<1>2. ASSUME NEW w \in Workers, NEW s \in Slots, Busy(w, s)'
      PROVE  KeepsLease(w, s)
  <2>1. Busy(w, s) /\ HoldsLease(w, s)
    BY <1>2 DEF Leased
  <2>2. task[w][s].row \in Rows
    BY <2>1 DEF Busy, IndInv, TypeOK, Task
  <2>3. MembersOf(task[w][s].row) \subseteq Rows
    BY <2>2 DEF MembersOf, IndInv, TypeOK, Rows
  <2>4. QED
    BY <1>2, <2>1, <2>2, <2>3 DEF KeepsLease, HoldsLease, IsOpen
<1>3. QED
  BY <1>1, <1>2, LeasesKept

(* What a busy slot holds. *)
LEMMA BusyTask ==
  ASSUME IndInv, Leased, NEW w \in Workers, NEW s \in Slots, Busy(w, s)
  PROVE  /\ task[w][s].row \in Rows /\ task[w][s].row # None
         /\ task[w][s].phase \in Phases
         /\ MembersOf(task[w][s].row) \subseteq Singles
         /\ mode[w] # "down" /\ HoldsLease(w, s)
<1>1. task[w][s] \in Task
  BY DEF Busy, IndInv, TypeOK
<1>2. task[w][s].row \in Rows /\ task[w][s].phase \in Phases
  BY <1>1 DEF Task
<1>3. MembersOf(task[w][s].row) \subseteq Singles
  BY <1>2 DEF MembersOf, IndInv, TypeOK
<1>4. QED
  BY <1>2, <1>3, ConstantsAssumption DEF Leased

-----------------------------------------------------------------------------
(* The actions that take no lease *)

(* New rows are nobody's: no task and no batch has a row that is absent. *)
LEMMA RowsAppear ==
  ASSUME IndInv, Leased, members' = members, NEW D \in SUBSET Singles,
         \A x \in D : queue[x].stage = "absent",
         \A x \in Rows : queue'[x] = IF x \in D THEN NewRow(None) ELSE queue[x],
         \A w \in Workers, s \in Slots : Busy(w, s)' =>
           Busy(w, s) /\ task'[w][s].row = task[w][s].row /\ mode'[w] = mode[w]
  PROVE  Leased'
<1>1. NewRow(None).stage = "open" /\ NewRow(None).parent = None
  BY NewRowFields
<1>2. \A x \in Rows : queue'[x].parent = queue[x].parent
  BY <1>1 DEF Leased, MembersHidden
<1>3. \A p \in Batches : p \in Rows /\ p \notin D /\ members[p] \subseteq Rows
  BY ConstantsAssumption DEF Rows, IndInv, TypeOK
<1>4. KeepsHidden
  BY <1>1, <1>2, <1>3 DEF KeepsHidden, IsOpen
<1>5. ASSUME NEW w \in Workers, NEW s \in Slots, Busy(w, s)'
      PROVE  KeepsLease(w, s)
  BY <1>2, <1>5, BusyTask DEF KeepsLease, HoldsLease, IsOpen, Rows
<1>6. QED
  BY <1>4, <1>5, LeasesKept

(* Producers. *)
LEMMA ProduceLeased ==
  ASSUME IndInv, Leased, Produce
  PROVE  Leased'
<1>1. ASSUME NEW x \in Arrivals \cup Downstream, Enqueue(x)
      PROVE  Leased'
  <2>1. {x} \in SUBSET Singles
    BY DEF Singles
  <2>2. /\ queue[x].stage = "absent"
        /\ queue' = [queue EXCEPT ![x] = NewRow(None)]
        /\ UNCHANGED <<members, task, mode>>
    BY <1>1 DEF Enqueue
  <2>3. \A r \in Rows : queue'[r] = IF r \in {x} THEN NewRow(None) ELSE queue[r]
    BY <2>2 DEF IndInv, TypeOK
  <2>4. \A w \in Workers, s \in Slots : Busy(w, s)' =>
          Busy(w, s) /\ task'[w][s].row = task[w][s].row /\ mode'[w] = mode[w]
    BY <2>2 DEF Busy
  <2>5. QED
    BY <2>1, <2>2, <2>3, <2>4, RowsAppear
<1>2. CASE \/ \E r \in Reevals : EnqueueReeval(r)
           \/ \E r \in Downstream : Devalue(r)
  <2>1. UNCHANGED <<queue, members, task, mode>>
    BY <1>2 DEF EnqueueReeval, Devalue
  <2>2. QED
    BY <2>1 DEF Leased, MembersHidden, OneTaskPerRow, HoldsLease, MembersOf, Busy,
                IsOpen, Owns
<1>3. QED
  BY <1>1, <1>2 DEF Produce

(* A promoted row is new: a pending request has no closed trigger. *)
LEMMA PromoteLeased ==
  ASSUME IndInv, Leased, NEW v \in Workers, NEW x \in Reevals, Promote(v, x)
  PROVE  Leased'
<1>1. {x} \in SUBSET Singles /\ x \in Rows
  BY DEF Singles, Rows
<1>2. /\ queue[x].stage = "absent"
      /\ queue' = [queue EXCEPT ![x] = NewRow(None)]
      /\ UNCHANGED <<members, task, mode>>
  BY <1>1 DEF Promote, IndInv, TypeOK, ReevalSettled, IsOpen, IsClosed, Row, Stages
<1>3. \A r \in Rows : queue'[r] = IF r \in {x} THEN NewRow(None) ELSE queue[r]
  BY <1>2 DEF IndInv, TypeOK
<1>4. \A w \in Workers, s \in Slots : Busy(w, s)' =>
        Busy(w, s) /\ task'[w][s].row = task[w][s].row /\ mode'[w] = mode[w]
  BY <1>2 DEF Busy
<1>5. QED
  BY <1>1, <1>2, <1>3, <1>4, RowsAppear

(* The pruner closes rows and leaves their members where they are. *)
LEMMA PruneLeased ==
  ASSUME IndInv, Leased, NEW v \in Workers, NEW t \in Slots, PollPrune(v, t)
  PROVE  Leased'
<1>1. queue' = PrunedQueue /\ UNCHANGED <<members, task, mode>>
  BY DEF PollPrune
<1>2. \A r \in Rows :
        /\ queue'[r].parent = queue[r].parent
        /\ queue'[r] = queue[r] \/ queue'[r].stage = "closed"
  BY <1>1, PruneAt, ClosePrunedFields DEF IndInv, TypeOK
<1>3. KeepsHidden
  <2>1. \A p \in Batches : p \in Rows /\ members[p] \subseteq Rows
    BY DEF Rows, IndInv, TypeOK
  <2>2. \A r \in Rows : queue'[r].stage # "closed" => queue'[r] = queue[r]
    BY <1>2
  <2>3. QED
    BY <1>2, <2>1, <2>2 DEF KeepsHidden, IsOpen
<1>4. ASSUME NEW w \in Workers, NEW s \in Slots, Busy(w, s)'
      PROVE  KeepsLease(w, s)
  <2>1. Busy(w, s) /\ task' = task /\ mode' = mode
    BY <1>1, <1>4 DEF Busy
  <2> DEFINE r == task[w][s].row
  <2>2. r \in Rows /\ MembersOf(r) \subseteq Rows /\ mode[w] # "down"
        /\ queue[r].stage # "absent"
    BY <2>1, BusyTask DEF Rows, HoldsLease
  <2>3. queue'[r] = queue[r] \/ queue'[r].stage = "closed"
    BY <1>2, <2>2
  <2> HIDE DEF r
  <2>4. QED
    BY <1>2, <2>1, <2>2, <2>3 DEF KeepsLease, IsOpen, r
<1>5. QED
  BY <1>1, <1>3, <1>4, LeasesKept

(* A failed task gives its row back, and its members if it is terminal. *)
LEMMA MarkFailedLeased ==
  ASSUME IndInv, Leased, NEW v \in Workers, NEW t \in Slots, Busy(v, t),
         NEW cap \in 1..MaxAttempts, NEW force \in BOOLEAN,
         MarkFailed(v, task[v][t].row, cap, force), SetTask(v, t, Idle),
         UNCHANGED <<members, mode>>
  PROVE  Leased'
<1> DEFINE r == task[v][t].row
<1>0. queue \in [Rows -> Row] /\ AttemptsLeft /\ task \in TaskTable
  BY DEF IndInv, TypeOK, TaskTable
<1>1. r \in Rows /\ r # None /\ queue[r].parent = None
  BY BusyTask DEF HoldsLease
<1>2. ASSUME NEW w \in Workers, NEW s \in Slots, Busy(w, s)'
      PROVE  Busy(w, s) /\ task'[w][s] = task[w][s] /\ task[w][s].row # r
  <2>1. w # v \/ s # t
    BY <1>0, <1>2, SetTaskAt DEF Busy
  <2>2. task'[w][s] = task[w][s]
    BY <1>0, <2>1, SetTaskAt
  <2>3. QED
    BY <1>2, <2>1, <2>2 DEF Busy, Leased, OneTaskPerRow
<1>3. MarkFailed(v, r, cap, force)
  OBVIOUS
<1> HIDE DEF r
<1>4. CASE queue' = queue
  BY <1>2, <1>4, QueueKept, BusyTask DEF IsOpen
<1>5. CASE /\ \E n \in 0..MaxAttempts : n < MaxAttempts /\ queue'[r] = Backoff(queue[r], n)
           /\ \A x \in Rows : x # r => queue'[x] = queue[x]
  <2>1. queue'[r].stage = queue[r].stage /\ queue'[r].parent = queue[r].parent
    BY <1>0, <1>1, <1>5, BackoffFields
  <2>2. \A x \in Rows : queue'[x].stage = queue[x].stage
                        /\ queue'[x].parent = queue[x].parent
    BY <1>5, <2>1
  <2>3. ASSUME NEW w \in Workers, NEW s \in Slots, Busy(w, s)'
        PROVE  /\ Busy(w, s) /\ task'[w][s].row = task[w][s].row /\ mode'[w] # "down"
               /\ queue'[task[w][s].row] = queue[task[w][s].row]
    BY <1>2, <1>5, <2>3, BusyTask
  <2>4. QED
    BY <2>2, <2>3, QueueKept
<1>6. CASE /\ \E n \in 0..MaxAttempts : queue'[r] = CloseDead(queue[r], n)
           /\ \A x \in Rows : x # r =>
                queue'[x] = IF x \in Carried(r) THEN Unbundle(queue[x]) ELSE queue[x]
  <2>1. queue'[r].stage = "closed" /\ queue'[r].parent = queue[r].parent
    BY <1>0, <1>1, <1>6, CloseDeadFields
  <2>2. \A x \in Rows : x # r => queue'[x].stage = queue[x].stage
    BY <1>0, <1>6, UnbundleFields
  <2>3. \A x \in Rows : queue[x].parent # r => queue'[x].parent = queue[x].parent
                        /\ (x # r => queue'[x] = queue[x])
    BY <1>6, <2>1 DEF Carried
  <2>4. KeepsHidden
    <3>1. \A x \in Rows : queue'[x].stage = "absent" =>
            queue[x].stage = "absent" /\ queue'[x].parent = queue[x].parent
      BY <1>1, <2>1, <2>2, <2>3 DEF Leased, MembersHidden
    <3>2. ASSUME NEW p \in Batches, queue'[p].stage = "open", NEW m \in members[p]
          PROVE  queue'[m].parent = queue[m].parent
      <4>1. p \in Rows /\ m \in Rows /\ p # r
        BY <2>1, <3>2 DEF Rows, IndInv, TypeOK
      <4>2. queue[m].parent = p
        BY <2>2, <3>2, <4>1 DEF Leased, MembersHidden, IsOpen
      <4>3. QED
        BY <2>3, <4>1, <4>2
    <3>3. \A p \in Batches : queue'[p].stage = "open" => IsOpen(p)
      BY <2>1, <2>2 DEF Rows, IsOpen
    <3>4. QED
      BY <3>1, <3>2, <3>3 DEF KeepsHidden
  <2>5. ASSUME NEW w \in Workers, NEW s \in Slots, Busy(w, s)'
        PROVE  KeepsLease(w, s)
    <3> DEFINE x == task[w][s].row
    <3>1. Busy(w, s) /\ task'[w][s].row = x /\ x # r
      BY <1>2, <2>5
    <3>2. /\ x \in Rows /\ mode[w] # "down" /\ queue[x].parent = None
          /\ queue[x].stage # "absent" /\ MembersOf(x) \subseteq Rows
          /\ \A m \in MembersOf(x) : queue[m].parent = x
      BY <3>1, BusyTask DEF HoldsLease, Rows
    <3>3. queue'[x] = queue[x]
      BY <1>1, <2>3, <3>1, <3>2
    <3>4. \A m \in MembersOf(x) : queue'[m].parent = queue[m].parent
      BY <2>3, <3>1, <3>2
    <3> HIDE DEF x
    <3>5. QED
      BY <3>1, <3>2, <3>3, <3>4 DEF KeepsLease, IsOpen, x
  <2>6. QED
    BY <2>4, <2>5, LeasesKept
<1>7. QED
  BY <1>0, <1>1, <1>3, <1>4, <1>5, <1>6, MarkFailedAt

(* A completed task closes rows; those of other tasks stay where they are. *)
LEMMA CompleteLeased ==
  ASSUME IndInv, Leased, NEW v \in Workers, NEW t \in Slots, Complete(v, t)
  PROVE  Leased'
<1> DEFINE r == task[v][t].row
<1>0. queue \in [Rows -> Row] /\ task \in TaskTable
  BY DEF IndInv, TypeOK, TaskTable
<1>1. r \in Rows
  BY <1>0, TaskAt DEF Complete, Phases
<1>2. MarkComplete(v, r) /\ SetTask(v, t, Idle) /\ UNCHANGED <<members, mode>>
  BY DEF Complete
<1> HIDE DEF r
<1>3. \A x \in Rows : queue'[x].parent = queue[x].parent
                      /\ (queue'[x].stage # "closed" => queue'[x] = queue[x])
  BY <1>0, <1>1, <1>2, MarkCompleteAt, CloseCleanFields
<1>4. KeepsHidden
  <2>1. \A p \in Batches : p \in Rows /\ members[p] \subseteq Rows
    BY DEF Rows, IndInv, TypeOK
  <2>2. QED
    BY <1>3, <2>1 DEF KeepsHidden, IsOpen
<1>5. ASSUME NEW w \in Workers, NEW s \in Slots, Busy(w, s)'
      PROVE  KeepsLease(w, s)
  <2> DEFINE x == task[w][s].row
  <2>1. Busy(w, s) /\ task'[w][s].row = x
    BY <1>0, <1>2, <1>5, SetTaskAt DEF Busy
  <2>2. x \in Rows /\ MembersOf(x) \subseteq Rows /\ mode[w] # "down"
        /\ queue[x].stage # "absent"
    BY <2>1, BusyTask DEF Rows, HoldsLease
  <2> HIDE DEF x
  <2>3. QED
    BY <1>2, <1>3, <2>1, <2>2 DEF KeepsLease, IsOpen, x
<1>6. QED
  BY <1>2, <1>4, <1>5, LeasesKept

(* A dispatched task gives up its own lease and nobody else's. *)
LEMMA ProcessLeased ==
  ASSUME IndInv, Leased, NEW v \in Workers, NEW t \in Slots, Process(v, t)
  PROVE  Leased'
<1> DEFINE r == task[v][t].row
<1>0. queue \in [Rows -> Row] /\ task \in TaskTable
  BY DEF IndInv, TypeOK, TaskTable
<1>1. MaxAttempts \in 1..MaxAttempts /\ ValidationCap \in 1..MaxAttempts
  BY ConstantsAssumption
<1>2. task[v][t].phase \in Phases => Busy(v, t) /\ r \in Rows
  BY <1>0, TaskAt DEF Busy, Idle, Phases
<1>3. CASE Reject(v, t)
  <2>1. Busy(v, t)
    BY <1>2, <1>3 DEF Reject, Phases
  <2>2. QED
    BY <1>1, <1>3, <2>1, MarkFailedLeased DEF Reject
<1>4. CASE Fail(v, t)
  <2>1. Busy(v, t)
    BY <1>2, <1>4 DEF Fail, Phases
  <2>2. PICK cap \in {MaxAttempts, ValidationCap} : MarkFailed(v, r, cap, FALSE)
    BY <1>4 DEF Fail
  <2>3. QED
    BY <1>1, <1>4, <2>1, <2>2, MarkFailedLeased DEF Fail
<1>5. CASE Complete(v, t)
  BY <1>5, CompleteLeased
<1>6. ASSUME NEW p \in Phases, task[v][t].phase \in Phases, SetPhase(v, t, p)
      PROVE  \A w \in Workers, s \in Slots : Busy(w, s)' =>
               Busy(w, s) /\ task'[w][s].row = task[w][s].row
  BY <1>0, <1>2, <1>6, SetPhaseAt DEF Busy
<1>7. ASSUME NEW D \in SUBSET Downstream, Apply(v, t, D)
      PROVE  Leased'
  <2>1. D \in SUBSET Singles
    BY DEF Singles
  <2>2. \A x \in D : queue[x].stage = "absent"
    BY <1>7 DEF Apply
  <2>3. \A x \in Rows : queue'[x] = IF x \in D THEN NewRow(None) ELSE queue[x]
    BY <1>7 DEF Apply
  <2>4. UNCHANGED <<members, mode>> /\ SetPhase(v, t, "committed")
        /\ task[v][t].phase \in Phases
    BY <1>7 DEF Apply, Phases
  <2>5. "committed" \in Phases
    BY DEF Phases
  <2>6. \A w \in Workers, s \in Slots : Busy(w, s)' =>
          Busy(w, s) /\ task'[w][s].row = task[w][s].row
    BY <1>6, <2>4, <2>5
  <2>7. QED
    BY <2>1, <2>2, <2>3, <2>4, <2>6, RowsAppear
<1>8. CASE Begin(v, t) \/ SkipApplied(v, t) \/ Return(v, t) \/ RunFails(v, t)
  <2>1. UNCHANGED <<queue, members, mode>> /\ task[v][t].phase \in Phases
        /\ \E p \in Phases : SetPhase(v, t, p)
    BY <1>8 DEF Begin, SkipApplied, Return, RunFails, Phases
  <2>2. \A w \in Workers, s \in Slots : Busy(w, s)' =>
          Busy(w, s) /\ task'[w][s].row = task[w][s].row /\ mode'[w] # "down"
    BY <1>6, <2>1, BusyTask
  <2>3. QED
    BY <2>1, <2>2, QueueKept
<1>9. CASE Beat(v, t)
  <2>1. /\ r \in Rows /\ UNCHANGED <<members, task, mode>>
        /\ queue' = [queue EXCEPT ![r] = Lease(queue[r], WorkerId[v])]
        /\ queue[r].lockedBy = WorkerId[v]
    BY <1>2, <1>9 DEF Beat, Phases, Owns
  <2>2. WorkerId[v] \in Ids
    BY ConstantsAssumption
  <2> HIDE DEF r
  <2>3. \A x \in Rows : /\ queue'[x].stage = queue[x].stage
                        /\ queue'[x].parent = queue[x].parent
                        /\ queue'[x].lockedBy = queue[x].lockedBy
                        /\ queue'[x].expired => queue[x].expired
    BY <1>0, <2>1, <2>2, LeaseFields
  <2>4. \A w \in Workers, s \in Slots : Busy(w, s)' =>
          Busy(w, s) /\ task[w][s].row \in Rows /\ mode[w] # "down"
    BY <2>1, BusyTask DEF Busy
  <2>5. QED
    BY <2>1, <2>3, <2>4, QueueKept
<1>10. CASE Defer(v, t) \/ LoseTask(v, t)
  <2>1. /\ Busy(v, t) /\ r \in Rows /\ UNCHANGED <<members, mode>>
        /\ SetTask(v, t, Idle)
        /\ \/ queue' = queue
           \/ queue' = [queue EXCEPT ![r] = [Unlock(queue[r]) EXCEPT !.due = FALSE]]
    BY <1>2, <1>10 DEF Defer, LoseTask, Phases
  <2>2. ASSUME NEW w \in Workers, NEW s \in Slots, Busy(w, s)'
        PROVE  /\ Busy(w, s) /\ task'[w][s].row = task[w][s].row
               /\ task[w][s].row # r /\ task[w][s].row \in Rows /\ mode'[w] # "down"
    <3>1. w # v \/ s # t
      BY <1>0, <2>1, <2>2, SetTaskAt DEF Busy
    <3>2. task'[w][s] = task[w][s]
      BY <1>0, <2>1, <3>1, SetTaskAt
    <3>3. Busy(w, s) /\ task[w][s].row # r
      BY <2>1, <2>2, <3>1, <3>2 DEF Busy, Leased, OneTaskPerRow
    <3>4. QED
      BY <2>1, <3>2, <3>3, BusyTask
  <2> HIDE DEF r
  <2>3. CASE queue' = queue
    BY <2>1, <2>2, <2>3, QueueKept
  <2>4. CASE queue' = [queue EXCEPT ![r] = [Unlock(queue[r]) EXCEPT !.due = FALSE]]
    <3> DEFINE q == [Unlock(queue[r]) EXCEPT !.due = FALSE]
    <3>1. q.stage = queue[r].stage /\ q.parent = queue[r].parent
      BY <1>0, <2>1, DeferFields
    <3>2. queue' = [queue EXCEPT ![r] = q]
      BY <2>4
    <3> HIDE DEF q
    <3>3. \A x \in Rows : /\ queue'[x].stage = queue[x].stage
                          /\ queue'[x].parent = queue[x].parent
                          /\ x # r => queue'[x] = queue[x]
      BY <1>0, <2>1, <3>1, <3>2
    <3>4. QED
      BY <2>1, <2>2, <3>3, QueueKept
  <2>5. QED
    BY <2>1, <2>3, <2>4
<1>11. QED
  BY <1>3, <1>4, <1>5, <1>7, <1>8, <1>9, <1>10 DEF Process

(* Time and the operator, as long as neither disturbs a lease. *)
LEMMA EnvironmentLeased ==
  ASSUME IndInv, Leased, Environment, spent'["expiries"] = 0, retried' = {}
  PROVE  Leased'
<1>0. queue \in [Rows -> Row] /\ spent \in [Bounds -> Nat]
  BY DEF IndInv, TypeOK
<1>1. ASSUME NEW x \in Rows, Expire(x)
      PROVE  Leased'
  <2>1. ~LiveTask(x)
    BY <1>0, <1>1 DEF Expire, Spend, Bounds
  <2>2. queue' = [queue EXCEPT ![x].expired = TRUE] /\ UNCHANGED <<members, task, mode>>
    BY <1>1 DEF Expire
  <2>3. \A y \in Rows : /\ queue'[y].stage = queue[y].stage
                        /\ queue'[y].parent = queue[y].parent
                        /\ y # x => queue'[y] = queue[y]
    BY <1>0, <2>2 DEF Row
  <2>4. ASSUME NEW w \in Workers, NEW s \in Slots, Busy(w, s)'
        PROVE  /\ Busy(w, s) /\ mode[w] # "down" /\ task[w][s].row \in Rows
               /\ IsOpen(task[w][s].row) => task[w][s].row # x
    BY <2>1, <2>2, <2>4, BusyTask DEF Busy, HoldsLease, LiveTask
  <2>5. QED
    BY <2>2, <2>3, <2>4, QueueKept
<1>2. ASSUME NEW x \in Rows, BackoffElapses(x) \/ Quarantine(x)
      PROVE  Leased'
  <2>1. /\ UNCHANGED <<members, task, mode>>
        /\ \/ queue' = [queue EXCEPT ![x].due = TRUE]
           \/ queue' = [queue EXCEPT ![x].quarantined = TRUE]
    BY <1>2 DEF BackoffElapses, Quarantine
  <2>2. \A y \in Rows : /\ queue'[y].stage = queue[y].stage
                        /\ queue'[y].parent = queue[y].parent
                        /\ queue'[y].lockedBy = queue[y].lockedBy
                        /\ queue'[y].expired = queue[y].expired
    BY <1>0, <2>1 DEF Row
  <2>3. \A w \in Workers, s \in Slots : Busy(w, s)' =>
          Busy(w, s) /\ task[w][s].row \in Rows /\ mode[w] # "down"
    BY <2>1, BusyTask DEF Busy
  <2>4. QED
    BY <2>1, <2>2, <2>3, QueueKept
<1>3. ASSUME NEW x \in Rows, OperatorRetry(x)
      PROVE  Leased'
  BY <1>3 DEF OperatorRetry
<1>4. QED
  BY <1>1, <1>2, <1>3 DEF Environment

(* A restarted process recovers locks of its own id, or expired ones: a live *)
(* task has neither.                                                         *)
LEMMA LifecycleLeased ==
  ASSUME IndInv, Leased, DistinctIds, NEW v \in Workers, Lifecycle(v)
  PROVE  Leased'
<1>0. queue \in [Rows -> Row] /\ task \in TaskTable
      /\ mode \in [Workers -> {"up", "draining", "down"}]
  BY DEF IndInv, TypeOK, TaskTable
<1>1. CASE Crash(v)
  <2>1. UNCHANGED <<queue, members>> /\ mode' = [mode EXCEPT ![v] = "down"]
        /\ task' = [task EXCEPT ![v] = [s \in Slots |-> Idle]]
    BY <1>1 DEF Crash
  <2>2. \A w \in Workers, s \in Slots : Busy(w, s)' =>
          Busy(w, s) /\ task'[w][s] = task[w][s] /\ w # v /\ mode[w] # "down"
    BY <1>0, <2>1, BusyTask DEF Busy, TaskTable
  <2>3. QED
    BY <1>0, <2>1, <2>2, QueueKept
<1>2. CASE Shutdown(v) \/ Drained(v)
  <2>1. /\ UNCHANGED <<queue, members, task>>
        /\ \/ mode' = [mode EXCEPT ![v] = "draining"]
           \/ mode' = [mode EXCEPT ![v] = "down"] /\ \A s \in Slots : ~Busy(v, s)
    BY <1>2 DEF Shutdown, Drained, Busy
  <2>2. \A w \in Workers, s \in Slots : Busy(w, s)' => Busy(w, s) /\ mode'[w] # "down"
    BY <1>0, <2>1, BusyTask DEF Busy
  <2>3. QED
    BY <2>1, <2>2, QueueKept
<1>3. ASSUME NEW recovers \in BOOLEAN, Restart(v, recovers)
      PROVE  Leased'
  <2>1. /\ UNCHANGED <<members, task>> /\ mode[v] = "down"
        /\ mode' = [mode EXCEPT ![v] = "up"]
        /\ \A x \in Rows : queue'[x] =
             IF recovers /\ IsOpen(x) /\ (Owns(v, x) \/ queue[x].expired)
             THEN Unlock(queue[x]) ELSE queue[x]
    BY <1>3 DEF Restart
  <2>2. \A x \in Rows : /\ queue'[x].stage = queue[x].stage
                        /\ queue'[x].parent = queue[x].parent
    BY <1>0, <2>1, UnlockFields
  <2>3. ASSUME NEW w \in Workers, NEW s \in Slots, Busy(w, s)'
        PROVE  /\ Busy(w, s) /\ mode'[w] # "down"
               /\ IsOpen(task[w][s].row) => queue'[task[w][s].row] = queue[task[w][s].row]
    <3>1. Busy(w, s) /\ w # v /\ mode'[w] # "down"
      BY <1>0, <2>1, <2>3, BusyTask DEF Busy
    <3>2. WorkerId[w] # WorkerId[v]
      BY <3>1 DEF DistinctIds
    <3>3. QED
      BY <2>1, <3>1, <3>2, BusyTask DEF HoldsLease, Owns
  <2>4. QED
    BY <2>1, <2>2, <2>3, QueueKept
<1>4. QED
  BY <1>1, <1>2, <1>3 DEF Lifecycle

-----------------------------------------------------------------------------
(* The polls *)

(* A row the poll may take is nobody's row and nobody's member. *)
LEMMA LeasableIsFree ==
  ASSUME IndInv, Leased, NEW x \in Rows, Leasable(x)
  PROVE  \A w \in Workers, s \in Slots : Busy(w, s) =>
           task[w][s].row # x /\ x \notin MembersOf(task[w][s].row)
<1> SUFFICES ASSUME NEW w \in Workers, NEW s \in Slots, Busy(w, s)
             PROVE  task[w][s].row # x /\ x \notin MembersOf(task[w][s].row)
  OBVIOUS
<1>1. IsOpen(x) /\ queue[x].parent = None /\ (queue[x].lockedBy = None \/ queue[x].expired)
  BY DEF Leasable
<1>2. HoldsLease(w, s) /\ task[w][s].row # None
  BY BusyTask
<1>3. WorkerId[w] # None
  BY ConstantsAssumption
<1>4. QED
  BY <1>1, <1>2, <1>3 DEF HoldsLease, Owns

(* A new task takes a free row; the leases of the others are kept. *)
LEMMA SingleLeased ==
  ASSUME IndInv, Leased, NEW v \in Workers, NEW t \in Slots, NEW x \in Rows,
         PollSingle(v, t, x)
  PROVE  Leased'
<1>0. queue \in [Rows -> Row] /\ task \in TaskTable /\ WorkerId[v] \in Ids
      /\ members \in [Batches -> SUBSET Singles]
  BY ConstantsAssumption DEF IndInv, TypeOK, TaskTable
<1>1. /\ Leasable(x) /\ IsOpen(x) /\ x \notin PruneTargets
      /\ queue[x].parent = None /\ mode[v] = "up" /\ UNCHANGED <<members, mode>>
  BY DEF PollSingle, Leasable, CanPoll
<1>2. /\ queue'[x].lockedBy = WorkerId[v] /\ ~queue'[x].expired
      /\ queue'[x].stage = "open" /\ queue'[x].parent = None
  <2>1. queue'[x] = Lease(queue[x], WorkerId[v])
    BY <1>0, PruneAt DEF PollSingle
  <2>2. QED
    BY <1>0, <1>1, <2>1, LeaseFields DEF IsOpen
<1>3. \A r \in Rows : r # x =>
        /\ queue'[r].parent = queue[r].parent
        /\ queue'[r].stage # "closed" => queue'[r] = queue[r]
  <2>1. \A r \in Rows : r # x => queue'[r] =
          IF r \in PruneTargets THEN ClosePruned(queue[r]) ELSE queue[r]
    BY <1>0, PruneAt DEF PollSingle
  <2>2. QED
    BY <1>0, <2>1, ClosePrunedFields
<1>4. /\ task'[v][t].row = x
      /\ \A w \in Workers, s \in Slots :
           w # v \/ s # t => task'[w][s] = task[w][s]
  <2> DEFINE n == [row |-> x, phase |-> "queued"]
  <2>1. n \in Task \cup {Idle} /\ n.row = x
    BY DEF Task, Phases
  <2>2. SetTask(v, t, n)
    BY DEF PollSingle
  <2> HIDE DEF n
  <2>3. QED
    BY <1>0, <2>1, <2>2, SetTaskAt
<1>5. \A p \in Batches : p \in Rows /\ members[p] \subseteq Rows
  BY <1>0 DEF Rows
<1>6. \A r \in Rows : queue'[r].parent = queue[r].parent
  BY <1>1, <1>2, <1>3
<1>7. MembersHidden'
  BY <1>1, <1>2, <1>3, <1>5, <1>6 DEF Leased, MembersHidden, IsOpen
<1>8. ASSUME NEW w \in Workers, NEW s \in Slots, Busy(w, s)', w # v \/ s # t
      PROVE  /\ task'[w][s] = task[w][s] /\ Busy(w, s) /\ task[w][s].row # x
             /\ mode'[w] # "down" /\ HoldsLease(w, s)'
  <2>1. task'[w][s] = task[w][s] /\ Busy(w, s) /\ task[w][s].row # x
    BY <1>1, <1>4, <1>8, LeasableIsFree DEF Busy
  <2>2. /\ task[w][s].row \in Rows /\ MembersOf(task[w][s].row) \subseteq Rows
        /\ mode[w] # "down" /\ HoldsLease(w, s)
    BY <2>1, BusyTask DEF Rows
  <2>3. HoldsLease(w, s)'
    BY <1>1, <1>3, <1>6, <2>1, <2>2 DEF HoldsLease, MembersOf, IsOpen, Owns
  <2>4. QED
    BY <1>1, <2>1, <2>2, <2>3
<1>9. HoldsLease(v, t)'
  <2>1. ASSUME NEW m \in MembersOf(x) PROVE queue'[m].parent = x
    BY <1>1, <1>5, <1>6 DEF MembersOf, Leased, MembersHidden
  <2>2. QED
    BY <1>1, <1>2, <1>4, <2>1 DEF HoldsLease, MembersOf, IsOpen, Owns
<1>10. OneTaskPerRow'
  BY <1>4, <1>8 DEF OneTaskPerRow, Leased
<1>11. QED
  BY <1>1, <1>7, <1>8, <1>9, <1>10 DEF Leased

(* A new batch hides free rows; nobody had them or the batch row. *)
LEMMA BatchLeased ==
  ASSUME IndInv, Leased, NEW v \in Workers, NEW t \in Slots, NEW p \in Batches,
         NEW M \in SUBSET (Arrivals \cup Downstream), PollBatch(v, t, p, M)
  PROVE  Leased'
<1>0. queue \in [Rows -> Row] /\ task \in TaskTable /\ WorkerId[v] \in Ids
      /\ members \in [Batches -> SUBSET Singles]
  BY ConstantsAssumption DEF IndInv, TypeOK, TaskTable
<1>1. p \in Rows /\ M \subseteq Rows /\ M \subseteq Singles /\ p \notin M /\ p # None
      /\ \A b \in Batches : b \in Rows /\ b \notin Singles /\ members[b] \subseteq Rows
  BY <1>0, ConstantsAssumption DEF Rows, Singles
<1>2. /\ queue[p].stage = "absent" /\ mode[v] = "up" /\ UNCHANGED mode
      /\ \A m \in M : Leasable(m) /\ IsOpen(m) /\ queue[m].parent = None
  BY DEF PollBatch, CanPoll, BatchCandidates, Leasable
<1>3. /\ queue'[p].lockedBy = WorkerId[v] /\ ~queue'[p].expired
      /\ queue'[p].stage = "open" /\ queue'[p].parent = None
  <2>1. queue'[p] = NewRow(WorkerId[v])
    BY <1>1 DEF PollBatch
  <2>2. QED
    BY <1>0, <2>1, NewRowFields
<1>4. \A m \in M : queue'[m].parent = p /\ queue'[m].stage = "open"
  <2> TAKE m \in M
  <2>1. m \in Rows /\ queue[m] \in Row /\ queue[m].stage = "open"
    BY <1>0, <1>1, <1>2 DEF IsOpen
  <2>2. queue'[m] = [queue[m] EXCEPT !.parent = p]
    BY <1>1, <2>1 DEF PollBatch
  <2>3. QED
    BY <2>1, <2>2 DEF Row
<1>5. \A r \in Rows : r # p /\ r \notin M =>
        /\ queue'[r].parent = queue[r].parent
        /\ queue'[r].stage # "closed" => queue'[r] = queue[r]
  <2>1. \A r \in Rows : r # p /\ r \notin M => queue'[r] = PrunedQueue[r]
    BY DEF PollBatch
  <2>2. QED
    BY <1>0, <2>1, PruneAt, ClosePrunedFields
<1>6. members'[p] = M /\ \A b \in Batches : b # p => members'[b] = members[b]
  BY <1>0 DEF PollBatch
<1>7. /\ task'[v][t].row = p
      /\ \A w \in Workers, s \in Slots :
           w # v \/ s # t => task'[w][s] = task[w][s]
  <2> DEFINE n == [row |-> p, phase |-> "queued"]
  <2>1. n \in Task \cup {Idle} /\ n.row = p
    BY <1>1 DEF Task, Phases
  <2>2. SetTask(v, t, n)
    BY DEF PollBatch
  <2> HIDE DEF n
  <2>3. QED
    BY <1>0, <2>1, <2>2, SetTaskAt
<1>8. MembersHidden'
  <2>1. \A r \in Rows : queue'[r].stage = "absent" => queue'[r].parent = None
    BY <1>3, <1>4, <1>5 DEF Leased, MembersHidden
  <2>2. ASSUME NEW b \in Batches, queue'[b].stage = "open", NEW m \in members'[b]
        PROVE  queue'[m].parent = b
    <3>1. CASE b = p
      BY <1>4, <1>6, <2>2, <3>1
    <3>2. CASE b # p
      <4>1. IsOpen(b) /\ m \in members[b] /\ m \in Rows
        BY <1>1, <1>5, <1>6, <2>2, <3>2 DEF IsOpen
      <4>2. queue[m].parent = b /\ m \in Singles
        BY <1>0, <4>1 DEF Leased, MembersHidden
      <4>3. m \notin M /\ m # p
        BY <1>1, <1>2, <4>2, ConstantsAssumption
      <4>4. QED
        BY <1>5, <4>1, <4>2, <4>3
    <3>3. QED
      BY <3>1, <3>2
  <2>3. QED
    BY <2>1, <2>2 DEF MembersHidden, IsOpen
<1>9. ASSUME NEW w \in Workers, NEW s \in Slots, Busy(w, s)', w # v \/ s # t
      PROVE  /\ task'[w][s] = task[w][s] /\ Busy(w, s) /\ task[w][s].row # p
             /\ mode'[w] # "down" /\ HoldsLease(w, s)'
  <2> DEFINE r == task[w][s].row
  <2>1. task'[w][s] = task[w][s] /\ Busy(w, s)
    BY <1>7, <1>9 DEF Busy
  <2>2. /\ r \in Rows /\ MembersOf(r) \subseteq Singles
        /\ mode[w] # "down" /\ HoldsLease(w, s)
    BY <2>1, BusyTask
  <2>3. r # p
    BY <1>2, <2>2 DEF HoldsLease
  <2>4. r \notin M /\ MembersOf(r) \cap M = {} /\ p \notin MembersOf(r)
    BY <1>1, <1>2, <2>1, <2>2, LeasableIsFree
  <2>5. MembersOf(r)' = MembersOf(r)
    BY <1>6, <2>1, <2>3 DEF MembersOf
  <2>6. /\ queue'[r].parent = None /\ queue'[r].stage # "absent"
        /\ queue'[r].stage = "open" => queue'[r] = queue[r]
    BY <1>5, <2>2, <2>3, <2>4 DEF HoldsLease
  <2>7. \A m \in MembersOf(r) : queue'[m].parent = r
    BY <1>5, <2>2, <2>4 DEF HoldsLease, Rows
  <2>8. HoldsLease(w, s)'
    BY <2>1, <2>2, <2>5, <2>6, <2>7 DEF HoldsLease, IsOpen, Owns
  <2>9. QED
    BY <1>2, <2>1, <2>2, <2>3, <2>8
<1>10. HoldsLease(v, t)'
  <2>1. MembersOf(p)' = M
    BY <1>6 DEF MembersOf
  <2>2. QED
    BY <1>3, <1>4, <1>7, <2>1 DEF HoldsLease, MembersOf, IsOpen, Owns
<1>11. OneTaskPerRow'
  BY <1>7, <1>9 DEF OneTaskPerRow, Leased
<1>12. QED
  BY <1>2, <1>8, <1>9, <1>10, <1>11 DEF Leased

-----------------------------------------------------------------------------
(* The invariant *)

(* What disturbs a lease is never undone. *)
LEMMA UndisturbedBefore ==
  ASSUME IndInv, Next, Undisturbed'
  PROVE  Undisturbed
<1>0. spent \in [Bounds -> Nat] /\ "expiries" \in Bounds
  BY DEF IndInv, TypeOK, Bounds
<1>1. \A m : \A b \in Bounds : Spend(b, m) =>
        spent["expiries"] <= spent'["expiries"] /\ spent'["expiries"] \in Nat
  BY <1>0 DEF Spend
<1>2. retried \subseteq retried'
      /\ (spent' = spent \/ \E m : \E b \in Bounds : Spend(b, m))
  <2>1. CASE Produce
    BY <2>1 DEF Produce, Enqueue, EnqueueReeval, Devalue
  <2>2. CASE Environment
    BY <2>2 DEF Environment, Expire, BackoffElapses, OperatorRetry, Quarantine, Bounds
  <2>3. ASSUME NEW w \in Workers, Poll(w) \/ Lifecycle(w)
        PROVE  retried' = retried
               /\ (spent' = spent \/ \E m : \E b \in Bounds : Spend(b, m))
    BY <2>3 DEF Poll, Promote, PollPrune, PollSingle, PollBatch, Lifecycle, Crash,
                Shutdown, Drained, Restart, Bounds
  <2>4. ASSUME NEW w \in Workers, NEW s \in Slots, Process(w, s)
        PROVE  retried' = retried
               /\ (spent' = spent \/ \E m : \E b \in Bounds : Spend(b, m))
    BY <2>4 DEF Process, Reject, Defer, Begin, Beat, Apply, SkipApplied, Return,
                RunFails, Complete, Fail, LoseTask, Bounds
  <2>5. QED
    BY <2>1, <2>2, <2>3, <2>4 DEF Next
<1>3. spent'["expiries"] = 0 => spent["expiries"] = 0
  BY <1>0, <1>1, <1>2
<1>4. QED
  BY <1>2, <1>3 DEF Undisturbed, DistinctIds

(* Nobody has a task at first. *)
LEMMA LeaseInvInit == Init => LeaseInv
<1> SUFFICES ASSUME Init PROVE Leased
  BY DEF LeaseInv
<1>1. \A w \in Workers, s \in Slots : ~Busy(w, s)
  BY DEF Init, Busy
<1>2. \A r \in Rows : queue[r].stage = "absent" /\ queue[r].parent = None
  BY NewRowFields DEF Init
<1>3. MembersHidden
  BY <1>2 DEF MembersHidden, IsOpen, Rows
<1>4. QED
  BY <1>1, <1>3 DEF Leased, OneTaskPerRow

(* Every step keeps the leases of the tasks that go on. *)
LEMMA LeaseInvStep == IndInv /\ LeaseInv /\ [Next]_vars => LeaseInv'
<1> SUFFICES ASSUME IndInv, LeaseInv, [Next]_vars, Undisturbed' PROVE Leased'
  BY DEF LeaseInv
<1>1. CASE UNCHANGED vars
  BY <1>1 DEF vars, LeaseInv, Undisturbed, DistinctIds, Leased, MembersHidden,
              OneTaskPerRow, HoldsLease, MembersOf, Busy, IsOpen, Owns
<1>2. CASE Next
  <2>1. Leased /\ DistinctIds /\ spent'["expiries"] = 0 /\ retried' = {}
    BY <1>2, UndisturbedBefore DEF LeaseInv, Undisturbed, DistinctIds
  <2>2. ASSUME NEW w \in Workers, Poll(w) PROVE Leased'
    BY <2>1, <2>2, PromoteLeased, PruneLeased, SingleLeased, BatchLeased DEF Poll
  <2>3. QED
    BY <1>2, <2>1, <2>2, ProduceLeased, LifecycleLeased, ProcessLeased,
       EnvironmentLeased DEF Next
<1>3. QED
  BY <1>1, <1>2

(* An event is in one task's row or members only. *)
LEMMA LeasedExcludes == IndInv /\ LeaseInv => LeasesExclude
<1> SUFFICES ASSUME IndInv, Leased, NEW v \in Workers, NEW w \in Workers,
                    NEW s \in Slots, NEW t \in Slots, Busy(v, s), Busy(w, t),
                    NEW e \in Events(task[v][s].row) \cap Events(task[w][t].row)
             PROVE  v = w /\ s = t
  BY DEF LeaseInv, LeasesExclude
<1> DEFINE r == task[v][s].row
           x == task[w][t].row
<1>1. /\ r # None /\ queue[r].parent = None /\ \A m \in MembersOf(r) : queue[m].parent = r
      /\ x # None /\ queue[x].parent = None /\ \A m \in MembersOf(x) : queue[m].parent = x
  BY BusyTask DEF HoldsLease
<1>2. (e = r \/ e \in MembersOf(r)) /\ (e = x \/ e \in MembersOf(x))
  BY DEF Events
<1> HIDE DEF r, x
<1>3. r = x
  BY <1>1, <1>2
<1>4. QED
  BY <1>3 DEF Leased, OneTaskPerRow, r, x

(***************************************************************************)
(* Leases exclude: as long as no live task outlives its lease, worker ids  *)
(* are distinct and no operator re-opens a row, no event is worked on by   *)
(* two tasks at once, directly or through a batch, for any number of       *)
(* workers and through any crashes, shutdowns and startup recoveries.      *)
(***************************************************************************)
THEOREM ExclusiveLeases == Spec => []LeasesExclude
<1>1. Spec => []IndInv
  BY Invariance
<1>2. Spec => []LeaseInv
  BY <1>1, LeaseInvInit, LeaseInvStep, PTL DEF Spec
<1>3. QED
  BY <1>1, <1>2, LeasedExcludes, PTL
=============================================================================
