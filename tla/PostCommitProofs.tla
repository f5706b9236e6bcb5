-------------------------- MODULE PostCommitProofs --------------------------
(***************************************************************************)
(* Proofs about PostCommit for every number of triggers, kinds, workers,   *)
(* attempts and every batch size: the retry budget, exactly-once delivery  *)
(* and the refinement of Outbox.                                           *)
(***************************************************************************)
EXTENDS PostCommit, TLAPS

-----------------------------------------------------------------------------
(* Type correctness *)

(* The initial state satisfies the inductive invariant: nothing is recorded. *)
LEMMA IndInvInit == Init => IndInv
  <1> SUFFICES ASSUME Init PROVE IndInv
    OBVIOUS
  <1>1. TypeOK
    BY ConstantsAssumption DEF Init, TypeOK, Row, Stages, Closed
  <1>2. Unrecorded /\ PendingHasAttempts /\ BatchesApart
    BY DEF Init, Unrecorded, PendingHasAttempts, BatchesApart, Held, Closed
  <1>3. DeliveredExactlyOnce
    BY DEF Init, DeliveredExactlyOnce, Promise!DeliveredIffDone
  <1> QED
    BY <1>1, <1>2, <1>3 DEF IndInv

(* A failed attempt yields a row again, within the cap: increment_attempts *)
(* and move_to_dead_letter.                                                *)
LEMMA FailedRow ==
  ASSUME NEW q \in Row, q.attempts < MaxAttempts
  PROVE  /\ Failed(q) \in Row
         /\ Failed(q).stage \in {"pending", "dead"}
         /\ Failed(q).stage = "pending" => Failed(q).attempts < MaxAttempts
<1> DEFINE n == q.attempts + 1
           stage == IF n >= MaxAttempts THEN "dead" ELSE "pending"
<1>1. n \in 0..MaxAttempts /\ MaxAttempts \in Nat
  BY ConstantsAssumption DEF Row
<1>2. stage \in Stages /\ stage \in {"pending", "dead"}
      /\ (stage = "pending" => n < MaxAttempts)
  BY <1>1 DEF Stages
<1>3. Failed(q) = [q EXCEPT !.attempts = n, !.due = FALSE, !.stage = stage]
  BY DEF Failed
<1> HIDE DEF n, stage
<1>4. Failed(q) \in Row /\ Failed(q).stage = stage /\ Failed(q).attempts = n
  BY <1>1, <1>2, <1>3 DEF Row
<1> QED
  BY <1>2, <1>4

(* What the other updates do to the row they touch: the gateway's retry    *)
(* and quarantine, and the passing of time.                                *)
LEMMA TouchedRow ==
  ASSUME TypeOK, NEW a \in Actions, NEW b \in Actions,
         BackoffElapses(a) \/ OperatorRetry(a) \/ Quarantine(a)
  PROVE  /\ row'[b] \in Row
         /\ b # a => row'[b] = row[b]
         /\ \/ row'[b].stage = row[b].stage /\ row'[b].attempts = row[b].attempts
            \/ b = a /\ row[b].stage = "dead" /\ row'[b].stage = "pending"
               /\ row'[b].attempts = 0
<1>1. 0 \in 0..MaxAttempts
  BY ConstantsAssumption
<1>2. row \in [Actions -> Row]
  BY DEF TypeOK
<1>3. CASE BackoffElapses(a)
  BY <1>2, <1>3 DEF BackoffElapses, Row
<1>4. CASE OperatorRetry(a)
  BY <1>1, <1>2, <1>4 DEF OperatorRetry, Row, Stages
<1>5. CASE Quarantine(a)
  BY <1>2, <1>5 DEF Quarantine, Row
<1> QED
  BY <1>3, <1>4, <1>5

(* What the end of process_batch does to each row. *)
LEMMA CommitRow ==
  ASSUME TypeOK, BatchesApart, NEW w \in Workers, Commit(w), NEW a \in Actions
  PROVE  /\ a \in tx[w].ok => row'[a] = [row[a] EXCEPT !.stage = "done"]
         /\ a \in tx[w].failed => row'[a] = Failed(row[a])
         /\ a \notin tx[w].ok \cup tx[w].failed => row'[a] = row[a]
         /\ delivered'[a] = IF a \in tx[w].ok \cup tx[w].kept
                            THEN delivered[a] + 1 ELSE delivered[a]
  BY DEF Commit, BatchesApart, TypeOK

Tx == [todo : SUBSET Actions, ok : SUBSET Actions, failed : SUBSET Actions,
       kept : SUBSET Actions]

(* What a handler that returns does to its batch. *)
LEMMA ReturnedFields ==
  ASSUME NEW x \in Tx, NEW a \in Actions
  PROVE  /\ Returned(x, a) \in Tx
         /\ Returned(x, a).todo = x.todo \ {a}
         /\ Returned(x, a).ok = x.ok \cup {a}
         /\ Returned(x, a).failed = x.failed
         /\ Returned(x, a).kept = x.kept
<1>1. x.todo \ {a} \in SUBSET Actions /\ x.ok \cup {a} \in SUBSET Actions
  BY DEF Tx
<1> QED
  BY <1>1 DEF Returned, Tx

(* What a handler that raises does to its batch. *)
LEMMA RaisedFields ==
  ASSUME NEW x \in Tx, NEW a \in Actions, NEW kept \in SUBSET Actions
  PROVE  /\ Raised(x, a, kept) \in Tx
         /\ Raised(x, a, kept).todo = x.todo \ {a}
         /\ Raised(x, a, kept).ok = x.ok
         /\ Raised(x, a, kept).failed = x.failed \cup {a}
         /\ Raised(x, a, kept).kept = x.kept \cup kept
<1>1. /\ x.todo \ {a} \in SUBSET Actions /\ x.failed \cup {a} \in SUBSET Actions
      /\ x.kept \cup kept \in SUBSET Actions
  BY DEF Tx
<1> QED
  BY <1>1 DEF Raised, Tx

(* The same for the batch of the worker, the others being left alone. *)
LEMMA HandlerTx ==
  ASSUME TypeOK, NEW w \in Workers, NEW a \in Actions, NEW partial \in BOOLEAN,
         HandlerReturns(w, a) \/ HandlerRaises(w, a, partial)
  PROVE  /\ tx' \in [Workers -> Tx]
         /\ \A v \in Workers : v # w => tx'[v] = tx[v]
         /\ a \in tx[w].todo
         /\ \/ tx'[w] = Returned(tx[w], a)
            \/ \E kept \in SUBSET ({a} \cap (Triggers \X Stepwise)) :
                 tx'[w] = Raised(tx[w], a, kept)
<1>0. tx \in [Workers -> Tx]
  BY DEF TypeOK, Tx
<1>1. CASE HandlerReturns(w, a)
  BY <1>0, <1>1, ReturnedFields DEF HandlerReturns
<1>2. CASE HandlerRaises(w, a, partial)
  <2> DEFINE kept == IF partial THEN {a} ELSE {}
  <2>1. kept \in SUBSET ({a} \cap (Triggers \X Stepwise)) /\ kept \in SUBSET Actions
    BY <1>2 DEF HandlerRaises, Actions
  <2>2. a \in tx[w].todo /\ tx' = [tx EXCEPT ![w] = Raised(@, a, kept)]
    BY <1>2 DEF HandlerRaises
  <2> HIDE DEF kept
  <2> QED
    BY <1>0, <2>1, <2>2, RaisedFields
<1> QED
  BY <1>1, <1>2

(* Every step keeps the rows and the open batches well-formed. *)
LEMMA TypeStep == IndInv /\ [Next]_vars => TypeOK'
  <1> SUFFICES ASSUME IndInv, [Next]_vars PROVE TypeOK'
    OBVIOUS
  <1> USE DEF IndInv
  <1>1. ASSUME NEW t \in Triggers, NEW K \in SUBSET Kinds, Enqueue(t, K)
        PROVE  TypeOK'
    BY <1>1 DEF Enqueue, TypeOK, Row, Stages
  <1>2. ASSUME NEW w \in Workers, NEW B \in SUBSET Actions, Fetch(w, B)
        PROVE  TypeOK'
    BY <1>2 DEF Fetch, TypeOK, Closed
  <1>3. ASSUME NEW w \in Workers, NEW a \in Actions,
               HandlerReturns(w, a) \/ HandlerAborts(w, a)
                 \/ \E partial \in BOOLEAN : HandlerRaises(w, a, partial)
        PROVE  TypeOK'
    <2>1. CASE HandlerReturns(w, a)
      BY <2>1, HandlerTx DEF HandlerReturns, TypeOK, Tx
    <2>2. CASE HandlerAborts(w, a)
      BY <2>2 DEF HandlerAborts, TypeOK, Closed, Spend, Bounds
    <2>3. ASSUME NEW partial \in BOOLEAN, HandlerRaises(w, a, partial)
          PROVE  TypeOK'
      BY <2>3, HandlerTx DEF HandlerRaises, TypeOK, Tx
    <2> QED
      BY <1>3, <2>1, <2>2, <2>3
  <1>4. ASSUME NEW w \in Workers, Commit(w) PROVE TypeOK'
    <2>1. \A a \in Actions : row'[a] \in Row
      <3> SUFFICES ASSUME NEW a \in Actions PROVE row'[a] \in Row
        OBVIOUS
      <3>1. row[a] \in Row
        BY DEF TypeOK
      <3>2. CASE a \in tx[w].failed
        <4>1. row[a].attempts < MaxAttempts
          BY <3>2 DEF BatchesApart, PendingHasAttempts, Held
        <4> QED
          BY <1>4, <3>1, <3>2, <4>1, CommitRow, FailedRow
      <3>3. CASE a \in tx[w].ok
        BY <1>4, <3>1, <3>3, CommitRow DEF Row, Stages
      <3> QED
        BY <1>4, <3>1, <3>2, <3>3, CommitRow
    <2>2. row' \in [Actions -> Row]
      BY <1>4, <2>1 DEF Commit
    <2>3. delivered' \in [Actions -> Nat]
      BY <1>4 DEF Commit, TypeOK
    <2>4. tx' \in [Workers -> [todo : SUBSET Actions, ok : SUBSET Actions,
                               failed : SUBSET Actions, kept : SUBSET Actions]]
      BY <1>4 DEF Commit, TypeOK, Closed
    <2> QED
      BY <1>4, <2>2, <2>3, <2>4 DEF TypeOK, Commit
  <1>5. ASSUME NEW w \in Workers, Crash(w) PROVE TypeOK'
    BY <1>5 DEF Crash, Spend, TypeOK, Closed, Bounds
  <1>6. ASSUME NEW a \in Actions,
               BackoffElapses(a) \/ OperatorRetry(a) \/ Quarantine(a)
        PROVE  TypeOK'
    <2>1. row' \in [Actions -> Row]
      BY <1>6, TouchedRow DEF BackoffElapses, OperatorRetry, Quarantine, TypeOK
    <2>2. spent' \in [Bounds -> Nat]
      BY <1>6 DEF BackoffElapses, OperatorRetry, Quarantine, Spend, TypeOK, Bounds
    <2> QED
      BY <1>6, <2>1, <2>2 DEF BackoffElapses, OperatorRetry, Quarantine, TypeOK
  <1>7. CASE UNCHANGED vars
    BY <1>7 DEF vars, TypeOK
  <1> QED
    BY <1>1, <1>2, <1>3, <1>4, <1>5, <1>6, <1>7 DEF Next

-----------------------------------------------------------------------------
(* The retry budget *)

(* No step leaves a pending row without an attempt. *)
LEMMA BudgetStep == IndInv /\ [Next]_vars => PendingHasAttempts'
  <1> SUFFICES ASSUME IndInv, [Next]_vars, NEW b \in Actions,
                      row'[b].stage = "pending"
               PROVE  row'[b].attempts < MaxAttempts
    BY DEF PendingHasAttempts
  <1> USE DEF IndInv
  <1>0. row[b] \in Row /\ (row[b].stage = "pending" => row[b].attempts < MaxAttempts)
    BY DEF TypeOK, PendingHasAttempts
  <1>1. CASE row' = row
    BY <1>0, <1>1
  <1>2. ASSUME NEW t \in Triggers, NEW K \in SUBSET Kinds, Enqueue(t, K)
        PROVE  row'[b].attempts < MaxAttempts
    <2>1. row'[b] = row[b] \/ (row[b].stage = "none" /\ row'[b].attempts = row[b].attempts)
      BY <1>0, <1>2 DEF Enqueue, Row
    <2>2. row[b].stage = "none" => row[b].attempts = 0
      BY DEF Unrecorded
    <2> QED
      BY <1>0, <2>1, <2>2, ConstantsAssumption
  <1>3. ASSUME NEW w \in Workers, Commit(w) PROVE row'[b].attempts < MaxAttempts
    <2>1. CASE b \in tx[w].failed
      <3>1. row[b].attempts < MaxAttempts
        BY <2>1 DEF BatchesApart, PendingHasAttempts, Held
      <3> QED
        BY <1>0, <1>3, <2>1, <3>1, CommitRow, FailedRow
    <2>2. CASE b \in tx[w].ok
      BY <1>0, <1>3, <2>2, CommitRow DEF Row
    <2> QED
      BY <1>0, <1>3, <2>1, <2>2, CommitRow
  <1>4. ASSUME NEW a \in Actions,
               BackoffElapses(a) \/ OperatorRetry(a) \/ Quarantine(a)
        PROVE  row'[b].attempts < MaxAttempts
    <2>1. 0 < MaxAttempts
      BY ConstantsAssumption
    <2> QED
      BY <1>0, <1>4, <2>1, TouchedRow
  <1> QED
    BY <1>1, <1>2, <1>3, <1>4
    DEF Next, vars, Fetch, HandlerReturns, HandlerRaises, HandlerAborts, Crash

(* No step brings a row that was never recorded an attempt. *)
LEMMA UnrecordedStep == IndInv /\ [Next]_vars => Unrecorded'
  <1> SUFFICES ASSUME IndInv, [Next]_vars, NEW b \in Actions,
                      row'[b].stage = "none"
               PROVE  row'[b].attempts = 0
    BY DEF Unrecorded
  <1> USE DEF IndInv
  <1>0. row[b] \in Row /\ (row[b].stage = "none" => row[b].attempts = 0)
    BY DEF TypeOK, Unrecorded
  <1>1. CASE row' = row
    BY <1>0, <1>1
  <1>2. ASSUME NEW t \in Triggers, NEW K \in SUBSET Kinds, Enqueue(t, K)
        PROVE  row'[b].attempts = 0
    BY <1>0, <1>2 DEF Enqueue, Row
  <1>3. ASSUME NEW w \in Workers, Commit(w) PROVE row'[b].attempts = 0
    <2>1. CASE b \in tx[w].failed
      <3>1. row[b].attempts < MaxAttempts
        BY <2>1 DEF BatchesApart, PendingHasAttempts, Held
      <3> QED
        BY <1>0, <1>3, <2>1, <3>1, CommitRow, FailedRow
    <2>2. CASE b \in tx[w].ok
      BY <1>0, <1>3, <2>2, CommitRow DEF Row
    <2> QED
      BY <1>0, <1>3, <2>1, <2>2, CommitRow
  <1>4. ASSUME NEW a \in Actions,
               BackoffElapses(a) \/ OperatorRetry(a) \/ Quarantine(a)
        PROVE  row'[b].attempts = 0
    BY <1>0, <1>4, TouchedRow
  <1> QED
    BY <1>1, <1>2, <1>3, <1>4
    DEF Next, vars, Fetch, HandlerReturns, HandlerRaises, HandlerAborts, Crash

-----------------------------------------------------------------------------
(* Batches *)

(* One open batch: what BatchesApart says of a single worker. *)
Sorted(x) ==
  /\ x.todo \cap (x.ok \cup x.failed) = {}
  /\ x.ok \cap x.failed = {}
  /\ x.kept \subseteq x.failed
  /\ x.kept \subseteq Triggers \X Stepwise

(* A step that gives no batch a new row and no held row a new stage keeps  *)
(* the batches apart.                                                      *)
LEMMA ApartShrinks ==
  ASSUME BatchesApart,
         \A w \in Workers : Held(w)' \subseteq Held(w) /\ Sorted(tx'[w]),
         \A w \in Workers, a \in Actions :
           a \in Held(w)' => row'[a].stage = row[a].stage
  PROVE  BatchesApart'
  BY DEF BatchesApart, Sorted

(* Every step keeps the batches apart: SKIP LOCKED, and a commit that      *)
(* closes the batch with the rows it settles.                              *)
LEMMA ApartStep == IndInv /\ [Next]_vars => BatchesApart'
  <1> SUFFICES ASSUME IndInv, [Next]_vars PROVE BatchesApart'
    OBVIOUS
  <1> USE DEF IndInv
  <1>0. \A w \in Workers : Sorted(tx[w])
    BY DEF BatchesApart, Sorted
  <1>c. Sorted(Closed)
    BY DEF Sorted, Closed
  <1>1. ASSUME NEW t \in Triggers, NEW K \in SUBSET Kinds, Enqueue(t, K)
        PROVE  BatchesApart'
    <2>1. \A a \in Actions : row[a].stage = "pending" => row'[a] = row[a]
      BY <1>1 DEF Enqueue
    <2> QED
      BY <1>0, <1>1, <2>1, ApartShrinks DEF Enqueue, Held, BatchesApart
  <1>2. ASSUME NEW w \in Workers, NEW B \in SUBSET Actions, Fetch(w, B)
        PROVE  BatchesApart'
    <2>1. /\ tx'[w] = [Closed EXCEPT !.todo = B]
          /\ \A v \in Workers : v # w => tx'[v] = tx[v]
      BY <1>2 DEF Fetch, TypeOK
    <2>2. Held(w)' = B /\ \A v \in Workers : v # w => Held(v)' = Held(v)
      BY <2>1 DEF Held, Closed
    <2>3. \A a \in B : row[a].stage = "pending" /\ \A v \in Workers : a \notin Held(v)
      BY <1>2 DEF Fetch, Eligible, Free
    <2>4. \A v \in Workers : Sorted(tx'[v])
      BY <1>0, <2>1 DEF Sorted, Closed
    <2>5. row' = row
      BY <1>2 DEF Fetch
    <2> QED
      BY <2>2, <2>3, <2>4, <2>5 DEF BatchesApart, Sorted
  <1>3. ASSUME NEW w \in Workers, NEW a \in Actions, NEW partial \in BOOLEAN,
               HandlerReturns(w, a) \/ HandlerRaises(w, a, partial)
        PROVE  BatchesApart'
    <2>1. tx[w] \in Tx /\ tx[w].todo \in SUBSET Actions
      BY DEF TypeOK, Tx
    <2>2. \A v \in Workers : Held(v)' \subseteq Held(v) /\ Sorted(tx'[v])
      <3>1. CASE tx'[w] = Returned(tx[w], a)
        BY <1>0, <1>3, <2>1, <3>1, HandlerTx, ReturnedFields DEF Held, Sorted
      <3>2. ASSUME NEW kept \in SUBSET ({a} \cap (Triggers \X Stepwise)),
                   tx'[w] = Raised(tx[w], a, kept)
            PROVE  \A v \in Workers : Held(v)' \subseteq Held(v) /\ Sorted(tx'[v])
        <4>1. kept \in SUBSET Actions
          BY ConstantsAssumption DEF Actions
        <4> QED
          BY <1>0, <1>3, <2>1, <3>2, <4>1, HandlerTx, RaisedFields DEF Held, Sorted
      <3> QED
        BY <1>3, <3>1, <3>2, HandlerTx
    <2>3. row' = row
      BY <1>3 DEF HandlerReturns, HandlerRaises
    <2> QED
      BY <2>2, <2>3, ApartShrinks
  <1>4. ASSUME NEW w \in Workers,
               Crash(w) \/ \E a \in Actions : HandlerAborts(w, a)
        PROVE  BatchesApart'
    <2>1. tx'[w] = Closed /\ row' = row /\ \A v \in Workers : v # w => tx'[v] = tx[v]
      BY <1>4 DEF Crash, HandlerAborts, TypeOK
    <2> QED
      BY <1>0, <1>c, <2>1, ApartShrinks DEF Held, Closed
  <1>5. ASSUME NEW w \in Workers, Commit(w) PROVE BatchesApart'
    <2>1. tx'[w] = Closed /\ \A v \in Workers : v # w => tx'[v] = tx[v]
      BY <1>5 DEF Commit, TypeOK
    <2>2. \A v \in Workers : Held(v)' \subseteq Held(v) /\ Sorted(tx'[v])
      BY <1>0, <1>c, <2>1 DEF Held, Closed
    <2>3. ASSUME NEW v \in Workers, NEW a \in Actions, a \in Held(v)'
          PROVE  row'[a].stage = row[a].stage
      <3>1. v # w /\ a \in Held(v)
        BY <2>1, <2>2, <2>3 DEF Held, Closed
      <3>2. a \notin Held(w)
        BY <3>1 DEF BatchesApart
      <3> QED
        BY <1>5, <3>2, CommitRow DEF Held
    <2> QED
      BY <2>2, <2>3, ApartShrinks
  <1>6. ASSUME NEW a \in Actions,
               BackoffElapses(a) \/ OperatorRetry(a) \/ Quarantine(a)
        PROVE  BatchesApart'
    <2>1. tx' = tx
      BY <1>6 DEF BackoffElapses, OperatorRetry, Quarantine
    <2>2. \A b \in Actions : row[b].stage = "pending" => row'[b].stage = "pending"
      BY <1>6, TouchedRow
    <2> QED
      BY <1>0, <2>1, <2>2, ApartShrinks DEF Held, BatchesApart
  <1>7. CASE UNCHANGED vars
    BY <1>7 DEF vars, BatchesApart, Held
  <1> QED
    BY <1>1, <1>2, <1>3, <1>4, <1>5, <1>6, <1>7 DEF Next

-----------------------------------------------------------------------------
(* Delivery *)

(* What DeliveredExactlyOnce says of one action. *)
Once(a) ==
  /\ a[2] \notin Stepwise =>
       delivered[a] = IF row[a].stage = "done" THEN 1 ELSE 0
  /\ row[a].stage = "done" => delivered[a] > 0

(* Once is DeliveredExactlyOnce, action by action. *)
LEMMA OnceEach == DeliveredExactlyOnce <=> \A a \in Actions : Once(a)
<1>1. \A a \in Actions :
        /\ [b \in Actions |-> row[b].stage][a] = row[a].stage
        /\ a \in Triggers \X (Kinds \ Stepwise) <=> a[2] \notin Stepwise
  BY DEF Actions
<1> QED
  BY <1>1 DEF DeliveredExactlyOnce, Promise!DeliveredIffDone, Once

(* A batch that commits delivers what it marks, and what a failed          *)
(* stepwise handler left behind; nothing else touches a delivery.          *)
LEMMA OnceStep == IndInv /\ [Next]_vars => \A a \in Actions : Once(a)'
  <1> SUFFICES ASSUME IndInv, [Next]_vars, NEW b \in Actions PROVE Once(b)'
    OBVIOUS
  <1>0. Once(b) /\ row[b] \in Row /\ delivered[b] \in Nat
    BY OnceEach DEF IndInv, TypeOK
  <1>1. CASE row' = row /\ delivered' = delivered
    BY <1>0, <1>1 DEF Once
  <1>2. ASSUME NEW t \in Triggers, NEW K \in SUBSET Kinds, Enqueue(t, K)
        PROVE  Once(b)'
    <2>1. row'[b] = row[b] \/ (row[b].stage = "none" /\ row'[b].stage = "pending")
      BY <1>0, <1>2 DEF Enqueue, Row
    <2> QED
      BY <1>0, <1>2, <2>1 DEF Enqueue, Once
  <1>3. ASSUME NEW w \in Workers, Commit(w) PROVE Once(b)'
    <2>0. TypeOK /\ BatchesApart
      BY DEF IndInv
    <2>1. CASE b \in tx[w].ok
      <3>1. row[b].stage = "pending"
        BY <2>0, <2>1 DEF BatchesApart, Held
      <3>2. row'[b].stage = "done" /\ delivered'[b] = delivered[b] + 1
        BY <1>0, <1>3, <2>0, <2>1, CommitRow DEF Row
      <3> QED
        BY <1>0, <3>1, <3>2 DEF Once
    <2>2. CASE b \in tx[w].failed
      <3>1. row[b].stage = "pending" /\ row[b].attempts < MaxAttempts
        BY <2>2 DEF IndInv, BatchesApart, PendingHasAttempts, Held
      <3>2. row'[b].stage \in {"pending", "dead"}
        BY <1>0, <1>3, <2>0, <2>2, <3>1, CommitRow, FailedRow
      <3>3. b[2] \notin Stepwise => delivered'[b] = delivered[b]
        <4>1. b \notin tx[w].ok /\ (b \in tx[w].kept => b \in Triggers \X Stepwise)
          BY <2>0, <2>2 DEF BatchesApart
        <4> QED
          BY <1>3, <2>0, <4>1, CommitRow
      <3> QED
        BY <1>0, <3>1, <3>2, <3>3 DEF Once
    <2>3. CASE b \notin tx[w].ok \cup tx[w].failed
      <3>1. b \notin tx[w].kept
        BY <2>0, <2>3 DEF BatchesApart
      <3> QED
        BY <1>0, <1>3, <2>0, <2>3, <3>1, CommitRow DEF Once
    <2> QED
      BY <2>1, <2>2, <2>3
  <1>4. ASSUME NEW a \in Actions,
               BackoffElapses(a) \/ OperatorRetry(a) \/ Quarantine(a)
        PROVE  Once(b)'
    <2>1. delivered' = delivered
      BY <1>4 DEF BackoffElapses, OperatorRetry, Quarantine
    <2>2. row'[b].stage = "done" <=> row[b].stage = "done"
      BY <1>4, TouchedRow DEF IndInv
    <2> QED
      BY <1>0, <2>1, <2>2 DEF Once
  <1> QED
    BY <1>1, <1>2, <1>3, <1>4
    DEF Next, vars, Fetch, HandlerReturns, HandlerRaises, HandlerAborts, Crash

-----------------------------------------------------------------------------
(* The theorems *)

(* The inductive invariant is kept by every step. *)
LEMMA IndInvStep == IndInv /\ [Next]_vars => IndInv'
<1>1. (\A a \in Actions : Once(a)') => DeliveredExactlyOnce'
  <2>1. \A a \in Actions :
          /\ [b \in Actions |-> row'[b].stage][a] = row'[a].stage
          /\ a \in Triggers \X (Kinds \ Stepwise) <=> a[2] \notin Stepwise
    BY DEF Actions
  <2> QED
    BY <2>1 DEF DeliveredExactlyOnce, Promise!DeliveredIffDone, Once
<1> QED
  BY <1>1, TypeStep, UnrecordedStep, BudgetStep, ApartStep, OnceStep DEF IndInv

(* The inductive invariant holds in every reachable state. *)
LEMMA Invariance == Spec => []IndInv
  BY IndInvInit, IndInvStep, PTL DEF Spec

(* The rows and the open batches of post_commit.py are always well-formed. *)
THEOREM TypeCorrect == Spec => []TypeOK
<1>1. IndInv => TypeOK
  BY DEF IndInv
<1> QED
  BY <1>1, Invariance, PTL

(* The retry budget of process_batch is exact: an action that a worker may *)
(* still dispatch has been dispatched fewer than MAX_ATTEMPTS times.       *)
THEOREM RetryBudget == Spec => []PendingHasAttempts
<1>1. IndInv => PendingHasAttempts
  BY DEF IndInv
<1> QED
  BY <1>1, Invariance, PTL

(* Effects and marks agree: whatever crashes, retries and workers there    *)
(* are, an action of an atomic kind has taken effect exactly once if its   *)
(* row is processed and never otherwise.                                   *)
THEOREM ExactlyOnce == Spec => []DeliveredExactlyOnce
<1>1. IndInv => DeliveredExactlyOnce
  BY DEF IndInv
<1> QED
  BY <1>1, Invariance, PTL

-----------------------------------------------------------------------------
(* The refinement *)

(* Recording: the actions of one apply transaction become pending. *)
LEMMA EnqueueRecords ==
  ASSUME IndInv, NEW t \in Triggers, NEW K \in SUBSET Kinds, Enqueue(t, K)
  PROVE  Promise!Next
<1> DEFINE new == {a \in {t} \X (K \cup {Always}) : row[a].stage = "none"}
<1>1. new \in SUBSET Actions
  BY ConstantsAssumption DEF Actions
<1>2. \A a \in Actions : row[a] \in Row
  BY DEF IndInv, TypeOK
<1>3. row' = [a \in Actions |-> IF a \in new THEN [row[a] EXCEPT !.stage = "pending"]
                                ELSE row[a]]
  BY DEF Enqueue
<1>4. \A a \in Actions : row'[a].stage = IF a \in new THEN "pending" ELSE row[a].stage
  BY <1>2, <1>3 DEF Row
<1>5. \A a \in new : row[a].stage = "none"
  OBVIOUS
<1>6. delivered' = delivered
  BY DEF Enqueue
<1> HIDE DEF new
<1>7. PICK S \in SUBSET Actions : S = new
  BY <1>1
<1>8. Promise!Record(S)
  BY <1>4, <1>5, <1>6, <1>7 DEF Promise!Record, Promise!In, Promise!Move
<1> QED
  BY <1>8 DEF Promise!Next

(* Settling: a batch that commits delivers the actions it marks, gives up  *)
(* the ones at their last attempt and leaves parts of failed ones behind.  *)
LEMMA CommitSettles ==
  ASSUME IndInv, NEW w \in Workers, Commit(w)
  PROVE  Promise!Next
<1> DEFINE Done == tx[w].ok
           Part == tx[w].kept
           Dead == {a \in tx[w].failed : row'[a].stage = "dead"}
<1>0. TypeOK /\ BatchesApart
  BY DEF IndInv
<1>1. Done \in SUBSET Actions /\ Part \in SUBSET Actions /\ Dead \in SUBSET Actions
  BY <1>0 DEF TypeOK
<1>2. Done \cap (Dead \cup Part) = {} /\ Part \cap (Triggers \X (Kinds \ Stepwise)) = {}
  BY <1>0 DEF BatchesApart
<1>3. \A a \in Done \cup Dead \cup Part : a \in Actions /\ row[a].stage = "pending"
  BY <1>0, <1>1 DEF BatchesApart, Held
<1>4. ASSUME NEW a \in Actions
      PROVE  row'[a].stage = IF a \in Done THEN "done"
                             ELSE IF a \in Dead THEN "dead" ELSE row[a].stage
  <2>0. row[a] \in Row
    BY <1>0 DEF TypeOK
  <2>1. CASE a \in tx[w].ok
    BY <1>0, <2>0, <2>1, CommitRow DEF Row
  <2>2. CASE a \in tx[w].failed
    <3>1. row[a].stage = "pending" /\ row[a].attempts < MaxAttempts /\ a \notin tx[w].ok
      BY <2>2 DEF IndInv, BatchesApart, PendingHasAttempts, Held
    <3>2. row'[a].stage \in {"pending", "dead"}
      BY <1>0, <2>0, <2>2, <3>1, CommitRow, FailedRow
    <3> QED
      BY <2>2, <3>1, <3>2
  <2> QED
    BY <1>0, <2>1, <2>2, CommitRow
<1>5. delivered' = [a \in Actions |-> IF a \in Done \cup Part
                                      THEN delivered[a] + 1 ELSE delivered[a]]
  BY DEF Commit
<1> HIDE DEF Done, Dead, Part
<1>6. PICK D, G, P \in SUBSET Actions : D = Done /\ G = Dead /\ P = Part
  BY <1>1
<1>7. Promise!Settle(D, G, P)
  BY <1>2, <1>3, <1>4, <1>5, <1>6 DEF Promise!Settle, Promise!In
<1> QED
  BY <1>7 DEF Promise!Next

(* Every step of the queue is a step of the outbox, or invisible to it. *)
LEMMA RefinementStep == IndInv /\ [Next]_vars => [Promise!Next]_(Promise!vars)
  <1> SUFFICES ASSUME IndInv, [Next]_vars
               PROVE  [Promise!Next]_(Promise!vars)
    OBVIOUS
  <1>1. CASE row' = row /\ delivered' = delivered
    BY <1>1 DEF Promise!vars
  <1>2. ASSUME NEW t \in Triggers, NEW K \in SUBSET Kinds, Enqueue(t, K)
        PROVE  Promise!Next
    BY <1>2, EnqueueRecords
  <1>3. ASSUME NEW w \in Workers, Commit(w) PROVE Promise!Next
    BY <1>3, CommitSettles
  <1>4. ASSUME NEW a \in Actions,
               BackoffElapses(a) \/ OperatorRetry(a) \/ Quarantine(a)
        PROVE  Promise!Resume(a) \/ UNCHANGED Promise!vars
    <2>0. TypeOK /\ delivered' = delivered
      BY <1>4 DEF IndInv, BackoffElapses, OperatorRetry, Quarantine
    <2>1. \/ \A b \in Actions : row'[b].stage = row[b].stage
          \/ /\ row[a].stage = "dead" /\ row'[a].stage = "pending"
             /\ \A b \in Actions : b # a => row'[b].stage = row[b].stage
      BY <1>4, <2>0, TouchedRow
    <2> QED
      BY <2>0, <2>1 DEF Promise!Resume, Promise!vars
  <1> QED
    BY <1>1, <1>2, <1>3, <1>4
    DEF Next, vars, Fetch, HandlerReturns, HandlerRaises, HandlerAborts, Crash,
        Promise!Next

(* The durable queue of post_commit.py keeps the promise of an outbox, for *)
(* any number of workers, actions, attempts and crashes.                   *)
THEOREM Refinement == Spec => ImplementsOutbox
<1>1. Init => Promise!Init
  BY DEF Init, Promise!Init
<1> QED
  BY <1>1, Invariance, RefinementStep, PTL DEF Spec, ImplementsOutbox, Promise!Spec
=============================================================================
