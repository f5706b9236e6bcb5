-------------------------- MODULE ShardFetchProofs --------------------------
(***************************************************************************)
(* Proofs about ShardFetch for every number of processes and pages and     *)
(* every number of faults and lapses: a cursor never gets ahead of the     *)
(* topic, and two loops on one shard still show its requester one          *)
(* lifecycle.                                                              *)
(***************************************************************************)
EXTENDS ShardFetch, TLAPS

LoopType == [pc : Phases, at : 0..Pages]

(* Nothing is taken up, fetched or signalled at first. *)
LEMMA ShardInvInit == Init => ShardInv
<1> SUFFICES ASSUME Init PROVE ShardInv
  OBVIOUS
<1>1. Idle \in LoopType
  BY PagesAssumption DEF Idle, LoopType, Phases
<1>2. TypeOK
  <2>1. spent \in [{"faults", "lapses"} -> Nat]
    BY DEF Init
  <2>2. cursor \in 0..Pages /\ raw \subseteq 1..Pages /\ refused \subseteq 1..Pages
    BY PagesAssumption DEF Init
  <2>3. loop \in [Fetchers -> LoopType]
    BY <1>1 DEF Init
  <2> QED
    BY <2>1, <2>2, <2>3 DEF Init, TypeOK, LoopType
<1>3. Reached(0)
  BY DEF Reached
<1>4. NothingSkipped /\ LoopsReached
  BY <1>3 DEF Init, NothingSkipped, LoopsReached, LoopReached, Idle
<1>5. RowAndSignal
  BY DEF Init, RowAndSignal, Ended
<1> QED
  BY <1>2, <1>4, <1>5 DEF ShardInv

(* The page after a cursor is a page, and the cursor stays in range. *)
LEMMA NextCursorInRange ==
  ASSUME NEW at \in 0..Pages
  PROVE  /\ NextCursor(at) \in 0..Pages
         /\ HasPage(at) => NextCursor(at) \in 1..Pages
  BY PagesAssumption DEF NextCursor, HasPage

(* A page is reached after the pages before it and itself are. *)
LEMMA ReachedNext ==
  ASSUME NEW at \in 0..Pages, NEW topic, 1..at \subseteq topic,
         HasPage(at) => NextCursor(at) \in topic
  PROVE  1..NextCursor(at) \subseteq topic
<1>1. CASE HasPage(at)
  <2>1. NextCursor(at) = at + 1
    BY <1>1 DEF NextCursor
  <2>2. \A p \in 1..(at + 1) : p \in 1..at \/ p = at + 1
    BY PagesAssumption
  <2> QED
    BY <1>1, <2>1, <2>2
<1>2. CASE ~HasPage(at)
  BY <1>2, PagesAssumption DEF HasPage, NextCursor
<1> QED
  BY <1>1, <1>2

(* The topic only grows, and every loop keeps its type: all that           *)
(* publishing, parking and moving on do to them.                           *)
LEMMA StepTypes ==
  ASSUME TypeOK, [Next]_vars
  PROVE  TypeOK' /\ raw \subseteq raw' /\ refused \subseteq refused'
<1> USE DEF TypeOK, LoopType
<1>0. loop \in [Fetchers -> LoopType] /\ 0 \in 0..Pages /\ Idle \in LoopType
  BY PagesAssumption DEF Idle, Phases
<1>1. ASSUME NEW f \in Fetchers, NEW pc \in Phases, Goto(f, pc)
      PROVE  loop' \in [Fetchers -> LoopType]
  BY <1>0, <1>1 DEF Goto
<1>2. ASSUME NEW f \in Fetchers, Park(f) PROVE loop' \in [Fetchers -> LoopType]
  BY <1>0, <1>2 DEF Park
<1>3. Fault => spent' \in [{"faults", "lapses"} -> Nat]
  BY DEF Fault, Spend
<1>4. ASSUME NEW f \in Fetchers, Tick(f) \/ LoopStep(f) \/ LoopFault(f)
      PROVE  TypeOK' /\ raw \subseteq raw' /\ refused \subseteq refused'
  <2>0. /\ NextCursor(loop[f].at) \in 0..Pages
        /\ HasPage(loop[f].at) => NextCursor(loop[f].at) \in 1..Pages
    BY <1>0, NextCursorInRange
  <2>1. CASE ClaimSignal(f) \/ Scan(f) \/ RefreshLease(f) \/ LoadInstall(f)
             \/ FetchPage(f)
    BY <2>1, <1>0, <1>1, <1>2
    DEF ClaimSignal, Scan, RefreshLease, LoadInstall, FetchPage, Phases
  <2>2. CASE LoadCursor(f)
    BY <2>2, <1>0 DEF LoadCursor, Phases
  <2>3. CASE AdvanceCursor(f)
    BY <2>3, <2>0, <1>1 DEF AdvanceCursor, Phases
  <2>4. CASE Finish(f) \/ Fail(f)
    BY <2>4, <1>2 DEF Finish, Fail, Terminate, Ended
  <2>5. CASE Publish(f)
    BY <2>5, <2>0, <1>1 DEF Publish, Delivered, Phases
  <2>6. CASE PublishParks(f)
    BY <2>6, <2>0, <1>2, <1>3 DEF PublishParks, Delivered
  <2>7. CASE PublishRefused(f)
    BY <2>7, <2>0, <1>1, <1>3 DEF PublishRefused, Phases
  <2>8. CASE FetchParks(f) \/ LoopRaises(f) \/ FetcherCrash(f)
    BY <2>8, <1>1, <1>2, <1>3 DEF FetchParks, LoopRaises, FetcherCrash, Phases
  <2> QED
    BY <1>4, <2>1, <2>2, <2>3, <2>4, <2>5, <2>6, <2>7, <2>8
    DEF Tick, LoopStep, LoopFault
<1>5. ASSUME LeaseLapses \/ Suspend \/ Resume
      PROVE  TypeOK' /\ raw \subseteq raw' /\ refused \subseteq refused'
  <2>1. spent' \in [{"faults", "lapses"} -> Nat]
    BY <1>5, <1>3 DEF LeaseLapses, Suspend, Resume, Spend
  <2>2. CASE LeaseLapses
    BY <2>1, <2>2 DEF LeaseLapses
  <2>3. CASE Suspend
    BY <2>1, <2>3 DEF Suspend
  <2>4. CASE Resume
    BY <2>1, <2>4 DEF Resume
  <2> QED
    BY <1>5, <2>2, <2>3, <2>4
<1>6. CASE UNCHANGED vars
  BY <1>6 DEF vars
<1> QED
  BY <1>4, <1>5, <1>6 DEF Next

(* LoopReached with the topic as a parameter, to speak of two states. *)
ReachedIn(l, topic) ==
  /\ 1..l.at \subseteq topic
  /\ l.pc = "advance" => 1..NextCursor(l.at) \subseteq topic
  /\ l.pc = "finish" => 1..Pages \subseteq topic

(* The two agree, in this state and in the next. *)
LEMMA LoopsReachedIn ==
  /\ LoopsReached <=> \A f \in Fetchers : ReachedIn(loop[f], raw \cup refused)
  /\ LoopsReached' <=>
       \A f \in Fetchers : ReachedIn(loop'[f], raw' \cup refused')
  BY DEF LoopsReached, LoopReached, Reached, ReachedIn

(* A loop's step leaves the other loops alone, and what it remembers or is *)
(* about to store is reached: it reads the cursor, which is, and advances  *)
(* only after publishing.                                                  *)
LEMMA StepReached ==
  ASSUME ShardInv, [Next]_vars
  PROVE  NothingSkipped' /\ LoopsReached'
<1> DEFINE old == raw \cup refused
           new == raw' \cup refused'
<1>0. /\ loop \in [Fetchers -> LoopType] /\ cursor \in 0..Pages
      /\ old \subseteq new
      /\ 1..cursor \subseteq old /\ (shard = "done" => 1..Pages \subseteq old)
      /\ \A f \in Fetchers : ReachedIn(loop[f], old)
      /\ Pages \in Nat \ {0}
  BY StepTypes, LoopsReachedIn, PagesAssumption
  DEF ShardInv, TypeOK, LoopType, NothingSkipped, Reached
<1> HIDE DEF old, new
<1>1. \A f \in Fetchers : ReachedIn(loop[f], new)
  BY <1>0 DEF ReachedIn
<1>2. /\ NothingSkipped' <=> 1..cursor' \subseteq new
                            /\ (shard' = "done" => 1..Pages \subseteq new)
      /\ LoopsReached' <=> \A f \in Fetchers : ReachedIn(loop'[f], new)
  BY LoopsReachedIn DEF NothingSkipped, Reached, new
<1>3. ASSUME NEW f \in Fetchers, NEW l, loop' = [loop EXCEPT ![f] = l],
             ReachedIn(l, new)
      PROVE  \A g \in Fetchers : ReachedIn(loop'[g], new)
  BY <1>0, <1>1, <1>3
<1>4. ASSUME NEW f \in Fetchers, Tick(f) \/ LoopStep(f) \/ LoopFault(f)
      PROVE  NothingSkipped' /\ LoopsReached'
  <2>0. /\ loop[f] \in LoopType /\ 1..loop[f].at \subseteq new
        /\ loop[f].pc = "advance" => 1..NextCursor(loop[f].at) \subseteq new
        /\ loop[f].pc = "finish" => 1..Pages \subseteq new
    BY <1>0, <1>1 DEF ReachedIn
  <2>1. ASSUME NEW pc \in Phases \ {"advance", "finish"}, Goto(f, pc)
        PROVE  LoopsReached'
    <3> DEFINE l == [loop[f] EXCEPT !.pc = pc]
    <3>1. loop' = [loop EXCEPT ![f] = l]
      BY <1>0, <2>1 DEF Goto
    <3>2. ReachedIn(l, new)
      BY <2>0, <2>1 DEF ReachedIn, LoopType
    <3> QED
      BY <1>2, <1>3, <3>1, <3>2
  <2>2. ASSUME Park(f) PROVE LoopsReached'
    <3>1. ReachedIn(Idle, new)
      BY <1>0 DEF ReachedIn, Idle
    <3> QED
      BY <1>2, <1>3, <2>2, <3>1 DEF Park
  <2>3. ASSUME NEW pc \in {"advance", "finish", "read"}, Goto(f, pc),
               pc = "advance" => 1..NextCursor(loop[f].at) \subseteq new,
               pc = "finish" => 1..Pages \subseteq new
        PROVE  LoopsReached'
    <3> DEFINE l == [loop[f] EXCEPT !.pc = pc]
    <3>1. loop' = [loop EXCEPT ![f] = l]
      BY <1>0, <2>3 DEF Goto
    <3>2. ReachedIn(l, new)
      BY <2>0, <2>3 DEF ReachedIn, LoopType
    <3> QED
      BY <1>2, <1>3, <3>1, <3>2
  <2>4. CASE ClaimSignal(f)
    BY <2>1, <2>4, <1>0, <1>2 DEF ClaimSignal, Phases
  <2>5. CASE Scan(f) \/ RefreshLease(f) \/ LoadInstall(f) \/ FetchPage(f)
    <3>1. cursor' = cursor /\ shard' = shard /\ LoopsReached'
      BY <2>1, <2>2, <2>5 DEF Scan, RefreshLease, LoadInstall, FetchPage, Phases
    <3> QED
      BY <1>0, <1>2, <3>1
  <2>6. CASE LoadCursor(f)
    <3> DEFINE l == [pc |-> "fetch", at |-> cursor]
    <3>1. loop' = [loop EXCEPT ![f] = l] /\ cursor' = cursor /\ shard' = shard
      BY <2>6 DEF LoadCursor
    <3>2. ReachedIn(l, new)
      BY <1>0 DEF ReachedIn
    <3> QED
      BY <1>0, <1>2, <1>3, <3>1, <3>2
  <2>7. CASE FetchParks(f) \/ LoopRaises(f) \/ PublishParks(f) \/ FetcherCrash(f)
    <3>1. cursor' = cursor /\ shard' = shard /\ LoopsReached'
      BY <2>1, <2>2, <2>7
      DEF FetchParks, LoopRaises, PublishParks, FetcherCrash, Phases
    <3> QED
      BY <1>0, <1>2, <3>1
  <2>8. CASE Publish(f) \/ PublishRefused(f)
    <3>1. cursor' = cursor /\ shard' = shard /\ Goto(f, "advance")
      BY <2>8 DEF Publish, PublishRefused
    <3>2. HasPage(loop[f].at) => NextCursor(loop[f].at) \in new
      BY <2>8 DEF Publish, PublishRefused, Delivered, new
    <3>3. 1..NextCursor(loop[f].at) \subseteq new
      BY <2>0, <3>2, ReachedNext DEF LoopType
    <3> QED
      BY <1>0, <1>2, <2>3, <3>1, <3>3
  <2>9. CASE AdvanceCursor(f)
    <3>1. cursor' = NextCursor(loop[f].at) /\ shard' = shard
          /\ 1..cursor' \subseteq new
      BY <2>0, <2>9 DEF AdvanceCursor
    <3>2. LoopsReached'
      BY <2>3, <2>9, <3>1 DEF AdvanceCursor
    <3> QED
      BY <1>0, <1>2, <3>1, <3>2
  <2>10. CASE Finish(f) \/ Fail(f)
    <3>1. cursor' = cursor /\ LoopsReached' /\ (shard' = "done" => 1..Pages \subseteq new)
      BY <1>0, <2>0, <2>2, <2>10 DEF Finish, Fail, Terminate
    <3> QED
      BY <1>0, <1>2, <3>1
  <2> QED
    BY <1>4, <2>4, <2>5, <2>6, <2>7, <2>8, <2>9, <2>10
    DEF Tick, LoopStep, LoopFault
<1>5. CASE LeaseLapses \/ Suspend \/ Resume \/ UNCHANGED vars
  <2>1. cursor' = cursor /\ shard' = shard /\ loop' = loop
    BY <1>5 DEF LeaseLapses, Suspend, Resume, vars
  <2> QED
    BY <1>0, <1>1, <1>2, <2>1
<1> QED
  BY <1>4, <1>5 DEF Next

(* The row, the request and the completion signal change together. *)
LEMMA StepRowAndSignal ==
  ASSUME ShardInv, [Next]_vars
  PROVE  RowAndSignal' /\ [Lifecycle!Next]_(Lifecycle!vars)
<1>0. /\ loop \in [Fetchers -> LoopType]
      /\ shard \in {"pending", "in_progress", "done", "failed"}
      /\ completion = (IF shard \in Ended THEN shard ELSE None)
      /\ shard = "pending" => \A f \in Fetchers : loop[f] = Idle
      /\ request <=> shard = "pending"
  BY DEF ShardInv, TypeOK, LoopType, RowAndSignal
<1>1. ASSUME NEW f \in Fetchers, Tick(f) \/ LoopStep(f) \/ LoopFault(f)
      PROVE  RowAndSignal' /\ [Lifecycle!Next]_(Lifecycle!vars)
  <2>1. CASE ClaimSignal(f)
    BY <1>0, <2>1 DEF ClaimSignal, RowAndSignal, Ended, Lifecycle!Next,
       Lifecycle!Claim
  <2>2. CASE Finish(f) \/ Fail(f)
    <3>1. shard # "pending"
      BY <1>0, <2>2 DEF Finish, Fail, Idle
    <3>2. PICK status \in Ended : Terminate(f, status)
      BY <2>2 DEF Finish, Fail, Ended
    <3>3. CASE shard = "in_progress"
      <4>1. shard' = status /\ completion' = status /\ ~request'
        BY <1>0, <3>2, <3>3, StatusAssumption DEF Terminate, Ended
      <4> QED
        BY <3>2, <3>3, <4>1 DEF RowAndSignal, Ended, Lifecycle!Next,
           Lifecycle!End, Lifecycle!Ended
    <3>4. CASE shard \in Ended
      <4>1. shard' = shard /\ completion' = completion /\ ~request'
        BY <1>0, <3>2, <3>4, StatusAssumption DEF Terminate, Ended
      <4> QED
        BY <1>0, <3>1, <4>1 DEF RowAndSignal, Lifecycle!vars
    <3> QED
      BY <1>0, <3>1, <3>3, <3>4 DEF Ended
  <2>3. CASE Scan(f) \/ LoopFault(f) \/ RefreshLease(f) \/ LoadInstall(f)
             \/ LoadCursor(f) \/ FetchPage(f) \/ Publish(f) \/ AdvanceCursor(f)
    <3>1. /\ shard' = shard /\ completion' = completion /\ request' = request
          /\ shard # "pending"
      BY <1>0, <2>3
      DEF Scan, LoopFault, RefreshLease, LoadInstall, LoadCursor, FetchPage,
          Publish, AdvanceCursor, FetchParks, LoopRaises, PublishParks,
          PublishRefused, FetcherCrash, Guarded, Idle
    <3> QED
      BY <1>0, <3>1 DEF RowAndSignal, Lifecycle!vars
  <2> QED
    BY <1>1, <2>1, <2>2, <2>3 DEF Tick, LoopStep
<1>2. CASE LeaseLapses \/ Suspend \/ Resume \/ UNCHANGED vars
  BY <1>0, <1>2 DEF LeaseLapses, Suspend, Resume, vars, RowAndSignal,
     Lifecycle!vars
<1> QED
  BY <1>1, <1>2 DEF Next

(* ShardInv is inductive. *)
LEMMA Invariance == Spec => []ShardInv
<1>1. ShardInv /\ [Next]_vars => ShardInv'
  BY StepTypes, StepReached, StepRowAndSignal DEF ShardInv
<1> QED
  BY <1>1, ShardInvInit, PTL DEF Spec

(* Type correctness of the shard's row, signal, cursor and loops. *)
THEOREM TypeCorrect == Spec => []TypeOK
<1>1. ShardInv => TypeOK
  BY DEF ShardInv
<1> QED
  BY <1>1, Invariance, PTL

(* However many loops run on a shard, crash, park or go on after being     *)
(* taken over, the stored cursor and the state done never get ahead of     *)
(* what the producer handed to the topic.                                  *)
THEOREM CursorNeverAhead == Spec => []NothingSkipped
<1>1. ShardInv => NothingSkipped
  BY DEF ShardInv
<1> QED
  BY <1>1, Invariance, PTL

(* Any number of concurrent loops implement the single lifecycle their     *)
(* requester relies on: _terminate_shard's guard and the idempotency key   *)
(* of its signal pick the same winner.                                     *)
THEOREM OneLifecycle == Spec => ImplementsLifecycle
<1>1. Init => Lifecycle!Init
  BY DEF Init, Lifecycle!Init
<1>2. ShardInv /\ [Next]_vars => [Lifecycle!Next]_(Lifecycle!vars)
  BY StepRowAndSignal
<1> QED
  BY <1>1, <1>2, Invariance, PTL DEF Spec, ImplementsLifecycle, Lifecycle!Spec
=============================================================================
