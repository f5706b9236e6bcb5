------------------------ MODULE CascadeLineageProofs ------------------------
(***************************************************************************)
(* Proofs about the cascade bound: however many triggers, whatever the     *)
(* bound, a lineage is cut between two places where its depth is lost.     *)
(***************************************************************************)
EXTENDS CascadeLineage, TLAPS

\* The effective bound is positive and never above MAX_CASCADE_DEPTH
LEMMA DepthBoundRange == DepthBound \in 1..HardMax
<1>1. Max({1, LineageBound}) \in Int /\ Max({1, LineageBound}) >= 1
  <2>1. \E x \in {1, LineageBound} : \A y \in {1, LineageBound} : x >= y
    BY ConstantsAssumption
  <2> QED BY <2>1, ConstantsAssumption DEF Max
<1>2. \E x \in {HardMax, Max({1, LineageBound})} :
         \A y \in {HardMax, Max({1, LineageBound})} : x <= y
  BY <1>1, ConstantsAssumption
<1> QED BY <1>1, <1>2, ConstantsAssumption DEF DepthBound, Min

\* A trigger below the bound can hand its depth on
LEMMA DepthPropagates ==
  ASSUME NEW d \in Nat
  PROVE  PropagatedDepth(d) \in Nat /\ PropagatedDepth(d) = d + 1
BY DEF PropagatedDepth

\* Paying for the bound once more leaves room for a full depth
LEMMA OnceMore ==
  ASSUME NEW b \in Nat, NEW m \in Nat, NEW n \in Nat, m <= n
  PROVE  /\ b * n \in Nat
         /\ b * (n + 1) = b * n + b
         /\ b * m <= b * n
<1>1. b * n \in Nat /\ b * m \in Nat
  BY SMT
<1>2. PICK k \in Nat : n = m + k
  <2>1. n - m \in Nat /\ n = m + (n - m)
    BY SMT
  <2> QED BY <2>1
<1>3. b * n = b * m + b * k /\ b * k \in Nat /\ b * k >= 0
  BY <1>2, SMT
<1>4. b * (n + 1) = b * n + b
  BY SMT
<1> QED BY <1>1, <1>3, <1>4, SMT

\* The part of the invariant about the columns a lineage is computed from; the
\* depth of a row never changes once it is in the queue
LineageKept ==
  /\ kind' \in [Triggers -> Kinds \cup {None}]
  /\ depth' \in [Triggers -> 0..HardMax]
  /\ gen' \in [Triggers -> Nat]
  /\ resets' \in [Triggers -> Nat]
  /\ DepthsBounded'
  /\ GenPaidFor'
  /\ \A t \in Triggers : state[t] # "none" => depth'[t] = depth[t]

\* What enqueue_trigger does to the columns of new rows keeps the invariant,
\* if the depth it is given is within the bound and pays for the lineage
LEMMA InsertKeeps ==
  ASSUME IndInv,
         NEW C \in SUBSET Triggers, NEW k \in Kinds, NEW d \in Nat,
         NEW g \in Nat, NEW n \in Nat,
         Insert(C, k, d, g, n),
         d <= DepthBound, g <= d + DepthBound * n
  PROVE  LineageKept
<1> DepthBound \in 1..HardMax /\ HardMax \in Nat /\ DepthBound' = DepthBound
  BY DepthBoundRange, ConstantsAssumption DEF DepthBound
<1>1. /\ kind' = [t \in Triggers |-> IF t \in C THEN k ELSE kind[t]]
      /\ depth' = [t \in Triggers |-> IF t \in C THEN d ELSE depth[t]]
      /\ gen' = [t \in Triggers |-> IF t \in C THEN g ELSE gen[t]]
      /\ resets' = [t \in Triggers |-> IF t \in C THEN n ELSE resets[t]]
      /\ \A t \in C : state[t] = "none"
  BY DEF Insert, Fresh
<1>2. TypeOK /\ DepthsBounded /\ GenPaidFor
  BY DEF IndInv
<1>3. /\ kind' \in [Triggers -> Kinds \cup {None}]
      /\ depth' \in [Triggers -> 0..HardMax]
      /\ gen' \in [Triggers -> Nat]
      /\ resets' \in [Triggers -> Nat]
  BY <1>1, <1>2 DEF TypeOK
<1>4. DepthsBounded'
  BY <1>1, <1>2 DEF DepthsBounded, TypeOK
<1>5. GenPaidFor'
  <2> SUFFICES ASSUME NEW t \in Triggers
               PROVE  gen'[t] <= depth'[t] + DepthBound * resets'[t]
    BY DEF GenPaidFor
  <2>1. CASE t \in C
    BY <1>1, <2>1
  <2>2. CASE t \notin C
    BY <1>1, <1>2, <2>2 DEF GenPaidFor
  <2> QED BY <2>1, <2>2
<1>6. \A t \in Triggers : state[t] # "none" => depth'[t] = depth[t]
  BY <1>1
<1> QED BY <1>3, <1>4, <1>5, <1>6 DEF LineageKept

\* The depth and lineage a run hands on from a trigger below the bound
LEMMA HandedOn ==
  ASSUME IndInv, NEW t \in Triggers, depth[t] < DepthBound
  PROVE  /\ PropagatedDepth(depth[t]) \in Nat
         /\ PropagatedDepth(depth[t]) <= DepthBound
         /\ gen[t] + 1 \in Nat /\ resets[t] \in Nat
         /\ gen[t] + 1 <= PropagatedDepth(depth[t]) + DepthBound * resets[t]
<1> DepthBound \in Nat
  BY DepthBoundRange
<1>1. depth[t] \in Nat /\ gen[t] \in Nat /\ resets[t] \in Nat
  BY ConstantsAssumption DEF IndInv, TypeOK
<1>2. gen[t] <= depth[t] + DepthBound * resets[t]
  BY DEF IndInv, GenPaidFor
<1>3. DepthBound * resets[t] \in Nat
  BY <1>1, OnceMore
<1> QED BY <1>1, <1>2, <1>3, DepthPropagates

\* What a run leads to without handing its depth on is paid for by one loss
LEMMA LossPaidFor ==
  ASSUME IndInv, NEW t \in Triggers, depth[t] < DepthBound, NEW d \in Nat
  PROVE  /\ gen[t] + 1 \in Nat /\ resets[t] + 1 \in Nat
         /\ gen[t] + 1 <= d + DepthBound * (resets[t] + 1)
<1> DepthBound \in Nat
  BY DepthBoundRange
<1>1. /\ gen[t] + 1 \in Nat /\ resets[t] \in Nat
      /\ PropagatedDepth(depth[t]) <= DepthBound
      /\ PropagatedDepth(depth[t]) \in Nat
      /\ gen[t] + 1 <= PropagatedDepth(depth[t]) + DepthBound * resets[t]
  BY HandedOn
<1>2. /\ DepthBound * resets[t] \in Nat
      /\ DepthBound * (resets[t] + 1) = DepthBound * resets[t] + DepthBound
  BY <1>1, OnceMore
<1> QED BY <1>1, <1>2

\* The invariant of a step that leaves the lineage columns alone
LEMMA ColumnsKept ==
  ASSUME IndInv, UNCHANGED <<kind, depth, gen, resets>>
  PROVE  LineageKept
<1> DepthBound' = DepthBound
  BY DEF DepthBound
<1> QED BY DEF IndInv, TypeOK, DepthsBounded, GenPaidFor, LineageKept

\* The rest of the invariant, if what runs in this step is below the bound
LEMMA StepKeeps ==
  ASSUME IndInv, LineageKept,
         state' \in [Triggers -> {"none", "open", "done", "dead"}],
         parent' \in [Triggers -> Triggers \cup {None}],
         unbatchable' \subseteq Triggers,
         \A t \in Triggers : state[t] # "none" => state'[t] # "none",
         \A t \in ran' \cup discover' \cup reeval' :
           \/ t \in ran \cup discover \cup reeval
           \/ t \in Triggers /\ state[t] # "none" /\ depth[t] < DepthBound
  PROVE  IndInv'
<1> DepthBound' = DepthBound
  BY DEF DepthBound
<1>1. /\ ran \subseteq Triggers /\ discover \subseteq Triggers
      /\ reeval \subseteq Triggers /\ RanBelowBound
  BY DEF IndInv, TypeOK
<1>2. ran' \cup discover' \cup reeval' \subseteq Triggers
  BY <1>1
<1>3. \A t \in ran' \cup discover' \cup reeval' :
         state[t] # "none" /\ depth[t] < DepthBound
  BY <1>1 DEF RanBelowBound
<1>4. \A t \in ran' \cup discover' \cup reeval' :
         state'[t] # "none" /\ depth'[t] < DepthBound
  BY <1>2, <1>3 DEF LineageKept
<1>5. RanBelowBound'
  BY <1>2, <1>4 DEF RanBelowBound
<1> QED BY <1>2, <1>5 DEF IndInv, TypeOK, LineageKept

\* Opening new rows and dead-lettering a trigger are well-typed and keep
\* every row in the queue
LEMMA OpenedAt ==
  ASSUME TypeOK, NEW C \in SUBSET Triggers
  PROVE  /\ Opened(C) \in [Triggers -> {"none", "open", "done", "dead"}]
         /\ \A x \in Triggers : state[x] # "none" => Opened(C)[x] # "none"
BY DEF TypeOK, Opened

LEMMA DeadLetterAt ==
  ASSUME TypeOK, NEW t \in Triggers, DeadLetter(t)
  PROVE  /\ state' \in [Triggers -> {"none", "open", "done", "dead"}]
         /\ parent' \in [Triggers -> Triggers \cup {None}]
         /\ unbatchable' \subseteq Triggers
         /\ \A x \in Triggers : state[x] # "none" => state'[x] # "none"
BY DEF TypeOK, DeadLetter, Members

LEMMA IndInvInit == Init => IndInv
<1> SUFFICES ASSUME Init PROVE IndInv
  OBVIOUS
<1> DepthBound \in 1..HardMax /\ HardMax \in Nat
  BY DepthBoundRange, ConstantsAssumption
<1>1. TypeOK
  BY DEF Init, TypeOK
<1>2. DepthsBounded /\ RanBelowBound
  BY DEF Init, DepthsBounded, RanBelowBound
<1>3. GenPaidFor
  BY OnceMore DEF Init, GenPaidFor
<1> QED BY <1>1, <1>2, <1>3 DEF IndInv

\* Every step keeps the invariant: new rows get a depth that pays for their
\* lineage, and only triggers below the bound run
LEMMA IndInvStep == IndInv /\ [Next]_vars => IndInv'
<1> SUFFICES ASSUME IndInv, [Next]_vars PROVE IndInv'
  OBVIOUS
<1> DepthBound \in 1..HardMax /\ HardMax \in Nat /\ DepthBound \in Nat
  BY DepthBoundRange, ConstantsAssumption
<1>0. /\ TypeOK /\ RanBelowBound
      /\ "T1" \in Kinds /\ "T2" \in Kinds /\ "T3" \in Kinds /\ "T4" \in Kinds
  BY DEF IndInv, Kinds
<1>r. ASSUME NEW t \in Triggers, Runs(t)
      PROVE  depth[t] < DepthBound /\ state[t] # "none"
  BY <1>0, <1>r DEF Runs, Rejected, Open, TypeOK
<1>z. 0 <= 0 + DepthBound * 0 /\ 0 <= PropagatedDepth(0) + DepthBound * 0
      /\ PropagatedDepth(0) \in Nat /\ PropagatedDepth(0) <= DepthBound
  BY DepthPropagates, OnceMore
<1>1. ASSUME NEW t \in Triggers, Arrive(t) PROVE IndInv'
  <2>1. Insert({t}, "T1", 0, 0, 0) /\ state' = Opened({t})
        /\ UNCHANGED <<parent, unbatchable, ran, discover, reeval>>
    BY <1>1 DEF Arrive
  <2>2. LineageKept
    BY <1>0, <1>z, <2>1, InsertKeeps
  <2> QED BY <1>0, <2>1, <2>2, OpenedAt, StepKeeps DEF TypeOK
<1>2. ASSUME NEW t \in Triggers, Sweep(t) PROVE IndInv'
  <2>1. Insert({t}, "T4", PropagatedDepth(0), 0, 0) /\ state' = Opened({t})
        /\ UNCHANGED <<parent, unbatchable, ran, discover, reeval>>
    BY <1>2 DEF Sweep
  <2>2. LineageKept
    BY <1>0, <1>z, <2>1, InsertKeeps
  <2> QED BY <1>0, <2>1, <2>2, OpenedAt, StepKeeps DEF TypeOK
<1>3. ASSUME NEW t \in Triggers, Reject(t) PROVE IndInv'
  <2>1. DeadLetter(t) /\ UNCHANGED <<kind, depth, ran, gen, resets, discover, reeval>>
    BY <1>3 DEF Reject
  <2>2. LineageKept
    BY <2>1, ColumnsKept
  <2> QED BY <1>0, <2>1, <2>2, DeadLetterAt, StepKeeps
<1>4. ASSUME NEW t \in Triggers, Fail(t) PROVE IndInv'
  <2>1. Runs(t) /\ DeadLetter(t) /\ ran' = ran \cup {t}
        /\ UNCHANGED <<kind, depth, gen, resets, discover, reeval>>
    BY <1>4 DEF Fail
  <2>2. LineageKept
    BY <2>1, ColumnsKept
  <2> QED BY <1>0, <1>r, <2>1, <2>2, DeadLetterAt, StepKeeps
<1>5. ASSUME NEW t \in Triggers, NEW c \in Triggers,
             EmitT3(t, c) \/ EnqueueCascadeT1(t, c)
      PROVE  IndInv'
  <2>1. /\ Runs(t) /\ state' = Opened({c}) /\ ran' = ran \cup {t}
        /\ UNCHANGED <<parent, unbatchable, discover, reeval>>
    BY <1>5 DEF EmitT3, EnqueueCascadeT1
  <2>2. PICK k \in Kinds :
          Insert({c}, k, PropagatedDepth(depth[t]), gen[t] + 1, resets[t])
    BY <1>0, <1>5 DEF EmitT3, EnqueueCascadeT1
  <2>3. LineageKept
    BY <1>r, <2>1, <2>2, HandedOn, InsertKeeps
  <2> QED BY <1>0, <1>r, <2>1, <2>3, OpenedAt, StepKeeps DEF TypeOK
<1>6. ASSUME NEW t \in Triggers, NEW C \in SUBSET Triggers, Apply(t, C)
      PROVE  IndInv'
  <2>1. /\ Runs(t) /\ ran' = ran \cup {t} /\ discover' \subseteq discover \cup {t}
        /\ reeval' = reeval \cup {t}
        /\ Insert(C, "T2", PropagatedDepth(depth[t]), gen[t] + 1, resets[t])
        /\ UNCHANGED <<parent, unbatchable>>
    BY <1>6 DEF Apply
  <2>2. LineageKept
    BY <1>0, <1>r, <2>1, HandedOn, InsertKeeps
  <2>3. /\ state' \in [Triggers -> {"none", "open", "done", "dead"}]
        /\ \A x \in Triggers : state[x] # "none" => state'[x] # "none"
    <3>1. state' = [x \in Triggers |-> IF x = t \/ x \in Members(t) THEN "done"
                                       ELSE Opened(C)[x]]
      BY <1>6 DEF Apply
    <3> QED BY <1>0, <3>1, OpenedAt
  <2> QED BY <1>0, <1>r, <2>1, <2>2, <2>3, StepKeeps DEF TypeOK
<1>7. ASSUME NEW t \in Triggers, NEW C \in SUBSET Triggers, Discover(t, C)
      PROVE  IndInv'
  <2>1. /\ t \in discover /\ state' = Opened(C)
        /\ Insert(C, "T4", PropagatedDepth(0), gen[t] + 1, resets[t] + 1)
        /\ discover' \subseteq discover
        /\ UNCHANGED <<parent, unbatchable, ran, reeval>>
    BY <1>7 DEF Discover
  <2>2. depth[t] < DepthBound
    BY <1>0, <2>1 DEF RanBelowBound
  <2>3. gen[t] + 1 \in Nat /\ resets[t] + 1 \in Nat
        /\ gen[t] + 1 <= PropagatedDepth(0) + DepthBound * (resets[t] + 1)
    BY <1>z, <2>2, LossPaidFor
  <2>4. LineageKept
    BY <1>0, <1>z, <2>1, <2>3, InsertKeeps
  <2> QED BY <1>0, <2>1, <2>4, OpenedAt, StepKeeps DEF TypeOK
<1>8. ASSUME NEW b \in Triggers, NEW M \in SUBSET Triggers, Fold(b, M)
      PROVE  IndInv'
  <2>1. PICK k \in Kinds, g \in Latest(gen, M), n \in Latest(resets, M) :
          Insert({b}, k, 0, g, n + 1)
    BY <1>0, <1>8 DEF Fold
  <2>2. PICK m \in M : g = gen[m]
    BY <2>1 DEF Latest
  <2>3. n \in Nat /\ resets[m] \in Nat /\ resets[m] <= n /\ g \in Nat
    BY <1>0, <2>1, <2>2 DEF Latest, TypeOK
  <2>4. g <= 0 + DepthBound * (n + 1)
    <3>1. g <= depth[m] + DepthBound * resets[m] /\ depth[m] <= DepthBound
          /\ depth[m] \in Nat
      BY <1>0, <2>2 DEF IndInv, GenPaidFor, DepthsBounded, TypeOK
    <3>2. /\ DepthBound * n \in Nat
          /\ DepthBound * (n + 1) = DepthBound * n + DepthBound
          /\ DepthBound * resets[m] <= DepthBound * n
      BY <2>3, OnceMore
    <3>3. DepthBound * resets[m] \in Nat
      BY <2>3, OnceMore
    <3> QED BY <2>3, <3>1, <3>2, <3>3
  <2>5. LineageKept
    BY <2>1, <2>3, <2>4, InsertKeeps
  <2>6. /\ state' = Opened({b}) /\ unbatchable' = unbatchable \cup {b}
        /\ parent' = [t \in Triggers |-> IF t \in M THEN b ELSE parent[t]]
        /\ UNCHANGED <<ran, discover, reeval>>
    BY <1>8 DEF Fold
  <2> QED BY <1>0, <2>5, <2>6, OpenedAt, StepKeeps DEF TypeOK
<1>u. ASSUME NEW t \in Triggers, NEW c \in Triggers,
             ReviewPattern(t, c) \/ PromoteReeval(t, c) \/ FireObligation(t, c)
             \/ PredictionOverdue(t, c) \/ AnomalyFound(t, c) \/ Precipitate(t, c)
      PROVE  IndInv'
  <2>1. /\ ran' = ran \cup {t} \/ ran' = ran
        /\ Runs(t) \/ t \in ran \cup reeval
    BY <1>u DEF ReviewPattern, PromoteReeval, FireObligation, Applied,
                PredictionOverdue, AnomalyFound, Precipitate
  <2>2. PICK k \in Kinds : Unstamped(t, c, k)
    BY <1>0, <1>u DEF ReviewPattern, PromoteReeval, FireObligation,
                      PredictionOverdue, AnomalyFound, Precipitate
  <2>3. /\ Insert({c}, k, 0, gen[t] + 1, resets[t] + 1)
        /\ state' = Opened({c}) /\ unbatchable' = unbatchable \cup {c}
        /\ UNCHANGED <<parent, discover, reeval>>
    BY <2>2 DEF Unstamped
  <2>4. depth[t] < DepthBound /\ state[t] # "none"
    BY <1>0, <1>r, <2>1 DEF RanBelowBound
  <2>5. LineageKept
    BY <2>3, <2>4, LossPaidFor, InsertKeeps
  <2> QED BY <1>0, <2>1, <2>3, <2>4, <2>5, OpenedAt, StepKeeps DEF TypeOK
<1>9. CASE UNCHANGED vars
  <2>1. LineageKept
    BY <1>9, ColumnsKept DEF vars
  <2> QED BY <1>0, <1>9, <2>1, StepKeeps DEF vars, TypeOK
<1> QED BY <1>1, <1>2, <1>3, <1>4, <1>5, <1>6, <1>7, <1>8, <1>u, <1>9 DEF Next

LEMMA Invariance == Spec => []IndInv
BY IndInvInit, IndInvStep, PTL DEF Spec

\* A trigger that ran has fewer than DepthBound runs behind it per loss of depth
LEMMA InvCuts == IndInv => LineageCut
<1> SUFFICES ASSUME IndInv, NEW t \in ran
             PROVE  gen[t] < DepthBound * (resets[t] + 1)
  BY DEF LineageCut
<1> DepthBound \in Nat
  BY DepthBoundRange
<1>1. /\ t \in Triggers /\ gen[t] \in Nat /\ resets[t] \in Nat
      /\ depth[t] \in Nat /\ depth[t] < DepthBound
      /\ gen[t] <= depth[t] + DepthBound * resets[t]
  BY ConstantsAssumption DEF IndInv, TypeOK, RanBelowBound, GenPaidFor
<1>2. /\ DepthBound * resets[t] \in Nat
      /\ DepthBound * (resets[t] + 1) = DepthBound * resets[t] + DepthBound
  BY <1>1, OnceMore
<1> QED BY <1>1, <1>2

(***************************************************************************)
(* For any set of triggers, any MAX_CASCADE_DEPTH and any configured       *)
(* bound, every lineage is cut: what _process_trigger dispatches has fewer *)
(* than the bound's runs behind it, per place where the depth was lost.    *)
(***************************************************************************)
THEOREM CascadesAreCut == Spec => []LineageCut
BY Invariance, InvCuts, PTL

(***************************************************************************)
(* The cascade columns stay in range; in particular no payload ever has a  *)
(* cascade_depth above MAX_CASCADE_DEPTH.                                  *)
(***************************************************************************)
THEOREM TypeCorrect == Spec => []TypeOK
<1>1. IndInv => TypeOK
  BY DEF IndInv
<1> QED BY Invariance, <1>1, PTL
=============================================================================
