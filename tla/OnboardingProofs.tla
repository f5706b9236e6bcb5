-------------------------- MODULE OnboardingProofs --------------------------
(***************************************************************************)
(* Proofs about Onboarding for every number of sources, shards and passes: *)
(* what Bridge is told agrees with the run, a source waits for its         *)
(* reconciliation only with every shard collected, and the services        *)
(* together implement TenantRun.                                           *)
(***************************************************************************)
EXTENDS Onboarding, TLAPS

SourceStates == {"absent", "completed", "failed"} \cup Open

Outcomes == {None, "completed", "failed"}

(* Nothing exists at first. *)
LEMMA OnboardingInvInit == Init => OnboardingInv
<1> SUFFICES ASSUME Init PROVE OnboardingInv
  OBVIOUS
<1>1. TypeOK
  <2>1. pass \in [Sources -> 0..MaxPasses]
    BY BoundsAssumption DEF Init
  <2>2. shard \in [Sources -> [Shards -> ShardStates]]
    BY DEF Init, ShardStates
  <2>3. /\ source \in [Sources -> SourceStates] /\ told \in [Sources -> Outcomes]
        /\ handed = {} /\ handoff = {} /\ ended = {}
    BY DEF Init, SourceStates, Outcomes
  <2> QED
    BY <2>1, <2>2, <2>3 DEF Init, TypeOK, SourceStates, Outcomes
<1>2. BridgeAgrees /\ RunStages
  BY DEF Init, BridgeAgrees, RunStages
<1>3. ASSUME NEW s \in Sources PROVE SourceInv(s)
  <2>1. Fresh(s)
    BY DEF Init, Fresh
  <2>2. ToldAgrees(s) /\ FailedStays(s)
    BY ToldAssumption DEF Init, ToldAgrees, FailedStays
  <2>3. HandoffCurrent(s) /\ WaitsCollected(s) /\ StartsFresh(s)
    BY <2>1 DEF Init, HandoffCurrent, WaitsCollected, StartsFresh
  <2> QED
    BY <2>2, <2>3 DEF SourceInv
<1> QED
  BY <1>1, <1>2, <1>3 DEF OnboardingInv

-----------------------------------------------------------------------------
(* Type correctness *)

(* Emitting a source's completion, or its hand-over, keeps the types. *)
LEMMA SignalTypes ==
  ASSUME TypeOK, NEW s \in Sources, NEW outcome \in {"completed", "failed"}
  PROVE  /\ Tell(s, outcome) =>
              /\ told' \in [Sources -> Outcomes]
              /\ news' \subseteq {t \in Sources : told'[t] # None}
         /\ HandOff(s) => /\ handed' \subseteq Sources \X (0..MaxPasses)
                          /\ handoff' \subseteq handed'
<1> USE DEF TypeOK, Outcomes
<1>1. ASSUME Tell(s, outcome)
      PROVE  /\ told' \in [Sources -> Outcomes]
             /\ news' \subseteq {t \in Sources : told'[t] # None}
  <2>1. CASE told[s] = None
    BY <1>1, <2>1, ToldAssumption DEF Tell
  <2>2. CASE told[s] # None
    BY <1>1, <2>2 DEF Tell
  <2> QED
    BY <2>1, <2>2
<1>2. ASSUME HandOff(s)
      PROVE  handed' \subseteq Sources \X (0..MaxPasses) /\ handoff' \subseteq handed'
  BY <1>2 DEF HandOff
<1> QED
  BY <1>1, <1>2

(* A re-share counts the pass and replaces one shard by another. *)
LEMMA ReshareTypes ==
  ASSUME TypeOK, NEW s \in Sources, Reshare(s)
  PROVE  /\ pass' \in [Sources -> 0..MaxPasses]
         /\ source' \in [Sources -> SourceStates]
         /\ shard' \in [Sources -> [Shards -> ShardStates]]
<1> USE DEF TypeOK, SourceStates, ShardStates
<1>1. pass' \in [Sources -> 0..MaxPasses]
  BY BoundsAssumption DEF Reshare
<1>2. source' \in [Sources -> SourceStates]
  BY DEF Reshare, Open
<1>3. PICK i \in Shards, j \in Shards :
        shard' = [shard EXCEPT ![s][i] = "resharded", ![s][j] = "pending"]
  BY DEF Reshare
<1>4. shard' \in [Sources -> [Shards -> ShardStates]]
  BY <1>3
<1> QED
  BY <1>1, <1>2, <1>4

(* A source whose request waits has nothing else going on. *)
LEMMA RequestedIsFresh ==
  ASSUME OnboardingInv, NEW s \in Sources,
         \/ s \in news
         \/ \E i \in Shards : <<s, i>> \in ended \/ shard[s][i] # "absent"
         \/ \E p \in 0..MaxPasses : <<s, p>> \in handoff
  PROVE  s \notin requested /\ source[s] # "absent"
  BY DEF OnboardingInv, TypeOK, SourceInv, StartsFresh, Fresh

(* Every handler keeps the rows and the inboxes well typed. *)
LEMMA StepTypes ==
  ASSUME OnboardingInv, [Next]_vars
  PROVE  TypeOK'
<1>0. TypeOK
  BY DEF OnboardingInv
<1> USE DEF TypeOK, SourceStates
<1>1. CASE CreateRun
  BY <1>0, <1>1 DEF CreateRun
<1>2. ASSUME NEW active \in SUBSET Sources, RunCreated(active) PROVE TypeOK'
  BY <1>0, <1>2 DEF RunCreated, Open
<1>3. ASSUME NEW s \in Sources, NEW n \in 0..MaxShards, PlanSource(s, n)
      PROVE  TypeOK'
  <2>1. handed' \subseteq Sources \X (0..MaxPasses) /\ handoff' \subseteq handed'
    BY <1>0, <1>3, SignalTypes DEF PlanSource
  <2>2. shard' \in [Sources -> [Shards -> ShardStates]]
    BY <1>0, <1>3 DEF PlanSource, ShardStates
  <2>3. source' \in [Sources -> SourceStates]
        /\ requested' \subseteq {t \in Sources : source'[t] = "pending"}
    BY <1>0, <1>3 DEF PlanSource, Open
  <2> QED
    BY <1>0, <1>3, <2>1, <2>2, <2>3 DEF PlanSource
<1>4. ASSUME NEW s \in Sources, PlanFails(s) PROVE TypeOK'
  <2>1. /\ told' \in [Sources -> Outcomes]
        /\ news' \subseteq {t \in Sources : told'[t] # None}
    BY <1>0, <1>4, SignalTypes DEF PlanFails
  <2>2. source' \in [Sources -> SourceStates]
        /\ requested' \subseteq {t \in Sources : source'[t] = "pending"}
    BY <1>0, <1>4 DEF PlanFails, Open
  <2> QED
    BY <1>0, <1>4, <2>1, <2>2 DEF PlanFails, Outcomes
<1>5. ASSUME NEW s \in Sources, NEW i \in Shards, NEW st \in {"done", "failed"},
             ShardEnds(s, i, st)
      PROVE  TypeOK'
  BY <1>0, <1>5 DEF ShardEnds, ShardStates
<1>6. ASSUME NEW s \in Sources \ requested, NEW st \in SourceStates,
             source' = [source EXCEPT ![s] = st], requested' = requested
      PROVE  /\ source' \in [Sources -> SourceStates]
             /\ requested' \subseteq {t \in Sources : source'[t] = "pending"}
  BY <1>0, <1>6 DEF Open
<1>7. ASSUME NEW s \in Sources \ requested, NEW st \in {"completed", "failed"},
             CloseSource(s, st), requested' = requested
      PROVE  /\ source' \in [Sources -> SourceStates]
             /\ requested' \subseteq {t \in Sources : source'[t] = "pending"}
  BY <1>0, <1>6, <1>7 DEF CloseSource, Open
<1>8. ASSUME NEW s \in Sources, NEW i \in Shards, ShardCompleted(s, i)
      PROVE  TypeOK'
  <2>0. s \notin requested
    BY <1>8, RequestedIsFresh DEF ShardCompleted
  <2>1. CASE UNCHANGED <<source, handed, handoff, told, news>>
    BY <1>0, <1>8, <2>1 DEF ShardCompleted
  <2>2. CASE CloseSource(s, "failed") /\ Tell(s, "failed") /\ UNCHANGED <<handed, handoff>>
    <3>1. /\ told' \in [Sources -> Outcomes]
          /\ news' \subseteq {t \in Sources : told'[t] # None}
      BY <1>0, <2>2, SignalTypes
    <3> QED
      BY <1>0, <1>7, <1>8, <2>0, <2>2, <3>1 DEF ShardCompleted, Outcomes
  <2>3. CASE CloseSource(s, "completed") /\ HandOff(s) /\ UNCHANGED <<told, news>>
    <3>1. handed' \subseteq Sources \X (0..MaxPasses) /\ handoff' \subseteq handed'
      BY <1>0, <2>3, SignalTypes
    <3> QED
      BY <1>0, <1>7, <1>8, <2>0, <2>3, <3>1 DEF ShardCompleted
  <2> QED
    BY <1>8, <2>1, <2>2, <2>3 DEF ShardCompleted
<1>9. ASSUME NEW s \in Sources, NEW p \in 0..MaxPasses, Reconcile(s, p)
      PROVE  TypeOK'
  <2>0. s \notin requested /\ handoff' \subseteq handoff
    BY <1>9, RequestedIsFresh
    DEF Reconcile, ReconcileAgain, ReconcileClean, ReconcileFails,
        ReconcileGaps, Claim
  <2>1. ASSUME NEW st \in {"completed", "failed"}, Tell(s, st)
        PROVE  /\ told' \in [Sources -> Outcomes]
               /\ news' \subseteq {t \in Sources : told'[t] # None}
    BY <1>0, <2>1, SignalTypes
  <2>2. CASE ReconcileAgain(s, p) \/ ReconcileClean(s, p)
    BY <1>0, <2>0, <2>1, <2>2 DEF ReconcileAgain, ReconcileClean, Outcomes
  <2>3. CASE ReconcileFails(s, p)
    BY <1>0, <1>6, <2>0, <2>1, <2>3 DEF ReconcileFails, Outcomes
  <2>4. CASE ReconcileGaps(s, p)
    <3>1. /\ pass' \in [Sources -> 0..MaxPasses]
          /\ shard' \in [Sources -> [Shards -> ShardStates]]
      BY <1>0, <2>4, ReshareTypes DEF ReconcileGaps
    <3>2. source' = [source EXCEPT ![s] = "in_progress"]
      BY <2>4 DEF ReconcileGaps, Reshare
    <3> QED
      BY <1>0, <1>6, <2>0, <2>4, <3>1, <3>2 DEF ReconcileGaps, Open
  <2> QED
    BY <1>9, <2>2, <2>3, <2>4 DEF Reconcile
<1>10. ASSUME NEW s \in Sources, Recheck(s) PROVE TypeOK'
  <2>1. /\ pass' \in [Sources -> 0..MaxPasses]
        /\ shard' \in [Sources -> [Shards -> ShardStates]]
    BY <1>0, <1>10, ReshareTypes DEF Recheck
  <2>2. source' = [source EXCEPT ![s] = "in_progress"] /\ s \notin requested
    BY <1>0, <1>10 DEF Recheck, Reshare
  <2> QED
    BY <1>0, <1>6, <1>10, <2>1, <2>2 DEF Recheck, Open
<1>11. ASSUME NEW s \in Sources, CloseNews(s) PROVE TypeOK'
  <2>0. s \notin requested
    BY <1>11, RequestedIsFresh DEF CloseNews, SourceFailed, SourceCompleted
  <2>1. CASE SourceFailed(s)
    BY <1>0, <1>7, <2>0, <2>1 DEF SourceFailed, CloseRun
  <2>2. CASE SourceCompleted(s)
    BY <1>0, <1>7, <2>0, <2>2 DEF SourceCompleted, CloseRun
  <2> QED
    BY <1>11, <2>1, <2>2 DEF CloseNews
<1>12. CASE UNCHANGED vars
  BY <1>0, <1>12 DEF vars
<1> QED
  BY <1>1, <1>2, <1>3, <1>4, <1>5, <1>8, <1>9, <1>10, <1>11, <1>12
  DEF Next, StartRun, StartSource, EndShard, Reconciling

-----------------------------------------------------------------------------
(* One source at a time *)

(* A source that a handler does not touch keeps its invariant. *)
LEMMA Frame ==
  ASSUME NEW t \in Sources, SourceInv(t),
         source'[t] = source[t], pass'[t] = pass[t], shard'[t] = shard[t],
         told'[t] = told[t],
         t \in reconciled' <=> t \in reconciled,
         t \in requested' => t \in requested,
         \A i \in Shards : <<t, i>> \in ended' => <<t, i>> \in ended,
         \A p \in 0..MaxPasses : <<t, p>> \in handoff' => <<t, p>> \in handoff,
         handed \subseteq handed'
  PROVE  SourceInv(t)'
<1>1. Fresh(t) => Fresh(t)'
  BY DEF Fresh
<1>2. Collected(t)' <=> Collected(t)
  BY DEF Collected
<1>3. HandsOverNoMore(t) => HandsOverNoMore(t)'
  BY DEF HandsOverNoMore, AnyFailed
<1>4. StartsFresh(t)'
  BY <1>1 DEF SourceInv, StartsFresh
<1>5. HandoffCurrent(t)' /\ WaitsCollected(t)'
  BY <1>2 DEF SourceInv, HandoffCurrent, WaitsCollected
<1>6. ToldAgrees(t)' /\ FailedStays(t)'
  BY <1>3 DEF SourceInv, ToldAgrees, FailedStays
<1> QED
  BY <1>4, <1>5, <1>6 DEF SourceInv

(* New runs: no source has anything yet. *)
LEMMA RunCreatedStep ==
  ASSUME OnboardingInv, NEW active \in SUBSET Sources, RunCreated(active),
         NEW t \in Sources
  PROVE  SourceInv(t)'
<1>1. Fresh(t)
  BY DEF OnboardingInv, RunStages, RunCreated, SourceInv, StartsFresh
<1>2. Fresh(t)'
  BY <1>1 DEF Fresh, RunCreated
<1>3. source'[t] \in {"pending", "absent"}
  BY DEF RunCreated
<1> QED
  BY <1>2, <1>3, ToldAssumption
  DEF Fresh, SourceInv, StartsFresh, HandoffCurrent, WaitsCollected, ToldAgrees,
      FailedStays

(* Planning a source. *)
LEMMA PlanStep ==
  ASSUME OnboardingInv, NEW s \in Sources, StartSource(s), NEW t \in Sources
  PROVE  SourceInv(t)'
<1>0. TypeOK /\ SourceInv(t) /\ SourceInv(s)
  BY DEF OnboardingInv
<1>1. s \in requested /\ requested' = requested \ {s} /\ Fresh(s)
  BY <1>0 DEF StartSource, PlanFails, PlanSource, SourceInv, StartsFresh
<1>2. CASE t # s
  <2>1. PICK n \in 0..MaxShards : PlanSource(s, n) \/ PlanFails(s)
    BY BoundsAssumption DEF StartSource
  <2>2. /\ source'[t] = source[t] /\ shard'[t] = shard[t] /\ told'[t] = told[t]
    BY <1>0, <1>2, <2>1 DEF PlanSource, PlanFails, Tell, TypeOK
  <2>3. /\ handed \subseteq handed'
        /\ \A p \in 0..MaxPasses : <<t, p>> \in handoff' => <<t, p>> \in handoff
    BY <1>2, <2>1 DEF PlanSource, PlanFails, HandOff
  <2>4. pass' = pass /\ reconciled' = reconciled /\ ended' = ended
    BY <2>1 DEF PlanSource, PlanFails
  <2> QED
    BY <1>0, <1>1, <2>2, <2>3, <2>4, Frame
<1>3. CASE PlanFails(s) /\ t = s
  <2>1. source'[s] = "failed" /\ told'[s] = "failed" /\ s \notin requested'
    BY <1>0, <1>1, <1>3 DEF PlanFails, Tell, TypeOK, Fresh
  <2>2. /\ \A i \in Shards : shard'[s][i] = "absent" /\ <<s, i>> \notin ended'
        /\ \A p \in 0..MaxPasses : <<s, p>> \notin handoff'
        /\ s \notin reconciled'
    BY <1>1, <1>3 DEF PlanFails, Fresh
  <2> QED
    BY <1>3, <2>1, <2>2
    DEF SourceInv, StartsFresh, HandoffCurrent, WaitsCollected, ToldAgrees,
        FailedStays, HandsOverNoMore
<1>4. ASSUME NEW n \in 0..MaxShards, PlanSource(s, n), t = s PROVE SourceInv(t)'
  <2>1. /\ source'[s] \in {"completed", "in_progress"} /\ s \notin requested'
        /\ told'[s] = None /\ s \notin reconciled' /\ pass' = pass
    BY <1>0, <1>1, <1>4 DEF PlanSource, TypeOK, Fresh
  <2>2. \A i \in Shards : n = 0 => shard'[s][i] = "absent"
    BY <1>0, <1>4 DEF PlanSource, TypeOK, Shards
  <2>3. n = 0 => Collected(s)'
    BY <2>2 DEF Collected
  <2>4. \A p \in 0..MaxPasses : <<s, p>> \in handoff' => n = 0 /\ p = pass[s]
    BY <1>1, <1>4 DEF PlanSource, HandOff, Fresh
  <2>5. source'[s] = "completed" => n = 0
    BY <1>0, <1>4 DEF PlanSource, TypeOK
  <2> QED
    BY <1>4, <2>1, <2>3, <2>4, <2>5, ToldAssumption
    DEF SourceInv, StartsFresh, HandoffCurrent, WaitsCollected, ToldAgrees,
        FailedStays
<1> QED
  BY <1>2, <1>3, <1>4 DEF StartSource

(* ShardFetch ends a shard: its source is not waiting as completed. *)
LEMMA ShardEndsStep ==
  ASSUME OnboardingInv, NEW s \in Sources, NEW i \in Shards,
         NEW st \in {"done", "failed"}, ShardEnds(s, i, st), NEW t \in Sources
  PROVE  SourceInv(t)'
<1>0. TypeOK /\ SourceInv(t) /\ SourceInv(s)
  BY DEF OnboardingInv
<1>1. CASE t # s
  BY <1>0, <1>1, Frame DEF ShardEnds, TypeOK
<1>2. CASE t = s
  <2>1. ~Collected(s) /\ ~Fresh(s)
    BY DEF ShardEnds, Collected, Fresh
  <2>2. /\ source' = source /\ pass' = pass /\ told' = told
        /\ reconciled' = reconciled /\ requested' = requested
        /\ handed' = handed /\ handoff' = handoff
    BY DEF ShardEnds
  <2>3. \A j \in Shards : shard'[s][j] = IF j = i THEN st ELSE shard[s][j]
    BY <1>0 DEF ShardEnds, TypeOK
  <2>4. HandsOverNoMore(s) => HandsOverNoMore(s)'
    BY <2>2, <2>3 DEF HandsOverNoMore, AnyFailed, ShardEnds
  <2> QED
    BY <1>0, <1>2, <2>1, <2>2, <2>4
    DEF SourceInv, StartsFresh, HandoffCurrent, WaitsCollected, ToldAgrees,
        FailedStays
<1> QED
  BY <1>1, <1>2

(* The roll-up.  A failed outcome finds no hand-over waiting, and no later *)
(* roll-up hands over for a source that was reported failed.               *)
LEMMA RollUpStep ==
  ASSUME OnboardingInv, NEW s \in Sources, NEW i \in Shards,
         ShardCompleted(s, i), NEW t \in Sources
  PROVE  SourceInv(t)'
<1>0. TypeOK /\ SourceInv(t) /\ SourceInv(s)
  BY DEF OnboardingInv
<1>1. s \notin requested /\ source[s] # "absent" /\ <<s, i>> \in ended
  BY RequestedIsFresh DEF ShardCompleted
<1>2. /\ pass' = pass /\ reconciled' = reconciled /\ shard' = shard
      /\ requested' = requested /\ ended' \subseteq ended /\ handed \subseteq handed'
  BY DEF ShardCompleted, HandOff
<1>3. CASE t # s
  <2>1. source'[t] = source[t] /\ told'[t] = told[t]
    BY <1>0, <1>3 DEF ShardCompleted, CloseSource, Tell, TypeOK
  <2>2. \A p \in 0..MaxPasses : <<t, p>> \in handoff' => <<t, p>> \in handoff
    BY <1>3 DEF ShardCompleted, HandOff
  <2> QED
    BY <1>0, <1>2, <2>1, <2>2, Frame
<1>4. CASE t = s /\ UNCHANGED <<source, handed, handoff, told, news>>
  BY <1>0, <1>2, <1>4, Frame
<1>5. CASE /\ t = s /\ ~Unfinished(s) /\ AnyFailed(s)
           /\ CloseSource(s, "failed") /\ Tell(s, "failed")
           /\ UNCHANGED <<handed, handoff>>
  <2>1. ~Collected(s) /\ ~Collected(s)' /\ AnyFailed(s)'
    BY <1>2, <1>5 DEF Collected, AnyFailed
  <2>2. source'[s] = IF source[s] \in Open THEN "failed" ELSE source[s]
    BY <1>0, <1>5 DEF CloseSource, TypeOK
  <2>3. told'[s] = IF told[s] = None THEN "failed" ELSE told[s]
    BY <1>0, <1>5 DEF Tell, TypeOK
  <2>4. s \notin reconciled => source'[s] = "failed"
                                /\ \A p \in 0..MaxPasses : <<s, p>> \notin handoff'
    BY <1>0, <1>1, <1>5, <2>1, <2>2
    DEF SourceInv, WaitsCollected, HandoffCurrent, TypeOK, Open
  <2>5. ToldAgrees(s)' /\ (told'[s] = "failed" => s \notin reconciled)
    BY <1>0, <1>2, <2>3, ToldAssumption DEF SourceInv, ToldAgrees
  <2>6. StartsFresh(s)'
    BY <1>0, <1>1, <1>2, <2>2 DEF StartsFresh
  <2>7. HandoffCurrent(s)' /\ WaitsCollected(s)'
    BY <1>2, <2>4 DEF HandoffCurrent, WaitsCollected
  <2>8. FailedStays(s)'
    BY <2>1, <2>4, <2>5 DEF FailedStays, HandsOverNoMore
  <2> QED
    BY <1>5, <2>5, <2>6, <2>7, <2>8 DEF SourceInv
<1>6. CASE /\ t = s /\ ~Unfinished(s) /\ ~AnyFailed(s)
           /\ CloseSource(s, "completed") /\ HandOff(s) /\ UNCHANGED <<told, news>>
  <2>1. Collected(s)'
    BY <1>2, <1>6 DEF Collected, Unfinished, AnyFailed
  <2>2. source'[s] = IF source[s] \in Open THEN "completed" ELSE source[s]
    BY <1>0, <1>6 DEF CloseSource, TypeOK
  <2>3. \A p \in 0..MaxPasses :
          <<s, p>> \in handoff' =>
            <<s, p>> \in handoff \/ (p = pass[s] /\ <<s, p>> \notin handed)
    BY <1>6 DEF HandOff
  <2>4. StartsFresh(s)' /\ ToldAgrees(s)' /\ WaitsCollected(s)'
    BY <1>0, <1>1, <1>2, <1>6, <2>1, <2>2
    DEF StartsFresh, ToldAgrees, WaitsCollected, SourceInv
  <2>5. HandoffCurrent(s)'
    BY <1>0, <1>2, <2>1, <2>3 DEF HandoffCurrent, SourceInv
  <2>6. ASSUME told[s] = "failed" PROVE FailedStays(s)'
    <3>1. /\ source[s] = "failed" /\ <<s, pass[s]>> \in handed
          /\ \A p \in 0..MaxPasses : <<s, p>> \notin handoff
      BY <1>0, <1>1, <1>6, <2>6 DEF SourceInv, FailedStays, HandsOverNoMore
    <3>2. \A p \in 0..MaxPasses : <<s, p>> \notin handoff'
      BY <2>3, <3>1
    <3>3. source'[s] = "failed" /\ <<s, pass'[s]>> \in handed'
      BY <1>2, <2>2, <3>1 DEF Open
    <3> QED
      BY <3>2, <3>3 DEF FailedStays, HandsOverNoMore
  <2>7. told[s] # "failed" => FailedStays(s)'
    BY <1>6 DEF FailedStays
  <2> QED
    BY <1>6, <2>4, <2>5, <2>6, <2>7 DEF SourceInv
<1> QED
  BY <1>3, <1>4, <1>5, <1>6 DEF ShardCompleted

(* What a re-share does to its source and to the others. *)
LEMMA ReshareEffect ==
  ASSUME TypeOK, NEW s \in Sources, Reshare(s)
  PROVE  /\ source'[s] = "in_progress"
         /\ \A t \in Sources \ {s} : /\ source'[t] = source[t] /\ pass'[t] = pass[t]
                                     /\ shard'[t] = shard[t]
  BY DEF Reshare, TypeOK

(* The Reconciler: it alone hands on what it claimed, and after a pass     *)
(* nothing waits for the source until its new shards are in.               *)
LEMMA ReconcileStep ==
  ASSUME OnboardingInv, NEW s \in Sources, NEW p \in 0..MaxPasses,
         Reconcile(s, p), NEW t \in Sources
  PROVE  SourceInv(t)'
<1>0. TypeOK /\ SourceInv(t) /\ SourceInv(s)
  BY DEF OnboardingInv
<1>1. /\ <<s, p>> \in handoff /\ handoff' = handoff \ {<<s, p>>}
      /\ requested' = requested /\ ended' = ended /\ handed' = handed
  BY DEF Reconcile, ReconcileAgain, ReconcileClean, ReconcileFails,
     ReconcileGaps, Claim
<1>2. /\ s \notin requested /\ source[s] # "absent" /\ told[s] # "failed"
      /\ <<s, p>> \in handed
  BY <1>0, <1>1, RequestedIsFresh DEF SourceInv, FailedStays, TypeOK
<1>3. CASE t # s
  <2>1. source'[t] = source[t] /\ pass'[t] = pass[t] /\ shard'[t] = shard[t]
    BY <1>0, <1>3, ReshareEffect
    DEF Reconcile, ReconcileAgain, ReconcileClean, ReconcileFails,
        ReconcileGaps, TypeOK
  <2>2. told'[t] = told[t] /\ (t \in reconciled' <=> t \in reconciled)
    BY <1>0, <1>3
    DEF Reconcile, ReconcileAgain, ReconcileClean, ReconcileFails,
        ReconcileGaps, Tell, TypeOK
  <2> QED
    BY <1>0, <1>1, <2>1, <2>2, Frame
<1>4. CASE t = s /\ ReconcileAgain(s, p)
  <2>1. told[s] = "completed"
    BY <1>0, <1>4 DEF ReconcileAgain, SourceInv, ToldAgrees
  <2>2. told' = told
    BY <1>4, <2>1, ToldAssumption DEF ReconcileAgain, Tell
  <2> QED
    BY <1>0, <1>1, <1>4, <2>2, Frame DEF ReconcileAgain
<1>5. ASSUME t = s, s \notin reconciled
      PROVE  /\ told[s] = None /\ p = pass[s]
             /\ \A q \in 0..MaxPasses : <<s, q>> \notin handoff'
  <2>1. told[s] = None
    BY <1>0, <1>2, <1>5 DEF SourceInv, ToldAgrees, TypeOK
  <2>2. \A q \in 0..MaxPasses : <<s, q>> \in handoff => q = pass[s]
    BY <1>0, <1>5 DEF SourceInv, HandoffCurrent
  <2> QED
    BY <1>1, <2>1, <2>2
<1>6. CASE t = s /\ ReconcileClean(s, p)
  <2>1. told'[s] = "completed" /\ s \in reconciled' /\ source' = source
    BY <1>0, <1>5, <1>6 DEF ReconcileClean, Tell, TypeOK
  <2> QED
    BY <1>1, <1>2, <1>6, <2>1
    DEF SourceInv, StartsFresh, HandoffCurrent, WaitsCollected, ToldAgrees,
        FailedStays
<1>7. CASE t = s /\ ReconcileFails(s, p)
  <2>1. /\ told'[s] = "failed" /\ s \notin reconciled' /\ source'[s] = "failed"
        /\ pass' = pass
    BY <1>0, <1>5, <1>7 DEF ReconcileFails, Tell, TypeOK
  <2>2. <<s, pass'[s]>> \in handed'
    BY <1>1, <1>2, <1>5, <1>7, <2>1 DEF ReconcileFails
  <2>3. \A q \in 0..MaxPasses : <<s, q>> \notin handoff'
    BY <1>5, <1>7 DEF ReconcileFails
  <2> QED
    BY <1>1, <1>2, <1>7, <2>1, <2>2, <2>3
    DEF SourceInv, StartsFresh, HandoffCurrent, WaitsCollected, ToldAgrees,
        FailedStays, HandsOverNoMore
<1>8. CASE t = s /\ ReconcileGaps(s, p)
  <2>1. /\ told'[s] = None /\ s \notin reconciled' /\ source'[s] = "in_progress"
    BY <1>0, <1>5, <1>8, ReshareEffect DEF ReconcileGaps
  <2>2. \A q \in 0..MaxPasses : <<s, q>> \notin handoff'
    BY <1>5, <1>8 DEF ReconcileGaps
  <2> QED
    BY <1>1, <1>2, <1>8, <2>1, <2>2, ToldAssumption
    DEF SourceInv, StartsFresh, HandoffCurrent, WaitsCollected, ToldAgrees,
        FailedStays
<1> QED
  BY <1>3, <1>4, <1>6, <1>7, <1>8 DEF Reconcile

(* PeriodicReconciler: only a reconciled source is re-shared. *)
LEMMA RecheckStep ==
  ASSUME OnboardingInv, NEW s \in Sources, Recheck(s), NEW t \in Sources
  PROVE  SourceInv(t)'
<1>0. TypeOK /\ SourceInv(t) /\ SourceInv(s)
  BY DEF OnboardingInv
<1>1. /\ reconciled' = reconciled /\ requested' = requested /\ ended' = ended
      /\ handed' = handed /\ handoff' = handoff /\ told' = told
  BY DEF Recheck
<1>2. CASE t # s
  BY <1>0, <1>1, <1>2, ReshareEffect, Frame DEF Recheck
<1>3. CASE t = s
  <2>1. /\ s \in reconciled /\ told[s] = "completed" /\ s \notin requested
        /\ source'[s] = "in_progress"
    BY <1>0, ReshareEffect DEF Recheck, SourceInv, ToldAgrees, TypeOK
  <2> QED
    BY <1>1, <1>3, <2>1
    DEF SourceInv, StartsFresh, HandoffCurrent, WaitsCollected, ToldAgrees,
        FailedStays
<1> QED
  BY <1>2, <1>3

(* TenantOnboarding closes what it is told about. *)
LEMMA NewsStep ==
  ASSUME OnboardingInv, NEW s \in Sources, CloseNews(s), NEW t \in Sources
  PROVE  SourceInv(t)'
<1>0. TypeOK /\ SourceInv(t) /\ SourceInv(s)
  BY DEF OnboardingInv
<1>1. /\ reconciled' = reconciled /\ requested' = requested /\ ended' = ended
      /\ handed' = handed /\ handoff' = handoff /\ told' = told
      /\ pass' = pass /\ shard' = shard
  BY DEF CloseNews, SourceFailed, SourceCompleted
<1>2. CASE t # s \/ SourceFailed(s)
  <2>1. source'[t] = source[t]
    BY <1>0, <1>2 DEF CloseNews, SourceFailed, SourceCompleted, CloseSource,
       TypeOK, SourceInv, FailedStays, Open
  <2> QED
    BY <1>0, <1>1, <2>1, Frame
<1>3. CASE t = s /\ SourceCompleted(s)
  <2>1. told[s] = "completed" /\ s \in reconciled /\ s \notin requested
    BY <1>0, <1>3, RequestedIsFresh DEF SourceCompleted, SourceInv, ToldAgrees
  <2>2. source[s] # "absent"
    BY <1>3, RequestedIsFresh DEF SourceCompleted
  <2>3. source'[s] # "absent"
    BY <1>0, <1>3, <2>2 DEF SourceCompleted, CloseSource, TypeOK
  <2> QED
    BY <1>1, <1>3, <2>1, <2>3
    DEF SourceInv, StartsFresh, HandoffCurrent, WaitsCollected, ToldAgrees,
        FailedStays
<1> QED
  BY <1>2, <1>3 DEF CloseNews

-----------------------------------------------------------------------------
(* The run *)

(* A source reported failed is never reported otherwise. *)
LEMMA ToldOnce ==
  ASSUME TypeOK, NEW s \in Sources, NEW outcome, NEW t \in Sources,
         Tell(s, outcome), told[t] # None
  PROVE  told'[t] = told[t]
  BY DEF TypeOK, Tell

(* Handlers that leave the run, its creation signal and Bridge alone keep  *)
(* what is said of them.                                                   *)
LEMMA RunUntouched ==
  ASSUME OnboardingInv, run' = run, created' = created, bridge' = bridge,
         \A t \in Sources : source[t] = "absent" => source'[t] = "absent",
         \A t \in Sources : told[t] = "failed" => told'[t] = "failed"
  PROVE  BridgeAgrees' /\ RunStages'
  BY DEF OnboardingInv, BridgeAgrees, RunStages

(* The source that failed the run is still failed when the last sibling    *)
(* comes in.                                                               *)
LEMMA RunStep ==
  ASSUME OnboardingInv, [Next]_vars
  PROVE  BridgeAgrees' /\ RunStages'
<1>0. TypeOK /\ BridgeAgrees /\ RunStages /\ \A s \in Sources : SourceInv(s)
  BY DEF OnboardingInv
<1>1. CASE CreateRun
  BY <1>0, <1>1 DEF CreateRun, BridgeAgrees, RunStages
<1>2. ASSUME NEW active \in SUBSET Sources, RunCreated(active)
      PROVE  BridgeAgrees' /\ RunStages'
  BY <1>0, <1>2 DEF RunCreated, BridgeAgrees, RunStages
<1>3. ASSUME NEW s \in Sources, StartSource(s) PROVE BridgeAgrees' /\ RunStages'
  <2>1. PICK n \in 0..MaxShards : PlanSource(s, n) \/ PlanFails(s)
    BY <1>3, BoundsAssumption DEF StartSource
  <2>2. source[s] = "pending"
    BY <1>0, <2>1 DEF PlanSource, PlanFails, TypeOK
  <2>3. \A t \in Sources : source[t] = "absent" => source'[t] = "absent"
    BY <1>0, <2>1, <2>2 DEF PlanSource, PlanFails, TypeOK
  <2>4. \A t \in Sources : told[t] = "failed" => told'[t] = "failed"
    BY <1>0, <2>1, ToldOnce, ToldAssumption DEF PlanSource, PlanFails
  <2> QED
    BY <2>1, <2>3, <2>4, RunUntouched DEF PlanSource, PlanFails
<1>4. ASSUME NEW s \in Sources, NEW i \in Shards, ShardCompleted(s, i)
      PROVE  BridgeAgrees' /\ RunStages'
  <2>1. \A t \in Sources : source[t] = "absent" => source'[t] = "absent"
    BY <1>0, <1>4 DEF ShardCompleted, CloseSource, TypeOK, Open
  <2>2. \A t \in Sources : told[t] = "failed" => told'[t] = "failed"
    BY <1>0, <1>4, ToldOnce, ToldAssumption DEF ShardCompleted
  <2> QED
    BY <1>4, <2>1, <2>2, RunUntouched DEF ShardCompleted
<1>5. ASSUME NEW s \in Sources, NEW p \in 0..MaxPasses, Reconcile(s, p)
      PROVE  BridgeAgrees' /\ RunStages'
  <2>0. source[s] # "absent"
    BY <1>5, RequestedIsFresh
    DEF Reconcile, ReconcileAgain, ReconcileClean, ReconcileFails,
        ReconcileGaps, Claim
  <2>1. \A t \in Sources : source[t] = "absent" => source'[t] = "absent"
    BY <1>0, <1>5, <2>0, ReshareEffect
    DEF Reconcile, ReconcileAgain, ReconcileClean, ReconcileFails,
        ReconcileGaps, TypeOK
  <2>2. \A t \in Sources : told[t] = "failed" => told'[t] = "failed"
    BY <1>0, <1>5, ToldOnce, ToldAssumption
    DEF Reconcile, ReconcileAgain, ReconcileClean, ReconcileFails, ReconcileGaps
  <2>3. run' = run /\ created' = created /\ bridge' = bridge
    BY <1>5
    DEF Reconcile, ReconcileAgain, ReconcileClean, ReconcileFails, ReconcileGaps
  <2> QED
    BY <2>1, <2>2, <2>3, RunUntouched
<1>6. ASSUME NEW s \in Sources, Recheck(s) PROVE BridgeAgrees' /\ RunStages'
  <2>1. \A t \in Sources : source[t] = "absent" => source'[t] = "absent"
    BY <1>0, <1>6, ReshareEffect DEF Recheck
  <2> QED
    BY <1>6, <2>1, RunUntouched DEF Recheck
<1>7. ASSUME NEW s \in Sources, s \in news
      PROVE  source[s] # "absent" /\ ~created /\ run # "absent"
  BY <1>0, <1>7, RequestedIsFresh DEF RunStages
<1>8. ASSUME NEW s \in Sources, SourceFailed(s) PROVE BridgeAgrees' /\ RunStages'
  <2>1. told'[s] = "failed" /\ bridge' = bridge /\ created' = created /\ ~created
        /\ run' \in {run, "failed"} /\ run' # "absent"
        /\ (run = "complete" => run' = "complete")
    BY <1>7, <1>8 DEF SourceFailed, CloseRun
  <2> QED
    BY <1>0, <2>1 DEF BridgeAgrees, RunStages
<1>9. ASSUME NEW s \in Sources, SourceCompleted(s) PROVE BridgeAgrees' /\ RunStages'
  <2>0. ~created /\ run # "absent" /\ told' = told /\ created' = created
        /\ told[s] = "completed" /\ source[s] # "absent"
    BY <1>7, <1>9 DEF SourceCompleted
  <2>1. run = "failed" => ~NoSourceFailed
    <3>1. SUFFICES ASSUME run = "failed" PROVE ~NoSourceFailed
      OBVIOUS
    <3>2. PICK t \in Sources : told[t] = "failed"
      BY <1>0, <2>0, <3>1 DEF RunStages
    <3>3. source[t] = "failed" /\ t # s
      BY <1>0, <2>0, <3>2 DEF SourceInv, FailedStays
    <3>4. source'[t] = "failed"
      BY <1>0, <1>9, <3>3 DEF SourceCompleted, CloseSource, TypeOK
    <3> QED
      BY <3>4 DEF NoSourceFailed
  <2>2. CASE AllIn /\ NoSourceFailed
    <3>1. run' = "complete" /\ bridge' = TRUE
      BY <1>0, <1>9, <2>0, <2>1, <2>2 DEF SourceCompleted, CloseRun, TypeOK
    <3> QED
      BY <2>0, <3>1 DEF BridgeAgrees, RunStages
  <2>3. CASE ~(AllIn /\ NoSourceFailed)
    <3>1. run' = run /\ bridge' = bridge
      BY <1>9, <2>3 DEF SourceCompleted
    <3>2. \A t \in Sources : source[t] = "absent" => source'[t] = "absent"
      BY <1>0, <1>9, <2>0 DEF SourceCompleted, CloseSource, TypeOK, Open
    <3> QED
      BY <2>0, <3>1, <3>2, RunUntouched
  <2> QED
    BY <2>2, <2>3
<1>10. ASSUME NEW s \in Sources, NEW i \in Shards, EndShard(s, i)
       PROVE  BridgeAgrees' /\ RunStages'
  BY <1>10, RunUntouched DEF EndShard, ShardEnds
<1>11. CASE UNCHANGED vars
  BY <1>11, RunUntouched DEF vars
<1> QED
  BY <1>1, <1>2, <1>3, <1>4, <1>5, <1>6, <1>8, <1>9, <1>10, <1>11
  DEF Next, StartRun, Reconciling, CloseNews

-----------------------------------------------------------------------------
(* OnboardingInv is inductive. *)
LEMMA Invariance == Spec => []OnboardingInv
<1>1. ASSUME OnboardingInv, [Next]_vars, NEW t \in Sources PROVE SourceInv(t)'
  <2>1. CASE CreateRun \/ UNCHANGED vars
    <3>1. SourceInv(t)
      BY <1>1 DEF OnboardingInv
    <3> QED
      BY <2>1, <3>1, Frame DEF CreateRun, vars
  <2>2. ASSUME NEW active \in SUBSET Sources, RunCreated(active) PROVE SourceInv(t)'
    BY <1>1, <2>2, RunCreatedStep
  <2>3. ASSUME NEW s \in Sources, StartSource(s) PROVE SourceInv(t)'
    BY <1>1, <2>3, PlanStep
  <2>4. ASSUME NEW s \in Sources, NEW i \in Shards,
               EndShard(s, i) \/ ShardCompleted(s, i)
        PROVE  SourceInv(t)'
    BY <1>1, <2>4, ShardEndsStep, RollUpStep DEF EndShard
  <2>5. ASSUME NEW s \in Sources, Reconciling(s) PROVE SourceInv(t)'
    BY <1>1, <2>5, ReconcileStep DEF Reconciling
  <2>6. ASSUME NEW s \in Sources, Recheck(s) \/ CloseNews(s) PROVE SourceInv(t)'
    BY <1>1, <2>6, RecheckStep, NewsStep
  <2> QED
    BY <1>1, <2>1, <2>2, <2>3, <2>4, <2>5, <2>6 DEF Next, StartRun
<1>2. OnboardingInv /\ [Next]_vars => OnboardingInv'
  BY <1>1, StepTypes, RunStep DEF OnboardingInv
<1> QED
  BY <1>2, OnboardingInvInit, PTL DEF Spec

(* Type correctness of rows and inboxes. *)
THEOREM TypeCorrect == Spec => []TypeOK
<1>1. OnboardingInv => TypeOK
  BY DEF OnboardingInv
<1> QED
  BY <1>1, Invariance, PTL

(* _handle_source_completed never tells Bridge about a run that failed,    *)
(* for any number of sources, shards and passes.                           *)
THEOREM BridgeIsTold == Spec => []BridgeAgrees
<1>1. OnboardingInv => BridgeAgrees
  BY DEF OnboardingInv
<1> QED
  BY <1>1, Invariance, PTL

(* What SourceOnboarding hands to the Reconciler is complete, whichever    *)
(* shard's signal triggered the roll-up and however often it was re-shared.*)
THEOREM HandedOverComplete == Spec => []CompletedWasCollected
<1>1. OnboardingInv => CompletedWasCollected
  BY DEF OnboardingInv, SourceInv, WaitsCollected, CompletedWasCollected
<1> QED
  BY <1>1, Invariance, PTL

-----------------------------------------------------------------------------
(* The refinement of TenantRun: what each step does to what it shows *)

ChosenSources == {s \in Sources : source[s] # "absent"}
InSources == {s \in Sources : HandedOver(s)}
BrokenSources == {s \in Sources : told[s] = "failed"}

(* A hand-over counts its source as collected, once. *)
LEMMA HandOffShown ==
  ASSUME TypeOK, NEW s \in Sources, HandOff(s)
  PROVE  InSources' = InSources \cup {s} /\ handed \subseteq handed'
<1>1. pass[s] \in 0..MaxPasses /\ handed' = handed \cup {<<s, pass[s]>>}
  BY DEF TypeOK, HandOff
<1> QED
  BY <1>1 DEF InSources, HandedOver

(* News of a failure breaks the source, unless it has told before. *)
LEMMA TellShown ==
  ASSUME TypeOK, NEW s \in Sources
  PROVE  /\ Tell(s, "failed") =>
              /\ BrokenSources' \in {BrokenSources, BrokenSources \cup {s}}
              /\ \A t \in Sources : told'[t] = "completed" => told[t] = "completed"
         /\ Tell(s, "completed") =>
              /\ BrokenSources' = BrokenSources
              /\ \A t \in Sources : told'[t] = "completed" =>
                   told[t] = "completed" \/ t = s
<1>0. told \in [Sources -> Outcomes]
  BY DEF TypeOK, Outcomes
<1>1. ASSUME Tell(s, "failed")
      PROVE  /\ BrokenSources' \in {BrokenSources, BrokenSources \cup {s}}
             /\ \A t \in Sources : told'[t] = "completed" => told[t] = "completed"
  <2>1. told' = told \/ told' = [told EXCEPT ![s] = "failed"]
    BY <1>1 DEF Tell
  <2>2. CASE told' = told
    BY <2>2 DEF BrokenSources
  <2>3. CASE told' = [told EXCEPT ![s] = "failed"]
    BY <1>0, <2>3 DEF BrokenSources
  <2> QED
    BY <2>1, <2>2, <2>3
<1>2. ASSUME Tell(s, "completed")
      PROVE  /\ BrokenSources' = BrokenSources
             /\ \A t \in Sources : told'[t] = "completed" =>
                  told[t] = "completed" \/ t = s
  <2>1. told' = told \/ (told[s] = None /\ told' = [told EXCEPT ![s] = "completed"])
    BY <1>2 DEF Tell
  <2> QED
    BY <1>0, <2>1, ToldAssumption DEF BrokenSources
<1> QED
  BY <1>1, <1>2

\* A step inside source s: at most it is collected or breaks
Works(s) ==
  /\ run' = run /\ bridge' = bridge /\ created' = created
  /\ s \in ChosenSources /\ ChosenSources' = ChosenSources
  /\ \/ /\ InSources' \in {InSources, InSources \cup {s}}
        /\ BrokenSources' = BrokenSources
     \/ /\ BrokenSources' \in {BrokenSources, BrokenSources \cup {s}}
        /\ InSources' = InSources
  /\ \A t \in Sources : Accounted(t)'

(* Rows and news that become completed need a hand-over. *)
LEMMA AccountedKept ==
  ASSUME RollUpInv, handed \subseteq handed',
         \A t \in Sources : source'[t] = "completed" =>
           source[t] = "completed" \/ HandedOver(t)',
         \A t \in Sources : told'[t] = "completed" =>
           told[t] = "completed" \/ HandedOver(t)'
  PROVE  \A t \in Sources : Accounted(t)'
  BY DEF RollUpInv, Accounted, HandedOver

(* Planning: a source without anything to fetch is collected at once. *)
LEMMA PlanWorks ==
  ASSUME OnboardingInv, RollUpInv, NEW s \in Sources, StartSource(s)
  PROVE  Works(s)
<1>0. TypeOK /\ source \in [Sources -> SourceStates] /\ s \in requested
      /\ source[s] = "pending" /\ "completed" # "absent" /\ "failed" # "absent"
  BY DEF OnboardingInv, TypeOK, StartSource, PlanFails, PlanSource, SourceStates
<1>1. ASSUME NEW n \in 0..MaxShards, PlanSource(s, n) PROVE Works(s)
  <2>1. /\ run' = run /\ bridge' = bridge /\ created' = created /\ told' = told
        /\ source' = [source EXCEPT ![s] = IF n = 0 THEN "completed" ELSE "in_progress"]
        /\ IF n = 0 THEN HandOff(s) ELSE handed' = handed
    BY <1>1 DEF PlanSource
  <2>2. /\ ChosenSources' = ChosenSources /\ s \in ChosenSources
        /\ \A t \in Sources : source'[t] = "completed" =>
             source[t] = "completed" \/ (t = s /\ n = 0)
    BY <1>0, <2>1 DEF ChosenSources
  <2>3. /\ handed \subseteq handed' /\ BrokenSources' = BrokenSources
        /\ InSources' \in {InSources, InSources \cup {s}}
        /\ n = 0 => HandedOver(s)'
    BY <1>0, <2>1, HandOffShown DEF BrokenSources, InSources, HandedOver
  <2>4. \A t \in Sources : Accounted(t)'
    BY <2>1, <2>2, <2>3, AccountedKept
  <2> QED
    BY <2>1, <2>2, <2>3, <2>4 DEF Works
<1>2. CASE PlanFails(s)
  <2>1. /\ run' = run /\ bridge' = bridge /\ created' = created /\ handed' = handed
        /\ source' = [source EXCEPT ![s] = "failed"] /\ Tell(s, "failed")
    BY <1>2 DEF PlanFails
  <2>2. /\ ChosenSources' = ChosenSources /\ s \in ChosenSources
        /\ \A t \in Sources : source'[t] = "completed" => source[t] = "completed"
    BY <1>0, <2>1 DEF ChosenSources
  <2>3. InSources' = InSources
    BY <2>1 DEF InSources, HandedOver
  <2>4. /\ BrokenSources' \in {BrokenSources, BrokenSources \cup {s}}
        /\ \A t \in Sources : told'[t] = "completed" => told[t] = "completed"
    BY <1>0, <2>1, TellShown
  <2>5. \A t \in Sources : Accounted(t)'
    BY <2>1, <2>2, <2>4, AccountedKept
  <2> QED
    BY <2>1, <2>2, <2>3, <2>4, <2>5 DEF Works
<1> QED
  BY <1>1, <1>2 DEF StartSource

(* The roll-up of a source collects or breaks it. *)
LEMMA RollUpWorks ==
  ASSUME OnboardingInv, RollUpInv, NEW s \in Sources, NEW i \in Shards,
         EndShard(s, i) \/ ShardCompleted(s, i)
  PROVE  Works(s)
<1>0. TypeOK /\ source \in [Sources -> SourceStates] /\ source[s] # "absent"
  <2>1. <<s, i>> \in ended \/ shard[s][i] # "absent"
    BY DEF EndShard, ShardEnds, ShardCompleted
  <2> QED
    BY <2>1, RequestedIsFresh DEF OnboardingInv, TypeOK, SourceStates
<1>1. /\ run' = run /\ bridge' = bridge /\ created' = created
      /\ s \in ChosenSources
  BY <1>0 DEF EndShard, ShardEnds, ShardCompleted, ChosenSources
<1>2. CASE UNCHANGED <<source, handed, told>>
  <2>1. ChosenSources' = ChosenSources /\ BrokenSources' = BrokenSources
        /\ InSources' = InSources
    BY <1>2 DEF ChosenSources, BrokenSources, InSources, HandedOver
  <2>2. \A t \in Sources : Accounted(t)'
    BY <1>2, AccountedKept
  <2> QED
    BY <1>1, <2>1, <2>2 DEF Works
<1>3. CASE CloseSource(s, "failed") /\ Tell(s, "failed") /\ handed' = handed
  <2>1. /\ ChosenSources' = ChosenSources
        /\ \A t \in Sources : source'[t] = "completed" => source[t] = "completed"
    BY <1>0, <1>3 DEF CloseSource, ChosenSources
  <2>2. InSources' = InSources
    BY <1>3 DEF InSources, HandedOver
  <2>3. /\ BrokenSources' \in {BrokenSources, BrokenSources \cup {s}}
        /\ \A t \in Sources : told'[t] = "completed" => told[t] = "completed"
    BY <1>0, <1>3, TellShown
  <2>4. \A t \in Sources : Accounted(t)'
    BY <1>3, <2>1, <2>3, AccountedKept
  <2> QED
    BY <1>1, <2>1, <2>2, <2>3, <2>4 DEF Works
<1>4. CASE CloseSource(s, "completed") /\ HandOff(s) /\ told' = told
  <2>1. /\ ChosenSources' = ChosenSources
        /\ \A t \in Sources : source'[t] = "completed" => source[t] = "completed" \/ t = s
    BY <1>0, <1>4 DEF CloseSource, ChosenSources
  <2>2. /\ handed \subseteq handed' /\ BrokenSources' = BrokenSources
        /\ InSources' = InSources \cup {s} /\ HandedOver(s)'
    BY <1>0, <1>4, HandOffShown DEF BrokenSources, InSources
  <2>3. \A t \in Sources : Accounted(t)'
    BY <1>4, <2>1, <2>2, AccountedKept
  <2> QED
    BY <1>1, <2>1, <2>2, <2>3 DEF Works
<1> QED
  BY <1>2, <1>3, <1>4 DEF EndShard, ShardEnds, ShardCompleted

(* A reconciliation tells of a source that has handed over. *)
LEMMA ReconcileWorks ==
  ASSUME OnboardingInv, RollUpInv, NEW s \in Sources,
         Reconciling(s) \/ Recheck(s)
  PROVE  Works(s)
<1>0. TypeOK /\ source \in [Sources -> SourceStates]
      /\ "completed" # "absent" /\ "failed" # "absent"
  BY DEF OnboardingInv, TypeOK, SourceStates
<1>1. /\ run' = run /\ bridge' = bridge /\ created' = created /\ handed' = handed
      /\ InSources' = InSources
  <2>1. /\ run' = run /\ bridge' = bridge /\ created' = created /\ handed' = handed
    BY DEF Reconciling, Reconcile, ReconcileAgain, ReconcileClean, ReconcileFails,
           ReconcileGaps, Recheck
  <2> QED
    BY <2>1 DEF InSources, HandedOver
<1>2. ASSUME NEW p \in 0..MaxPasses, Claim(s, p)
      PROVE  source[s] # "absent" /\ HandedOver(s)'
  <2>1. <<s, p>> \in handoff /\ <<s, p>> \in handed
    BY <1>0, <1>2 DEF Claim, TypeOK
  <2> QED
    BY <1>1, <2>1, RequestedIsFresh DEF HandedOver
<1>3. ASSUME source[s] # "absent", HandedOver(s)', Tell(s, "completed"), source' = source
      PROVE  Works(s)
  <2>1. ChosenSources' = ChosenSources /\ s \in ChosenSources
    BY <1>3 DEF ChosenSources
  <2>2. /\ BrokenSources' = BrokenSources
        /\ \A t \in Sources : told'[t] = "completed" => told[t] = "completed" \/ t = s
    BY <1>0, <1>3, TellShown
  <2>3. \A t \in Sources : Accounted(t)'
    BY <1>1, <1>3, <2>2, AccountedKept
  <2> QED
    BY <1>1, <2>1, <2>2, <2>3 DEF Works
<1>4. ASSUME source[s] # "absent", Tell(s, "failed"),
             source' = [source EXCEPT ![s] = "failed"]
      PROVE  Works(s)
  <2>1. /\ ChosenSources' = ChosenSources /\ s \in ChosenSources
        /\ \A t \in Sources : source'[t] = "completed" => source[t] = "completed"
    BY <1>0, <1>4 DEF ChosenSources
  <2>2. /\ BrokenSources' \in {BrokenSources, BrokenSources \cup {s}}
        /\ \A t \in Sources : told'[t] = "completed" => told[t] = "completed"
    BY <1>0, <1>4, TellShown
  <2>3. \A t \in Sources : Accounted(t)'
    BY <1>1, <2>1, <2>2, AccountedKept
  <2> QED
    BY <1>1, <2>1, <2>2, <2>3 DEF Works
<1>5. ASSUME source[s] # "absent", Reshare(s), told' = told
      PROVE  Works(s)
  <2>1. /\ ChosenSources' = ChosenSources /\ s \in ChosenSources
        /\ \A t \in Sources : source'[t] = "completed" => source[t] = "completed"
    BY <1>0, <1>5, ReshareEffect DEF ChosenSources
  <2>2. BrokenSources' = BrokenSources
    BY <1>5 DEF BrokenSources
  <2>3. \A t \in Sources : Accounted(t)'
    BY <1>1, <1>5, <2>1, AccountedKept
  <2> QED
    BY <1>1, <2>1, <2>2, <2>3 DEF Works
<1>6. ASSUME NEW p \in 0..MaxPasses, Reconcile(s, p) PROVE Works(s)
  <2>1. Claim(s, p)
    BY <1>6 DEF Reconcile, ReconcileAgain, ReconcileClean, ReconcileFails,
                ReconcileGaps
  <2>2. source[s] # "absent" /\ HandedOver(s)'
    BY <1>2, <2>1
  <2> QED
    BY <1>3, <1>4, <1>5, <1>6, <2>2
    DEF Reconcile, ReconcileAgain, ReconcileClean, ReconcileFails, ReconcileGaps
<1>7. CASE Recheck(s)
  BY <1>5, <1>7 DEF Recheck
<1> QED
  BY <1>6, <1>7 DEF Reconciling

(* Work inside a source shows as nothing, or as one of two things. *)
LEMMA WorksRefines ==
  ASSUME NEW s \in Sources, Works(s)
  PROVE  Promise!Next \/ UNCHANGED Promise!vars
<1>1. CASE BrokenSources' = BrokenSources /\ InSources' = InSources
  BY <1>1 DEF Works, Promise!vars, ChosenSources, InSources, BrokenSources
<1>2. CASE InSources' = InSources \cup {s} /\ BrokenSources' = BrokenSources
  <2>1. Promise!Collect(s)
    BY <1>2 DEF Works, Promise!Collect, ChosenSources, InSources, BrokenSources
  <2> QED
    BY <2>1 DEF Promise!Next
<1>3. CASE BrokenSources' = BrokenSources \cup {s} /\ InSources' = InSources
  <2>1. Promise!Break(s)
    BY <1>3 DEF Works, Promise!Break, ChosenSources, InSources, BrokenSources
  <2> QED
    BY <2>1 DEF Promise!Next
<1> QED
  BY <1>1, <1>2, <1>3 DEF Works

(* Nothing is completed at first. *)
LEMMA RollUpInvInit == Init => RollUpInv
  BY ToldAssumption DEF Init, RollUpInv, Accounted

(* OAuthPoller's run, with the signal that starts it. *)
LEMMA CreateRunRefines ==
  ASSUME OnboardingInv, RollUpInv, CreateRun
  PROVE  RollUpInv' /\ Promise!Next
<1>1. Promise!Start
  BY DEF CreateRun, Promise!Start, HandedOver
<1>2. RollUpInv'
  BY DEF CreateRun, RollUpInv, Accounted, HandedOver
<1> QED
  BY <1>1, <1>2 DEF Promise!Next

(* The run's sources are those whose rows it creates, and no others had    *)
(* one before.                                                             *)
LEMMA RunCreatedRefines ==
  ASSUME OnboardingInv, RollUpInv, NEW active \in SUBSET Sources,
         RunCreated(active)
  PROVE  RollUpInv' /\ Promise!Next
<1>1. /\ run = "pending" /\ created' = FALSE
      /\ run' = IF active = {} THEN "failed" ELSE "running"
      /\ bridge' = bridge /\ told' = told /\ handed' = handed
  BY DEF RunCreated, OnboardingInv, RunStages
<1>2. /\ ChosenSources' = active
      /\ \A t \in Sources : source'[t] # "completed"
  BY DEF RunCreated, ChosenSources
<1>3. InSources' = InSources /\ BrokenSources' = BrokenSources
  BY <1>1 DEF InSources, BrokenSources, HandedOver
<1>4. Promise!Choose(active)
  BY <1>1, <1>2, <1>3
  DEF Promise!Choose, ChosenSources, InSources, BrokenSources
<1>5. \A t \in Sources : Accounted(t)'
  BY <1>1, <1>2, AccountedKept
<1>6. RollUpInv'
  BY <1>1, <1>5 DEF RollUpInv
<1> QED
  BY <1>4, <1>6 DEF Promise!Next

(* A source whose news waits has a row, in a run that has started. *)
LEMMA NewsOfRun ==
  ASSUME OnboardingInv, RollUpInv, NEW s \in Sources, s \in news
  PROVE  source[s] # "absent" /\ run \in {"running", "complete", "failed"}
<1>1. source[s] # "absent"
  BY RequestedIsFresh
<1> QED
  BY <1>1 DEF OnboardingInv, TypeOK, RunStages, RollUpInv

(* The news of a failure fails a run that is still open. *)
LEMMA SourceFailedRefines ==
  ASSUME OnboardingInv, RollUpInv, NEW s \in Sources, SourceFailed(s)
  PROVE  RollUpInv' /\ (Promise!Next \/ UNCHANGED Promise!vars)
<1>0. source \in [Sources -> SourceStates]
  BY DEF OnboardingInv, TypeOK, SourceStates
<1>1. /\ bridge' = bridge /\ told' = told /\ handed' = handed /\ created' = created
      /\ told[s] = "failed" /\ s \in news
      /\ CloseSource(s, "failed") /\ CloseRun("failed")
  BY DEF SourceFailed
<1>2. source[s] # "absent" /\ run \in {"running", "complete", "failed"}
  BY <1>1, NewsOfRun
<1>3. /\ ChosenSources' = ChosenSources
      /\ \A t \in Sources : source'[t] = "completed" => source[t] = "completed"
  BY <1>0, <1>1, <1>2 DEF CloseSource, ChosenSources
<1>4. /\ InSources' = InSources /\ BrokenSources' = BrokenSources
      /\ BrokenSources # {}
  BY <1>1 DEF InSources, BrokenSources, HandedOver
<1>5. run' \in {"complete", "failed"} /\ (run # "running" => run' = run)
      /\ (run = "running" => run' = "failed")
  BY <1>1, <1>2 DEF CloseRun
<1>6. RollUpInv'
  <2>1. \A t \in Sources : Accounted(t)'
    BY <1>1, <1>3, AccountedKept
  <2> QED
    BY <1>1, <1>2, <1>5, <2>1 DEF RollUpInv
<1>7. CASE run = "running"
  <2>1. Promise!Fail
    BY <1>1, <1>3, <1>4, <1>5, <1>7
    DEF Promise!Fail, ChosenSources, InSources, BrokenSources
  <2> QED
    BY <1>6, <2>1 DEF Promise!Next
<1>8. CASE run # "running"
  <2>1. UNCHANGED Promise!vars
    BY <1>1, <1>3, <1>4, <1>5, <1>8
    DEF Promise!vars, ChosenSources, InSources, BrokenSources
  <2> QED
    BY <1>6, <2>1
<1> QED
  BY <1>7, <1>8

(* When the last sibling comes in every source of the run has handed over, *)
(* and none was reported failed: its row would still say so.               *)
LEMMA SourceCompletedRefines ==
  ASSUME OnboardingInv, RollUpInv, NEW s \in Sources, SourceCompleted(s)
  PROVE  RollUpInv' /\ (Promise!Next \/ UNCHANGED Promise!vars)
<1>0. source \in [Sources -> SourceStates]
  BY DEF OnboardingInv, TypeOK, SourceStates
<1>1. /\ told' = told /\ handed' = handed /\ created' = created
      /\ told[s] = "completed" /\ s \in news /\ CloseSource(s, "completed")
      /\ IF AllIn /\ NoSourceFailed
           THEN CloseRun("complete") /\ bridge' = TRUE
           ELSE UNCHANGED <<run, bridge>>
  BY DEF SourceCompleted
<1>2. source[s] # "absent" /\ run \in {"running", "complete", "failed"}
  BY <1>1, NewsOfRun
<1>3. HandedOver(s)'
  BY <1>1 DEF RollUpInv, Accounted, HandedOver
<1>4. /\ ChosenSources' = ChosenSources
      /\ \A t \in Sources :
           /\ source[t] = "failed" => source'[t] = "failed"
           /\ source'[t] = "completed" => source[t] = "completed" \/ t = s
           /\ source[t] # "absent" => source'[t] # "absent"
  BY <1>0, <1>1, <1>2 DEF CloseSource, ChosenSources, Open
<1>5. InSources' = InSources /\ BrokenSources' = BrokenSources
  BY <1>1 DEF InSources, BrokenSources, HandedOver
<1>6. \A t \in Sources : Accounted(t)'
  BY <1>1, <1>3, <1>4, AccountedKept
<1>7. CASE ~(AllIn /\ NoSourceFailed)
  <2>1. run' = run /\ bridge' = bridge
    BY <1>1, <1>7
  <2>2. RollUpInv'
    BY <1>1, <1>6, <2>1 DEF RollUpInv
  <2>3. UNCHANGED Promise!vars
    BY <1>4, <1>5, <2>1 DEF Promise!vars, ChosenSources, InSources, BrokenSources
  <2> QED
    BY <2>2, <2>3
<1>8. CASE AllIn /\ NoSourceFailed
  <2>1. \A t \in Sources : told[t] # "failed"
    BY <1>4, <1>8 DEF OnboardingInv, SourceInv, FailedStays, NoSourceFailed
  <2>2. BrokenSources = {}
    BY <2>1 DEF BrokenSources
  <2>3. run # "failed"
    BY <1>2, <2>1 DEF OnboardingInv, RunStages
  <2>4. run' = "complete" /\ bridge' = TRUE /\ CloseRun("complete")
    BY <1>1, <1>2, <1>8, <2>3 DEF CloseRun
  <2>5. RollUpInv'
    BY <1>6, <2>4 DEF RollUpInv
  <2>6. CASE run = "running"
    <3>1. ASSUME NEW t \in ChosenSources PROVE t \in InSources
      <4>1. t \in Sources /\ source'[t] = "completed"
        BY <1>4, <1>8 DEF ChosenSources, AllIn, NoSourceFailed
      <4>2. HandedOver(t)
        BY <1>1, <1>6, <4>1 DEF Accounted, HandedOver
      <4> QED
        BY <4>1, <4>2 DEF InSources
    <3>2. Promise!Complete
      BY <1>4, <1>5, <2>2, <2>4, <2>6, <3>1
      DEF Promise!Complete, ChosenSources, InSources, BrokenSources
    <3> QED
      BY <2>5, <3>2 DEF Promise!Next
  <2>7. CASE run = "complete"
    <3>1. run' = run /\ bridge' = bridge
      BY <2>4, <2>7 DEF RollUpInv, OnboardingInv, BridgeAgrees, TypeOK
    <3>2. UNCHANGED Promise!vars
      BY <1>4, <1>5, <3>1
      DEF Promise!vars, ChosenSources, InSources, BrokenSources
    <3> QED
      BY <2>5, <3>2
  <2> QED
    BY <1>2, <2>3, <2>6, <2>7
<1> QED
  BY <1>7, <1>8

(* Every step of the services is a step of the promise or hidden. *)
LEMMA StepRefines ==
  ASSUME OnboardingInv, RollUpInv, [Next]_vars
  PROVE  RollUpInv' /\ (Promise!Next \/ UNCHANGED Promise!vars)
<1>1. ASSUME NEW s \in Sources, Works(s)
      PROVE  RollUpInv' /\ (Promise!Next \/ UNCHANGED Promise!vars)
  BY <1>1, WorksRefines DEF Works, RollUpInv
<1>2. ASSUME NEW s \in Sources,
             StartSource(s) \/ Reconciling(s) \/ Recheck(s)
      PROVE  Works(s)
  BY <1>2, PlanWorks, ReconcileWorks
<1>3. ASSUME NEW s \in Sources, NEW i \in Shards,
             EndShard(s, i) \/ ShardCompleted(s, i)
      PROVE  Works(s)
  BY <1>3, RollUpWorks
<1>4. CASE StartRun
  BY <1>4, CreateRunRefines, RunCreatedRefines DEF StartRun
<1>5. ASSUME NEW s \in Sources, CloseNews(s)
      PROVE  RollUpInv' /\ (Promise!Next \/ UNCHANGED Promise!vars)
  BY <1>5, SourceFailedRefines, SourceCompletedRefines DEF CloseNews
<1>6. CASE UNCHANGED vars
  <2>1. UNCHANGED Promise!vars
    BY <1>6 DEF vars, Promise!vars, HandedOver
  <2>2. RollUpInv'
    BY <1>6 DEF vars, RollUpInv, Accounted, HandedOver
  <2> QED
    BY <2>1, <2>2
<1> QED
  BY <1>1, <1>2, <1>3, <1>4, <1>5, <1>6 DEF Next

(* Whatever the order in which the services claim each other's signals,    *)
(* and however often a source is re-shared, the tenant sees one TenantRun: *)
(* it is complete, and Bridge hears of it, exactly once and only when      *)
(* every source chosen has been collected and none was reported failed.    *)
THEOREM TenantRunRefinement == Spec => ImplementsTenantRun
<1>1. Init => Promise!Init
  BY ToldAssumption DEF Init, Promise!Init, HandedOver
<1>2. OnboardingInv /\ RollUpInv /\ [Next]_vars
        => RollUpInv' /\ [Promise!Next]_(Promise!vars)
  BY StepRefines
<1> QED
  BY <1>1, <1>2, Invariance, RollUpInvInit, PTL
  DEF Spec, ImplementsTenantRun, Promise!Spec
=============================================================================
