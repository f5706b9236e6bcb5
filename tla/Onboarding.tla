------------------------------ MODULE Onboarding ------------------------------
(***************************************************************************)
(* The onboarding of one tenant (services/ingest/ingestion/workflows):     *)
(* OAuthPoller creates the run, TenantOnboarding fans it out to sources,   *)
(* SourceOnboarding fans a source out to shards and rolls their ends up,   *)
(* Reconciler looks for gaps and fetches them in further shards, and       *)
(* TenantOnboarding rolls the sources up.  PeriodicReconciler looks for    *)
(* gaps again later.  They speak through workflow_signals: a signal is     *)
(* inserted and claimed inside the transaction of the handler, and one     *)
(* whose idempotency key was ever used is dropped.                         *)
(*                                                                         *)
(* Every handler is one transaction, one action here: a crash in it rolls  *)
(* it back and its signal is claimed again.  A shard is what ShardLifecycle*)
(* promises: it ends once, with its completion signal.                     *)
(***************************************************************************)
EXTENDS Naturals, FiniteSets

CONSTANTS
  Sources,      \* sources the tenant may have installed
  MaxShards,    \* shards of a source, re-shared ones included
  None,
  MaxPasses     \* re-shares of a source, by either reconciler

ASSUME BoundsAssumption == MaxShards \in Nat /\ MaxPasses \in Nat
ASSUME ToldAssumption == None \notin {"completed", "failed"}

VARIABLES
  run,          \* onboarding_runs.status
  source,       \* source -> source_onboarding_runs.status
  pass,         \* source -> reconciliation_pass_count
  reconciled,   \* sources whose reconciled_at is set
  shard,        \* source -> shard -> onboarding_shards.state
  created,      \* onboarding_run_created waits
  requested,    \* sources whose source_onboarding_requested waits
  ended,        \* <<source, shard>> whose shard_fetch_completed waits
  handed,       \* <<source, pass>>: keys of source_shards_completed
  handoff,      \* those that wait
  told,         \* source -> what source_onboarding_completed says
  news,         \* sources for which it waits
  bridge        \* tenant_onboarding_completed was emitted

vars == <<run, source, pass, reconciled, shard, created, requested, ended,
          handed, handoff, told, news, bridge>>

\* uuid7: ids come in the order of creation
Shards == 1..MaxShards

Open == {"pending", "in_progress"}

\* ShardFetch's pending and in_progress are one here: no handler tells them
\* apart
ShardStates == {"absent", "pending", "done", "failed", "resharded"}

TypeOK ==
  /\ run \in {"absent", "pending", "running", "complete", "failed"}
  /\ source \in [Sources -> {"absent", "completed", "failed"} \cup Open]
  /\ pass \in [Sources -> 0..MaxPasses]
  /\ reconciled \subseteq Sources
  /\ shard \in [Sources -> [Shards -> ShardStates]]
  /\ created \in BOOLEAN
  /\ requested \subseteq {s \in Sources : source[s] = "pending"}
  /\ ended \subseteq Sources \X Shards
  /\ handed \subseteq Sources \X (0..MaxPasses)
  /\ handoff \subseteq handed
  /\ told \in [Sources -> {None, "completed", "failed"}]
  /\ news \subseteq {s \in Sources : told[s] # None}
  /\ bridge \in BOOLEAN

Init ==
  /\ run = "absent"
  /\ source = [s \in Sources |-> "absent"]
  /\ pass = [s \in Sources |-> 0]
  /\ reconciled = {}
  /\ shard = [s \in Sources |-> [i \in Shards |-> "absent"]]
  /\ created = FALSE
  /\ requested = {} /\ ended = {}
  /\ handed = {} /\ handoff = {}
  /\ told = [s \in Sources |-> None] /\ news = {}
  /\ bridge = FALSE

-----------------------------------------------------------------------------
(* Signals with a key that may be used again *)

\* source_onboarding_completed, keyed run:source
Tell(s, outcome) ==
  IF told[s] = None
    THEN told' = [told EXCEPT ![s] = outcome] /\ news' = news \cup {s}
    ELSE UNCHANGED <<told, news>>

\* Mutant of HandOff: keyed by the source alone
HandOffOnce(s) ==
  /\ handed' = handed \cup {<<s, 0>>}
  /\ handoff' = IF <<s, 0>> \in handed THEN handoff
                ELSE handoff \cup {<<s, 0>>}

\* source_shards_completed, keyed run:source:pass_N
HandOff(s) ==
  /\ handed' = handed \cup {<<s, pass[s]>>}
  /\ handoff' = IF <<s, pass[s]>> \in handed THEN handoff
                ELSE handoff \cup {<<s, pass[s]>>}

-----------------------------------------------------------------------------
(* OAuthPoller and TenantOnboarding's new-runs phase *)

CreateRun ==
  /\ run = "absent"
  /\ run' = "pending"
  /\ created' = TRUE
  /\ UNCHANGED <<source, pass, reconciled, shard, requested, ended, handed,
                 handoff, told, news, bridge>>

\* Mutant of RunCreated: requests every source, rows for the active ones
RunCreatedForAll(active) ==
  /\ created
  /\ created' = FALSE
  /\ requested' = Sources
  /\ source' = [s \in Sources |-> IF s \in active THEN "pending" ELSE "absent"]
  /\ run' = IF active = {} THEN "failed" ELSE "running"
  /\ UNCHANGED <<pass, reconciled, shard, ended, handed, handoff, told, news,
                 bridge>>

\* The installations active now; a tenant without any fails at once
RunCreated(active) ==
  /\ created
  /\ created' = FALSE
  /\ requested' = active
  /\ source' = [s \in Sources |-> IF s \in active THEN "pending" ELSE "absent"]
  /\ run' = IF active = {} THEN "failed" ELSE "running"
  /\ UNCHANGED <<pass, reconciled, shard, ended, handed, handoff, told, news,
                 bridge>>

-----------------------------------------------------------------------------
(* SourceOnboarding *)

\* A planner with nothing to fetch hands over at once
PlanSource(s, n) ==
  /\ s \in requested
  /\ requested' = requested \ {s}
  /\ source' = [source EXCEPT ![s] = IF n = 0 THEN "completed"
                                     ELSE "in_progress"]
  /\ shard' = [shard EXCEPT ![s] = [i \in Shards |-> IF i <= n
                                                     THEN "pending"
                                                     ELSE "absent"]]
  /\ IF n = 0 THEN HandOff(s) ELSE UNCHANGED <<handed, handoff>>
  /\ UNCHANGED <<run, pass, reconciled, created, ended, told, news, bridge>>

\* The installation is gone, or the planner raises
PlanFails(s) ==
  /\ s \in requested
  /\ requested' = requested \ {s}
  /\ source' = [source EXCEPT ![s] = "failed"]
  /\ Tell(s, "failed")
  /\ UNCHANGED <<run, pass, reconciled, shard, created, ended, handed, handoff,
                 bridge>>

\* ShardFetch: the row and the signal in one transaction
ShardEnds(s, i, status) ==
  /\ shard[s][i] = "pending"
  /\ shard' = [shard EXCEPT ![s][i] = status]
  /\ ended' = ended \cup {<<s, i>>}
  /\ UNCHANGED <<run, source, pass, reconciled, created, requested, handed,
                 handoff, told, news, bridge>>

\* Mutant of Unfinished: a re-shared shard counts as unfinished
UnfinishedReshared(s) ==
  \E i \in Shards : shard[s][i] \in {"pending", "resharded"}

Unfinished(s) == \E i \in Shards : shard[s][i] = "pending"

AnyFailed(s) == \E i \in Shards : shard[s][i] = "failed"

CloseSource(s, status) ==
  source' = [source EXCEPT ![s] = IF @ \in Open THEN status ELSE @]

(***************************************************************************)
(* The roll-up, under a lock on the source's row.  It reads the rows and   *)
(* not the signals, so the last shards' signals may each find every shard  *)
(* ended; the guards and the keys absorb the repetition.  ShardFetch has   *)
(* already marked the shard, which makes the handler's own UPDATE of it a  *)
(* no-op.                                                                  *)
(***************************************************************************)
ShardCompleted(s, i) ==
  /\ <<s, i>> \in ended
  /\ ended' = ended \ {<<s, i>>}
  /\ \/ /\ Unfinished(s)
        /\ UNCHANGED <<source, handed, handoff, told, news>>
     \/ /\ ~Unfinished(s) /\ AnyFailed(s)
        /\ CloseSource(s, "failed")
        /\ Tell(s, "failed")
        /\ UNCHANGED <<handed, handoff>>
     \/ /\ ~Unfinished(s) /\ ~AnyFailed(s)
        /\ CloseSource(s, "completed")
        /\ HandOff(s)
        /\ UNCHANGED <<told, news>>
  /\ UNCHANGED <<run, pass, reconciled, shard, created, requested, bridge>>

-----------------------------------------------------------------------------
(* Reconciler and PeriodicReconciler *)

NextId(s, j) ==
  shard[s][j] = "absent" /\ \A k \in 1..(j - 1) : shard[s][k] # "absent"

\* Mutant of Reshare: the source keeps its status
ReshareClosed(s) ==
  /\ pass[s] < MaxPasses
  /\ pass' = [pass EXCEPT ![s] = @ + 1]
  /\ UNCHANGED source
  /\ \E i, j \in Shards :
       /\ shard[s][i] = "done" /\ NextId(s, j)
       /\ shard' = [shard EXCEPT ![s][i] = "resharded", ![s][j] = "pending"]

\* apply_reshare: a shard with a gap is replaced by one that fetches it
Reshare(s) ==
  /\ pass[s] < MaxPasses
  /\ pass' = [pass EXCEPT ![s] = @ + 1]
  /\ source' = [source EXCEPT ![s] = "in_progress"]
  /\ \E i, j \in Shards :
       /\ shard[s][i] = "done" /\ NextId(s, j)
       /\ shard' = [shard EXCEPT ![s][i] = "resharded", ![s][j] = "pending"]

Claim(s, p) == <<s, p>> \in handoff /\ handoff' = handoff \ {<<s, p>>}

\* Already reconciled: says so again, which the key absorbs
ReconcileAgain(s, p) ==
  /\ Claim(s, p) /\ s \in reconciled
  /\ Tell(s, "completed")
  /\ UNCHANGED <<run, source, pass, reconciled, shard, created, requested,
                 ended, handed, bridge>>

\* No gap, or the gap check timed out
ReconcileClean(s, p) ==
  /\ Claim(s, p) /\ s \notin reconciled
  /\ reconciled' = reconciled \cup {s}
  /\ Tell(s, "completed")
  /\ UNCHANGED <<run, source, pass, shard, created, requested, ended, handed,
                 bridge>>

ReconcileFails(s, p) ==
  /\ Claim(s, p) /\ s \notin reconciled
  /\ source' = [source EXCEPT ![s] = "failed"]
  /\ Tell(s, "failed")
  /\ UNCHANGED <<run, pass, reconciled, shard, created, requested, ended,
                 handed, bridge>>

ReconcileGaps(s, p) ==
  /\ Claim(s, p) /\ s \notin reconciled
  /\ Reshare(s)
  /\ UNCHANGED <<run, reconciled, created, requested, ended, handed, told,
                 news, bridge>>

Reconcile(s, p) ==
  \/ ReconcileAgain(s, p) \/ ReconcileClean(s, p) \/ ReconcileFails(s, p)
  \/ ReconcileGaps(s, p)

\* A source is due as soon as it is reconciled: its news may still wait
Recheck(s) ==
  /\ source[s] = "completed" /\ s \in reconciled
  /\ Reshare(s)
  /\ UNCHANGED <<run, reconciled, created, requested, ended, handed, handoff,
                 told, news, bridge>>

-----------------------------------------------------------------------------
(* TenantOnboarding's completion phase *)

CloseRun(status) ==
  run' = IF run \in {"pending", "running"} THEN status ELSE run

SourceFailed(s) ==
  /\ s \in news /\ told[s] = "failed"
  /\ news' = news \ {s}
  /\ CloseSource(s, "failed")
  /\ CloseRun("failed")
  /\ UNCHANGED <<pass, reconciled, shard, created, requested, ended, handed,
                 handoff, told, bridge>>

\* Mutant of AllIn: a source that was not planned yet is not waited for
AllInPlanned == \A s \in Sources : source'[s] # "in_progress"

AllIn == \A s \in Sources : source'[s] \in {"absent", "completed", "failed"}

\* Mutant of NoSourceFailed: a failed sibling is not looked for
NoSourceFailedUnchecked == TRUE

NoSourceFailed == \A s \in Sources : source'[s] # "failed"

\* The UPDATE of the run is guarded by its status, the emit is not
SourceCompleted(s) ==
  /\ s \in news /\ told[s] = "completed"
  /\ news' = news \ {s}
  /\ CloseSource(s, "completed")
  /\ IF AllIn /\ NoSourceFailed
       THEN CloseRun("complete") /\ bridge' = TRUE
       ELSE UNCHANGED <<run, bridge>>
  /\ UNCHANGED <<pass, reconciled, shard, created, requested, ended, handed,
                 handoff, told>>

-----------------------------------------------------------------------------
\* What the services' ticks do with the signals addressed to them
StartRun == CreateRun \/ \E active \in SUBSET Sources : RunCreated(active)

StartSource(s) == PlanFails(s) \/ \E n \in 0..MaxShards : PlanSource(s, n)

EndShard(s, i) == \E status \in {"done", "failed"} : ShardEnds(s, i, status)

Reconciling(s) == \E p \in 0..MaxPasses : Reconcile(s, p)

CloseNews(s) == SourceFailed(s) \/ SourceCompleted(s)

Next ==
  \/ StartRun
  \/ \E s \in Sources :
       \/ StartSource(s) \/ Reconciling(s) \/ Recheck(s) \/ CloseNews(s)
       \/ \E i \in Shards : EndShard(s, i) \/ ShardCompleted(s, i)

Spec == Init /\ [][Next]_vars

(***************************************************************************)
(* Every service keeps ticking and claims its oldest signal first; a shard *)
(* ends (ShardFetch, while its installation stays enabled).  Nothing makes *)
(* PeriodicReconciler find a gap.                                          *)
(***************************************************************************)
FairSpec ==
  /\ Spec
  /\ WF_vars(StartRun)
  /\ \A s \in Sources :
       /\ WF_vars(StartSource(s)) /\ WF_vars(Reconciling(s))
       /\ WF_vars(CloseNews(s))
       /\ \A i \in Shards : WF_vars(EndShard(s, i)) /\ WF_vars(ShardCompleted(s, i))

-----------------------------------------------------------------------------
(* Properties *)

(***************************************************************************)
(* Bridge is told that the tenant is onboarded only if its run is          *)
(* complete, although nothing but the sources' rows keeps                  *)
(* _handle_source_completed from emitting for a run that has failed: the   *)
(* source that failed the run must still be failed when the last sibling   *)
(* comes in, whatever was re-shared and signalled again in between.        *)
(***************************************************************************)
BridgeAgrees == bridge => run = "complete"

(***************************************************************************)
(* A source that waits for its reconciliation as completed has collected   *)
(* every shard, the ones re-shared along the way and their replacements    *)
(* included, although any of its shards' signals may trigger the roll-up.  *)
(***************************************************************************)
Collected(s) == \A i \in Shards : shard[s][i] \notin {"pending", "failed"}

CompletedWasCollected ==
  \A s \in Sources :
    source[s] = "completed" /\ s \notin reconciled => Collected(s)

(***************************************************************************)
(* Who asked for the onboarding may take all of it for one TenantRun: the  *)
(* order in which four services claim each other's signals never shows.    *)
(***************************************************************************)
HandedOver(s) == \E p \in 0..MaxPasses : <<s, p>> \in handed

Promise == INSTANCE TenantRun WITH
  chosen <- {s \in Sources : source[s] # "absent"},
  collected <- {s \in Sources : HandedOver(s)},
  broken <- {s \in Sources : told[s] = "failed"}

ImplementsTenantRun == Promise!Spec

\* PeriodicReconciler re-shared a source after its completion was signalled
Reopened(s) == told[s] = "completed" /\ source[s] # "completed"

(***************************************************************************)
(* A run ends: each pass of each source hands over under a key of its own, *)
(* and each source tells TenantOnboarding once.  The exception is a source *)
(* that PeriodicReconciler re-opens before its siblings are in: the key of *)
(* its completion is used, so nobody says when it is complete again.       *)
(***************************************************************************)
RunEnds ==
  run = "pending" ~>
    run \in {"complete", "failed"} \/ \E s \in Sources : Reopened(s)

(***************************************************************************)
(* A source that fetches, at first or again, settles: no re-share leaves   *)
(* it in progress for good.                                                *)
(***************************************************************************)
SourcesSettle ==
  \A s \in Sources : source[s] = "in_progress" ~> source[s] \notin Open

-----------------------------------------------------------------------------
(* What the repository says and the code does not do *)

(***************************************************************************)
(* tenant_onboarding.py: "if Slack fails but Gmail succeeds, the tenant    *)
(* onboarding is failed not partial."                                      *)
(***************************************************************************)
FailedNotPartial ==
  run = "complete" => \A s \in Sources : source[s] # "failed"

-----------------------------------------------------------------------------
(***************************************************************************)
(* The inductive invariant.  A source that failed the run stays failed:    *)
(* nothing is handed over for it any more, since its last hand-over used   *)
(* the key of its pass, or a shard failed, or it never had one.            *)
(***************************************************************************)
Fresh(s) ==
  /\ \A i \in Shards : shard[s][i] = "absent" /\ <<s, i>> \notin ended
  /\ \A p \in 0..MaxPasses : <<s, p>> \notin handoff
  /\ told[s] = None /\ s \notin reconciled

StartsFresh(s) == source[s] = "absent" \/ s \in requested => Fresh(s)

HandoffCurrent(s) ==
  \A p \in 0..MaxPasses :
    <<s, p>> \in handoff /\ s \notin reconciled => p = pass[s] /\ Collected(s)

WaitsCollected(s) ==
  source[s] = "completed" /\ s \notin reconciled => Collected(s)

ToldAgrees(s) == s \in reconciled <=> told[s] = "completed"

HandsOverNoMore(s) ==
  \/ <<s, pass[s]>> \in handed
  \/ AnyFailed(s)
  \/ \A i \in Shards : shard[s][i] = "absent" /\ <<s, i>> \notin ended

FailedStays(s) ==
  told[s] = "failed" =>
    /\ source[s] = "failed"
    /\ \A p \in 0..MaxPasses : <<s, p>> \notin handoff
    /\ HandsOverNoMore(s)

SourceInv(s) ==
  /\ StartsFresh(s) /\ HandoffCurrent(s) /\ WaitsCollected(s)
  /\ ToldAgrees(s) /\ FailedStays(s)

RunStages ==
  /\ run = "absent" \/ created => \A s \in Sources : source[s] = "absent"
  /\ created => run = "pending"
  /\ run = "failed" => \/ \E s \in Sources : told[s] = "failed"
                       \/ \A s \in Sources : source[s] = "absent"

OnboardingInv ==
  /\ TypeOK /\ BridgeAgrees /\ RunStages
  /\ \A s \in Sources : SourceInv(s)

(***************************************************************************)
(* What the refinement needs besides: a source that counts as completed    *)
(* has handed over once, and the run leaves pending with its created       *)
(* signal and becomes complete with the word to Bridge.                    *)
(***************************************************************************)
Accounted(s) ==
  source[s] = "completed" \/ told[s] = "completed" => HandedOver(s)

RollUpInv ==
  /\ run = "pending" => created
  /\ run = "complete" => bridge
  /\ \A s \in Sources : Accounted(s)
=============================================================================
