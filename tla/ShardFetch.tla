------------------------------ MODULE ShardFetch ------------------------------
(***************************************************************************)
(* The backfill of one shard (services/ingest/ingestion/workflows/         *)
(* shard_fetch.py and state.py).  A fetcher process claims the shard's     *)
(* request signal and runs its fetch loop: read the cursor, fetch a page,  *)
(* publish its records to the raw topic, wait for the broker, advance the  *)
(* cursor.  A loop that meets a transient fault parks the shard in         *)
(* in_progress; any process whose orphan scan finds the heartbeat older    *)
(* than the lease resumes it.  Taking over does not stop a slow owner:     *)
(* _refresh_shard_lease stamps started_at, the scan reads last_advanced_at,*)
(* so two loops may run on one shard.                                      *)
(*                                                                         *)
(* A page is one record, named by the page's number.  A tick runs its      *)
(* signal loops to the end before it scans, so a process runs at most one  *)
(* loop on the shard.                                                      *)
(***************************************************************************)
EXTENDS Naturals

CONSTANTS
  Fetchers,     \* ShardFetch processes
  Pages,        \* pages the shard has; the last one carries end_of_data
  None,
  MaxFaults,    \* failures and crashes, of every process
  MaxLapses     \* live loops that outlast the lease between two advances

ASSUME PagesAssumption == Pages \in Nat \ {0}
ASSUME StatusAssumption == None \notin {"done", "failed"}

VARIABLES
  shard,        \* onboarding_shards.state
  request,      \* shard_fetch_requested waits in the inbox
  completion,   \* status carried by shard_fetch_completed, None before
  cursor,       \* workflow_states.state_data.cursor: pages it has passed
  fresh,        \* last_advanced_at is within the lease
  loop,         \* process -> where its fetch loop is, and the cursor it read
  installed,    \* the provider installation is enabled
  raw,          \* pages on ingestion.raw.<source>, however often
  refused,      \* pages the broker refused after produce took them
  spent         \* faults and lapses so far

vars == <<shard, request, completion, cursor, fresh, loop, installed,
          raw, refused, spent>>

Phases == {"idle", "orphan", "start", "read", "fetch", "publish", "advance",
           "finish", "failing"}

Idle == [pc |-> "idle", at |-> 0]

\* Phases in which an exception is caught by _run_fetch_loop's last handler
Guarded == {"start", "read", "fetch", "advance"}

Spend(kind) == spent' = [spent EXCEPT ![kind] = @ + 1]

Fault == spent["faults"] < MaxFaults /\ Spend("faults")

Goto(f, pc) == loop' = [loop EXCEPT ![f].pc = pc]

Park(f) == loop' = [loop EXCEPT ![f] = Idle]

Ended == {"done", "failed"}

TypeOK ==
  /\ shard \in {"pending", "in_progress", "done", "failed"}
  /\ request \in BOOLEAN
  /\ completion \in {None} \cup Ended
  /\ cursor \in 0..Pages
  /\ fresh \in BOOLEAN
  /\ loop \in [Fetchers -> [pc : Phases, at : 0..Pages]]
  /\ installed \in BOOLEAN
  /\ raw \subseteq 1..Pages
  /\ refused \subseteq 1..Pages
  /\ spent \in [{"faults", "lapses"} -> Nat]

Init ==
  /\ shard = "pending"
  /\ request = TRUE
  /\ completion = None
  /\ cursor = 0
  /\ fresh = FALSE
  /\ loop = [f \in Fetchers |-> Idle]
  /\ installed = TRUE
  /\ raw = {} /\ refused = {}
  /\ spent = [kind \in {"faults", "lapses"} |-> 0]

-----------------------------------------------------------------------------
(* Taking a shard up *)

(***************************************************************************)
(* One transaction: consume the signal, pending -> in_progress, bootstrap  *)
(* the workflow state with an empty cursor.  The branches for a signal     *)
(* that finds the shard already taken are dead: the signal is emitted once *)
(* per shard and consumed by the transaction that takes it.                *)
(***************************************************************************)
ClaimSignal(f) ==
  /\ loop[f].pc = "idle"
  /\ request /\ shard = "pending"
  /\ request' = FALSE
  /\ shard' = "in_progress"
  /\ cursor' = 0
  /\ fresh' = TRUE
  /\ Goto(f, "start")
  /\ UNCHANGED <<completion, installed, raw, refused, spent>>

\* Mutant of Scan: looks for shards nobody has taken up
ScanPending(f) ==
  /\ loop[f].pc = "idle"
  /\ shard = "pending" /\ ~fresh
  /\ Goto(f, "orphan")
  /\ UNCHANGED <<shard, request, completion, cursor, fresh, installed,
                 raw, refused, spent>>

\* _load_orphan_shards: in_progress with a stale heartbeat
Scan(f) ==
  /\ loop[f].pc = "idle"
  /\ shard = "in_progress" /\ ~fresh
  /\ Goto(f, "orphan")
  /\ UNCHANGED <<shard, request, completion, cursor, fresh, installed,
                 raw, refused, spent>>

\* _refresh_shard_lease: wins as long as the shard is in_progress
RefreshLease(f) ==
  /\ loop[f].pc = "orphan"
  /\ IF shard = "in_progress" THEN Goto(f, "start") ELSE Park(f)
  /\ UNCHANGED <<shard, request, completion, cursor, fresh, installed,
                 raw, refused, spent>>

\* An installation suspended meanwhile parks the shard
LoadInstall(f) ==
  /\ loop[f].pc = "start"
  /\ IF installed THEN Goto(f, "read") ELSE Park(f)
  /\ UNCHANGED <<shard, request, completion, cursor, fresh, installed,
                 raw, refused, spent>>

-----------------------------------------------------------------------------
(* One page *)

\* The cursor is read again for every page
LoadCursor(f) ==
  /\ loop[f].pc = "read"
  /\ loop' = [loop EXCEPT ![f] = [pc |-> "fetch", at |-> cursor]]
  /\ UNCHANGED <<shard, request, completion, cursor, fresh, installed,
                 raw, refused, spent>>

\* The page after the cursor; past the end a fetcher returns no records,
\* the same cursor and end_of_data
HasPage(at) == at < Pages

\* Mutant of NextCursor: counts on past the end
NextCursorCounting(at) == at + 1

NextCursor(at) == IF HasPage(at) THEN at + 1 ELSE Pages

\* The provider answers and the record bodies are written to S3
FetchPage(f) ==
  /\ loop[f].pc = "fetch"
  /\ Goto(f, "publish")
  /\ UNCHANGED <<shard, request, completion, cursor, fresh, installed,
                 raw, refused, spent>>

\* Rate limit, recoverable provider error or S3 failure: left in_progress
FetchParks(f) ==
  /\ loop[f].pc = "fetch"
  /\ Fault
  /\ Park(f)
  /\ UNCHANGED <<shard, request, completion, cursor, fresh, installed,
                 raw, refused>>

\* Any other exception, of the fetcher or of the database, ends the shard
LoopRaises(f) ==
  /\ loop[f].pc \in Guarded
  /\ Fault
  /\ Goto(f, "failing")
  /\ UNCHANGED <<shard, request, completion, cursor, fresh, installed,
                 raw, refused>>

Delivered(at) == IF HasPage(at) THEN raw \cup {NextCursor(at)} ELSE raw

\* produce and flush: nothing is left in the producer's queue
Publish(f) ==
  /\ loop[f].pc = "publish"
  /\ raw' = Delivered(loop[f].at)
  /\ Goto(f, "advance")
  /\ UNCHANGED <<shard, request, completion, cursor, fresh, installed,
                 refused, spent>>

\* Mutant of PublishParks: the flush's timeout is taken for success
PublishUnflushed(f) ==
  /\ loop[f].pc = "publish"
  /\ Fault
  /\ raw' \in {raw, Delivered(loop[f].at)}
  /\ Goto(f, "advance")
  /\ UNCHANGED <<shard, request, completion, cursor, fresh, installed, refused>>

\* produce raises or flush times out; the record may still reach the broker
PublishParks(f) ==
  /\ loop[f].pc = "publish"
  /\ Fault
  /\ raw' \in {raw, Delivered(loop[f].at)}
  /\ Park(f)
  /\ UNCHANGED <<shard, request, completion, cursor, fresh, installed, refused>>

\* The broker refuses the record: its delivery report is an error, which
\* takes it out of the queue, and flush returns 0 all the same
PublishRefused(f) ==
  /\ loop[f].pc = "publish" /\ HasPage(loop[f].at)
  /\ Fault
  /\ refused' = refused \cup {NextCursor(loop[f].at)}
  /\ Goto(f, "advance")
  /\ UNCHANGED <<shard, request, completion, cursor, fresh, installed, raw>>

\* The UPDATE is unconditional: a stale loop may move the cursor back
AdvanceCursor(f) ==
  /\ loop[f].pc = "advance"
  /\ cursor' = NextCursor(loop[f].at)
  /\ fresh' = TRUE
  /\ Goto(f, IF NextCursor(loop[f].at) = Pages THEN "finish" ELSE "read")
  /\ UNCHANGED <<shard, request, completion, installed, raw, refused, spent>>

-----------------------------------------------------------------------------
(* Ending a shard *)

\* Mutant of Terminate: the UPDATE without its guard on the state
TerminateAgain(f, status) ==
  /\ shard' = status
  /\ completion' = IF completion = None THEN status ELSE completion
  /\ Park(f)
  /\ UNCHANGED <<request, cursor, fresh, installed, raw, refused, spent>>

\* _terminate_shard: one transaction; the UPDATE is guarded by the state
\* and the signal by its idempotency key, so the first to end it wins both
Terminate(f, status) ==
  /\ shard' = IF shard \in {"pending", "in_progress"} THEN status ELSE shard
  /\ completion' = IF completion = None THEN status ELSE completion
  /\ Park(f)
  /\ UNCHANGED <<request, cursor, fresh, installed, raw, refused, spent>>

Finish(f) == loop[f].pc = "finish" /\ Terminate(f, "done")

Fail(f) == loop[f].pc = "failing" /\ Terminate(f, "failed")

-----------------------------------------------------------------------------
(* The environment *)

FetcherCrash(f) ==
  /\ loop[f].pc # "idle"
  /\ Fault
  /\ Park(f)
  /\ UNCHANGED <<shard, request, completion, cursor, fresh, installed,
                 raw, refused>>

Looping == \E f \in Fetchers : loop[f].pc \notin {"idle", "orphan"}

\* The heartbeat grows older than the lease; a live loop's may too, as one
\* page may wait as long as the lease for a rate-limit token
LeaseLapses ==
  /\ shard = "in_progress" /\ fresh
  /\ \/ ~Looping /\ UNCHANGED spent
     \/ Looping /\ spent["lapses"] < MaxLapses /\ Spend("lapses")
  /\ fresh' = FALSE
  /\ UNCHANGED <<shard, request, completion, cursor, loop, installed,
                 raw, refused>>

\* The provider's lifecycle webhook suspends and resumes the installation
Suspend ==
  /\ installed /\ Fault
  /\ installed' = FALSE
  /\ UNCHANGED <<shard, request, completion, cursor, fresh, loop, raw, refused>>

Resume ==
  /\ ~installed
  /\ installed' = TRUE
  /\ UNCHANGED <<shard, request, completion, cursor, fresh, loop,
                 raw, refused, spent>>

-----------------------------------------------------------------------------
Tick(f) == ClaimSignal(f) \/ Scan(f)

LoopStep(f) ==
  \/ RefreshLease(f) \/ LoadInstall(f) \/ LoadCursor(f) \/ FetchPage(f)
  \/ Publish(f) \/ AdvanceCursor(f) \/ Finish(f) \/ Fail(f)

LoopFault(f) ==
  \/ FetchParks(f) \/ LoopRaises(f) \/ PublishParks(f) \/ PublishRefused(f)
  \/ FetcherCrash(f)

Next ==
  \/ \E f \in Fetchers : Tick(f) \/ LoopStep(f) \/ LoopFault(f)
  \/ LeaseLapses \/ Suspend \/ Resume

Spec == Init /\ [][Next]_vars

(***************************************************************************)
(* Ticks and loops keep going, a lease nobody renews ages out.  Nothing    *)
(* obliges the provider to resume a suspended installation.                *)
(***************************************************************************)
FairSpec ==
  /\ Spec
  /\ \A f \in Fetchers : WF_vars(Tick(f)) /\ WF_vars(LoopStep(f))
  /\ WF_vars(~Looping /\ LeaseLapses)

-----------------------------------------------------------------------------
(* Properties *)

(***************************************************************************)
(* The cursor never gets ahead of the topic, however many loops run on the *)
(* shard, wherever they crash and however stale they are: every page it    *)
(* has passed, and every page of a shard that is done, was published.  The *)
(* one exception is a record the broker refused, which the flush reports   *)
(* as delivered.                                                           *)
(***************************************************************************)
Reached(n) == 1..n \subseteq raw \cup refused

NothingSkipped ==
  /\ Reached(cursor)
  /\ shard = "done" => Reached(Pages)

(***************************************************************************)
(* Whatever two loops do to one shard, its requester sees one lifecycle:   *)
(* the row and the completion signal change together, once, and agree.     *)
(***************************************************************************)
Lifecycle == INSTANCE ShardLifecycle WITH state <- shard

ImplementsLifecycle == Lifecycle!Spec

(***************************************************************************)
(* A shard ends, through parked loops, crashes and take-overs, unless its  *)
(* installation stays suspended: a parked shard is always found again.     *)
(***************************************************************************)
ShardEnds == <>[]installed => <>(shard \in Ended)

-----------------------------------------------------------------------------
(***************************************************************************)
(* The inductive invariant: what a loop remembers was reached when it was  *)
(* read and is reached still, what it is about to store was reached first, *)
(* and the row and the signal agree.                                       *)
(***************************************************************************)
LoopReached(l) ==
  /\ Reached(l.at)
  /\ l.pc = "advance" => Reached(NextCursor(l.at))
  /\ l.pc = "finish" => Reached(Pages)

LoopsReached == \A f \in Fetchers : LoopReached(loop[f])

RowAndSignal ==
  /\ completion = (IF shard \in Ended THEN shard ELSE None)
  /\ shard = "pending" => \A f \in Fetchers : loop[f] = Idle
  /\ request <=> shard = "pending"

ShardInv == TypeOK /\ NothingSkipped /\ LoopsReached /\ RowAndSignal
=============================================================================
