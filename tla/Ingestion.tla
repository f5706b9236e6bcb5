------------------------------ MODULE Ingestion ------------------------------
(***************************************************************************)
(* From the raw topic to an observation.  Backfill (ShardFetch) and live   *)
(* ingress (Cutover) publish records to one raw topic; the Normalizer      *)
(* moves them to the normalized topic; the ObservationWriter stores each   *)
(* with the trigger that makes Think look at it.  The components share the *)
(* topics, the database and the flag, and any of their processes may die   *)
(* between two of its steps.                                               *)
(***************************************************************************)
EXTENDS Naturals, Sequences

CONSTANTS
  Backfill,         \* records ShardFetch publishes
  Live,             \* records live ingress receives
  TenantOf,         \* record -> tenant, the key of its messages
  BatchSize, Poison, MaxTries, PoisonCap, BreachWindow,
  MaxFaults         \* failures, crashes, repetitions and operator acts

ASSUME RecordsAssumption == Backfill \cap Live = {}
ASSUME BoundsAssumption ==
  /\ {BatchSize, MaxTries, PoisonCap, BreachWindow} \subseteq Nat \ {0}
  /\ MaxFaults \in Nat

VARIABLES
  raw, norm, sending, normalized,
  wr, failed, tries, poison, doomed, clearing, parking, dlq, shadowed,
  incoming, flag, cache, breaker,
  observed, triggers,
  lost, spent

Records == Backfill \cup Live

Processes == {"ingress", "writer", "breaker"}

N == INSTANCE Normalizer
W == INSTANCE ObservationWriter
C == INSTANCE Cutover

writerVars == <<wr, failed, tries, poison, doomed, clearing, parking, shadowed>>
cutoverVars == <<incoming, flag, cache, breaker>>
store == <<observed, triggers>>

vars == <<raw, norm, sending, normalized, writerVars, dlq, cutoverVars, store,
          lost, spent>>

Init ==
  /\ N!Init /\ W!Init /\ C!Init
  /\ raw = <<>> /\ lost = {} /\ dlq = {} /\ shadowed = {}
  /\ observed = {} /\ triggers = [r \in Records |-> 0]
  /\ spent = 0

Consumer(log) ==
  [committed : 0..Len(log), upto : 0..Len(log), batch : SUBSET (1..Len(log))]

\* Ways a record is lost: a dead letter that could not be published, a
\* producer's queue that died with its process, a broker that refused it
Causes == {"dead_letter", "queue", "refused"}

TypeOK ==
  /\ raw \in Seq(Records) /\ normalized \in Seq(Records)
  /\ norm \in Consumer(raw) /\ wr \in Consumer(normalized)
  /\ sending \in Seq([rec : Records, off : 1..Len(raw),
                       topic : {"normalized", "dlq"}])
  /\ failed \subseteq {TenantOf[r] : r \in Records}
  /\ tries \in [DOMAIN tries -> 1..(MaxTries - 1)]
  /\ poison \in [DOMAIN poison -> Nat \ {0}]
  /\ DOMAIN tries \cup DOMAIN poison \cup doomed \cup clearing
       \subseteq 1..Len(normalized)
  /\ parking \subseteq [rec : Records, off : 1..Len(normalized)]
  /\ {dlq, shadowed, observed} \subseteq SUBSET Records
  /\ triggers \in [Records -> Nat]
  /\ incoming \subseteq Live
  /\ flag \in BOOLEAN /\ cache \in [Processes -> BOOLEAN]
  /\ breaker \in [breaches : Nat, tripped : BOOLEAN]
  /\ lost \subseteq Records \X Causes
  /\ spent \in 0..MaxFaults

Fault == spent < MaxFaults /\ spent' = spent + 1

\* ShardFetch publishes a page, again if it lost track of having done so
PublishPage(r) ==
  /\ IF \E o \in DOMAIN raw : raw[o] = r THEN Fault ELSE UNCHANGED spent
  /\ raw' = Append(raw, r)
  /\ UNCHANGED <<norm, sending, normalized, writerVars, dlq, cutoverVars, store,
                 lost>>

Normalizing == N!Next /\ UNCHANGED <<writerVars, cutoverVars, store>>

Writing == W!Next /\ UNCHANGED <<raw, norm, sending, incoming, flag, breaker>>

LiveIngress == C!Next /\ UNCHANGED <<sending, normalized, writerVars, dlq>>

Next ==
  \/ \E r \in Backfill : PublishPage(r)
  \/ Normalizing \/ Writing \/ LiveIngress

Spec == Init /\ [][Next]_vars

\* Providers, operators, the breaker and faults carry no fairness
FairSpec == Spec /\ N!Fairness /\ W!Fairness

-----------------------------------------------------------------------------
(* Properties *)

InRaw(r) == \E o \in DOMAIN raw : o > norm.committed /\ raw[o] = r

InNormalized(r) ==
  \E o \in DOMAIN normalized : o > wr.committed /\ normalized[o] = r

InFlight(r) ==
  \/ InRaw(r) \/ InNormalized(r)
  \/ \E m \in N!Waiting \cup parking : m.rec = r

Lost(r) == \E cause \in Causes : <<r, cause>> \in lost

Landed(r) ==
  \/ r \in observed \cup dlq \/ Lost(r)
  \/ r \in Live /\ r \in shadowed

Published(r) == \E o \in DOMAIN raw : raw[o] = r

(***************************************************************************)
(* Nothing vanishes.  A record on the raw topic, and a live record ingress *)
(* has answered for, is stored, dead-lettered or still ahead of an offset  *)
(* that will be read again: no commit gets ahead of what it stands for, at *)
(* a crash of any process.  Only a live record may end in the shadow log;  *)
(* backfill is never given up to the kill-switch.  `lost' names the holes  *)
(* there are: an unpublished dead letter, a queue that dies with its       *)
(* process, and a record the broker refuses once produce() has returned.   *)
(* A page the broker refuses never gets here: ShardFetch has it.           *)
(***************************************************************************)
NothingVanishes ==
  \A r \in Records :
    Published(r) \/ r \in Live \ incoming => Landed(r) \/ InFlight(r)

(***************************************************************************)
(* A record is stored once and Think is told once, although pages are      *)
(* published again, batches are read again and, around a cutover, ingress  *)
(* and the writer both ingest it.                                          *)
(***************************************************************************)
TriggeredOnce ==
  \A r \in Records : triggers[r] = IF r \in observed THEN 1 ELSE 0

(***************************************************************************)
(* The durable count of give-ups passes its cap by no more than the faults *)
(* that left a row standing: a death between the count, the dead letter    *)
(* and the removal of the row, or a removal that failed.  Otherwise a      *)
(* message at the cap has its dead letter on the way.                      *)
(***************************************************************************)
CapPassedByFaults ==
  \A o \in DOMAIN poison :
    poison[o] < PoisonCap + spent + (IF o \in doomed \cup clearing THEN 1 ELSE 0)

(***************************************************************************)
(* Both consumers catch up.  Whatever was published, the committed offset  *)
(* reaches the end of its topic again, through restarts, failing ingests   *)
(* and a message that always fails: its give-ups, counted across restarts, *)
(* reach the cap and it is parked.  One such message at a time, that is:   *)
(* two of different tenants in one batch can keep each other from being    *)
(* passed.                                                                 *)
(***************************************************************************)
CatchesUp ==
  []<>(norm.committed = Len(raw) /\ wr.committed = Len(normalized))

(***************************************************************************)
(* To the sources and to Think the whole way is one Intake: through two    *)
(* topics, producers' queues, crashes and a cutover, nothing is stored or  *)
(* set aside that did not come in, and storing and telling Think are one   *)
(* step, whether ingress takes it or the writer.                           *)
(***************************************************************************)
Received == {r \in Records : Published(r) \/ r \in Live \ incoming}

SetAside == {r \in Records : r \in dlq \cup shadowed \/ Lost(r)}

Promise == INSTANCE Intake WITH
  received <- Received, stored <- observed, aside <- SetAside

ImplementsIntake == Promise!Spec

-----------------------------------------------------------------------------
(* What the invariants rest on, for the proofs *)

\* An offset the consumer has not polled, or has polled and not dealt with
Unsettled(c, log, r) ==
  \E o \in DOMAIN log : (o \in c.batch \/ o > c.upto) /\ log[o] = r

Queued(r) == \E m \in N!Waiting \cup parking : m.rec = r

Accounted(r) ==
  Landed(r) \/ Queued(r) \/ Unsettled(norm, raw, r) \/ Unsettled(wr, normalized, r)

\* What is done with but for its counter needs its offset no more
ClearingDone ==
  \A o \in clearing :
    Landed(normalized[o]) \/ \E m \in parking : m.rec = normalized[o]

\* The batch in progress lies between the committed offset and the last polled
InOrder(c) == c.committed <= c.upto /\ c.batch \subseteq (c.committed + 1)..c.upto

\* A queued message is a copy of the one at its offset
QueuesAgree ==
  /\ \A m \in N!Waiting : m.off \in DOMAIN raw /\ raw[m.off] = m.rec
  /\ \A m \in parking : m.off \in DOMAIN normalized /\ normalized[m.off] = m.rec

(***************************************************************************)
(* The inductive invariant.  A record is accounted for by what has been    *)
(* settled, not by what has been committed: committing then changes        *)
(* nothing, and a crash only un-settles what a queue held above the        *)
(* committed offset, which is where QueuesAgree finds it again.            *)
(***************************************************************************)
IngestionInv ==
  /\ TypeOK /\ InOrder(norm) /\ InOrder(wr) /\ QueuesAgree /\ TriggeredOnce
  /\ ClearingDone
  /\ \A r \in Records : Published(r) \/ r \in Live \ incoming => Accounted(r)

(***************************************************************************)
(* What the refinement needs besides: whatever is anywhere behind the raw  *)
(* topic has been received, and a live record is not on the raw topic      *)
(* before it has arrived.                                                  *)
(***************************************************************************)
OnNormalized(r) == \E o \in DOMAIN normalized : normalized[o] = r

CameIn ==
  \A r \in Records :
    r \in observed \cup SetAside \/ OnNormalized(r) => r \in Received

ArrivesOnce == \A r \in incoming : ~Published(r)

-----------------------------------------------------------------------------
(* What the repository says and the code does not do *)

(***************************************************************************)
(* observation_writer.py: "a publishing ingress can never pair with a      *)
(* shadow-logging writer (that split would silently drop observations)".   *)
(* What the writer only logs, the inline path has stored.                  *)
(***************************************************************************)
ShadowedWasStored == shadowed \subseteq observed

(***************************************************************************)
(* normalizer/worker.py: "Commit AFTER processing - at-least-once          *)
(* semantics."                                                             *)
(***************************************************************************)
NormalizedAtLeastOnce == N!AtLeastOnce
=============================================================================
