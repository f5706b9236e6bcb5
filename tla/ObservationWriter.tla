-------------------------- MODULE ObservationWriter --------------------------
(***************************************************************************)
(* The observation writer (services/ingest/ingestion/writers/              *)
(* observation_writer.py): polls the normalized topic, ingests each record *)
(* and commits once the whole batch has an outcome.  A transient error is  *)
(* retried in place; when the retries run out the give-up is counted in    *)
(* writer_poison_attempts, which survives restarts, and either parks the   *)
(* message on the dead-letter topic or ends the process, so that the batch *)
(* is read again.  The count, the dead letter and the removal of the count *)
(* are three steps, and nothing ties them together.  While a tenant's flag *)
(* is off, its live records are only logged, the inline path having        *)
(* written them; backfill is always written.                               *)
(***************************************************************************)
EXTENDS Naturals, Sequences

CONSTANTS
  TenantOf, BatchSize, MaxFaults,
  Live,         \* records of live ingress, the others are backfill
  Poison,       \* records whose ingest always fails with an unexpected error
  MaxTries,     \* _TRANSIENT_MAX_ATTEMPTS
  PoisonCap     \* _POISON_MAX_DURABLE_ATTEMPTS

VARIABLES
  normalized,   \* ingestion.normalized.<source>
  wr,           \* the consumer: committed offset and batch in progress
  failed,       \* tenants whose group of the batch has raised
  tries,        \* offset -> failed tries in this process
  poison,       \* offset -> writer_poison_attempts.attempts
  doomed,       \* offsets counted up to the cap, to be dead-lettered next
  clearing,     \* offsets done with, their counter to be removed next
  parking,      \* dead letters in the producer's queue
  dlq,          \* records on ingestion.dlq.<source>
  shadowed,     \* records in the shadow log
  observed, triggers,
  cache,        \* process -> kafka_path_enabled as its cache has it
  lost, spent

INSTANCE Partition
INSTANCE Observations

ending == <<doomed, clearing>>

own == <<wr, failed, tries, poison, ending, parking>>

vars == <<normalized, own, dlq, shadowed, observed, triggers, cache, lost, spent>>

\* Counters kept in a table: no row is zero
NoRows == [o \in {} |-> 0]

Count(rows, o) == IF o \in DOMAIN rows THEN rows[o] ELSE 0

Bump(rows, o) ==
  [x \in DOMAIN rows \cup {o} |-> Count(rows, x) + (IF x = o THEN 1 ELSE 0)]

Clear(rows, o) == [x \in DOMAIN rows \ {o} |-> rows[x]]

Init ==
  /\ wr = Fresh
  /\ failed = {}
  /\ tries = NoRows
  /\ poison = NoRows
  /\ doomed = {} /\ clearing = {}
  /\ parking = {}

Fault == spent < MaxFaults /\ spent' = spent + 1

Poll ==
  /\ failed = {}
  /\ \E n \in 1..BatchSize : CanTake(wr, normalized, n) /\ wr' = Take(wr, n)
  /\ UNCHANGED <<normalized, failed, tries, poison, ending, parking, dlq,
                 shadowed, observed, triggers, cache, lost, spent>>

\* Next in its tenant's group, which has not raised, and without an outcome
Handles(o) ==
  /\ o \in Heads(wr, normalized) \ (doomed \cup clearing)
  /\ TenantOf[normalized[o]] \notin failed

FullMode(o) == normalized[o] \notin Live \/ cache["writer"]

\* A flag that cannot be read counts as on
ReadsFull(o) ==
  \/ FullMode(o) /\ UNCHANGED spent
  \/ ~FullMode(o) /\ Fault

\* _handle_message returns: a message that was retried in this process has its
\* counter removed before it is done with
Returned(o) ==
  /\ \/ /\ Count(tries, o) > 0
        /\ clearing' = clearing \cup {o}
        /\ UNCHANGED wr
     \/ /\ Count(tries, o) = 0
        /\ wr' = Settle(wr, o)
        /\ UNCHANGED clearing
  /\ UNCHANGED <<failed, tries, poison, doomed>>

Write(o) ==
  /\ Handles(o) /\ ReadsFull(o)
  /\ normalized[o] \notin Poison
  /\ Ingest(normalized[o])
  /\ Returned(o)
  /\ UNCHANGED <<normalized, parking, dlq, shadowed, cache, lost>>

Shadow(o) ==
  /\ Handles(o) /\ ~FullMode(o)
  /\ shadowed' = shadowed \cup {normalized[o]}
  /\ Returned(o)
  /\ UNCHANGED <<normalized, parking, dlq, observed, triggers, cache, lost,
                 spent>>

\* _publish_writer_dlq hands the dead letter to the producer
Queue(o) == parking' = parking \cup {[rec |-> normalized[o], off |-> o]}

\* Poison always fails, any other ingest at the cost of a fault
Fails(o) ==
  /\ Handles(o) /\ FullMode(o)
  /\ IF normalized[o] \in Poison THEN UNCHANGED spent ELSE Fault

\* A validation error, or a timestamp no partition covers, is permanent
Reject(o) ==
  /\ Fails(o) /\ normalized[o] \notin Poison
  /\ Queue(o)
  /\ Returned(o)
  /\ UNCHANGED <<normalized, dlq, shadowed, observed, triggers, cache, lost>>

\* publish_dlq never raises: a dead letter it cannot publish is only logged
Unpublished(o) == lost' = lost \cup {<<normalized[o], "dead_letter">>}

RejectUnpublished(o) ==
  /\ Fails(o) /\ normalized[o] \notin Poison
  /\ Unpublished(o)
  /\ Returned(o)
  /\ UNCHANGED <<normalized, parking, dlq, shadowed, observed, triggers, cache>>

\* Mutant of Retry: one try too many
RetryOnceMore(o) ==
  /\ Fails(o)
  /\ Count(tries, o) < MaxTries
  /\ tries' = Bump(tries, o)
  /\ UNCHANGED <<normalized, wr, failed, poison, ending, parking, dlq, shadowed,
                 observed, triggers, cache, lost>>

Retry(o) ==
  /\ Fails(o)
  /\ Count(tries, o) + 1 < MaxTries
  /\ tries' = Bump(tries, o)
  /\ UNCHANGED <<normalized, wr, failed, poison, ending, parking, dlq, shadowed,
                 observed, triggers, cache, lost>>

LastTry(o) == Count(tries, o) + 1 = MaxTries

\* Mutant of AtCap: compared before the increment
AtCapLate(o) == Count(poison, o) >= PoisonCap

AtCap(o) == Count(poison, o) + 1 >= PoisonCap

\* The group raises; its later messages are left for the next process
GiveUp(o) ==
  /\ Fails(o) /\ LastTry(o) /\ ~AtCap(o)
  /\ poison' = Bump(poison, o)
  /\ failed' = failed \cup {TenantOf[normalized[o]]}
  /\ UNCHANGED <<normalized, wr, tries, ending, parking, dlq, shadowed,
                 observed, triggers, cache, lost>>

\* The process is stopping, or at the last try the counter's own table is
\* unavailable
GiveUpUncounted(o) ==
  /\ Handles(o) /\ FullMode(o) /\ Fault
  /\ failed' = failed \cup {TenantOf[normalized[o]]}
  /\ UNCHANGED <<normalized, wr, tries, poison, ending, parking, dlq, shadowed,
                 observed, triggers, cache, lost>>

\* The count, committed on its own, has reached the cap
Doom(o) ==
  /\ Fails(o) /\ LastTry(o) /\ AtCap(o)
  /\ poison' = Bump(poison, o)
  /\ doomed' = doomed \cup {o}
  /\ UNCHANGED <<normalized, wr, failed, tries, clearing, parking, dlq, shadowed,
                 observed, triggers, cache, lost>>

\* The message has had its dead letter, its counter is next
Parked(o) ==
  /\ o \in doomed
  /\ doomed' = doomed \ {o}
  /\ clearing' = clearing \cup {o}
  /\ UNCHANGED <<normalized, wr, failed, tries, poison, dlq, shadowed, observed,
                 triggers, cache>>

ParkPoison(o) == Parked(o) /\ Queue(o) /\ UNCHANGED <<lost, spent>>

ParkUnpublished(o) == Parked(o) /\ Fault /\ Unpublished(o) /\ UNCHANGED parking

\* _clear_durable_poison_attempts has returned: the message is done with
Release(o) ==
  /\ o \in clearing
  /\ clearing' = clearing \ {o}
  /\ wr' = Settle(wr, o)
  /\ tries' = Clear(tries, o)
  /\ UNCHANGED <<normalized, failed, doomed, parking, dlq, shadowed, observed,
                 triggers, cache, lost>>

ClearCounter(o) ==
  Release(o) /\ poison' = Clear(poison, o) /\ UNCHANGED spent

\* Only logged: the row stays as it is
ClearFails(o) == Release(o) /\ Fault /\ UNCHANGED poison

\* Mutant of CommitBatch: a group that raised does not hold the batch back
CommitBatchRaised ==
  /\ \A o \in wr.batch : TenantOf[normalized[o]] \in failed
  /\ wr.upto > wr.committed
  /\ wr' = Commit([wr EXCEPT !.batch = {}])
  /\ failed' = {}
  /\ UNCHANGED <<normalized, tries, poison, ending, parking, dlq, shadowed,
                 observed, triggers, cache, lost, spent>>

CommitBatch ==
  /\ failed = {} /\ CanCommit(wr)
  /\ wr' = Commit(wr)
  /\ UNCHANGED <<normalized, failed, tries, poison, ending, parking, dlq,
                 shadowed, observed, triggers, cache, lost, spent>>

\* Mutant of Exit: give-ups counted in memory
ExitForgetting ==
  /\ failed # {} /\ doomed \cup clearing = {}
  /\ \A o \in wr.batch : TenantOf[normalized[o]] \in failed
  /\ wr' = Rewind(wr)
  /\ failed' = {}
  /\ tries' = NoRows
  /\ poison' = NoRows
  /\ dlq' = dlq \cup {m.rec : m \in parking}
  /\ parking' = {}
  /\ UNCHANGED <<normalized, ending, shadowed, observed, triggers, cache, lost,
                 spent>>

\* Every group has returned or raised: the first error ends the process,
\* whose teardown flushes the producer
Exit ==
  /\ failed # {} /\ doomed \cup clearing = {}
  /\ \A o \in wr.batch : TenantOf[normalized[o]] \in failed
  /\ wr' = Rewind(wr)
  /\ failed' = {}
  /\ tries' = NoRows
  /\ dlq' = dlq \cup {m.rec : m \in parking}
  /\ parking' = {}
  /\ UNCHANGED <<normalized, poison, ending, shadowed, observed, triggers,
                 cache, lost, spent>>

DeliverDeadLetters ==
  /\ parking # {}
  /\ dlq' = dlq \cup {m.rec : m \in parking}
  /\ parking' = {}
  /\ UNCHANGED <<normalized, wr, failed, tries, poison, ending, shadowed,
                 observed, triggers, cache, lost, spent>>

\* The broker refuses a dead letter or lets it time out: counted, not retried
RefuseDeadLetter(m) ==
  /\ Fault
  /\ parking' = parking \ {m}
  /\ lost' = lost \cup {<<m.rec, "refused">>}
  /\ UNCHANGED <<normalized, wr, failed, tries, poison, ending, dlq, shadowed,
                 observed, triggers, cache>>

\* The process dies, also between the counter and the dead letter or between
\* the dead letter and the removal of the counter
Crash ==
  /\ Fault
  /\ wr' = Rewind(wr)
  /\ failed' = {}
  /\ tries' = NoRows
  /\ doomed' = {} /\ clearing' = {}
  /\ lost' = lost \cup {<<m.rec, "queue">> :
                         m \in {x \in parking : x.off <= wr.committed}}
  /\ parking' = {}
  /\ UNCHANGED <<normalized, poison, dlq, shadowed, observed, triggers, cache>>

\* What a process does with a message when nothing fails by accident
Handle(o) ==
  \/ Write(o) \/ Shadow(o)
  \/ normalized[o] \in Poison /\ (Retry(o) \/ GiveUp(o) \/ Doom(o))
  \/ ParkPoison(o) \/ ClearCounter(o)

Step == Poll \/ (\E o \in wr.batch : Handle(o)) \/ CommitBatch \/ Exit

Next ==
  \/ Step \/ DeliverDeadLetters \/ Crash
  \/ \E m \in parking : RefuseDeadLetter(m)
  \/ \E o \in wr.batch :
       \/ Reject(o) \/ RejectUnpublished(o) \/ Retry(o) \/ GiveUp(o)
       \/ GiveUpUncounted(o) \/ Doom(o) \/ ParkUnpublished(o) \/ ClearFails(o)

\* The process works on, or is restarted and reads the batch again
Fairness == WF_vars(Step) /\ WF_vars(DeliverDeadLetters)
=============================================================================
