------------------------------ MODULE Normalizer ------------------------------
(***************************************************************************)
(* The normalizer (services/ingest/ingestion/normalizer/worker.py): polls  *)
(* the raw topic, turns each record into a normalized envelope and hands   *)
(* it to its Kafka producer, then commits the raw offset.  produce()       *)
(* returns once the message is in the producer's own queue; a background   *)
(* thread delivers it later, or learns that the broker refused it, and no  *)
(* flush comes before the commit.                                          *)
(***************************************************************************)
EXTENDS Naturals, Sequences

CONSTANTS TenantOf, BatchSize, MaxFaults

VARIABLES
  raw,          \* ingestion.raw.<source>
  norm,         \* the consumer: committed offset and batch in progress
  sending,      \* the producer's queue
  normalized,   \* ingestion.normalized.<source>
  dlq,          \* records on ingestion.dlq.<source>
  lost, spent

INSTANCE Partition

vars == <<raw, norm, sending, normalized, dlq, lost, spent>>

Init ==
  /\ norm = Fresh
  /\ sending = <<>>
  /\ normalized = <<>>

Fault == spent < MaxFaults /\ spent' = spent + 1

Poll ==
  /\ \E n \in 1..BatchSize : CanTake(norm, raw, n) /\ norm' = Take(norm, n)
  /\ UNCHANGED <<raw, sending, normalized, dlq, lost, spent>>

Send(o, topic) ==
  sending' = Append(sending, [rec |-> raw[o], off |-> o, topic |-> topic])

\* The envelope is parsed, the body fetched from S3 and mapped
Normalize(o) ==
  /\ o \in Heads(norm, raw)
  /\ Send(o, "normalized")
  /\ norm' = Settle(norm, o)
  /\ UNCHANGED <<raw, normalized, dlq, lost, spent>>

\* Any exception, a passing S3 failure too, dead-letters the record
NormalizeFails(o) ==
  /\ o \in Heads(norm, raw)
  /\ Fault
  /\ Send(o, "dlq")
  /\ norm' = Settle(norm, o)
  /\ UNCHANGED <<raw, normalized, dlq, lost>>

\* publish_dlq never raises: if it fails too, the record is skipped
NormalizeDrops(o) ==
  /\ o \in Heads(norm, raw)
  /\ Fault
  /\ lost' = lost \cup {<<raw[o], "dead_letter">>}
  /\ norm' = Settle(norm, o)
  /\ UNCHANGED <<raw, sending, normalized, dlq>>

CommitRaw ==
  /\ CanCommit(norm)
  /\ norm' = Commit(norm)
  /\ UNCHANGED <<raw, sending, normalized, dlq, lost, spent>>

\* The producer's thread gets the broker's acknowledgement
Deliver ==
  /\ sending # <<>>
  /\ LET m == Head(sending) IN
       IF m.topic = "dlq"
         THEN dlq' = dlq \cup {m.rec} /\ UNCHANGED normalized
         ELSE normalized' = Append(normalized, m.rec) /\ UNCHANGED dlq
  /\ sending' = Tail(sending)
  /\ UNCHANGED <<raw, norm, lost, spent>>

\* The broker refuses the message or lets it time out: the delivery report only
\* counts that, whatever becomes of the raw offset
DeliverRefused ==
  /\ sending # <<>>
  /\ Fault
  /\ lost' = lost \cup {<<Head(sending).rec, "refused">>}
  /\ sending' = Tail(sending)
  /\ UNCHANGED <<raw, norm, normalized, dlq>>

Waiting == {sending[i] : i \in DOMAIN sending}

\* The queue dies with the process; what it held below the committed
\* offset is not read again
Crash ==
  /\ Fault
  /\ norm' = Rewind(norm)
  /\ sending' = <<>>
  /\ lost' = lost \cup {<<m.rec, "queue">> :
                         m \in {x \in Waiting : x.off <= norm.committed}}
  /\ UNCHANGED <<raw, normalized, dlq>>

Step == Poll \/ (\E o \in norm.batch : Normalize(o)) \/ CommitRaw

Next ==
  \/ Step \/ Deliver \/ DeliverRefused \/ Crash
  \/ \E o \in norm.batch : NormalizeFails(o) \/ NormalizeDrops(o)

\* The process polls on and the supervisor restarts it; the broker answers
Fairness == WF_vars(Step) /\ WF_vars(Deliver)

(***************************************************************************)
(* normalizer/worker.py: "Commit AFTER processing - at-least-once          *)
(* semantics."  Every raw record below the committed offset is normalized, *)
(* on its way, or dead-lettered as far as that best effort goes.           *)
(***************************************************************************)
AtLeastOnce ==
  \A o \in 1..norm.committed :
    \/ raw[o] \in dlq \cup {m.rec : m \in Waiting}
    \/ <<raw[o], "dead_letter">> \in lost
    \/ \E i \in DOMAIN normalized : normalized[i] = raw[o]
=============================================================================
