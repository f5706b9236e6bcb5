------------------------------- MODULE Cutover -------------------------------
(***************************************************************************)
(* Live ingress and the switch that routes it.  While a tenant's           *)
(* kafka_path_enabled flag is on, ingress publishes to the raw topic and   *)
(* the writer ingests; while it is off, ingress ingests inline and         *)
(* publishes a shadow copy, which the writer only logs                     *)
(* (services/app/webhooks/router.py, feature_flags/client.py).  Every      *)
(* process reads the flag through a cache of its own.  The ingestion       *)
(* breaker (feature_flags/circuit_breaker.py) turns the flag off when the  *)
(* normalizer has lagged for breach_window_ticks ticks in a row; only an   *)
(* operator turns it on again.                                             *)
(***************************************************************************)
EXTENDS Naturals, Sequences

CONSTANTS
  Live,             \* records the provider delivers
  Processes,        \* readers of the flag: ingress, writer and breaker
  BreachWindow,     \* breach_window_ticks
  MaxFaults

VARIABLES
  incoming,         \* live records still to arrive
  flag,             \* tenant_flags.flag_value
  cache,            \* process -> the value it reads
  breaker,          \* circuit_breaker_state
  raw, norm,        \* the raw topic and the normalizer's offset on it
  observed, triggers,
  lost, spent

INSTANCE Observations

vars ==
  <<incoming, flag, cache, breaker, raw, norm, observed, triggers, lost, spent>>

Init ==
  /\ incoming = Live
  /\ flag = TRUE
  /\ cache = [p \in Processes |-> TRUE]
  /\ breaker = [breaches |-> 0, tripped |-> FALSE]

Fault == spent < MaxFaults /\ spent' = spent + 1

\* The flag reads as on: cached so, or its read failed and the default holds
ReadsOn(p) ==
  \/ cache[p] /\ UNCHANGED spent
  \/ ~cache[p] /\ Fault

\* Published, flushed and answered with 202
Accept(r) ==
  /\ r \in incoming
  /\ ReadsOn("ingress")
  /\ incoming' = incoming \ {r}
  /\ raw' = Append(raw, r)
  /\ UNCHANGED <<flag, cache, breaker, norm, observed, triggers, lost>>

\* The broker refused the record or let it time out.  The delivery report only
\* counts that; the flush has nothing outstanding, so the answer is 202 too.
\* With the flag cached off its read failed as well: one fault stands for both
AcceptRefused(r) ==
  /\ r \in incoming
  /\ Fault
  /\ incoming' = incoming \ {r}
  /\ lost' = lost \cup {<<r, "refused">>}
  /\ UNCHANGED <<flag, cache, breaker, raw, norm, observed, triggers>>

\* The publication failed or timed out: inline, whether or not it lands
FallBack(r) ==
  /\ r \in incoming
  /\ cache["ingress"] /\ Fault
  /\ incoming' = incoming \ {r}
  /\ Ingest(r)
  /\ raw' \in {raw, Append(raw, r)}
  /\ UNCHANGED <<flag, cache, breaker, norm, lost>>

\* Flag off: inline, then a best-effort shadow copy
IngestInline(r) ==
  /\ r \in incoming
  /\ ~cache["ingress"]
  /\ incoming' = incoming \ {r}
  /\ Ingest(r)
  /\ raw' \in {raw, Append(raw, r)}
  /\ UNCHANGED <<flag, cache, breaker, norm, lost, spent>>

\* The cached value is past its TTL
RefreshCache(p) ==
  /\ cache[p] # flag
  /\ cache' = [cache EXCEPT ![p] = flag]
  /\ UNCHANGED <<incoming, flag, breaker, raw, norm, observed, triggers, lost,
                 spent>>

-----------------------------------------------------------------------------
(* One tick of the breaker for the tenant, if it reads the flag as on *)

\* Re-enabled by an operator since it tripped: counting starts again
Counted == IF breaker.tripped THEN 0 ELSE breaker.breaches

Healthy ==
  /\ ReadsOn("breaker")
  /\ breaker' = [breaches |-> 0, tripped |-> FALSE]
  /\ UNCHANGED <<incoming, flag, cache, raw, norm, observed, triggers, lost>>

Lagging == norm.committed < Len(raw)

Breach ==
  /\ ReadsOn("breaker") /\ Lagging
  /\ Counted + 1 < BreachWindow
  /\ breaker' = [breaches |-> Counted + 1, tripped |-> FALSE]
  /\ UNCHANGED <<incoming, flag, cache, raw, norm, observed, triggers, lost>>

\* set_bool, which drops the breaker's own cached value
Disable == flag' = FALSE /\ cache' = [cache EXCEPT !["breaker"] = FALSE]

Trip ==
  /\ ReadsOn("breaker") /\ Lagging
  /\ Counted + 1 >= BreachWindow
  /\ Disable
  /\ breaker' = [breaches |-> Counted + 1, tripped |-> TRUE]
  /\ UNCHANGED <<incoming, raw, norm, observed, triggers, lost>>

\* set_bool raises: the count is kept and the next tick tries again
TripFails ==
  /\ cache["breaker"] /\ Lagging /\ Fault
  /\ Counted + 1 >= BreachWindow
  /\ breaker' = [breaches |-> Counted + 1, tripped |-> FALSE]
  /\ UNCHANGED <<incoming, flag, cache, raw, norm, observed, triggers, lost>>

\* The breaker dies after the flag and before its own row: it does not know
\* that it tripped
TripUnrecorded ==
  /\ cache["breaker"] /\ Lagging /\ Fault
  /\ Counted + 1 >= BreachWindow
  /\ Disable
  /\ UNCHANGED <<incoming, breaker, raw, norm, observed, triggers, lost>>

OperatorSets(value) ==
  /\ flag # value
  /\ Fault
  /\ flag' = value
  /\ UNCHANGED <<incoming, cache, breaker, raw, norm, observed, triggers, lost>>

Next ==
  \/ \E r \in Live :
       Accept(r) \/ AcceptRefused(r) \/ FallBack(r) \/ IngestInline(r)
  \/ \E p \in Processes : RefreshCache(p)
  \/ Healthy \/ Breach \/ Trip \/ TripFails \/ TripUnrecorded
  \/ \E value \in BOOLEAN : OperatorSets(value)
=============================================================================
