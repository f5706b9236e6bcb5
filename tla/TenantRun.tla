------------------------------ MODULE TenantRun ------------------------------
(***************************************************************************)
(* What onboarding promises for a tenant, to those who see neither shards  *)
(* nor signals nor passes.  The run chooses its sources once.  It is       *)
(* complete, and Bridge is told in the same step, only when every chosen   *)
(* source has been collected and none is broken; it fails only if one is   *)
(* broken or there was none to choose.  Complete and failed are for ever.  *)
(***************************************************************************)
CONSTANT Sources

VARIABLES
  run,         \* absent, pending, running, complete or failed
  chosen,      \* the sources of the run
  collected,   \* sources all of whose shards were once in
  broken,      \* sources reported as failed
  bridge       \* Bridge was told that the tenant is onboarded

vars == <<run, chosen, collected, broken, bridge>>

Init ==
  /\ run = "absent" /\ bridge = FALSE
  /\ chosen = {} /\ collected = {} /\ broken = {}

Start ==
  /\ run = "absent" /\ run' = "pending"
  /\ UNCHANGED <<chosen, collected, broken, bridge>>

Choose(S) ==
  /\ run = "pending"
  /\ chosen' = S
  /\ run' = IF S = {} THEN "failed" ELSE "running"
  /\ UNCHANGED <<collected, broken, bridge>>

\* Sources go on being collected and breaking when the run has ended
Collect(s) ==
  /\ s \in chosen
  /\ collected' = collected \cup {s}
  /\ UNCHANGED <<run, chosen, broken, bridge>>

Break(s) ==
  /\ s \in chosen
  /\ broken' = broken \cup {s}
  /\ UNCHANGED <<run, chosen, collected, bridge>>

Fail ==
  /\ run = "running" /\ broken # {}
  /\ run' = "failed"
  /\ UNCHANGED <<chosen, collected, broken, bridge>>

Complete ==
  /\ run = "running"
  /\ chosen \subseteq collected /\ broken = {}
  /\ run' = "complete" /\ bridge' = TRUE
  /\ UNCHANGED <<chosen, collected, broken>>

Next ==
  \/ Start \/ Fail \/ Complete
  \/ \E S \in SUBSET Sources : Choose(S)
  \/ \E s \in Sources : Collect(s) \/ Break(s)

Spec == Init /\ [][Next]_vars
=============================================================================
