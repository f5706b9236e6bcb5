--------------------------- MODULE ShardLifecycle ---------------------------
(***************************************************************************)
(* What ShardFetch promises the workflow that requested a shard: one       *)
(* worker takes it up, it ends once, as done or as failed, and exactly one *)
(* shard_fetch_completed signal tells which, in the same transaction.  The *)
(* source roll-up (Onboarding) relies on no more than this.                *)
(***************************************************************************)
CONSTANT None

VARIABLES state, completion

vars == <<state, completion>>

Ended == {"done", "failed"}

Init == state = "pending" /\ completion = None

Claim == state = "pending" /\ state' = "in_progress" /\ UNCHANGED completion

End(status) ==
  /\ state = "in_progress"
  /\ state' = status
  /\ completion' = status

Next == Claim \/ \E status \in Ended : End(status)

Spec == Init /\ [][Next]_vars
=============================================================================
