----------------------------- MODULE MCIngestion -----------------------------
(* Instances of Ingestion for TLC. *)
EXTENDS Ingestion, TLC

CONSTANTS b1, b2, l1, l2

\* Two tenants on one partition
TwoTenants == [r \in Records |-> IF r \in Live THEN "live" ELSE "backfill"]
=============================================================================
