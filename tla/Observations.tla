---------------------------- MODULE Observations ----------------------------
(***************************************************************************)
(* ingest_from_draft (services/ingest/ingestion/core.py): one transaction  *)
(* takes an advisory lock on the record's external id, looks for an        *)
(* observation that has it, and inserts the observation together with its  *)
(* T1 trigger only if there is none.                                       *)
(***************************************************************************)
EXTENDS Naturals

VARIABLES observed, triggers

\* Mutant of Ingest: without the look-up
IngestAgain(r) ==
  /\ observed' = observed \cup {r}
  /\ triggers' = [triggers EXCEPT ![r] = @ + 1]

Ingest(r) ==
  /\ observed' = observed \cup {r}
  /\ triggers' = IF r \in observed THEN triggers
                 ELSE [triggers EXCEPT ![r] = @ + 1]
=============================================================================
