-------------------------- MODULE MCCascadeLineage --------------------------
(* Instances of CascadeLineage for TLC. *)
EXTENDS CascadeLineage, TLC

TriggerSymmetry == Permutations(Triggers)
=============================================================================
