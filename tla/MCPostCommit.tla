---------------------------- MODULE MCPostCommit ----------------------------
(* Instances of PostCommit for TLC. *)
EXTENDS PostCommit, TLC

CONSTANTS t1, t2, k1, k2, k3, w1, w2

Poisoned == {<<t1, k2>>}
=============================================================================
