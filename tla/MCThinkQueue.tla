---------------------------- MODULE MCThinkQueue ----------------------------
(* Instances of ThinkQueue for TLC. *)
EXTENDS ThinkQueue, TLC

CONSTANTS a1, a2, d1, d2, r1, p1, p2, w1, w2, i1, i2, s1, s2

OwnIds == w1 :> i1 @@ w2 :> i2
OneOwnId == w1 :> i1
SharedId == w1 :> i1 @@ w2 :> i1

=============================================================================
