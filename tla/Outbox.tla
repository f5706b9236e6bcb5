------------------------------- MODULE Outbox -------------------------------
(***************************************************************************)
(* What the post-commit queue promises: an effect is recorded with the     *)
(* change that calls for it, is delivered when it is settled as done, and  *)
(* is otherwise still pending or dead-lettered, where only an operator can *)
(* bring it back.                                                          *)
(***************************************************************************)
EXTENDS Naturals

CONSTANTS
  Effects,
  Atomic    \* effects that are delivered as a whole or not at all

VARIABLES
  state,     \* none, pending, done or dead
  delivered  \* how often the effect has reached the world

vars == <<state, delivered>>

Init ==
  /\ state = [e \in Effects |-> "none"]
  /\ delivered = [e \in Effects |-> 0]

In(stage) == {e \in Effects : state[e] = stage}

Move(S, stage) == [e \in Effects |-> IF e \in S THEN stage ELSE state[e]]

Record(S) ==
  /\ S \subseteq In("none")
  /\ state' = Move(S, "pending")
  /\ UNCHANGED delivered

\* One batch: some effects are delivered, some are given up, and some fail
\* after a part of them was delivered
Settle(Done, Dead, Part) ==
  /\ Done \cup Dead \cup Part \subseteq In("pending")
  /\ Done \cap (Dead \cup Part) = {}
  /\ Part \cap Atomic = {}
  /\ state' = [e \in Effects |-> IF e \in Done THEN "done"
                                 ELSE IF e \in Dead THEN "dead" ELSE state[e]]
  /\ delivered' = [e \in Effects |-> IF e \in Done \cup Part
                                     THEN delivered[e] + 1 ELSE delivered[e]]

Resume(e) ==
  /\ state[e] = "dead"
  /\ state' = [state EXCEPT ![e] = "pending"]
  /\ UNCHANGED delivered

Next ==
  \/ \E S \in SUBSET Effects : Record(S)
  \/ \E Done, Dead, Part \in SUBSET Effects : Settle(Done, Dead, Part)
  \/ \E e \in Effects : Resume(e)

Spec == Init /\ [][Next]_vars

(***************************************************************************)
(* An atomic effect has been delivered once if it is done, and not at all  *)
(* if it is not; any effect that is done has been delivered.               *)
(***************************************************************************)
DeliveredIffDone ==
  \A e \in Effects :
    /\ e \in Atomic => delivered[e] = IF state[e] = "done" THEN 1 ELSE 0
    /\ state[e] = "done" => delivered[e] > 0
=============================================================================
