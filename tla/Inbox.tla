-------------------------------- MODULE Inbox --------------------------------
(***************************************************************************)
(* What the trigger queue promises those who put triggers into it, who do  *)
(* not see batches, leases, attempts or workers.  An item that was         *)
(* submitted stays open until it is done, which takes a run that applied   *)
(* it or a reason not to run it at all, or until it is a dead letter; done *)
(* is for ever, and only an operator opens a dead letter again, unless it  *)
(* was quarantined.  Nothing is applied that nobody submitted.             *)
(***************************************************************************)
CONSTANT Items

VARIABLES
  state,      \* absent, open, done, dead or quarantined
  applied,    \* items whose diff some run has applied
  worthless   \* items that need no run any more

vars == <<state, applied, worthless>>

Init ==
  /\ state = [e \in Items |-> "absent"]
  /\ applied = {}
  /\ worthless = {}

In(stage) == {e \in Items : state[e] = stage}

Move(S, stage) == [e \in Items |-> IF e \in S THEN stage ELSE state[e]]

Submit(S) ==
  /\ S \subseteq In("absent")
  /\ state' = Move(S, "open")
  /\ UNCHANGED <<applied, worthless>>

Devalue(e) ==
  /\ worthless' = worthless \cup {e}
  /\ UNCHANGED <<state, applied>>

\* One run, for one item or for several, and the items it submits in turn
Apply(S, D) ==
  /\ S \cap In("absent") = {}
  /\ D \subseteq In("absent")
  /\ applied' = applied \cup S
  /\ state' = Move(D, "open")
  /\ UNCHANGED worthless

Settle(Done, Dead) ==
  /\ Done \cup Dead \subseteq In("open") /\ Done \cap Dead = {}
  /\ Done \subseteq applied \cup worthless
  /\ state' = [e \in Items |-> IF e \in Done THEN "done"
                               ELSE IF e \in Dead THEN "dead" ELSE state[e]]
  /\ UNCHANGED <<applied, worthless>>

\* The operator re-opens a dead letter, or sets it aside for good
Operate(e, stage) ==
  /\ state[e] = "dead" /\ stage \in {"open", "quarantined"}
  /\ state' = [state EXCEPT ![e] = stage]
  /\ UNCHANGED <<applied, worthless>>

Next ==
  \/ \E S \in SUBSET Items : Submit(S)
  \/ \E S, D \in SUBSET Items : Apply(S, D)
  \/ \E Done, Dead \in SUBSET Items : Settle(Done, Dead)
  \/ \E e \in Items : Devalue(e)
  \/ \E e \in Items : \E stage \in {"open", "quarantined"} : Operate(e, stage)

Spec == Init /\ [][Next]_vars
=============================================================================
