------------------------------- MODULE Intake -------------------------------
(***************************************************************************)
(* What the way from a source to the store promises to those who see       *)
(* neither topics nor offsets, retries or caches.  A record is received,   *)
(* from a backfill as often as its page is published.  What has been       *)
(* received may be stored, once, together with the one trigger that makes  *)
(* Think look at it, or set aside: dead-lettered, logged or lost.  Nothing *)
(* is stored or set aside that was not received, and a stored record is    *)
(* never taken back.  A record set aside may still be stored when it is    *)
(* received again.                                                         *)
(***************************************************************************)
EXTENDS Naturals

CONSTANT Records

VARIABLES received, stored, triggers, aside

vars == <<received, stored, triggers, aside>>

Init ==
  /\ received = {} /\ stored = {} /\ aside = {}
  /\ triggers = [r \in Records |-> 0]

Receive(r) ==
  /\ received' = received \cup {r}
  /\ UNCHANGED <<stored, triggers, aside>>

Keep(r) ==
  /\ r \notin stored
  /\ stored' = stored \cup {r}
  /\ triggers' = [triggers EXCEPT ![r] = @ + 1]

Store(r) ==
  /\ r \in received
  /\ Keep(r)
  /\ UNCHANGED <<received, aside>>

\* Without a queue between the two
ReceiveAndStore(r) ==
  /\ received' = received \cup {r}
  /\ Keep(r)
  /\ UNCHANGED aside

\* Answered for and lost in one step
ReceiveAndSetAside(r) ==
  /\ received' = received \cup {r}
  /\ aside' = aside \cup {r}
  /\ UNCHANGED <<stored, triggers>>

\* Several at once when the process that holds them dies
SetAside(R) ==
  /\ R \subseteq received
  /\ aside' = aside \cup R
  /\ UNCHANGED <<received, stored, triggers>>

Next ==
  \/ \E r \in Records :
       Receive(r) \/ Store(r) \/ ReceiveAndStore(r) \/ ReceiveAndSetAside(r)
  \/ \E R \in SUBSET Records : SetAside(R)

Spec == Init /\ [][Next]_vars
=============================================================================
