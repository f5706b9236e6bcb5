------------------------------ MODULE Partition ------------------------------
(***************************************************************************)
(* A consumer of one Kafka partition that polls batches, works through     *)
(* them group by group (the message key is the tenant: tenants overlap, a  *)
(* tenant's messages stay in order) and commits the offset once the batch  *)
(* is done.  The normalizer and the observation writer share this shape; a *)
(* batch of one is their serial mode.  The broker and the client library   *)
(* are outside the repository.                                             *)
(***************************************************************************)
EXTENDS Naturals, Sequences

CONSTANTS TenantOf, BatchSize

Fresh == [committed |-> 0, upto |-> 0, batch |-> {}]

\* getmany: the next n messages, when the previous batch is committed
CanTake(c, log, n) ==
  /\ n \in 1..BatchSize
  /\ c.batch = {} /\ c.upto = c.committed
  /\ c.upto + n <= Len(log)

Take(c, n) == [c EXCEPT !.upto = @ + n, !.batch = (c.upto + 1)..(c.upto + n)]

\* The messages next in line, one per tenant
Heads(c, log) ==
  {o \in c.batch :
     \A q \in c.batch : q < o => TenantOf[log[q]] # TenantOf[log[o]]}

Settle(c, o) == [c EXCEPT !.batch = @ \ {o}]

CanCommit(c) == c.batch = {} /\ c.upto > c.committed

Commit(c) == [c EXCEPT !.committed = c.upto]

\* A new process starts again from the committed offset
Rewind(c) == [c EXCEPT !.upto = c.committed, !.batch = {}]
=============================================================================
