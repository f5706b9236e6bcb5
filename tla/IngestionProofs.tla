--------------------------- MODULE IngestionProofs ---------------------------
(***************************************************************************)
(* Proofs about Ingestion for any records, tenants, batch sizes, retry     *)
(* caps and any number of faults: types, TriggeredOnce and NothingVanishes *)
(* from IngestionInv.  The lemmas on logs and consumers come first; then   *)
(* one lemma per component says that its steps keep the types and every    *)
(* record accounted for.  The bound on the durable counters and the        *)
(* refinement of Intake come last.                                         *)
(***************************************************************************)
EXTENDS Ingestion, TLAPS

-----------------------------------------------------------------------------
(* Logs and consumers *)

Extends(log, new) ==
  /\ DOMAIN log \subseteq DOMAIN new
  /\ \A o \in DOMAIN log : new[o] = log[o]

(* Publishing appends: old offsets keep their messages. *)
LEMMA AppendAt ==
  ASSUME NEW S, NEW log \in Seq(S), NEW e \in S
  PROVE  LET new == Append(log, e) IN
         /\ new \in Seq(S) /\ Len(new) = Len(log) + 1
         /\ DOMAIN new = 1..Len(new) /\ DOMAIN log = 1..Len(log)
         /\ Len(log) \in Nat /\ Len(new) \in DOMAIN new
         /\ new[Len(new)] = e /\ Extends(log, new)
         /\ \A o \in DOMAIN new : o \in DOMAIN log \/ new[o] = e
  BY DEF Extends

(* The shape of a consumer and of its log. *)
LEMMA ConsumerFields ==
  ASSUME NEW S, NEW log \in Seq(S), NEW c \in Consumer(log)
  PROVE  /\ c.committed \in 0..Len(log) /\ c.upto \in 0..Len(log)
         /\ c.batch \subseteq 1..Len(log) /\ Len(log) \in Nat
         /\ DOMAIN log = 1..Len(log) /\ \A o \in DOMAIN log : log[o] \in S
  BY DEF Consumer

(* A longer log has the same consumers. *)
LEMMA ConsumerOfLonger ==
  ASSUME NEW S, NEW log \in Seq(S), NEW e \in S, NEW c \in Consumer(log)
  PROVE  c \in Consumer(Append(log, e))
<1>1. Len(log) \in Nat /\ Len(Append(log, e)) = Len(log) + 1
  BY AppendAt
<1>2. 0..Len(log) \subseteq 0..(Len(log) + 1) /\ 1..Len(log) \subseteq 1..(Len(log) + 1)
  BY <1>1
<1>3. QED
  BY <1>1, <1>2 DEF Consumer

(* What has not been dealt with stays so if offsets only become unsettled. *)
LEMMA UnsettledKept ==
  ASSUME NEW log, NEW new, Extends(log, new), NEW c, NEW d, NEW r,
         \A o \in DOMAIN log : (o \in c.batch \/ o > c.upto) => (o \in d.batch \/ o > d.upto),
         Unsettled(c, log, r)
  PROVE  Unsettled(d, new, r)
  BY DEF Unsettled, Extends

Taken(c, n) == [c EXCEPT !.upto = @ + n, !.batch = (c.upto + 1)..(c.upto + n)]

(* Polling a batch moves offsets into it and settles none. *)
LEMMA TakeKeeps ==
  ASSUME NEW S, NEW log \in Seq(S), NEW c \in Consumer(log), InOrder(c),
         NEW n \in 1..BatchSize, c.batch = {}, c.upto = c.committed,
         c.upto + n <= Len(log)
  PROVE  /\ Taken(c, n) \in Consumer(log) /\ InOrder(Taken(c, n))
         /\ \A o \in DOMAIN log :
              (o \in c.batch \/ o > c.upto)
                => (o \in Taken(c, n).batch \/ o > Taken(c, n).upto)
<1> DEFINE d == Taken(c, n)
<1>1. n \in Nat /\ n >= 1
  BY BoundsAssumption
<1>2. /\ c.upto \in Nat /\ c.committed \in Nat /\ Len(log) \in Nat
      /\ DOMAIN log = 1..Len(log) /\ c.committed \in 0..Len(log)
  BY ConsumerFields
<1>3. /\ d.upto = c.upto + n /\ d.committed = c.committed
      /\ d.batch = (c.upto + 1)..(c.upto + n)
  BY DEF Consumer, Taken
<1>4. d \in Consumer(log)
  <2>1. c.upto + n \in 0..Len(log) /\ (c.upto + 1)..(c.upto + n) \in SUBSET (1..Len(log))
    BY <1>1, <1>2
  <2>2. QED
    BY <2>1 DEF Consumer, Taken
<1> HIDE DEF d
<1>5. QED
  BY <1>1, <1>2, <1>3, <1>4 DEF InOrder, d

(* Dealing with a message settles its offset only. *)
LEMMA SettleKeeps ==
  ASSUME NEW S, NEW log \in Seq(S), NEW c \in Consumer(log), InOrder(c),
         NEW x \in c.batch, NEW d, d = [c EXCEPT !.batch = @ \ {x}]
  PROVE  /\ d \in Consumer(log) /\ InOrder(d) /\ x \in DOMAIN log
         /\ \A r : Unsettled(c, log, r) => Unsettled(d, log, r) \/ log[x] = r
<1>1. d.upto = c.upto /\ d.committed = c.committed /\ d.batch = c.batch \ {x}
  BY DEF Consumer
<1>2. d \in Consumer(log)
  BY DEF Consumer
<1>3. QED
  BY <1>1, <1>2, ConsumerFields DEF InOrder, Unsettled

(* Committing changes nothing that is unsettled. *)
LEMMA CommitKeeps ==
  ASSUME NEW S, NEW log \in Seq(S), NEW c \in Consumer(log), InOrder(c),
         c.batch = {}, NEW d, d = [c EXCEPT !.committed = c.upto]
  PROVE  /\ d \in Consumer(log) /\ InOrder(d)
         /\ d.batch = c.batch /\ d.upto = c.upto
<1>1. d.upto = c.upto /\ d.committed = c.upto /\ d.batch = {}
  BY DEF Consumer
<1>2. d \in Consumer(log)
  BY ConsumerFields DEF Consumer
<1>3. QED
  BY <1>1, <1>2, ConsumerFields DEF InOrder

(* After a restart everything above the committed offset is read again. *)
LEMMA RewindKeeps ==
  ASSUME NEW S, NEW log \in Seq(S), NEW c \in Consumer(log), InOrder(c),
         NEW d, d = [c EXCEPT !.upto = c.committed, !.batch = {}]
  PROVE  /\ d \in Consumer(log) /\ InOrder(d)
         /\ \A o \in DOMAIN log : o > c.committed => o > d.upto
         /\ \A o \in DOMAIN log : (o \in c.batch \/ o > c.upto) => (o \in d.batch \/ o > d.upto)
<1>1. d.upto = c.committed /\ d.committed = c.committed /\ d.batch = {}
  BY DEF Consumer
<1>2. d \in Consumer(log)
  BY ConsumerFields DEF Consumer
<1>3. QED
  BY <1>1, <1>2, ConsumerFields DEF InOrder

-----------------------------------------------------------------------------
(* Queues of messages on their way *)

Members(q) == {q[i] : i \in DOMAIN q}

(* Sending adds one message. *)
LEMMA SendAdds ==
  ASSUME NEW S, NEW q \in Seq(S), NEW e \in S
  PROVE  Append(q, e) \in Seq(S) /\ Members(Append(q, e)) = Members(q) \cup {e}
<1>1. /\ Append(q, e) \in Seq(S) /\ Extends(q, Append(q, e))
      /\ DOMAIN Append(q, e) = 1..(Len(q) + 1) /\ Append(q, e)[Len(q) + 1] = e
      /\ DOMAIN q = 1..Len(q) /\ Len(q) \in Nat
  BY AppendAt
<1>2. QED
  BY <1>1 DEF Members, Extends

(* Delivering takes the first one out. *)
LEMMA DeliverTakes ==
  ASSUME NEW S, NEW q \in Seq(S), q # <<>>
  PROVE  /\ Tail(q) \in Seq(S) /\ Head(q) \in S /\ Head(q) \in Members(q)
         /\ Members(q) \subseteq Members(Tail(q)) \cup {Head(q)}
         /\ Members(Tail(q)) \subseteq Members(q)
<1>1. Len(q) \in Nat /\ Len(q) >= 1 /\ DOMAIN q = 1..Len(q)
  OBVIOUS
<1>2. /\ Tail(q) \in Seq(S) /\ DOMAIN Tail(q) = 1..(Len(q) - 1)
      /\ \A i \in 1..(Len(q) - 1) : Tail(q)[i] = q[i + 1]
  BY <1>1
<1>3. Head(q) = q[1]
  BY <1>1
<1>4. ASSUME NEW i \in DOMAIN q PROVE q[i] \in Members(Tail(q)) \cup {Head(q)}
  <2>1. CASE i = 1
    BY <1>3, <2>1
  <2>2. CASE i # 1
    <3>1. i - 1 \in DOMAIN Tail(q) /\ Tail(q)[i - 1] = q[i]
      BY <1>1, <1>2, <2>2
    <3>2. QED
      BY <3>1 DEF Members
  <2>3. QED
    BY <2>1, <2>2
<1>5. \A i \in DOMAIN Tail(q) : i + 1 \in DOMAIN q /\ Tail(q)[i] = q[i + 1]
  BY <1>1, <1>2
<1>6. Members(q) \subseteq Members(Tail(q)) \cup {Head(q)}
  <2>1. \A m \in Members(q) : \E i \in DOMAIN q : m = q[i]
    BY DEF Members
  <2>2. QED
    BY <1>4, <2>1
<1>7. Members(Tail(q)) \subseteq Members(q)
  BY <1>5 DEF Members
<1>8. Head(q) \in Members(q) /\ Head(q) \in S
  BY <1>1, <1>3 DEF Members
<1>9. QED
  BY <1>2, <1>6, <1>7, <1>8

Message == [rec : Records, off : 1..Len(raw), topic : {"normalized", "dlq"}]
DeadLetter == [rec : Records, off : 1..Len(normalized)]

(* A longer raw topic has the same messages. *)
LEMMA MessagesOfLonger ==
  ASSUME NEW q \in Seq(Message), raw \in Seq(Records), NEW r \in Records,
         raw' = Append(raw, r)
  PROVE  q \in Seq(Message')
<1>1. Len(raw) \in Nat /\ Len(raw') = Len(raw) + 1
  BY AppendAt
<1>2. Message \subseteq Message'
  BY <1>1 DEF Message
<1> HIDE DEF Message
<1>3. QED
  BY <1>2

-----------------------------------------------------------------------------
(* The types by component *)

RawOK ==
  /\ raw \in Seq(Records) /\ norm \in Consumer(raw) /\ sending \in Seq(Message)

Counter(rows, cap) == rows \in [DOMAIN rows -> 1..(cap - 1)]

Rows(rows) == rows \in [DOMAIN rows -> Nat \ {0}]

CountersOK ==
  /\ Counter(tries, MaxTries) /\ Rows(poison)
  /\ DOMAIN tries \cup DOMAIN poison \cup doomed \cup clearing
       \subseteq 1..Len(normalized)

WriterOK ==
  /\ normalized \in Seq(Records) /\ wr \in Consumer(normalized)
  /\ failed \subseteq {TenantOf[r] : r \in Records}
  /\ CountersOK
  /\ parking \subseteq DeadLetter

StoreOK ==
  /\ {dlq, shadowed, observed} \subseteq SUBSET Records
  /\ triggers \in [Records -> Nat]
  /\ lost \subseteq Records \X Causes

SwitchOK ==
  /\ incoming \subseteq Live
  /\ flag \in BOOLEAN /\ cache \in [Processes -> BOOLEAN]
  /\ breaker \in [breaches : Nat, tripped : BOOLEAN]

(* TypeOK is their conjunction. *)
LEMMA Types == TypeOK <=> RawOK /\ WriterOK /\ StoreOK /\ SwitchOK /\ spent \in 0..MaxFaults
  BY DEF TypeOK, RawOK, WriterOK, CountersOK, Counter, Rows, StoreOK, SwitchOK,
         Message, DeadLetter

(* The same of the next state. *)
LEMMA TypesNext ==
  ASSUME RawOK', WriterOK', StoreOK', SwitchOK', spent' \in 0..MaxFaults
  PROVE  TypeOK'
  BY DEF TypeOK, RawOK, WriterOK, CountersOK, Counter, Rows, StoreOK, SwitchOK,
         Message, DeadLetter

\* What a step may not take back
StoreGrows ==
  /\ observed \subseteq observed' /\ dlq \subseteq dlq'
  /\ lost \subseteq lost' /\ shadowed \subseteq shadowed'

(* What has landed stays landed. *)
LEMMA LandedKept ==
  ASSUME StoreGrows, NEW r, Landed(r)
  PROVE  Landed(r)'
  BY DEF StoreGrows, Landed, Lost

AllAccounted ==
  \A r \in Records : Published(r) \/ r \in Live \ incoming => Accounted(r)

(* A step that neither publishes nor receives keeps who must be accounted. *)
LEMMA AccountedByRecord ==
  ASSUME AllAccounted, raw' = raw, incoming' = incoming,
         \A r \in Records : Accounted(r) => Accounted(r)'
  PROVE  AllAccounted'
  BY DEF AllAccounted, Published

(* A fault stays within its bound. *)
LEMMA FaultKeeps ==
  ASSUME spent \in 0..MaxFaults, N!Fault \/ W!Fault \/ C!Fault \/ Fault
  PROVE  spent' \in 0..MaxFaults
  BY BoundsAssumption DEF N!Fault, W!Fault, C!Fault, Fault

-----------------------------------------------------------------------------
(* The normalizer *)

\* What every component's step has to establish
Good == TypeOK /\ InOrder(norm) /\ InOrder(wr) /\ QueuesAgree /\ AllAccounted

(* A step that deals with raw offset x accounts for its record. *)
LEMMA NormalizerSettles ==
  ASSUME Good, NEW x \in norm.batch, norm' = N!Settle(norm, x),
         UNCHANGED <<raw, normalized, writerVars, dlq, cutoverVars, store>>,
         spent' \in 0..MaxFaults,
         \/ /\ UNCHANGED lost
            /\ \E topic \in {"normalized", "dlq"} : N!Send(x, topic)
         \/ /\ UNCHANGED sending
            /\ lost' = lost \cup {<<raw[x], "dead_letter">>}
  PROVE  Good'
<1> USE DEF Good
<1>0. RawOK /\ WriterOK /\ StoreOK /\ SwitchOK
  BY Types
<1>1. norm' = [norm EXCEPT !.batch = @ \ {x}]
  BY DEF N!Settle
<1>2. /\ norm' \in Consumer(raw) /\ InOrder(norm') /\ x \in DOMAIN raw
      /\ \A r : Unsettled(norm, raw, r) => Unsettled(norm', raw, r) \/ raw[x] = r
  BY <1>0, <1>1, SettleKeeps DEF RawOK
<1>3. raw[x] \in Records /\ DOMAIN raw = 1..Len(raw)
  BY <1>0, <1>2, ConsumerFields DEF RawOK
<1>4. CASE UNCHANGED lost /\ \E topic \in {"normalized", "dlq"} : N!Send(x, topic)
  <2>1. PICK topic \in {"normalized", "dlq"} :
          sending' = Append(sending, [rec |-> raw[x], off |-> x, topic |-> topic])
    BY <1>4 DEF N!Send
  <2> DEFINE m == [rec |-> raw[x], off |-> x, topic |-> topic]
  <2>2. m \in Message /\ m.rec = raw[x] /\ m.off = x
    BY <1>2, <1>3 DEF Message
  <2> HIDE DEF m
  <2>3. sending' \in Seq(Message) /\ Members(sending') = Members(sending) \cup {m}
    BY <1>0, <2>1, <2>2, SendAdds DEF RawOK, m
  <2>4. N!Waiting = Members(sending) /\ N!Waiting' = Members(sending')
    BY DEF N!Waiting, Members
  <2>5. TypeOK'
    <3>1. RawOK'
      BY <1>0, <1>2, <2>3 DEF RawOK, Message
    <3>2. WriterOK' /\ StoreOK' /\ SwitchOK'
      BY <1>0, <1>4 DEF WriterOK, CountersOK, StoreOK, SwitchOK, DeadLetter, writerVars,
                        cutoverVars, store
    <3>3. QED
      BY <3>1, <3>2, TypesNext
  <2>6. QueuesAgree'
    BY <1>2, <2>2, <2>3, <2>4 DEF QueuesAgree, writerVars
  <2>7. StoreGrows
    BY <1>4 DEF StoreGrows, store, writerVars
  <2>8. ASSUME NEW r \in Records, Accounted(r) PROVE Accounted(r)'
    <3>1. CASE Landed(r)
      BY <2>7, <3>1, LandedKept DEF Accounted
    <3>2. CASE Queued(r) \/ raw[x] = r
      BY <2>2, <2>3, <2>4, <3>2 DEF Accounted, Queued, writerVars
    <3>3. CASE Unsettled(norm, raw, r) \/ Unsettled(wr, normalized, r)
      BY <1>2, <3>2, <3>3 DEF Accounted, Unsettled, writerVars
    <3>4. QED
      BY <2>8, <3>1, <3>2, <3>3 DEF Accounted
  <2>9. AllAccounted'
    BY <2>8, AccountedByRecord DEF cutoverVars
  <2>10. QED
    BY <1>2, <2>5, <2>6, <2>9 DEF writerVars
<1>5. CASE UNCHANGED sending /\ lost' = lost \cup {<<raw[x], "dead_letter">>}
  <2>1. TypeOK'
    <3>1. RawOK'
      BY <1>0, <1>2, <1>5 DEF RawOK, Message
    <3>2. StoreOK'
      BY <1>0, <1>3, <1>5 DEF StoreOK, Causes, store, writerVars
    <3>3. WriterOK' /\ SwitchOK'
      BY <1>0 DEF WriterOK, CountersOK, SwitchOK, DeadLetter, writerVars, cutoverVars
    <3>4. QED
      BY <3>1, <3>2, <3>3, TypesNext
  <2>2. QueuesAgree'
    BY <1>5 DEF QueuesAgree, N!Waiting, writerVars
  <2>3. StoreGrows
    BY <1>5 DEF StoreGrows, store, writerVars
  <2>4. ASSUME NEW r \in Records, Accounted(r) PROVE Accounted(r)'
    <3>1. CASE Landed(r)
      BY <2>3, <3>1, LandedKept DEF Accounted
    <3>2. CASE raw[x] = r
      BY <1>5, <3>2 DEF Accounted, Landed, Lost, Causes
    <3>3. CASE Queued(r)
      BY <1>5, <3>3 DEF Accounted, Queued, N!Waiting, writerVars
    <3>4. CASE Unsettled(norm, raw, r) \/ Unsettled(wr, normalized, r)
      BY <1>2, <3>2, <3>4 DEF Accounted, Unsettled, writerVars
    <3>5. QED
      BY <2>4, <3>1, <3>2, <3>3, <3>4 DEF Accounted
  <2>5. AllAccounted'
    BY <2>4, AccountedByRecord DEF cutoverVars
  <2>6. QED
    BY <1>2, <2>1, <2>2, <2>5 DEF writerVars
<1>6. QED
  BY <1>4, <1>5

(* A step that only moves the consumers unsettles offsets or leaves them. *)
LEMMA ConsumersMove ==
  ASSUME Good, UNCHANGED <<raw, sending, normalized, parking, dlq, shadowed,
                           incoming, flag, breaker, observed, triggers, lost>>,
         spent' \in 0..MaxFaults, cache' \in [Processes -> BOOLEAN],
         norm' \in Consumer(raw), InOrder(norm'),
         wr' \in Consumer(normalized), InOrder(wr'),
         failed' \subseteq {TenantOf[r] : r \in Records},
         CountersOK',
         \A o \in DOMAIN raw :
           (o \in norm.batch \/ o > norm.upto) => (o \in norm'.batch \/ o > norm'.upto),
         \A o \in DOMAIN normalized :
           (o \in wr.batch \/ o > wr.upto) => (o \in wr'.batch \/ o > wr'.upto)
  PROVE  Good'
<1> USE DEF Good
<1>0. RawOK /\ WriterOK /\ StoreOK /\ SwitchOK
  BY Types
<1>1. TypeOK'
  <2>1. RawOK' /\ StoreOK' /\ SwitchOK'
    BY <1>0 DEF RawOK, Message, StoreOK, SwitchOK
  <2>2. WriterOK'
    BY <1>0 DEF WriterOK, DeadLetter
  <2>3. QED
    BY <2>1, <2>2, TypesNext
<1>2. QueuesAgree'
  BY DEF QueuesAgree, N!Waiting
<1>3. ASSUME NEW r \in Records, Accounted(r) PROVE Accounted(r)'
  <2>1. Landed(r) => Landed(r)'
    BY DEF Landed, Lost
  <2>2. Queued(r) => Queued(r)'
    BY DEF Queued, N!Waiting
  <2>3. Extends(raw, raw) /\ Extends(normalized, normalized)
    BY DEF Extends
  <2>4. Unsettled(norm, raw, r) => Unsettled(norm', raw, r)
    BY <2>3, UnsettledKept
  <2>5. Unsettled(wr, normalized, r) => Unsettled(wr', normalized, r)
    BY <2>3, UnsettledKept
  <2>6. QED
    BY <1>3, <2>1, <2>2, <2>4, <2>5 DEF Accounted, Unsettled
<1>4. AllAccounted'
  BY <1>3, AccountedByRecord
<1>5. QED
  BY <1>1, <1>2, <1>4

(* Delivery moves a message from the queue to a topic. *)
LEMMA NormalizerDelivers ==
  ASSUME Good, N!Deliver, UNCHANGED <<writerVars, cutoverVars, store>>
  PROVE  Good'
<1> USE DEF Good
<1> DEFINE m == Head(sending)
<1>0. RawOK /\ WriterOK /\ StoreOK /\ SwitchOK /\ spent \in 0..MaxFaults
  BY Types
<1>1. /\ sending # <<>> /\ sending' = Tail(sending) /\ UNCHANGED <<raw, norm, lost, spent>>
      /\ \/ m.topic = "dlq" /\ dlq' = dlq \cup {m.rec} /\ normalized' = normalized
         \/ m.topic # "dlq" /\ dlq' = dlq /\ normalized' = Append(normalized, m.rec)
  BY DEF N!Deliver
<1>2. /\ sending' \in Seq(Message) /\ m \in Message
      /\ Members(sending) \subseteq Members(sending') \cup {m}
      /\ Members(sending') \subseteq Members(sending)
  BY <1>0, <1>1, DeliverTakes DEF RawOK
<1>3. m.rec \in Records
  BY <1>2 DEF Message
<1>4. N!Waiting = Members(sending) /\ N!Waiting' = Members(sending')
  BY DEF N!Waiting, Members
<1> HIDE DEF m
<1>5. StoreGrows
  BY <1>1 DEF StoreGrows, store, writerVars
<1>6. RawOK' /\ SwitchOK'
  BY <1>0, <1>1, <1>2 DEF RawOK, Message, SwitchOK, cutoverVars
<1>7. StoreOK'
  BY <1>0, <1>1, <1>3 DEF StoreOK, store, writerVars
<1>8. CASE dlq' = dlq \cup {m.rec} /\ normalized' = normalized
  <2>1. WriterOK'
    BY <1>0, <1>8 DEF WriterOK, CountersOK, DeadLetter, writerVars
  <2>2. QueuesAgree'
    BY <1>1, <1>2, <1>4, <1>8 DEF QueuesAgree, writerVars
  <2>3. ASSUME NEW r \in Records, Accounted(r) PROVE Accounted(r)'
    <3>1. CASE Landed(r)
      BY <1>5, <3>1, LandedKept DEF Accounted
    <3>2. CASE r = m.rec
      BY <1>8, <3>2 DEF Accounted, Landed
    <3>3. CASE Queued(r) /\ r # m.rec
      BY <1>2, <1>4, <3>3 DEF Accounted, Queued, writerVars
    <3>4. CASE Unsettled(norm, raw, r) \/ Unsettled(wr, normalized, r)
      BY <1>1, <1>8, <3>4 DEF Accounted, Unsettled, writerVars
    <3>5. QED
      BY <2>3, <3>1, <3>2, <3>3, <3>4 DEF Accounted
  <2>4. AllAccounted'
    BY <1>1, <2>3, AccountedByRecord DEF cutoverVars
  <2>5. QED
    BY <1>0, <1>1, <1>6, <1>7, <2>1, <2>2, <2>4, TypesNext DEF writerVars
<1>9. CASE normalized' = Append(normalized, m.rec)
  <2>1. /\ normalized' \in Seq(Records) /\ Extends(normalized, normalized')
        /\ Len(normalized') = Len(normalized) + 1 /\ Len(normalized) \in Nat
        /\ normalized'[Len(normalized) + 1] = m.rec
        /\ DOMAIN normalized' = 1..(Len(normalized) + 1)
        /\ DOMAIN normalized = 1..Len(normalized)
    BY <1>0, <1>3, <1>9, AppendAt DEF WriterOK
  <2>2. WriterOK'
    <3>1. wr' \in Consumer(normalized')
      BY <1>0, <1>3, <1>9, ConsumerOfLonger DEF WriterOK, writerVars
    <3>2. 1..Len(normalized) \subseteq 1..Len(normalized')
      BY <2>1
    <3>3. DeadLetter \subseteq DeadLetter'
      BY <3>2 DEF DeadLetter
    <3>4. QED
      BY <1>0, <2>1, <3>1, <3>2, <3>3 DEF WriterOK, CountersOK, writerVars
  <2>3. QueuesAgree'
    BY <1>1, <1>2, <1>4, <2>1 DEF QueuesAgree, writerVars, Extends
  <2>4. wr.upto \in 0..Len(normalized)
    BY <1>0, ConsumerFields DEF WriterOK
  <2>5. ASSUME NEW r \in Records, Accounted(r) PROVE Accounted(r)'
    <3>1. CASE Landed(r)
      BY <1>5, <3>1, LandedKept DEF Accounted
    <3>2. CASE r = m.rec
      <4>1. Len(normalized) + 1 \in DOMAIN normalized' /\ Len(normalized) + 1 > wr'.upto
        BY <2>1, <2>4 DEF writerVars
      <4>2. QED
        BY <2>1, <3>2, <4>1 DEF Accounted, Unsettled
    <3>3. CASE Queued(r) /\ r # m.rec
      BY <1>2, <1>4, <3>3 DEF Accounted, Queued, writerVars
    <3>4. CASE Unsettled(norm, raw, r)
      BY <1>1, <3>4 DEF Accounted, Unsettled
    <3>5. CASE Unsettled(wr, normalized, r)
      <4>1. Unsettled(wr, normalized', r)
        BY <2>1, <3>5, UnsettledKept
      <4>2. QED
        BY <4>1 DEF Accounted, Unsettled, writerVars
    <3>6. QED
      BY <2>5, <3>1, <3>2, <3>3, <3>4, <3>5 DEF Accounted
  <2>6. AllAccounted'
    BY <1>1, <2>5, AccountedByRecord DEF cutoverVars
  <2>7. QED
    BY <1>0, <1>1, <1>6, <1>7, <2>2, <2>3, <2>6, TypesNext DEF writerVars
<1>10. QED
  BY <1>1, <1>8, <1>9

(* A message the broker refuses leaves the queue and is named lost. *)
LEMMA NormalizerRefused ==
  ASSUME Good, N!DeliverRefused, UNCHANGED <<writerVars, cutoverVars, store>>
  PROVE  Good'
<1> USE DEF Good
<1> DEFINE m == Head(sending)
<1>0. RawOK /\ WriterOK /\ StoreOK /\ SwitchOK /\ spent \in 0..MaxFaults
  BY Types
<1>1. /\ sending # <<>> /\ sending' = Tail(sending)
      /\ lost' = lost \cup {<<m.rec, "refused">>}
      /\ UNCHANGED <<raw, norm, normalized, dlq>> /\ spent' \in 0..MaxFaults
  BY <1>0, FaultKeeps DEF N!DeliverRefused
<1>2. /\ sending' \in Seq(Message) /\ m \in Message
      /\ Members(sending) \subseteq Members(sending') \cup {m}
      /\ Members(sending') \subseteq Members(sending)
  BY <1>0, <1>1, DeliverTakes DEF RawOK
<1>3. m.rec \in Records
  BY <1>2 DEF Message
<1>4. N!Waiting = Members(sending) /\ N!Waiting' = Members(sending')
  BY DEF N!Waiting, Members
<1> HIDE DEF m
<1>5. StoreGrows
  BY <1>1 DEF StoreGrows, store, writerVars
<1>6. TypeOK'
  <2>1. RawOK' /\ SwitchOK'
    BY <1>0, <1>1, <1>2 DEF RawOK, Message, SwitchOK, cutoverVars
  <2>2. StoreOK'
    BY <1>0, <1>1, <1>3 DEF StoreOK, Causes, store, writerVars
  <2>3. WriterOK'
    BY <1>0, <1>1 DEF WriterOK, CountersOK, DeadLetter, writerVars
  <2> QED
    BY <1>1, <2>1, <2>2, <2>3, TypesNext
<1>7. QueuesAgree'
  BY <1>1, <1>2, <1>4 DEF QueuesAgree, writerVars
<1>8. ASSUME NEW r \in Records, Accounted(r) PROVE Accounted(r)'
  <2>1. CASE Landed(r)
    BY <1>5, <2>1, LandedKept DEF Accounted
  <2>2. CASE r = m.rec
    BY <1>1, <2>2 DEF Accounted, Landed, Lost, Causes
  <2>3. CASE Queued(r) /\ r # m.rec
    BY <1>2, <1>4, <2>3 DEF Accounted, Queued, writerVars
  <2>4. CASE Unsettled(norm, raw, r) \/ Unsettled(wr, normalized, r)
    BY <1>1, <2>4 DEF Accounted, Unsettled, writerVars
  <2> QED
    BY <1>8, <2>1, <2>2, <2>3, <2>4 DEF Accounted
<1>9. AllAccounted'
  BY <1>1, <1>8, AccountedByRecord DEF cutoverVars
<1> QED
  BY <1>1, <1>6, <1>7, <1>9 DEF writerVars

(* A crash empties the queue: what it held is read again, or named lost. *)
LEMMA NormalizerCrashes ==
  ASSUME Good, N!Crash, UNCHANGED <<writerVars, cutoverVars, store>>
  PROVE  Good'
<1> USE DEF Good
<1>0. RawOK /\ WriterOK /\ StoreOK /\ SwitchOK /\ spent \in 0..MaxFaults
  BY Types
<1>1. /\ norm' = [norm EXCEPT !.upto = norm.committed, !.batch = {}] /\ sending' = <<>>
      /\ lost' = lost \cup {<<m.rec, "queue">> :
                              m \in {x \in N!Waiting : x.off <= norm.committed}}
      /\ UNCHANGED <<raw, normalized, dlq>> /\ spent' \in 0..MaxFaults
  BY <1>0, FaultKeeps DEF N!Crash, N!Rewind
<1>2. /\ norm' \in Consumer(raw) /\ InOrder(norm')
      /\ \A o \in DOMAIN raw : o > norm.committed => o > norm'.upto
      /\ \A o \in DOMAIN raw :
           (o \in norm.batch \/ o > norm.upto) => (o \in norm'.batch \/ o > norm'.upto)
  BY <1>0, <1>1, RewindKeeps DEF RawOK
<1>3. \A m \in N!Waiting : m \in Message /\ m.rec \in Records
  <2>1. \A i \in DOMAIN sending : sending[i] \in Message
    BY <1>0 DEF RawOK
  <2>2. \A m \in Message : m.rec \in Records
    BY DEF Message
  <2>3. QED
    BY <2>1, <2>2 DEF N!Waiting
<1>4. StoreGrows
  BY <1>1 DEF StoreGrows, store, writerVars
<1>5. TypeOK'
  <2>1. RawOK'
    BY <1>0, <1>1, <1>2 DEF RawOK
  <2>2. StoreOK'
    BY <1>0, <1>1, <1>3 DEF StoreOK, Causes, store, writerVars
  <2>3. WriterOK' /\ SwitchOK'
    BY <1>0, <1>1 DEF WriterOK, CountersOK, SwitchOK, DeadLetter, writerVars, cutoverVars
  <2>4. QED
    BY <1>1, <2>1, <2>2, <2>3, TypesNext
<1>6. QueuesAgree'
  BY <1>1 DEF QueuesAgree, N!Waiting, writerVars
<1>7. ASSUME NEW r \in Records, Accounted(r) PROVE Accounted(r)'
  <2>1. CASE Landed(r)
    BY <1>4, <2>1, LandedKept DEF Accounted
  <2>2. ASSUME NEW m \in N!Waiting, m.rec = r PROVE Accounted(r)'
    <3>1. m.off \in DOMAIN raw /\ raw[m.off] = r
      BY <2>2 DEF QueuesAgree
    <3>2. CASE m.off <= norm.committed
      BY <1>1, <2>2, <3>2 DEF Accounted, Landed, Lost, Causes
    <3>3. CASE m.off > norm.committed
      BY <1>1, <1>2, <3>1, <3>3 DEF Accounted, Unsettled
    <3>4. m.off \in Nat /\ norm.committed \in Nat
      BY <1>0, <3>1, ConsumerFields DEF RawOK
    <3>5. QED
      BY <3>2, <3>3, <3>4
  <2>3. CASE \E m \in parking : m.rec = r
    BY <2>3 DEF Accounted, Queued, writerVars
  <2>4. CASE Unsettled(norm, raw, r)
    <3>1. Unsettled(norm', raw, r)
      BY <1>2, <2>4, UnsettledKept DEF Extends
    <3>2. QED
      BY <1>1, <3>1 DEF Accounted, Unsettled
  <2>5. CASE Unsettled(wr, normalized, r)
    BY <1>1, <2>5 DEF Accounted, Unsettled, writerVars
  <2>6. QED
    BY <1>7, <2>1, <2>2, <2>3, <2>4, <2>5 DEF Accounted, Queued
<1>8. AllAccounted'
  BY <1>1, <1>7, AccountedByRecord DEF cutoverVars
<1>9. QED
  BY <1>1, <1>2, <1>5, <1>6, <1>8 DEF writerVars

(* All steps of the normalizer. *)
LEMMA NormalizingGood ==
  ASSUME Good, Normalizing
  PROVE  Good'
<1>0. /\ RawOK /\ WriterOK /\ SwitchOK /\ spent \in 0..MaxFaults
      /\ InOrder(norm) /\ InOrder(wr)
  BY Types DEF Good
<1>1. UNCHANGED <<writerVars, cutoverVars, store>> /\ N!Next
  BY DEF Normalizing
<1>2. /\ wr' = wr /\ failed' = failed /\ tries' = tries /\ poison' = poison
      /\ doomed' = doomed /\ clearing' = clearing
      /\ parking' = parking /\ shadowed' = shadowed /\ incoming' = incoming
      /\ flag' = flag /\ cache' = cache /\ breaker' = breaker
      /\ observed' = observed /\ triggers' = triggers
  BY <1>1 DEF writerVars, cutoverVars, store
<1>3. ASSUME UNCHANGED <<raw, sending, normalized, dlq, lost, spent>>,
             norm' \in Consumer(raw), InOrder(norm'),
             \A o \in DOMAIN raw :
               (o \in norm.batch \/ o > norm.upto) => (o \in norm'.batch \/ o > norm'.upto)
      PROVE  Good'
  BY <1>0, <1>2, <1>3, ConsumersMove DEF WriterOK, CountersOK, SwitchOK
<1>4. CASE N!Poll
  <2>1. PICK n \in 1..BatchSize :
          /\ norm.batch = {} /\ norm.upto = norm.committed /\ norm.upto + n <= Len(raw)
          /\ norm' = Taken(norm, n)
    BY <1>4 DEF N!Poll, N!CanTake, N!Take, Taken
  <2>2. UNCHANGED <<raw, sending, normalized, dlq, lost, spent>>
    BY <1>4 DEF N!Poll
  <2>3. raw \in Seq(Records) /\ norm \in Consumer(raw) /\ InOrder(norm)
    BY <1>0 DEF RawOK
  <2>4. QED
    BY <1>3, <2>1, <2>2, <2>3, TakeKeeps
<1>5. CASE N!CommitRaw
  <2>1. norm.batch = {} /\ norm' = [norm EXCEPT !.committed = norm.upto]
        /\ UNCHANGED <<raw, sending, normalized, dlq, lost, spent>>
    BY <1>5 DEF N!CommitRaw, N!CanCommit, N!Commit
  <2>2. QED
    BY <1>0, <1>3, <2>1, CommitKeeps DEF RawOK
<1>6. ASSUME NEW x \in norm.batch,
             N!Normalize(x) \/ N!NormalizeFails(x) \/ N!NormalizeDrops(x)
      PROVE  Good'
  <2>1. spent' \in 0..MaxFaults
    BY <1>0, <1>6, FaultKeeps DEF N!Normalize, N!NormalizeFails, N!NormalizeDrops
  <2>2. /\ norm' = N!Settle(norm, x) /\ UNCHANGED <<raw, normalized, dlq>>
        /\ \/ UNCHANGED lost /\ \E topic \in {"normalized", "dlq"} : N!Send(x, topic)
           \/ UNCHANGED sending /\ lost' = lost \cup {<<raw[x], "dead_letter">>}
    BY <1>6 DEF N!Normalize, N!NormalizeFails, N!NormalizeDrops
  <2>3. QED
    BY <1>1, <2>1, <2>2, NormalizerSettles
<1>7. QED
  BY <1>1, <1>4, <1>5, <1>6, NormalizerDelivers, NormalizerRefused, NormalizerCrashes
  DEF N!Next, N!Step

-----------------------------------------------------------------------------
(* The writer *)

(* Counters are natural numbers, and zero without a row. *)
LEMMA CountIsNat ==
  ASSUME NEW rows, Rows(rows), NEW x
  PROVE  W!Count(rows, x) \in Nat
<1>1. \A y \in DOMAIN rows : rows[y] \in Nat
  BY DEF Rows
<1>2. QED
  BY <1>1 DEF W!Count

(* A table with a cap is a table. *)
LEMMA CapsAreRows ==
  ASSUME NEW rows, NEW cap \in Nat \ {0}, Counter(rows, cap)
  PROVE  Rows(rows)
<1>1. \A y \in DOMAIN rows : rows[y] \in Nat \ {0}
  BY DEF Counter
<1>2. QED
  BY <1>1 DEF Counter, Rows

(* A cleared counter is gone; the others are as they were. *)
LEMMA ClearKeeps ==
  ASSUME NEW rows, NEW x
  PROVE  /\ \A cap : Counter(rows, cap) => Counter(W!Clear(rows, x), cap)
         /\ Rows(rows) => Rows(W!Clear(rows, x))
         /\ DOMAIN W!Clear(rows, x) = DOMAIN rows \ {x}
         /\ \A y \in DOMAIN rows \ {x} : W!Clear(rows, x)[y] = rows[y]
<1>1. /\ DOMAIN W!Clear(rows, x) = DOMAIN rows \ {x}
      /\ \A y \in DOMAIN rows \ {x} : W!Clear(rows, x)[y] = rows[y]
  BY DEF W!Clear
<1>2. ASSUME NEW S, rows \in [DOMAIN rows -> S]
      PROVE  W!Clear(rows, x) \in [DOMAIN W!Clear(rows, x) -> S]
  BY <1>2 DEF W!Clear
<1>3. QED
  BY <1>1, <1>2 DEF Counter, Rows

Room(rows, x, cap) == W!Count(rows, x) + 1 < cap

(* A bumped counter has a row; with room below its cap it stays below. *)
LEMMA BumpKeeps ==
  ASSUME NEW rows, Rows(rows), NEW x
  PROVE  /\ Rows(W!Bump(rows, x))
         /\ DOMAIN W!Bump(rows, x) = DOMAIN rows \cup {x}
         /\ W!Bump(rows, x)[x] = W!Count(rows, x) + 1
         /\ \A y \in DOMAIN rows \ {x} : W!Bump(rows, x)[y] = rows[y]
         /\ \A cap \in Nat \ {0} :
              Counter(rows, cap) /\ Room(rows, x, cap) => Counter(W!Bump(rows, x), cap)
<1> DEFINE new == W!Bump(rows, x)
<1>0. W!Count(rows, x) \in Nat
  BY CountIsNat
<1>1. \A y \in DOMAIN rows : rows[y] \in Nat \ {0}
  BY DEF Rows
<1>2. /\ DOMAIN new = DOMAIN rows \cup {x}
      /\ \A y \in DOMAIN new :
           new[y] = W!Count(rows, y) + (IF y = x THEN 1 ELSE 0)
      /\ new = [y \in DOMAIN new |-> new[y]]
  BY DEF W!Bump
<1> HIDE DEF new
<1>3. new[x] = W!Count(rows, x) + 1
  BY <1>2
<1>4. \A y \in DOMAIN rows \ {x} : new[y] = rows[y]
  <2> TAKE y \in DOMAIN rows \ {x}
  <2>1. new[y] = W!Count(rows, y) + 0 /\ W!Count(rows, y) = rows[y]
    BY <1>2 DEF W!Count
  <2> QED
    BY <1>1, <2>1
<1>5. Rows(new)
  <2>1. \A y \in DOMAIN new : new[y] \in Nat \ {0}
    BY <1>0, <1>1, <1>2, <1>3, <1>4
  <2> QED
    BY <1>2, <2>1 DEF Rows
<1>6. ASSUME NEW cap \in Nat \ {0}, Counter(rows, cap), Room(rows, x, cap)
      PROVE  Counter(new, cap)
  <2>1. \A y \in DOMAIN rows : rows[y] \in 1..(cap - 1)
    BY <1>6 DEF Counter
  <2>2. new[x] \in 1..(cap - 1)
    BY <1>0, <1>3, <1>6 DEF Room
  <2>3. \A y \in DOMAIN new : new[y] \in 1..(cap - 1)
    BY <1>2, <1>4, <2>1, <2>2
  <2> QED
    BY <1>2, <2>3 DEF Counter
<1> QED
  BY <1>2, <1>3, <1>4, <1>5, <1>6 DEF new

(* The empty table. *)
LEMMA NoRowsCount ==
  /\ \A cap : Counter(W!NoRows, cap)
  /\ Rows(W!NoRows) /\ DOMAIN W!NoRows = {}
  BY DEF Counter, Rows, W!NoRows

(* What a step on message x may do to the tables. *)
LEMMA CountersKept ==
  ASSUME WriterOK, NEW x \in 1..Len(normalized), normalized' = normalized,
         \/ tries' = tries
         \/ tries' = W!Bump(tries, x) /\ Room(tries, x, MaxTries)
         \/ tries' = W!Clear(tries, x),
         poison' \in {poison, W!Bump(poison, x), W!Clear(poison, x)},
         doomed' \subseteq doomed \cup {x}, clearing' \subseteq clearing \cup {x}
  PROVE  CountersOK'
<1>0. MaxTries \in Nat \ {0}
  BY BoundsAssumption
<1>1. /\ Counter(tries, MaxTries) /\ Rows(poison)
      /\ DOMAIN tries \cup DOMAIN poison \cup doomed \cup clearing
           \subseteq 1..Len(normalized)
  BY DEF WriterOK, CountersOK
<1>2. Rows(tries)
  BY <1>0, <1>1, CapsAreRows
<1>3. Counter(tries', MaxTries) /\ DOMAIN tries' \subseteq DOMAIN tries \cup {x}
  <2>1. /\ Room(tries, x, MaxTries) => Counter(W!Bump(tries, x), MaxTries)
        /\ DOMAIN W!Bump(tries, x) = DOMAIN tries \cup {x}
    BY <1>0, <1>1, <1>2, BumpKeeps
  <2>2. /\ Counter(W!Clear(tries, x), MaxTries)
        /\ DOMAIN W!Clear(tries, x) = DOMAIN tries \ {x}
    BY <1>1, ClearKeeps
  <2> QED
    BY <1>1, <2>1, <2>2
<1>4. Rows(poison') /\ DOMAIN poison' \subseteq DOMAIN poison \cup {x}
  <2>1. /\ Rows(W!Bump(poison, x))
        /\ DOMAIN W!Bump(poison, x) = DOMAIN poison \cup {x}
    BY <1>1, BumpKeeps
  <2>2. /\ Rows(W!Clear(poison, x))
        /\ DOMAIN W!Clear(poison, x) = DOMAIN poison \ {x}
    BY <1>1, ClearKeeps
  <2> QED
    BY <1>1, <2>1, <2>2
<1> QED
  BY <1>1, <1>3, <1>4 DEF CountersOK

Done(r) == Landed(r) \/ \E m \in parking : m.rec = r

(* A message done with stays so while dead letters only land. *)
LEMMA ClearingKept ==
  ASSUME WriterOK, ClearingDone, StoreGrows, Extends(normalized, normalized'),
         \A m \in parking : m \in parking' \/ Landed(m.rec)',
         \A o \in clearing' : o \in clearing \/ \E r : normalized'[o] = r /\ Done(r)'
  PROVE  ClearingDone'
<1>1. \A o \in clearing : o \in DOMAIN normalized
  BY ConsumerFields DEF WriterOK, CountersOK
<1>2. ASSUME NEW r, Done(r) PROVE Done(r)'
  <2>1. CASE Landed(r)
    BY <2>1, LandedKept DEF Done
  <2>2. ASSUME NEW m \in parking, m.rec = r PROVE Done(r)'
    BY <2>2 DEF Done
  <2> QED
    BY <1>2, <2>1, <2>2 DEF Done
<1>3. ASSUME NEW o \in clearing' PROVE \E r : normalized'[o] = r /\ Done(r)'
  <2>1. CASE o \in clearing
    <3>1. PICK r : r = normalized[o]
      OBVIOUS
    <3>2. Done(r) /\ normalized'[o] = r
      BY <1>1, <2>1, <3>1 DEF ClearingDone, Extends, Done
    <3> QED
      BY <1>2, <3>2
  <2> QED
    BY <1>3, <2>1
<1> QED
  BY <1>3 DEF ClearingDone, Done

(* A step on message x that settles it only if its record has landed or is *)
(* parked, and takes out of the queue only what has landed.                *)
LEMMA WriterKeeps ==
  ASSUME Good, ClearingDone, NEW x \in DOMAIN normalized,
         UNCHANGED <<raw, norm, sending, normalized, incoming, flag, breaker, cache>>,
         spent' \in 0..MaxFaults, StoreOK', StoreGrows, CountersOK',
         failed' \subseteq {TenantOf[r] : r \in Records},
         \/ wr' = wr
         \/ x \in wr.batch /\ wr' = W!Settle(wr, x) /\ Done(normalized[x])',
         parking' \subseteq parking \cup {[rec |-> normalized[x], off |-> x]},
         \A m \in parking : m \in parking' \/ Landed(m.rec)',
         \A o \in clearing' : o \in clearing \/ Done(normalized[o])'
  PROVE  Good' /\ ClearingDone'
<1> USE DEF Good
<1>0. RawOK /\ WriterOK /\ SwitchOK
  BY Types
<1>1. /\ wr' \in Consumer(normalized) /\ InOrder(wr')
      /\ \A r : Unsettled(wr, normalized, r)
                  => \/ Unsettled(wr', normalized, r)
                     \/ normalized[x] = r /\ Done(normalized[x])'
  <2>1. CASE wr' = wr
    BY <1>0, <2>1 DEF WriterOK, Unsettled
  <2>2. CASE x \in wr.batch /\ wr' = W!Settle(wr, x) /\ Done(normalized[x])'
    <3>1. wr' = [wr EXCEPT !.batch = @ \ {x}]
      BY <2>2 DEF W!Settle
    <3> QED
      BY <1>0, <2>2, <3>1, SettleKeeps DEF WriterOK
  <2> QED
    BY <2>1, <2>2
<1>2. normalized[x] \in Records /\ DOMAIN normalized = 1..Len(normalized)
  BY <1>0, ConsumerFields DEF WriterOK
<1> DEFINE m == [rec |-> normalized[x], off |-> x]
<1>3. m \in DeadLetter /\ m.rec = normalized[x] /\ m.off = x
  BY <1>2 DEF DeadLetter
<1>4. parking' \subseteq parking \cup {m}
  OBVIOUS
<1> HIDE DEF m
<1>5. TypeOK'
  <2>1. RawOK' /\ SwitchOK'
    BY <1>0 DEF RawOK, SwitchOK, Message
  <2>2. WriterOK'
    BY <1>0, <1>1, <1>3, <1>4 DEF WriterOK, DeadLetter
  <2>3. QED
    BY <2>1, <2>2, TypesNext
<1>6. QueuesAgree'
  BY <1>3, <1>4 DEF QueuesAgree, N!Waiting
<1>7. ASSUME NEW r \in Records, Accounted(r) PROVE Accounted(r)'
  <2>0. Done(r)' => Accounted(r)'
    BY DEF Done, Accounted, Queued
  <2>1. CASE Landed(r)
    BY <2>1, LandedKept DEF Accounted
  <2>2. CASE \E d \in parking : d.rec = r
    <3>1. PICK d \in parking : d.rec = r
      BY <2>2
    <3>2. d \in parking' \/ Landed(r)'
      BY <3>1
    <3> QED
      BY <2>0, <3>1, <3>2 DEF Done
  <2>3. CASE \E d \in N!Waiting : d.rec = r
    BY <2>3 DEF Accounted, Queued, N!Waiting
  <2>4. CASE Unsettled(norm, raw, r)
    BY <2>4 DEF Accounted, Unsettled
  <2>5. CASE Unsettled(wr, normalized, r)
    <3>1. Unsettled(wr', normalized, r) => Accounted(r)'
      BY DEF Accounted, Unsettled
    <3> QED
      BY <1>1, <2>0, <2>5, <3>1
  <2>6. QED
    BY <1>7, <2>1, <2>2, <2>3, <2>4, <2>5 DEF Accounted, Queued
<1>8. AllAccounted'
  BY <1>7, AccountedByRecord
<1>9. ClearingDone'
  BY <1>0, ClearingKept DEF Extends
<1>10. QED
  BY <1>1, <1>5, <1>6, <1>8, <1>9

(* A step that empties the dead-letter queue delivers it, reads it again or *)
(* names it lost.                                                           *)
LEMMA WriterEmpties ==
  ASSUME Good, ClearingDone, parking' = {},
         UNCHANGED <<raw, norm, sending, normalized, incoming, flag, breaker, cache,
                     observed, triggers, shadowed, poison>>,
         spent' \in 0..MaxFaults,
         \/ wr' = wr /\ UNCHANGED <<failed, tries>>
         \/ wr' = W!Rewind(wr) /\ failed' = {} /\ tries' = W!NoRows,
         doomed' \in {{}, doomed}, clearing' \in {{}, clearing},
         \/ lost' = lost /\ dlq' = dlq \cup {m.rec : m \in parking}
         \/ /\ wr' = W!Rewind(wr) /\ dlq' = dlq /\ clearing' = {}
            /\ lost' = lost \cup {<<m.rec, "queue">> :
                                    m \in {y \in parking : y.off <= wr.committed}}
  PROVE  Good' /\ ClearingDone'
<1> USE DEF Good
<1>0. RawOK /\ WriterOK /\ StoreOK /\ SwitchOK
  BY Types
<1> DEFINE d == [wr EXCEPT !.upto = wr.committed, !.batch = {}]
<1>2. /\ d \in Consumer(normalized) /\ InOrder(d)
      /\ \A o \in DOMAIN normalized : o > wr.committed => o > d.upto
      /\ \A o \in DOMAIN normalized :
           (o \in wr.batch \/ o > wr.upto) => (o \in d.batch \/ o > d.upto)
  BY <1>0, RewindKeeps DEF WriterOK
<1>3. W!Rewind(wr) = d
  BY DEF W!Rewind
<1> HIDE DEF d
<1>4. /\ wr' \in Consumer(normalized) /\ InOrder(wr')
      /\ \A o \in DOMAIN normalized :
           (o \in wr.batch \/ o > wr.upto) => (o \in wr'.batch \/ o > wr'.upto)
  BY <1>0, <1>2, <1>3 DEF WriterOK
<1>5. \A m \in parking : m.rec \in Records
  BY <1>0 DEF WriterOK, CountersOK, DeadLetter
<1>6. StoreGrows
  BY DEF StoreGrows
<1>7. TypeOK'
  <2>1. RawOK' /\ SwitchOK'
    BY <1>0 DEF RawOK, SwitchOK, Message
  <2>2. Counter(W!NoRows, MaxTries) /\ DOMAIN W!NoRows = {}
    BY NoRowsCount
  <2>3. WriterOK'
    BY <1>0, <1>4, <2>2 DEF WriterOK, CountersOK, DeadLetter
  <2>4. StoreOK'
    BY <1>0, <1>5 DEF StoreOK, Causes
  <2>5. QED
    BY <2>1, <2>3, <2>4, TypesNext
<1>8. QueuesAgree'
  BY DEF QueuesAgree, N!Waiting
<1>9. ASSUME NEW r \in Records, Accounted(r) PROVE Accounted(r)'
  <2>1. CASE Landed(r)
    BY <1>6, <2>1, LandedKept DEF Accounted
  <2>2. ASSUME NEW m \in parking, m.rec = r PROVE Accounted(r)'
    <3>1. m.off \in DOMAIN normalized /\ normalized[m.off] = r
      BY <2>2 DEF QueuesAgree
    <3>2. CASE dlq' = dlq \cup {y.rec : y \in parking}
      BY <2>2, <3>2 DEF Accounted, Landed
    <3>3. CASE /\ wr' = W!Rewind(wr)
               /\ lost' = lost \cup {<<y.rec, "queue">> :
                                       y \in {z \in parking : z.off <= wr.committed}}
      <4>1. CASE m.off <= wr.committed
        BY <2>2, <3>3, <4>1 DEF Accounted, Landed, Lost, Causes
      <4>2. CASE m.off > wr.committed
        BY <1>2, <1>3, <3>1, <3>3, <4>2 DEF Accounted, Unsettled
      <4>3. m.off \in Nat /\ wr.committed \in Nat
        BY <1>0, <3>1, ConsumerFields DEF WriterOK
      <4>4. QED
        BY <4>1, <4>2, <4>3
    <3>4. QED
      BY <3>2, <3>3
  <2>3. CASE \E m \in N!Waiting : m.rec = r
    BY <2>3 DEF Accounted, Queued, N!Waiting
  <2>4. CASE Unsettled(wr, normalized, r)
    <3>1. Unsettled(wr', normalized, r)
      BY <1>4, <2>4, UnsettledKept DEF Extends
    <3>2. QED
      BY <3>1 DEF Accounted, Unsettled
  <2>5. CASE Unsettled(norm, raw, r)
    BY <2>5 DEF Accounted, Unsettled
  <2>6. QED
    BY <1>9, <2>1, <2>2, <2>3, <2>4, <2>5 DEF Accounted, Queued
<1>10. AllAccounted'
  BY <1>9, AccountedByRecord
<1>11. ClearingDone'
  <2>1. CASE clearing' = {}
    BY <2>1 DEF ClearingDone
  <2>2. CASE dlq' = dlq \cup {m.rec : m \in parking}
    <3>1. \A m \in parking : Landed(m.rec)'
      BY <2>2 DEF Landed
    <3>2. Extends(normalized, normalized')
      BY DEF Extends
    <3> QED
      BY <1>0, <1>6, <3>1, <3>2, ClearingKept
  <2> QED
    BY <2>1, <2>2
<1>12. QED
  BY <1>4, <1>7, <1>8, <1>10, <1>11

(* Ingesting a record stores it and keeps the types of the store. *)
LEMMA IngestStores ==
  ASSUME StoreOK, NEW r \in Records, W!Ingest(r) \/ C!Ingest(r)
  PROVE  /\ observed' = observed \cup {r} /\ observed' \subseteq Records
         /\ triggers' \in [Records -> Nat]
         /\ TriggeredOnce => TriggeredOnce'
<1>1. /\ observed' = observed \cup {r}
      /\ triggers' = IF r \in observed THEN triggers
                     ELSE [triggers EXCEPT ![r] = @ + 1]
  BY DEF W!Ingest, C!Ingest
<1>2. triggers \in [Records -> Nat] /\ observed \subseteq Records
  BY DEF StoreOK
<1>3. triggers' \in [Records -> Nat]
  BY <1>1, <1>2
<1>4. ASSUME TriggeredOnce PROVE TriggeredOnce'
  BY <1>1, <1>2, <1>4 DEF TriggeredOnce
<1>5. QED
  BY <1>1, <1>2, <1>3, <1>4

(* All steps of the writer. *)
LEMMA WritingGood ==
  ASSUME Good, ClearingDone, Writing
  PROVE  Good' /\ ClearingDone'
<1>0. /\ RawOK /\ WriterOK /\ StoreOK /\ SwitchOK /\ spent \in 0..MaxFaults
      /\ InOrder(norm) /\ InOrder(wr)
  BY Types DEF Good
<1>1. UNCHANGED <<raw, norm, sending, incoming, flag, breaker>> /\ W!Next
  BY DEF Writing
<1>3. /\ normalized \in Seq(Records) /\ wr \in Consumer(normalized)
      /\ DOMAIN normalized = 1..Len(normalized)
      /\ wr.batch \subseteq DOMAIN normalized
      /\ \A o \in DOMAIN normalized : normalized[o] \in Records
  BY <1>0, ConsumerFields DEF WriterOK
<1>4. ASSUME UNCHANGED <<normalized, failed, tries, poison, doomed, clearing, parking,
                         dlq, shadowed, observed, triggers, cache, lost, spent>>,
             wr' \in Consumer(normalized), InOrder(wr'),
             \A o \in DOMAIN normalized :
               (o \in wr.batch \/ o > wr.upto) => (o \in wr'.batch \/ o > wr'.upto)
      PROVE  Good' /\ ClearingDone'
  <2>1. CountersOK'
    BY <1>0, <1>4 DEF WriterOK, CountersOK
  <2>2. Good'
    BY <1>0, <1>1, <1>4, <2>1, ConsumersMove DEF RawOK, SwitchOK, WriterOK
  <2>3. ClearingDone'
    BY <1>4 DEF ClearingDone, Landed, Lost
  <2> QED
    BY <2>2, <2>3
<1>5. CASE W!Poll
  <2>1. PICK n \in 1..BatchSize :
          /\ wr.batch = {} /\ wr.upto = wr.committed /\ wr.upto + n <= Len(normalized)
          /\ wr' = Taken(wr, n)
    BY <1>5 DEF W!Poll, W!CanTake, W!Take, Taken
  <2>2. UNCHANGED <<normalized, failed, tries, poison, doomed, clearing, parking, dlq,
                    shadowed, observed, triggers, cache, lost, spent>>
    BY <1>5 DEF W!Poll, W!ending
  <2>3. /\ wr' \in Consumer(normalized) /\ InOrder(wr')
        /\ \A o \in DOMAIN normalized :
             (o \in wr.batch \/ o > wr.upto) => (o \in wr'.batch \/ o > wr'.upto)
    BY <1>0, <1>3, <2>1, TakeKeeps
  <2>4. QED
    BY <1>4, <2>2, <2>3
<1>6. CASE W!CommitBatch
  <2>1. wr.batch = {} /\ wr' = [wr EXCEPT !.committed = wr.upto]
        /\ UNCHANGED <<normalized, failed, tries, poison, doomed, clearing, parking,
                       dlq, shadowed, observed, triggers, cache, lost, spent>>
    BY <1>6 DEF W!CommitBatch, W!CanCommit, W!Commit, W!ending
  <2>2. /\ wr' \in Consumer(normalized) /\ InOrder(wr')
        /\ wr'.batch = wr.batch /\ wr'.upto = wr.upto
    BY <1>0, <1>3, <2>1, CommitKeeps
  <2>3. QED
    BY <1>4, <2>1, <2>2
<1>7. ASSUME NEW x \in wr.batch,
             \/ W!Retry(x) \/ W!GiveUp(x) \/ W!GiveUpUncounted(x) \/ W!Doom(x)
      PROVE  Good' /\ ClearingDone'
  <2>1. spent' \in 0..MaxFaults
    BY <1>0, <1>7, FaultKeeps
    DEF W!Retry, W!GiveUp, W!GiveUpUncounted, W!Doom, W!Fails
  <2>2. UNCHANGED <<normalized, wr, clearing, parking, dlq, shadowed, observed,
                    triggers, cache, lost>>
    BY <1>7 DEF W!Retry, W!GiveUp, W!GiveUpUncounted, W!Doom, W!ending
  <2>3. failed' \subseteq {TenantOf[r] : r \in Records}
    BY <1>0, <1>3, <1>7
    DEF W!Retry, W!GiveUp, W!GiveUpUncounted, W!Doom, WriterOK
  <2>4. CountersOK'
    <3>1. \/ tries' = tries
          \/ tries' = W!Bump(tries, x) /\ Room(tries, x, MaxTries)
      BY <1>7 DEF W!Retry, W!GiveUp, W!GiveUpUncounted, W!Doom, Room
    <3>2. /\ poison' \in {poison, W!Bump(poison, x)}
          /\ doomed' \subseteq doomed \cup {x}
      BY <1>7 DEF W!Retry, W!GiveUp, W!GiveUpUncounted, W!Doom, W!ending
    <3> QED
      BY <1>0, <1>3, <2>2, <3>1, <3>2, CountersKept
  <2>5. StoreOK' /\ StoreGrows
    BY <1>0, <2>2 DEF StoreOK, StoreGrows
  <2> QED
    BY <1>1, <1>3, <2>1, <2>2, <2>3, <2>4, <2>5, WriterKeeps
\* A message that has an outcome is done with, or has its counter removed next
<1>8. ASSUME NEW x \in wr.batch, W!Returned(x), Done(normalized[x])',
             UNCHANGED <<normalized, cache, dlq>>,
             spent' \in 0..MaxFaults, StoreOK', StoreGrows,
             parking' = parking \/ W!Queue(x)
      PROVE  Good' /\ ClearingDone'
  <2>1. /\ UNCHANGED <<failed, tries, poison, doomed>>
        /\ wr' = wr \/ wr' = W!Settle(wr, x)
        /\ clearing' \subseteq clearing \cup {x}
    BY <1>8 DEF W!Returned
  <2>2. CountersOK'
    BY <1>0, <1>3, <1>8, <2>1, CountersKept
  <2>3. /\ failed' \subseteq {TenantOf[r] : r \in Records}
        /\ parking' \subseteq parking \cup {[rec |-> normalized[x], off |-> x]}
        /\ parking \subseteq parking'
    BY <1>0, <1>8, <2>1 DEF WriterOK, W!Queue
  <2> QED
    BY <1>1, <1>3, <1>8, <2>1, <2>2, <2>3, WriterKeeps
<1>9. ASSUME NEW x \in wr.batch, W!Write(x)
      PROVE  Good' /\ ClearingDone'
  <2>1. /\ W!Returned(x) /\ W!Ingest(normalized[x])
        /\ UNCHANGED <<normalized, parking, dlq, shadowed, cache, lost>>
    BY <1>9 DEF W!Write
  <2>2. /\ observed' = observed \cup {normalized[x]} /\ observed' \subseteq Records
        /\ triggers' \in [Records -> Nat]
    BY <1>0, <1>3, <2>1, IngestStores
  <2>3. StoreOK' /\ StoreGrows /\ Done(normalized[x])'
    BY <1>0, <2>1, <2>2 DEF StoreOK, StoreGrows, Landed, Done
  <2>4. spent' \in 0..MaxFaults
    BY <1>0, <1>9, FaultKeeps DEF W!Write, W!ReadsFull
  <2>5. QED
    BY <1>8, <2>1, <2>3, <2>4
<1>10. ASSUME NEW x \in wr.batch, W!Shadow(x)
       PROVE  Good' /\ ClearingDone'
  <2>1. /\ W!Returned(x) /\ normalized[x] \in Live
        /\ shadowed' = shadowed \cup {normalized[x]}
        /\ UNCHANGED <<normalized, parking, dlq, observed, triggers, cache, lost, spent>>
    BY <1>10 DEF W!Shadow, W!FullMode
  <2>2. StoreOK' /\ StoreGrows /\ Done(normalized[x])'
    BY <1>0, <1>3, <2>1 DEF StoreOK, StoreGrows, Landed, Done
  <2>3. QED
    BY <1>0, <1>8, <2>1, <2>2
<1>11. ASSUME NEW x \in wr.batch, W!Reject(x) \/ W!RejectUnpublished(x)
       PROVE  Good' /\ ClearingDone'
  <2>1. spent' \in 0..MaxFaults
    BY <1>0, <1>11, FaultKeeps DEF W!Reject, W!RejectUnpublished, W!Fails
  <2>2. /\ W!Returned(x)
        /\ UNCHANGED <<normalized, dlq, shadowed, observed, triggers, cache>>
        /\ \/ W!Queue(x) /\ UNCHANGED lost
           \/ W!Unpublished(x) /\ UNCHANGED parking
    BY <1>11 DEF W!Reject, W!RejectUnpublished
  <2>3. StoreOK' /\ StoreGrows /\ Done(normalized[x])'
    <3>1. CASE W!Queue(x) /\ UNCHANGED lost
      <4> DEFINE d == [rec |-> normalized[x], off |-> x]
      <4>0. d \in parking' /\ d.rec = normalized[x]
        BY <3>1 DEF W!Queue
      <4> HIDE DEF d
      <4>1. \E m \in parking' : m.rec = normalized'[x]
        BY <2>2, <4>0
      <4> QED
        BY <1>0, <2>2, <3>1, <4>1 DEF StoreOK, StoreGrows, Done
    <3>2. CASE W!Unpublished(x)
      BY <1>0, <1>3, <2>2, <3>2
      DEF StoreOK, StoreGrows, Landed, Lost, Causes, Done, W!Unpublished
    <3> QED
      BY <2>2, <3>1, <3>2
  <2>4. QED
    BY <1>8, <2>1, <2>2, <2>3
<1>12. ASSUME NEW x \in wr.batch, W!ParkPoison(x) \/ W!ParkUnpublished(x)
       PROVE  Good' /\ ClearingDone'
  <2>1. spent' \in 0..MaxFaults
    BY <1>0, <1>12, FaultKeeps DEF W!ParkPoison, W!ParkUnpublished
  <2>2. /\ doomed' \subseteq doomed /\ clearing' = clearing \cup {x}
        /\ UNCHANGED <<normalized, wr, failed, tries, poison, dlq, shadowed, observed,
                       triggers, cache>>
        /\ \/ W!Queue(x) /\ UNCHANGED lost
           \/ W!Unpublished(x) /\ UNCHANGED parking
    BY <1>12 DEF W!ParkPoison, W!ParkUnpublished, W!Parked
  <2>3. StoreOK' /\ StoreGrows /\ Done(normalized[x])'
    <3>1. CASE W!Queue(x) /\ UNCHANGED lost
      <4> DEFINE d == [rec |-> normalized[x], off |-> x]
      <4>0. d \in parking' /\ d.rec = normalized[x]
        BY <3>1 DEF W!Queue
      <4> HIDE DEF d
      <4>1. \E m \in parking' : m.rec = normalized'[x]
        BY <2>2, <4>0
      <4> QED
        BY <1>0, <2>2, <3>1, <4>1 DEF StoreOK, StoreGrows, Done
    <3>2. CASE W!Unpublished(x)
      BY <1>0, <1>3, <2>2, <3>2
      DEF StoreOK, StoreGrows, Landed, Lost, Causes, Done, W!Unpublished
    <3> QED
      BY <2>2, <3>1, <3>2
  <2>4. /\ failed' \subseteq {TenantOf[r] : r \in Records}
        /\ parking' \subseteq parking \cup {[rec |-> normalized[x], off |-> x]}
        /\ parking \subseteq parking'
    BY <1>0, <2>2 DEF WriterOK, W!Queue
  <2>5. CountersOK'
    BY <1>0, <1>3, <2>2, CountersKept
  <2> QED
    BY <1>1, <1>3, <2>1, <2>2, <2>3, <2>4, <2>5, WriterKeeps
<1>13. ASSUME NEW x \in wr.batch, W!ClearCounter(x) \/ W!ClearFails(x)
       PROVE  Good' /\ ClearingDone'
  <2>1. spent' \in 0..MaxFaults
    BY <1>0, <1>13, FaultKeeps DEF W!ClearCounter, W!ClearFails
  <2>2. /\ x \in clearing /\ clearing' \subseteq clearing /\ wr' = W!Settle(wr, x)
        /\ tries' = W!Clear(tries, x) /\ poison' \in {poison, W!Clear(poison, x)}
        /\ UNCHANGED <<normalized, failed, doomed, parking, dlq, shadowed, observed,
                       triggers, cache, lost>>
    BY <1>13 DEF W!ClearCounter, W!ClearFails, W!Release
  <2>3. StoreOK' /\ StoreGrows
    BY <1>0, <2>2 DEF StoreOK, StoreGrows
  <2>4. Done(normalized[x])'
    BY <2>2, <2>3, LandedKept DEF ClearingDone, Done
  <2>5. CountersOK'
    BY <1>0, <1>3, <2>2, CountersKept
  <2>6. failed' \subseteq {TenantOf[r] : r \in Records}
    BY <1>0, <2>2 DEF WriterOK
  <2> QED
    BY <1>1, <1>3, <2>1, <2>2, <2>3, <2>4, <2>5, <2>6, WriterKeeps
<1>14. ASSUME NEW m \in parking, W!RefuseDeadLetter(m)
       PROVE  Good' /\ ClearingDone'
  <2>1. spent' \in 0..MaxFaults
    BY <1>0, <1>14, FaultKeeps DEF W!RefuseDeadLetter
  <2>2. /\ parking' = parking \ {m} /\ lost' = lost \cup {<<m.rec, "refused">>}
        /\ UNCHANGED <<normalized, wr, failed, tries, poison, doomed, clearing, dlq,
                       shadowed, observed, triggers, cache>>
    BY <1>14 DEF W!RefuseDeadLetter, W!ending
  <2>3. m.rec \in Records /\ m.off \in DOMAIN normalized
    BY <1>0, <1>3 DEF WriterOK, DeadLetter
  <2>4. StoreOK' /\ StoreGrows /\ Landed(m.rec)'
    BY <1>0, <2>2, <2>3 DEF StoreOK, StoreGrows, Causes, Landed, Lost
  <2>5. CountersOK' /\ failed' \subseteq {TenantOf[r] : r \in Records}
    BY <1>0, <2>2 DEF WriterOK, CountersOK
  <2> QED
    BY <1>1, <2>1, <2>2, <2>3, <2>4, <2>5, WriterKeeps
<1>15. CASE W!Exit
  BY <1>0, <1>1, <1>15, WriterEmpties DEF W!Exit, W!ending
<1>16. CASE W!DeliverDeadLetters
  BY <1>0, <1>1, <1>16, WriterEmpties DEF W!DeliverDeadLetters, W!ending
<1>17. CASE W!Crash
  <2>1. spent' \in 0..MaxFaults
    BY <1>0, <1>17, FaultKeeps DEF W!Crash
  <2>2. QED
    BY <1>1, <1>17, <2>1, WriterEmpties DEF W!Crash
<1>18. ASSUME NEW x \in wr.batch, W!Handle(x) PROVE Good' /\ ClearingDone'
  BY <1>7, <1>9, <1>10, <1>12, <1>13, <1>18 DEF W!Handle
<1>19. CASE W!Step
  BY <1>5, <1>6, <1>15, <1>18, <1>19 DEF W!Step
<1>20. QED
  BY <1>1, <1>7, <1>11, <1>12, <1>13, <1>14, <1>16, <1>17, <1>19 DEF W!Next

-----------------------------------------------------------------------------
(* Ingress and the switch *)

(* A published record is ahead of the normalizer; one ingested is stored. *)
LEMMA RecordArrives ==
  ASSUME Good, NEW r \in Records, raw' = Append(raw, r) \/ raw' = raw,
         incoming' \subseteq incoming, incoming \ {r} \subseteq incoming',
         raw' = raw => \/ r \in observed' \/ incoming' = incoming
                       \/ <<r, "refused">> \in lost',
         UNCHANGED <<norm, sending, normalized, wr, failed, tries, poison, doomed,
                     clearing, parking,
                     dlq, shadowed, flag, cache, breaker>>,
         observed \subseteq observed', lost \subseteq lost', StoreOK', spent' \in 0..MaxFaults
  PROVE  Good'
<1> USE DEF Good
<1>0. RawOK /\ WriterOK /\ StoreOK /\ SwitchOK
  BY Types
<1>1. raw \in Seq(Records) /\ norm \in Consumer(raw) /\ sending \in Seq(Message)
  BY <1>0 DEF RawOK
<1>2. /\ raw' \in Seq(Records) /\ Extends(raw, raw')
      /\ DOMAIN raw = 1..Len(raw) /\ Len(raw) \in Nat
      /\ \A o \in DOMAIN raw' : o \in DOMAIN raw \/ raw'[o] = r
  <2>1. CASE raw' = raw
    BY <1>1, <2>1 DEF Extends
  <2>2. CASE raw' = Append(raw, r)
    BY <1>1, <2>2, AppendAt
  <2>3. QED
    BY <2>1, <2>2
<1>3. RawOK'
  <2>1. CASE raw' = raw
    BY <1>0, <2>1 DEF RawOK, Message
  <2>2. CASE raw' = Append(raw, r)
    <3>1. norm' \in Consumer(raw')
      BY <1>1, <2>2, ConsumerOfLonger
    <3>2. sending' \in Seq(Message')
      BY <1>1, <2>2, MessagesOfLonger
    <3>3. QED
      BY <1>2, <3>1, <3>2 DEF RawOK
  <2>3. QED
    BY <2>1, <2>2
<1>4. WriterOK' /\ SwitchOK'
  BY <1>0 DEF WriterOK, CountersOK, SwitchOK, DeadLetter
<1>5. QueuesAgree'
  BY <1>2 DEF QueuesAgree, N!Waiting, Extends
<1>6. StoreGrows
  BY DEF StoreGrows
<1>7. ASSUME NEW x \in Records, Accounted(x) PROVE Accounted(x)'
  <2>1. Landed(x) => Landed(x)'
    BY <1>6, LandedKept
  <2>2. Queued(x) => Queued(x)'
    BY DEF Queued, N!Waiting
  <2>3. Unsettled(norm, raw, x) => Unsettled(norm, raw', x)
    BY <1>2, UnsettledKept
  <2>4. QED
    BY <1>7, <2>1, <2>2, <2>3 DEF Accounted, Unsettled
<1>8. raw' = Append(raw, r) => Accounted(r)'
  <2> HAVE raw' = Append(raw, r)
  <2>1. Len(raw) + 1 \in DOMAIN raw' /\ raw'[Len(raw) + 1] = r
    BY <1>1, AppendAt
  <2>2. norm.upto \in 0..Len(raw)
    BY <1>1, ConsumerFields
  <2>3. norm' = norm /\ Len(raw) \in Nat
    BY <1>2
  <2>4. Len(raw) + 1 > norm.upto
    BY <2>2, <2>3
  <2>5. QED
    BY <2>1, <2>3, <2>4 DEF Accounted, Unsettled
<1>9. ASSUME NEW x \in Records, Published(x)' \/ x \in Live \ incoming'
      PROVE  Accounted(x)'
  <2>1. CASE x = r
    <3>1. CASE raw' = Append(raw, r)
      BY <1>8, <2>1, <3>1
    <3>2. CASE raw' = raw /\ r \in observed'
      BY <2>1, <3>2 DEF Accounted, Landed
    <3>3. CASE raw' = raw /\ incoming' = incoming
      BY <1>7, <1>9, <3>3 DEF AllAccounted, Published
    <3>4. CASE <<r, "refused">> \in lost'
      BY <2>1, <3>4 DEF Accounted, Landed, Lost, Causes
    <3>5. QED
      BY <3>1, <3>2, <3>3, <3>4
  <2>2. CASE x # r
    <3>1. Published(x)' => Published(x)
      BY <1>2, <2>2 DEF Published, Extends
    <3>2. x \in Live \ incoming' => x \in Live \ incoming
      BY <2>2
    <3>3. QED
      BY <1>7, <1>9, <3>1, <3>2 DEF AllAccounted
  <2>3. QED
    BY <2>1, <2>2
<1>10. AllAccounted'
  BY <1>9 DEF AllAccounted
<1>11. QED
  BY <1>3, <1>4, <1>5, <1>10, TypesNext

(* All steps of ingress, the caches, the breaker and the operator. *)
LEMMA LiveIngressGood ==
  ASSUME Good, LiveIngress
  PROVE  Good'
<1>0. /\ RawOK /\ WriterOK /\ StoreOK /\ SwitchOK /\ spent \in 0..MaxFaults
      /\ InOrder(norm) /\ InOrder(wr)
  BY Types DEF Good
<1>1. /\ UNCHANGED <<sending, normalized, wr, failed, tries, poison, doomed, clearing,
                     parking,
                     shadowed, dlq>>
      /\ C!Next
  BY DEF LiveIngress, writerVars
<1>2. ASSUME NEW r \in Live, C!Accept(r) \/ C!FallBack(r) \/ C!IngestInline(r)
      PROVE  Good'
  <2>1. r \in Records
    BY DEF Records
  <2>2. spent' \in 0..MaxFaults
    BY <1>0, <1>2, FaultKeeps DEF C!Accept, C!ReadsOn, C!FallBack, C!IngestInline
  <2>3. /\ incoming' = incoming \ {r} /\ UNCHANGED <<flag, cache, breaker, norm, lost>>
        /\ \/ raw' = Append(raw, r) /\ UNCHANGED <<observed, triggers>>
           \/ C!Ingest(r) /\ raw' \in {raw, Append(raw, r)}
    BY <1>2 DEF C!Accept, C!FallBack, C!IngestInline
  <2>4. /\ StoreOK' /\ observed \subseteq observed'
        /\ raw' = Append(raw, r) \/ raw' = raw
        /\ raw' = raw => r \in observed' \/ incoming' = incoming
    <3>1. CASE raw' = Append(raw, r) /\ UNCHANGED <<observed, triggers>>
      <4>1. raw' # raw
        <5>1. Len(raw') = Len(raw) + 1 /\ Len(raw) \in Nat
          BY <1>0, <2>1, <3>1, AppendAt DEF RawOK
        <5>2. QED
          BY <5>1
      <4>2. QED
        BY <1>0, <1>1, <2>3, <3>1, <4>1 DEF StoreOK
    <3>2. CASE C!Ingest(r) /\ raw' \in {raw, Append(raw, r)}
      <4>1. /\ observed' = observed \cup {r} /\ observed' \subseteq Records
            /\ triggers' \in [Records -> Nat]
        BY <1>0, <2>1, <3>2, IngestStores
      <4>2. QED
        BY <1>0, <1>1, <2>3, <3>2, <4>1 DEF StoreOK
    <3>3. QED
      BY <2>3, <3>1, <3>2
  <2>5. QED
    BY <1>1, <2>1, <2>2, <2>3, <2>4, RecordArrives
<1>2r. ASSUME NEW r \in Live, C!AcceptRefused(r)
      PROVE  Good'
  <2>1. r \in Records
    BY DEF Records
  <2>2. /\ incoming' = incoming \ {r} /\ lost' = lost \cup {<<r, "refused">>}
        /\ UNCHANGED <<flag, cache, breaker, raw, norm, observed, triggers>>
        /\ spent' \in 0..MaxFaults
    BY <1>0, <1>2r, FaultKeeps DEF C!AcceptRefused
  <2>3. StoreOK'
    BY <1>0, <1>1, <2>1, <2>2 DEF StoreOK, Causes
  <2> QED
    BY <1>1, <2>1, <2>2, <2>3, RecordArrives
<1>3. ASSUME NEW p \in Processes, C!RefreshCache(p)
      PROVE  Good'
  <2>1. UNCHANGED <<incoming, flag, breaker, raw, norm, observed, triggers, lost, spent>>
        /\ cache' \in [Processes -> BOOLEAN]
    BY <1>0, <1>3 DEF C!RefreshCache, SwitchOK
  <2>2. QED
    BY <1>0, <1>1, <2>1, ConsumersMove DEF RawOK, WriterOK, CountersOK
<1>4. CASE \/ C!Healthy \/ C!Breach \/ C!Trip \/ C!TripFails \/ C!TripUnrecorded
           \/ \E value \in BOOLEAN : C!OperatorSets(value)
  <2>1. UNCHANGED <<incoming, raw, norm, observed, triggers, lost>>
    BY <1>4 DEF C!Healthy, C!Breach, C!Trip, C!TripFails, C!TripUnrecorded,
                C!OperatorSets
  <2>2. spent' \in 0..MaxFaults
    BY <1>0, <1>4, FaultKeeps
    DEF C!Healthy, C!Breach, C!Trip, C!TripFails, C!TripUnrecorded, C!OperatorSets,
        C!ReadsOn
  <2>3. SwitchOK'
    <3>1. C!Counted \in Nat
      BY <1>0 DEF C!Counted, SwitchOK
    <3>2. breaker' \in [breaches : Nat, tripped : BOOLEAN]
      <4>1. \/ breaker' = breaker
            \/ \E n \in {0, C!Counted + 1}, b \in BOOLEAN :
                 breaker' = [breaches |-> n, tripped |-> b]
        BY <1>4 DEF C!Healthy, C!Breach, C!Trip, C!TripFails, C!TripUnrecorded,
                    C!OperatorSets
      <4>2. C!Counted + 1 \in Nat /\ breaker \in [breaches : Nat, tripped : BOOLEAN]
        BY <1>0, <3>1 DEF SwitchOK
      <4>3. QED
        BY <4>1, <4>2
    <3>3. flag' \in BOOLEAN /\ cache' \in [Processes -> BOOLEAN]
      <4>1. \/ UNCHANGED <<flag, cache>>
            \/ C!Disable
            \/ flag' \in BOOLEAN /\ UNCHANGED cache
        BY <1>4 DEF C!Healthy, C!Breach, C!Trip, C!TripFails, C!TripUnrecorded,
                    C!OperatorSets
      <4>2. QED
        BY <1>0, <4>1 DEF C!Disable, SwitchOK
    <3>4. QED
      BY <1>0, <2>1, <3>2, <3>3 DEF SwitchOK
  <2>4. RawOK' /\ WriterOK' /\ StoreOK'
    BY <1>0, <1>1, <2>1
    DEF RawOK, Message, WriterOK, CountersOK, DeadLetter, StoreOK
  <2>5. QueuesAgree'
    BY <1>1, <2>1 DEF Good, QueuesAgree, N!Waiting
  <2>6. AllAccounted'
    BY <1>1, <2>1 DEF Good, AllAccounted, Published, Accounted, Landed, Lost, Queued,
                      Unsettled, N!Waiting
  <2>7. QED
    BY <1>0, <1>1, <2>1, <2>2, <2>3, <2>4, <2>5, <2>6, TypesNext DEF Good
<1>5. QED
  BY <1>1, <1>2, <1>2r, <1>3, <1>4 DEF C!Next

(* ShardFetch publishes a page. *)
LEMMA PublishGood ==
  ASSUME Good, NEW r \in Backfill, PublishPage(r)
  PROVE  Good'
<1>0. StoreOK /\ spent \in 0..MaxFaults
  BY Types DEF Good
<1>1. r \in Records
  BY DEF Records
<1>2. spent' \in 0..MaxFaults
  BY <1>0, FaultKeeps DEF PublishPage
<1>3. /\ raw' = Append(raw, r)
      /\ UNCHANGED <<norm, sending, normalized, wr, failed, tries, poison, doomed,
                     clearing, parking,
                     dlq, shadowed, incoming, flag, cache, breaker, observed,
                     triggers, lost>>
  BY DEF PublishPage, writerVars, cutoverVars, store
<1>4. StoreOK'
  BY <1>0, <1>3 DEF StoreOK
<1>5. QED
  BY <1>1, <1>2, <1>3, <1>4, RecordArrives

(* Nobody but Ingest touches the observations and their triggers. *)
LEMMA TriggersStep ==
  ASSUME TypeOK, TriggeredOnce, Next
  PROVE  TriggeredOnce'
<1>0. StoreOK /\ WriterOK
  BY Types
<1>1. ASSUME UNCHANGED <<observed, triggers>> PROVE TriggeredOnce'
  BY <1>1 DEF TriggeredOnce
<1>2. ASSUME NEW r \in Backfill, PublishPage(r) PROVE TriggeredOnce'
  BY <1>1, <1>2 DEF PublishPage, store
<1>3. CASE Normalizing
  BY <1>1, <1>3 DEF Normalizing, store
<1>4. ASSUME NEW x \in wr.batch, W!Write(x) PROVE TriggeredOnce'
  <2>1. normalized[x] \in Records
    BY <1>0, ConsumerFields DEF WriterOK
  <2>2. QED
    BY <1>0, <1>4, <2>1, IngestStores DEF W!Write
<1>5. CASE Writing
  <2>1. \/ UNCHANGED <<observed, triggers>>
        \/ \E x \in wr.batch : W!Write(x)
    BY <1>5 DEF Writing, W!Next, W!Step, W!Handle, W!Poll, W!Shadow, W!Reject,
                W!RejectUnpublished, W!Retry, W!GiveUp, W!GiveUpUncounted, W!Doom,
                W!ParkPoison, W!ParkUnpublished, W!Parked, W!ClearCounter,
                W!ClearFails, W!Release, W!CommitBatch, W!Exit,
                W!DeliverDeadLetters, W!RefuseDeadLetter, W!Crash
  <2>2. QED
    BY <1>1, <1>4, <2>1
<1>6. CASE LiveIngress
  <2>1. \/ UNCHANGED <<observed, triggers>>
        \/ \E r \in Live : C!Ingest(r)
    BY <1>6 DEF LiveIngress, C!Next, C!Accept, C!AcceptRefused, C!FallBack, C!IngestInline,
                C!RefreshCache, C!Healthy, C!Breach, C!Trip, C!TripFails,
                C!TripUnrecorded, C!OperatorSets
  <2>2. ASSUME NEW r \in Live, C!Ingest(r) PROVE TriggeredOnce'
    BY <1>0, <2>2, IngestStores DEF Records
  <2>3. QED
    BY <1>1, <2>1, <2>2
<1>7. QED
  BY <1>2, <1>3, <1>5, <1>6 DEF Next

(* Nobody but the writer parks, and the others only add to the store. *)
LEMMA ClearingElsewhere ==
  ASSUME WriterOK, RawOK, ClearingDone,
         Normalizing \/ LiveIngress \/ \E r \in Backfill : PublishPage(r)
  PROVE  ClearingDone'
<1>1. UNCHANGED <<clearing, parking>>
  BY DEF Normalizing, LiveIngress, PublishPage, writerVars
<1>2. StoreGrows
  <2>1. CASE Normalizing
    BY <2>1
    DEF Normalizing, StoreGrows, writerVars, store, N!Next, N!Step, N!Poll,
        N!Normalize, N!NormalizeFails, N!NormalizeDrops, N!CommitRaw, N!Deliver,
        N!DeliverRefused, N!Crash
  <2>2. CASE LiveIngress
    BY <2>2
    DEF LiveIngress, StoreGrows, writerVars, C!Next, C!Accept, C!AcceptRefused,
        C!FallBack, C!IngestInline, C!Ingest, C!RefreshCache, C!Healthy, C!Breach,
        C!Trip, C!TripFails, C!TripUnrecorded, C!OperatorSets
  <2>3. CASE \E r \in Backfill : PublishPage(r)
    BY <2>3 DEF PublishPage, StoreGrows, writerVars, store
  <2> QED
    BY <2>1, <2>2, <2>3
<1>3. Extends(normalized, normalized')
  <2>1. CASE UNCHANGED normalized
    BY <2>1 DEF Extends
  <2>2. CASE N!Deliver
    <3>1. Head(sending) \in Message
      BY <2>2, DeliverTakes DEF RawOK, N!Deliver
    <3>2. Head(sending).rec \in Records
      BY <3>1 DEF Message
    <3>3. CASE normalized' = Append(normalized, Head(sending).rec)
      BY <3>2, <3>3, AppendAt DEF WriterOK
    <3> QED
      BY <2>1, <2>2, <3>3 DEF N!Deliver
  <2> QED
    BY <2>1, <2>2
    DEF Normalizing, LiveIngress, PublishPage, N!Next, N!Step, N!Poll, N!Normalize,
        N!NormalizeFails, N!NormalizeDrops, N!CommitRaw, N!DeliverRefused, N!Crash
<1> QED
  BY <1>1, <1>2, <1>3, ClearingKept

-----------------------------------------------------------------------------
(* The invariant and the theorems *)

(* At first the topics are empty and every live record is still to come. *)
LEMMA IngestionInvInit == Init => IngestionInv
<1> SUFFICES ASSUME Init PROVE IngestionInv
  OBVIOUS
<1>1. /\ raw = <<>> /\ sending = <<>> /\ normalized = <<>>
      /\ norm = [committed |-> 0, upto |-> 0, batch |-> {}] /\ wr = norm
      /\ failed = {} /\ tries = W!NoRows /\ poison = W!NoRows
      /\ doomed = {} /\ clearing = {} /\ parking = {}
  BY DEF Init, N!Init, W!Init, N!Fresh, W!Fresh
<1>2. /\ incoming = Live /\ flag = TRUE /\ cache = [p \in Processes |-> TRUE]
      /\ breaker = [breaches |-> 0, tripped |-> FALSE]
      /\ dlq = {} /\ shadowed = {} /\ observed = {} /\ lost = {} /\ spent = 0
      /\ triggers = [r \in Records |-> 0]
  BY DEF Init, C!Init
<1>3. TypeOK
  <2>1. RawOK
    BY <1>1 DEF RawOK, Consumer
  <2>2. WriterOK
    BY <1>1, NoRowsCount DEF WriterOK, CountersOK, Consumer
  <2>3. StoreOK /\ SwitchOK /\ spent \in 0..MaxFaults
    BY <1>2, BoundsAssumption DEF StoreOK, SwitchOK
  <2>4. QED
    BY <2>1, <2>2, <2>3, Types
<1>4. InOrder(norm) /\ InOrder(wr) /\ QueuesAgree /\ ClearingDone
  BY <1>1 DEF InOrder, QueuesAgree, N!Waiting, ClearingDone
<1>5. TriggeredOnce
  BY <1>2 DEF TriggeredOnce
<1>6. \A r \in Records : ~Published(r) /\ r \notin Live \ incoming
  BY <1>1, <1>2 DEF Published
<1>7. QED
  BY <1>3, <1>4, <1>5, <1>6 DEF IngestionInv

(* Every step keeps it. *)
LEMMA IngestionInvStep == IngestionInv /\ [Next]_vars => IngestionInv'
<1> SUFFICES ASSUME IngestionInv, [Next]_vars PROVE IngestionInv'
  OBVIOUS
<1>1. Good /\ TriggeredOnce /\ TypeOK /\ ClearingDone
  BY DEF IngestionInv, Good, AllAccounted
<1>2. CASE Next
  <2>1. Good'
    BY <1>1, <1>2, PublishGood, NormalizingGood, WritingGood, LiveIngressGood DEF Next
  <2>2. TriggeredOnce'
    BY <1>1, <1>2, TriggersStep
  <2>3. ClearingDone'
    BY <1>1, <1>2, Types, WritingGood, ClearingElsewhere DEF Next
  <2>4. QED
    BY <2>1, <2>2, <2>3 DEF IngestionInv, Good, AllAccounted
<1>3. CASE UNCHANGED vars
  <2>1. UNCHANGED <<raw, norm, sending, normalized, wr, failed, tries, poison, doomed,
                    clearing, parking,
                    shadowed, dlq, incoming, flag, cache, breaker, observed, triggers,
                    lost, spent>>
    BY <1>3 DEF vars, writerVars, cutoverVars, store
  <2>2. RawOK' /\ WriterOK' /\ StoreOK' /\ SwitchOK' /\ spent' \in 0..MaxFaults
    BY <1>1, <2>1, Types
    DEF RawOK, Message, WriterOK, CountersOK, DeadLetter, StoreOK, SwitchOK
  <2>3. InOrder(norm)' /\ InOrder(wr)' /\ QueuesAgree'
    BY <1>1, <2>1 DEF Good, InOrder, QueuesAgree, N!Waiting
  <2>4. AllAccounted'
    BY <1>1, <2>1 DEF Good, AllAccounted, Published, Accounted, Landed, Lost, Queued,
                      Unsettled, N!Waiting
  <2>5. TriggeredOnce' /\ ClearingDone'
    BY <1>1, <2>1 DEF TriggeredOnce, ClearingDone, Landed, Lost
  <2>6. QED
    BY <2>2, <2>3, <2>4, <2>5, TypesNext DEF IngestionInv, AllAccounted
<1>4. QED
  BY <1>2, <1>3

(* It is an invariant of the pipeline. *)
LEMMA IngestionInvariance == Spec => []IngestionInv
  BY IngestionInvInit, IngestionInvStep, PTL DEF Spec

(* Unsettled offsets lie above the committed one. *)
LEMMA AccountedIsThere == IngestionInv => NothingVanishes
<1> SUFFICES ASSUME IngestionInv, NEW r \in Records, Accounted(r)
             PROVE  Landed(r) \/ InFlight(r)
  BY DEF IngestionInv, NothingVanishes
<1>0. RawOK /\ WriterOK /\ InOrder(norm) /\ InOrder(wr)
  BY Types DEF IngestionInv
<1>1. ASSUME Unsettled(norm, raw, r) PROVE InRaw(r)
  <2>1. PICK o \in DOMAIN raw : (o \in norm.batch \/ o > norm.upto) /\ raw[o] = r
    BY <1>1 DEF Unsettled
  <2>2. /\ norm.committed \in Nat /\ norm.upto \in Nat /\ o \in Nat
    BY <1>0, ConsumerFields DEF RawOK
  <2>3. o > norm.committed
    BY <1>0, <2>1, <2>2 DEF InOrder
  <2>4. QED
    BY <2>1, <2>3 DEF InRaw
<1>2. ASSUME Unsettled(wr, normalized, r) PROVE InNormalized(r)
  <2>1. PICK o \in DOMAIN normalized : (o \in wr.batch \/ o > wr.upto) /\ normalized[o] = r
    BY <1>2 DEF Unsettled
  <2>2. /\ wr.committed \in Nat /\ wr.upto \in Nat /\ o \in Nat
    BY <1>0, ConsumerFields DEF WriterOK
  <2>3. o > wr.committed
    BY <1>0, <2>1, <2>2 DEF InOrder
  <2>4. QED
    BY <2>1, <2>3 DEF InNormalized
<1>3. QED
  BY <1>1, <1>2 DEF Accounted, Queued, InFlight

(* Topics, consumers, counters, caches and the store hold what they may. *)
THEOREM TypeCorrect == Spec => []TypeOK
<1>1. IngestionInv => TypeOK
  BY DEF IngestionInv
<1>2. QED
  BY <1>1, IngestionInvariance, PTL

(***************************************************************************)
(* Nothing vanishes between the raw topic and the store, for any batch     *)
(* size, any interleaving of the consumers and any number of crashes: a    *)
(* record is stored, dead-lettered, in one of the known holes (a dead      *)
(* letter nobody could publish, a queue that died with its process, a      *)
(* record the broker refused) or still ahead of an offset that will be     *)
(* read again.                                                             *)
(***************************************************************************)
THEOREM NothingIsLost == Spec => []NothingVanishes
  BY IngestionInvariance, AccountedIsThere, PTL

CapInv == IngestionInv /\ CapPassedByFaults

(* How a row may change: it is new below the cap, it stands while its      *)
(* message has its dead letter coming or a fault is paid, or it is counted *)
(* up to the cap on the way to the dead letter.                            *)
LEMMA CapKept ==
  ASSUME CapInv, spent' \in {spent, spent + 1},
         \A o \in DOMAIN poison' :
           \/ poison'[o] \in Nat /\ poison'[o] < PoisonCap
           \/ /\ o \in DOMAIN poison /\ poison'[o] = poison[o]
              /\ \/ spent' = spent + 1
                 \/ o \in doomed \cup clearing => o \in doomed' \cup clearing'
           \/ /\ o \in (doomed' \cup clearing') \ (doomed \cup clearing)
              /\ poison'[o] = W!Count(poison, o) + 1
  PROVE  CapPassedByFaults'
<1>0. spent \in Nat /\ PoisonCap \in Nat \ {0} /\ Rows(poison)
  BY Types, BoundsAssumption DEF CapInv, IngestionInv, WriterOK, CountersOK
<1>1. ASSUME NEW o \in DOMAIN poison
      PROVE  /\ poison[o] \in Nat
             /\ poison[o] < PoisonCap + spent
                              + (IF o \in doomed \cup clearing THEN 1 ELSE 0)
  BY <1>0 DEF CapInv, CapPassedByFaults, Rows
<1> SUFFICES ASSUME NEW o \in DOMAIN poison'
             PROVE  poison'[o] < PoisonCap + spent'
                                   + (IF o \in doomed' \cup clearing' THEN 1 ELSE 0)
  BY DEF CapPassedByFaults
<1>2. CASE poison'[o] \in Nat /\ poison'[o] < PoisonCap
  BY <1>0, <1>2
<1>3. CASE /\ o \in DOMAIN poison /\ poison'[o] = poison[o]
           /\ \/ spent' = spent + 1
              \/ o \in doomed \cup clearing => o \in doomed' \cup clearing'
  BY <1>0, <1>1, <1>3
<1>4. CASE /\ o \in (doomed' \cup clearing') \ (doomed \cup clearing)
           /\ poison'[o] = W!Count(poison, o) + 1
  <2>1. W!Count(poison, o) \in Nat /\ W!Count(poison, o) < PoisonCap + spent
    BY <1>0, <1>1, <1>4 DEF W!Count
  <2> QED
    BY <1>0, <1>4, <2>1
<1> QED
  BY <1>2, <1>3, <1>4

(* The steps of the writer. *)
LEMMA CapWriting ==
  ASSUME CapInv, Writing
  PROVE  CapPassedByFaults'
<1>0. W!Next /\ Rows(poison) /\ spent \in Nat /\ PoisonCap \in Nat \ {0}
  BY Types, BoundsAssumption DEF Writing, CapInv, IngestionInv, WriterOK, CountersOK
<1>1. spent' \in {spent, spent + 1}
  BY <1>0
  DEF W!Next, W!Step, W!Handle, W!Poll, W!Write, W!ReadsFull, W!Shadow, W!Reject,
      W!RejectUnpublished, W!Retry, W!GiveUp, W!GiveUpUncounted, W!Doom, W!Fails,
      W!Fault, W!ParkPoison, W!ParkUnpublished, W!ClearCounter, W!ClearFails,
      W!CommitBatch, W!Exit, W!DeliverDeadLetters, W!RefuseDeadLetter, W!Crash
<1>2. CASE /\ poison' = poison
           /\ \/ spent' = spent + 1
              \/ doomed \cup clearing \subseteq doomed' \cup clearing'
  BY <1>1, <1>2, CapKept
<1>3. ASSUME NEW x, W!GiveUp(x) PROVE CapPassedByFaults'
  <2>1. poison' = W!Bump(poison, x) /\ ~W!AtCap(x) /\ UNCHANGED <<doomed, clearing>>
    BY <1>3 DEF W!GiveUp, W!ending
  <2>2. /\ DOMAIN poison' = DOMAIN poison \cup {x}
        /\ poison'[x] = W!Count(poison, x) + 1
        /\ \A y \in DOMAIN poison \ {x} : poison'[y] = poison[y]
    BY <1>0, <2>1, BumpKeeps
  <2>3. W!Count(poison, x) \in Nat
    BY <1>0, CountIsNat
  <2>4. poison'[x] \in Nat /\ poison'[x] < PoisonCap
    BY <1>0, <2>1, <2>2, <2>3 DEF W!AtCap
  <2> QED
    BY <1>1, <2>1, <2>2, <2>4, CapKept
<1>4. ASSUME NEW x, W!Doom(x) PROVE CapPassedByFaults'
  <2>1. /\ poison' = W!Bump(poison, x) /\ x \notin doomed \cup clearing
        /\ doomed' = doomed \cup {x} /\ clearing' = clearing
    BY <1>4 DEF W!Doom, W!Fails, W!Handles
  <2>2. /\ DOMAIN poison' = DOMAIN poison \cup {x}
        /\ poison'[x] = W!Count(poison, x) + 1
        /\ \A y \in DOMAIN poison \ {x} : poison'[y] = poison[y]
    BY <1>0, <2>1, BumpKeeps
  <2> QED
    BY <1>1, <2>1, <2>2, CapKept
<1>5. ASSUME NEW x, W!ClearCounter(x) PROVE CapPassedByFaults'
  <2>1. /\ poison' = W!Clear(poison, x)
        /\ doomed' = doomed /\ clearing' = clearing \ {x}
    BY <1>5 DEF W!ClearCounter, W!Release
  <2>2. /\ DOMAIN poison' = DOMAIN poison \ {x}
        /\ \A y \in DOMAIN poison \ {x} : poison'[y] = poison[y]
    BY <2>1, ClearKeeps
  <2> QED
    BY <1>1, <2>1, <2>2, CapKept
<1>6. \/ /\ poison' = poison
         /\ \/ spent' = spent + 1
            \/ doomed \cup clearing \subseteq doomed' \cup clearing'
      \/ \E x \in wr.batch : W!GiveUp(x) \/ W!Doom(x) \/ W!ClearCounter(x)
  BY <1>0
  DEF W!Next, W!Step, W!Handle, W!Poll, W!Write, W!Shadow, W!Reject,
      W!RejectUnpublished, W!Returned, W!Retry, W!GiveUpUncounted, W!Fault,
      W!ParkPoison, W!ParkUnpublished, W!Parked, W!ClearFails, W!Release,
      W!CommitBatch, W!Exit, W!DeliverDeadLetters, W!RefuseDeadLetter, W!Crash,
      W!ending
<1> QED
  BY <1>2, <1>3, <1>4, <1>5, <1>6

(* Nobody else counts give-ups. *)
LEMMA CapStep == CapInv /\ [Next]_vars => CapPassedByFaults'
<1> SUFFICES ASSUME CapInv, [Next]_vars PROVE CapPassedByFaults'
  OBVIOUS
<1>1. ASSUME UNCHANGED <<poison, doomed, clearing>>, spent' \in {spent, spent + 1}
      PROVE  CapPassedByFaults'
  BY <1>1, CapKept
<1>2. CASE Normalizing
  BY <1>1, <1>2
  DEF Normalizing, writerVars, N!Next, N!Step, N!Poll, N!Normalize, N!NormalizeFails,
      N!NormalizeDrops, N!CommitRaw, N!Deliver, N!DeliverRefused, N!Crash, N!Fault
<1>3. CASE LiveIngress
  BY <1>1, <1>3
  DEF LiveIngress, writerVars, C!Next, C!Accept, C!AcceptRefused, C!FallBack,
      C!IngestInline, C!RefreshCache, C!Healthy, C!Breach, C!Trip, C!TripFails,
      C!TripUnrecorded, C!OperatorSets, C!ReadsOn, C!Fault
<1>4. CASE \E r \in Backfill : PublishPage(r)
  BY <1>1, <1>4 DEF PublishPage, writerVars, Fault
<1>5. CASE UNCHANGED vars
  BY <1>1, <1>5 DEF vars, writerVars
<1> QED
  BY <1>2, <1>3, <1>4, <1>5, CapWriting DEF Next

(***************************************************************************)
(* The durable count of give-ups passes its cap by at most one for each    *)
(* fault that left its row standing, for any cap, batch and number of      *)
(* faults: without a death between the count, the dead letter and the      *)
(* removal of the row, and without a failed removal, no message is given   *)
(* up more than PoisonCap times.                                           *)
(***************************************************************************)
THEOREM CapOvershoot == Spec => []CapPassedByFaults
<1>1. Init => CapPassedByFaults
  BY NoRowsCount DEF Init, W!Init, CapPassedByFaults
<1>2. IngestionInv /\ CapPassedByFaults /\ [Next]_vars => CapPassedByFaults'
  BY CapStep DEF CapInv
<1> QED
  BY <1>1, <1>2, IngestionInvariance, PTL DEF Spec

(* ingest_from_draft stores a record once and enqueues one trigger for it,  *)
(* whoever calls it and however often.                                      *)
THEOREM OneTrigger == Spec => []TriggeredOnce
<1>1. IngestionInv => TriggeredOnce
  BY DEF IngestionInv
<1>2. QED
  BY <1>1, IngestionInvariance, PTL

-----------------------------------------------------------------------------
(* The refinement of Intake *)

(* What one more message makes published. *)
LEMMA PublishedNext ==
  ASSUME raw \in Seq(Records), NEW r \in Records, raw' = Append(raw, r)
  PROVE  \A t : Published(t)' <=> Published(t) \/ t = r
<1>1. /\ Extends(raw, raw') /\ Len(raw') \in DOMAIN raw' /\ raw'[Len(raw')] = r
      /\ \A o \in DOMAIN raw' : o \in DOMAIN raw \/ raw'[o] = r
  BY AppendAt
<1> QED
  BY <1>1 DEF Published, Extends

(* What is queued is on the topic it was read from. *)
LEMMA QueuedWasRead ==
  ASSUME QueuesAgree
  PROVE  /\ \A m \in N!Waiting : Published(m.rec)
         /\ \A m \in parking : OnNormalized(m.rec)
  BY DEF QueuesAgree, Published, OnNormalized

(* The normalizer sets aside and passes on what was published, no more. *)
LEMMA NormalizingAdds ==
  ASSUME TypeOK, QueuesAgree, Normalizing
  PROVE  /\ UNCHANGED <<raw, incoming, observed, triggers>>
         /\ SetAside \subseteq SetAside'
         /\ \A r \in Records : r \in SetAside' \/ OnNormalized(r)' =>
              r \in SetAside \/ OnNormalized(r) \/ Published(r)
<1>0. RawOK /\ WriterOK /\ StoreOK
  BY Types
<1>1. /\ UNCHANGED <<raw, incoming, observed, triggers, shadowed>> /\ N!Next
  BY DEF Normalizing, writerVars, cutoverVars, store, N!Next, N!Step, N!Poll,
         N!Normalize, N!NormalizeFails, N!NormalizeDrops, N!CommitRaw, N!Deliver,
         N!DeliverRefused, N!Crash
<1>2. CASE UNCHANGED <<normalized, dlq, lost>>
  BY <1>1, <1>2 DEF SetAside, Lost, OnNormalized
<1>3. ASSUME NEW o \in norm.batch, N!NormalizeDrops(o)
      PROVE  /\ SetAside \subseteq SetAside'
             /\ \A r \in Records : r \in SetAside' \/ OnNormalized(r)' =>
                  r \in SetAside \/ OnNormalized(r) \/ Published(r)
  <2>1. Published(raw[o])
    BY <1>0, ConsumerFields DEF RawOK, Published
  <2>2. /\ lost' = lost \cup {<<raw[o], "dead_letter">>}
        /\ UNCHANGED <<normalized, dlq>>
    BY <1>3 DEF N!NormalizeDrops
  <2> QED
    BY <1>1, <2>1, <2>2 DEF SetAside, Lost, Causes, OnNormalized
<1>4. ASSUME N!Deliver \/ N!DeliverRefused
      PROVE  /\ SetAside \subseteq SetAside'
             /\ \A r \in Records : r \in SetAside' \/ OnNormalized(r)' =>
                  r \in SetAside \/ OnNormalized(r) \/ Published(r)
  <2> DEFINE rec == Head(sending).rec
  <2>1. Head(sending) \in N!Waiting /\ rec \in Records
    <3>1. Head(sending) \in Members(sending) /\ Head(sending) \in Message
      BY <1>0, <1>4, DeliverTakes DEF N!Deliver, N!DeliverRefused, RawOK
    <3> QED
      BY <3>1 DEF Members, N!Waiting, Message
  <2>2. Published(rec)
    BY <2>1, QueuedWasRead
  <2>3. CASE dlq' = dlq \cup {rec} /\ UNCHANGED <<normalized, lost>>
    BY <1>1, <2>2, <2>3 DEF SetAside, Lost, OnNormalized
  <2>4. CASE normalized' = Append(normalized, rec) /\ UNCHANGED <<dlq, lost>>
    <3>1. \A o \in DOMAIN normalized' :
            \/ normalized'[o] = rec
            \/ o \in DOMAIN normalized /\ normalized'[o] = normalized[o]
      BY <1>0, <2>1, <2>4, AppendAt DEF WriterOK, Extends
    <3> QED
      BY <1>1, <2>2, <2>4, <3>1 DEF SetAside, Lost, OnNormalized
  <2>5. CASE lost' = lost \cup {<<rec, "refused">>} /\ UNCHANGED <<normalized, dlq>>
    BY <1>1, <2>2, <2>5 DEF SetAside, Lost, OnNormalized
  <2> QED
    BY <1>4, <2>3, <2>4, <2>5 DEF N!Deliver, N!DeliverRefused
<1>5. ASSUME N!Crash
      PROVE  /\ SetAside \subseteq SetAside'
             /\ \A r \in Records : r \in SetAside' \/ OnNormalized(r)' =>
                  r \in SetAside \/ OnNormalized(r) \/ Published(r)
  <2>1. /\ lost \subseteq lost' /\ UNCHANGED <<normalized, dlq>>
        /\ \A e \in lost' : e \in lost \/ \E m \in N!Waiting : e = <<m.rec, "queue">>
    BY <1>5 DEF N!Crash
  <2>2. \A r \in Records : Lost(r)' => Lost(r) \/ Published(r)
    BY <2>1, QueuedWasRead DEF Lost
  <2> QED
    BY <1>1, <2>1, <2>2 DEF SetAside, Lost, OnNormalized
<1> QED
  BY <1>1, <1>2, <1>3, <1>4, <1>5
  DEF N!Next, N!Step, N!Poll, N!Normalize, N!NormalizeFails, N!CommitRaw

(* The writer sets aside and stores what is on the normalized topic. *)
LEMMA WritingAdds ==
  ASSUME TypeOK, QueuesAgree, Writing
  PROVE  /\ UNCHANGED <<raw, incoming, normalized>>
         /\ SetAside \subseteq SetAside'
         /\ \A r \in Records : r \in SetAside' => r \in SetAside \/ OnNormalized(r)
         /\ \/ UNCHANGED <<observed, triggers>>
            \/ /\ SetAside' = SetAside
               /\ \E r \in Records : OnNormalized(r) /\ W!Ingest(r)
<1>0. WriterOK
  BY Types
<1>1. /\ UNCHANGED <<raw, incoming, normalized>> /\ W!Next
  BY DEF Writing, W!Next, W!Step, W!Handle, W!Poll, W!Write, W!Shadow, W!Reject,
         W!RejectUnpublished, W!Retry, W!GiveUp, W!GiveUpUncounted, W!Doom,
         W!ParkPoison, W!ParkUnpublished, W!Parked, W!ClearCounter, W!ClearFails,
         W!Release, W!CommitBatch, W!Exit, W!DeliverDeadLetters,
         W!RefuseDeadLetter, W!Crash
<1>2. ASSUME NEW o \in wr.batch
      PROVE  normalized[o] \in Records /\ OnNormalized(normalized[o])
  BY <1>0, ConsumerFields DEF WriterOK, OnNormalized
<1> DEFINE Added ==
      /\ SetAside \subseteq SetAside'
      /\ \A r \in Records : r \in SetAside' => r \in SetAside \/ OnNormalized(r)
<1> DEFINE Stored ==
      \/ UNCHANGED <<observed, triggers>>
      \/ /\ SetAside' = SetAside
         /\ \E r \in Records : OnNormalized(r) /\ W!Ingest(r)
<1>3. CASE UNCHANGED <<dlq, lost, shadowed, observed, triggers>>
  BY <1>1, <1>3 DEF SetAside, Lost
<1>4. ASSUME NEW o \in wr.batch, W!Write(o) PROVE Added /\ Stored
  <2>1. UNCHANGED <<dlq, lost, shadowed>> /\ W!Ingest(normalized[o])
    BY <1>4 DEF W!Write
  <2>2. SetAside' = SetAside
    BY <2>1 DEF SetAside, Lost
  <2> QED
    BY <1>2, <2>1, <2>2
<1>5. ASSUME NEW o \in wr.batch, W!Shadow(o) PROVE Added /\ Stored
  <2>1. /\ shadowed' = shadowed \cup {normalized[o]}
        /\ UNCHANGED <<dlq, lost, observed, triggers>>
    BY <1>5 DEF W!Shadow
  <2> QED
    BY <1>2, <2>1 DEF SetAside, Lost
<1>6. ASSUME NEW o \in wr.batch, W!RejectUnpublished(o) \/ W!ParkUnpublished(o)
      PROVE  Added /\ Stored
  <2>1. /\ lost' = lost \cup {<<normalized[o], "dead_letter">>}
        /\ UNCHANGED <<dlq, shadowed, observed, triggers>>
    BY <1>6 DEF W!RejectUnpublished, W!ParkUnpublished, W!Parked, W!Unpublished
  <2> QED
    BY <1>2, <2>1 DEF SetAside, Lost, Causes
<1>7. ASSUME W!Exit \/ W!DeliverDeadLetters PROVE Added /\ Stored
  <2>1. /\ dlq' = dlq \cup {m.rec : m \in parking}
        /\ UNCHANGED <<lost, shadowed, observed, triggers>>
    BY <1>7 DEF W!Exit, W!DeliverDeadLetters
  <2> QED
    BY <2>1, QueuedWasRead DEF SetAside, Lost
<1>2r. ASSUME NEW m \in parking, W!RefuseDeadLetter(m) PROVE Added /\ Stored
  <2>1. /\ lost' = lost \cup {<<m.rec, "refused">>}
        /\ UNCHANGED <<dlq, shadowed, observed, triggers>>
    BY <1>2r DEF W!RefuseDeadLetter
  <2> QED
    BY <2>1, QueuedWasRead DEF SetAside, Lost
<1>8. ASSUME W!Crash PROVE Added /\ Stored
  <2>1. /\ lost \subseteq lost' /\ UNCHANGED <<dlq, shadowed, observed, triggers>>
        /\ \A e \in lost' : e \in lost \/ \E m \in parking : e = <<m.rec, "queue">>
    BY <1>8 DEF W!Crash
  <2>2. \A r \in Records : Lost(r)' => Lost(r) \/ OnNormalized(r)
    BY <2>1, QueuedWasRead DEF Lost
  <2> QED
    BY <2>1, <2>2 DEF SetAside, Lost
<1>9. \/ UNCHANGED <<dlq, lost, shadowed, observed, triggers>>
      \/ W!Exit \/ W!DeliverDeadLetters \/ W!Crash
      \/ \E o \in wr.batch : \/ W!Write(o) \/ W!Shadow(o)
                             \/ W!RejectUnpublished(o) \/ W!ParkUnpublished(o)
      \/ \E m \in parking : W!RefuseDeadLetter(m)
  BY <1>1
  DEF W!Next, W!Step, W!Handle, W!Poll, W!Reject, W!Retry, W!GiveUp,
      W!GiveUpUncounted, W!Doom, W!ParkPoison, W!Parked, W!ClearCounter,
      W!ClearFails, W!Release, W!CommitBatch
<1> QED
  BY <1>1, <1>3, <1>4, <1>5, <1>6, <1>7, <1>2r, <1>8, <1>9

(* Setting aside what was received, or nothing. *)
LEMMA AsideStep ==
  ASSUME NEW R \in SUBSET Records, R \subseteq Received, SetAside' = SetAside \cup R,
         Received' = Received, UNCHANGED <<observed, triggers>>
  PROVE  Promise!Next
<1>1. Promise!SetAside(R)
  BY DEF Promise!SetAside
<1> QED
  BY <1>1 DEF Promise!Next

(* A step that stores nothing and receives nothing. *)
LEMMA AsideRefines ==
  ASSUME CameIn', Received' = Received, UNCHANGED <<observed, triggers>>,
         SetAside \subseteq SetAside'
  PROVE  Promise!Next
<1>1. SetAside' \subseteq Records /\ SetAside' \subseteq Received
  BY DEF SetAside, CameIn
<1>2. PICK R : R = SetAside'
  OBVIOUS
<1>3. SetAside' = SetAside \cup R
  BY <1>2
<1> HIDE DEF SetAside, Received
<1> QED
  BY <1>1, <1>2, <1>3, AsideStep

IntakeInv == IngestionInv /\ CameIn /\ ArrivesOnce

(* The normalizer shows at most what it sets aside. *)
LEMMA NormalizingRefines ==
  ASSUME IntakeInv, Normalizing
  PROVE  CameIn' /\ ArrivesOnce' /\ Promise!Next
<1>1. /\ UNCHANGED <<raw, incoming, observed, triggers>>
      /\ SetAside \subseteq SetAside'
      /\ \A r \in Records : r \in SetAside' \/ OnNormalized(r)' =>
           r \in SetAside \/ OnNormalized(r) \/ Published(r)
  BY NormalizingAdds DEF IntakeInv, IngestionInv
<1>2. Received' = Received /\ ArrivesOnce'
  BY <1>1 DEF Received, Published, ArrivesOnce, IntakeInv
<1>3. \A r \in Records : Published(r) => r \in Received
  BY DEF Received
<1>4. CameIn'
  BY <1>1, <1>2, <1>3 DEF CameIn, IntakeInv
<1> QED
  BY <1>1, <1>2, <1>4, AsideRefines

(* Storing what was received and is not stored yet; else nothing shows. *)
LEMMA StoreRefines ==
  ASSUME StoreOK, NEW r \in Records, r \in Received, W!Ingest(r),
         Received' = Received, SetAside' = SetAside
  PROVE  Promise!Next \/ UNCHANGED Promise!vars
<1>1. /\ observed' = observed \cup {r}
      /\ triggers' = IF r \in observed THEN triggers
                     ELSE [triggers EXCEPT ![r] = @ + 1]
  BY DEF W!Ingest
<1>2. CASE r \in observed
  BY <1>1, <1>2 DEF Promise!vars
<1>3. CASE r \notin observed
  <2>1. Promise!Store(r)
    BY <1>1, <1>3 DEF Promise!Store, Promise!Keep
  <2> QED
    BY <2>1 DEF Promise!Next
<1> QED
  BY <1>2, <1>3

(* The writer stores a record or sets some aside. *)
LEMMA WritingRefines ==
  ASSUME IntakeInv, Writing
  PROVE  CameIn' /\ ArrivesOnce' /\ (Promise!Next \/ UNCHANGED Promise!vars)
<1>0. StoreOK /\ CameIn /\ ArrivesOnce
  BY Types DEF IntakeInv, IngestionInv
<1>1. /\ UNCHANGED <<raw, incoming, normalized>>
      /\ SetAside \subseteq SetAside'
      /\ \A r \in Records : r \in SetAside' => r \in SetAside \/ OnNormalized(r)
      /\ \/ UNCHANGED <<observed, triggers>>
         \/ /\ SetAside' = SetAside
            /\ \E r \in Records : OnNormalized(r) /\ W!Ingest(r)
  BY WritingAdds DEF IntakeInv, IngestionInv
<1>2. Received' = Received /\ ArrivesOnce'
  BY <1>0, <1>1 DEF Received, Published, ArrivesOnce
<1>3. \A r \in Records : OnNormalized(r)' <=> OnNormalized(r)
  BY <1>1 DEF OnNormalized
<1>4. CASE UNCHANGED <<observed, triggers>>
  <2>1. CameIn'
    BY <1>0, <1>1, <1>2, <1>3, <1>4 DEF CameIn
  <2> QED
    BY <1>1, <1>2, <1>4, <2>1, AsideRefines
<1>5. ASSUME NEW r \in Records, OnNormalized(r), W!Ingest(r), SetAside' = SetAside
      PROVE  CameIn' /\ (Promise!Next \/ UNCHANGED Promise!vars)
  <2>1. r \in Received
    BY <1>0, <1>5 DEF CameIn
  <2>2. observed' = observed \cup {r}
    BY <1>5 DEF W!Ingest
  <2>3. CameIn'
    BY <1>0, <1>2, <1>3, <1>5, <2>1, <2>2 DEF CameIn
  <2> QED
    BY <1>0, <1>2, <1>5, <2>1, <2>3, StoreRefines
<1> QED
  BY <1>1, <1>2, <1>4, <1>5

(* A record comes in, through a topic or at once into the store. *)
LEMMA ReceiveRefines ==
  ASSUME IntakeInv, NEW r \in Records, raw' \in {raw, Append(raw, r)},
         UNCHANGED <<normalized, dlq, shadowed, lost>>,
         \/ r \in Backfill /\ incoming' = incoming /\ raw' = Append(raw, r)
         \/ r \in incoming /\ incoming' = incoming \ {r},
         \/ UNCHANGED <<observed, triggers>>
         \/ r \in incoming /\ C!Ingest(r)
  PROVE  CameIn' /\ ArrivesOnce' /\ Promise!Next
<1>0. /\ raw \in Seq(Records) /\ incoming \subseteq Live
      /\ CameIn /\ ArrivesOnce
  BY DEF IntakeInv, IngestionInv, TypeOK
<1>1. \A t : Published(t)' => Published(t) \/ t = r
  BY <1>0, PublishedNext DEF Published
<1>2. \A t : Published(t) => Published(t)'
  BY <1>0, PublishedNext DEF Published
<1>3. Received' = Received \cup {r}
  <2>1. CASE r \in Backfill /\ incoming' = incoming /\ raw' = Append(raw, r)
    <3>1. Published(r)'
      BY <1>0, <2>1, PublishedNext
    <3> QED
      BY <1>1, <1>2, <2>1, <3>1 DEF Received
  <2>2. CASE r \in incoming /\ incoming' = incoming \ {r}
    BY <1>0, <1>1, <1>2, <2>2 DEF Received
  <2> QED
    BY <2>1, <2>2
<1>4. ArrivesOnce'
  BY <1>0, <1>1, RecordsAssumption DEF ArrivesOnce
<1>5. SetAside' = SetAside /\ \A t \in Records : OnNormalized(t)' <=> OnNormalized(t)
  BY DEF SetAside, Lost, OnNormalized
<1>6. CASE UNCHANGED <<observed, triggers>>
  <2>1. CameIn'
    BY <1>0, <1>3, <1>5, <1>6 DEF CameIn
  <2>2. Promise!Receive(r)
    BY <1>3, <1>5, <1>6 DEF Promise!Receive
  <2> QED
    BY <1>4, <2>1, <2>2 DEF Promise!Next
<1>7. CASE r \in incoming /\ C!Ingest(r)
  <2>1. r \notin Received
    BY <1>0, <1>7 DEF Received, ArrivesOnce
  <2>2. r \notin observed
    BY <1>0, <2>1 DEF CameIn
  <2>3. /\ observed' = observed \cup {r}
        /\ triggers' = [triggers EXCEPT ![r] = @ + 1]
    BY <1>7, <2>2 DEF C!Ingest
  <2>4. CameIn'
    BY <1>0, <1>3, <1>5, <2>3 DEF CameIn
  <2>5. Promise!ReceiveAndStore(r)
    BY <1>3, <1>5, <2>2, <2>3 DEF Promise!ReceiveAndStore, Promise!Keep
  <2> QED
    BY <1>4, <2>4, <2>5 DEF Promise!Next
<1> QED
  BY <1>6, <1>7

(* A record is answered for and lost at once. *)
LEMMA RefusalRefines ==
  ASSUME IntakeInv, NEW r \in Live, C!AcceptRefused(r),
         UNCHANGED <<normalized, dlq, shadowed>>
  PROVE  CameIn' /\ ArrivesOnce' /\ Promise!Next
<1>0. r \in Records /\ incoming \subseteq Live /\ CameIn /\ ArrivesOnce
  BY DEF IntakeInv, IngestionInv, TypeOK, Records
<1>1. /\ r \in incoming /\ incoming' = incoming \ {r}
      /\ lost' = lost \cup {<<r, "refused">>} /\ UNCHANGED <<raw, observed, triggers>>
  BY DEF C!AcceptRefused
<1>2. Received' = Received \cup {r}
  BY <1>0, <1>1 DEF Received, Published
<1>3. SetAside' = SetAside \cup {r}
  BY <1>0, <1>1 DEF SetAside, Lost, Causes
<1>4. CameIn' /\ ArrivesOnce'
  BY <1>0, <1>1, <1>2, <1>3 DEF CameIn, ArrivesOnce, Published, OnNormalized
<1>5. Promise!ReceiveAndSetAside(r)
  BY <1>1, <1>2, <1>3 DEF Promise!ReceiveAndSetAside
<1> QED
  BY <1>0, <1>4, <1>5 DEF Promise!Next

(* Of live ingress only the arrival of a record shows. *)
LEMMA LiveIngressRefines ==
  ASSUME IntakeInv, LiveIngress
  PROVE  CameIn' /\ ArrivesOnce' /\ (Promise!Next \/ UNCHANGED Promise!vars)
<1>1. UNCHANGED <<normalized, shadowed, dlq>> /\ C!Next
  BY DEF LiveIngress, writerVars
<1>2. ASSUME NEW r \in Live, C!Accept(r) \/ C!FallBack(r) \/ C!IngestInline(r)
      PROVE  CameIn' /\ ArrivesOnce' /\ Promise!Next
  <2>1. r \in Records
    BY DEF Records
  <2>2. /\ r \in incoming /\ incoming' = incoming \ {r}
        /\ raw' \in {raw, Append(raw, r)} /\ UNCHANGED lost
        /\ UNCHANGED <<observed, triggers>> \/ C!Ingest(r)
    BY <1>2 DEF C!Accept, C!FallBack, C!IngestInline
  <2> QED
    BY <1>1, <2>1, <2>2, ReceiveRefines
<1>3. CASE UNCHANGED <<incoming, raw, observed, triggers, lost>>
  BY <1>1, <1>3
  DEF IntakeInv, CameIn, ArrivesOnce, Received, SetAside, Lost, Published,
      OnNormalized, Promise!vars
<1> QED
  BY <1>1, <1>2, <1>3, RefusalRefines
  DEF C!Next, C!RefreshCache, C!Healthy, C!Breach, C!Trip, C!TripFails,
      C!TripUnrecorded, C!OperatorSets

(* Every step is one of Intake's or hidden. *)
LEMMA IntakeStep ==
  ASSUME IntakeInv, [Next]_vars
  PROVE  CameIn' /\ ArrivesOnce' /\ (Promise!Next \/ UNCHANGED Promise!vars)
<1>1. ASSUME NEW r \in Backfill, PublishPage(r)
      PROVE  CameIn' /\ ArrivesOnce' /\ Promise!Next
  <2>1. r \in Records
    BY DEF Records
  <2>2. /\ raw' = Append(raw, r)
        /\ UNCHANGED <<normalized, dlq, shadowed, lost, incoming, observed, triggers>>
    BY <1>1 DEF PublishPage, writerVars, cutoverVars, store
  <2> QED
    BY <2>1, <2>2, ReceiveRefines
<1>2. CASE UNCHANGED vars
  <2>1. UNCHANGED <<raw, normalized, dlq, shadowed, lost, incoming, observed, triggers>>
    BY <1>2 DEF vars, writerVars, cutoverVars, store
  <2> QED
    BY <2>1
    DEF IntakeInv, CameIn, ArrivesOnce, Received, SetAside, Lost, Published,
        OnNormalized, Promise!vars
<1> QED
  BY <1>1, <1>2, NormalizingRefines, WritingRefines, LiveIngressRefines DEF Next

(***************************************************************************)
(* The pipeline implements Intake, for any records, batch sizes and number *)
(* of faults: whatever is published again, read again, retried, parked or  *)
(* lost in a queue, a record is stored at most once, only if it came in,   *)
(* and in one step with its trigger.                                       *)
(***************************************************************************)
THEOREM IntakeRefinement == Spec => ImplementsIntake
<1>1. Init => Promise!Init /\ CameIn /\ ArrivesOnce
  <2> SUFFICES ASSUME Init PROVE Promise!Init /\ CameIn /\ ArrivesOnce
    OBVIOUS
  <2>1. /\ raw = <<>> /\ normalized = <<>> /\ incoming = Live
        /\ dlq = {} /\ shadowed = {} /\ observed = {} /\ lost = {}
        /\ triggers = [r \in Records |-> 0]
    BY DEF Init, N!Init, C!Init
  <2>2. \A r : ~Published(r) /\ ~OnNormalized(r) /\ ~Lost(r)
    BY <2>1 DEF Published, OnNormalized, Lost
  <2> QED
    BY <2>1, <2>2 DEF Promise!Init, CameIn, ArrivesOnce, Received, SetAside
<1>2. IntakeInv /\ [Next]_vars
        => CameIn' /\ ArrivesOnce' /\ [Promise!Next]_(Promise!vars)
  BY IntakeStep
<1>3. IngestionInv /\ CameIn /\ ArrivesOnce => IntakeInv
  BY DEF IntakeInv
<1> QED
  BY <1>1, <1>2, <1>3, IngestionInvariance, PTL
  DEF Spec, ImplementsIntake, Promise!Spec
=============================================================================
