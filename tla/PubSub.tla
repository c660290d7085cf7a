------------------------------- MODULE PubSub -------------------------------
(***************************************************************************)
(* The Pub/Sub service: topics and subscriptions kept in the state store,  *)
(* one in-memory message queue per subscription guarded by Service.mu, and *)
(* the lease protocol of PullMessages, Acknowledge and ModifyAckDeadline.  *)
(*                                                                         *)
(* Every API call runs on the goroutine of a client request.  A call that  *)
(* reads the store before it takes the lock is split where the code        *)
(* releases the data it read: the first action of a call does the store    *)
(* reads and leaves the values in req[c], the second one is the critical   *)
(* section.  Anything may happen in between.                               *)
(*                                                                         *)
(* A queue is a Go slice.  It is modelled as the set of its entries, whose *)
(* order in the slice is the order of the field slot (the ack number the   *)
(* entry was appended under, which append order makes increasing).         *)
(***************************************************************************)
EXTENDS Integers, Sequences, FiniteSets

CONSTANTS Topics,        \* topic names
          Subs,          \* subscription names
          Clients,       \* goroutines that serve a request
          AckDeadlines,  \* ackDeadlineSeconds values a client may ask for
          ModSeconds,    \* seconds a client may pass to ModifyAckDeadline
          Limits,        \* maxMessages values a client may ask for
          DefaultAckSec, \* 10 in the code
          DefaultLimit,  \* 10 in the code
          MaxBatch,      \* bound: messages in one publish request
          MaxMsgs,       \* bound on msgSeq
          MaxAcks,       \* bound on ackSeq
          MaxTime        \* bound on the clock, in seconds

ASSUME PubSubAssumption ==
    /\ AckDeadlines \subseteq Int /\ ModSeconds \subseteq Int /\ Limits \subseteq Int
    /\ DefaultAckSec \in Nat \ {0} /\ DefaultLimit \in Nat \ {0}
    /\ MaxBatch \in Nat /\ MaxMsgs \in Nat /\ MaxAcks \in Nat /\ MaxTime \in Nat
    /\ IsFiniteSet(Subs)

VARIABLES topics,    \* the namespace pubsub/topics
          subs,      \* the namespace pubsub/subscriptions
          queues,    \* Service.queues; an absent key is an empty queue
          msgSeq,    \* Service.msgSeq
          ackSeq,    \* Service.ackSeq
          now,       \* the clock time.Now reads
          req,       \* what the request goroutines hold between two steps
          handed,    \* history: every Received a pull returned
          acked,     \* history: ack ids processed by Acknowledge
          nacked,    \* history: ack ids that nacked an entry
          owed       \* history: messages enqueued for the subscription's queue

vars == <<topics, subs, queues, msgSeq, ackSeq, now, req, handed, acked, nacked, owed>>

history == <<handed, acked, nacked, owed>>

-----------------------------------------------------------------------------
NoSub == [topic |-> "none"]
NoReq == [op |-> "none"]

Subscription == [topic : Topics, ackSec : Int]

(* storedMessage: the message, its lease and the place in the slice. *)
Entry == [slot : Nat, msg : Nat, ackID : Nat, inflight : BOOLEAN, deadline : Int]

Delivery == [ack : Nat, sub : Subs, msg : Nat, attempt : Nat]

PutReq == [op : {"put"}, sub : Subs, res : Subscription]
DeleteReq == [op : {"delete"}, sub : Subs]
PublishReq == [op : {"publish"}, step : {"list", "ids"}, topic : Topics,
               targets : SUBSET Subs, left : Nat, ids : Seq(Nat)]
PullReq == [op : {"pull"}, sub : Subs, limit : Nat, now : Nat, deadline : Int]
AckReq == [op : {"ack"}, sub : Subs, ids : SUBSET Nat]
ModAckReq == [op : {"modack"}, sub : Subs, ids : SUBSET Nat, sec : Int, now : Nat]

Request == {NoReq} \cup PutReq \cup DeleteReq \cup PublishReq \cup PullReq
             \cup AckReq \cup ModAckReq

Stored(s) == subs[s] # NoSub

Idle(c) == req[c] = NoReq

Hold(c, r) == req' = [req EXCEPT ![c] = r]

Done(c) == Hold(c, NoReq)

-----------------------------------------------------------------------------
(* Topics.  CreateTopic's check before the Put only decides the answer: the *)
(* record has no content, so both the REST PUT and gRPC end in this Put.    *)
PutTopic(t) ==
    /\ topics' = topics \cup {t}
    /\ UNCHANGED <<subs, queues, msgSeq, ackSeq, now, req, history>>

(* Deleting a topic leaves its subscriptions and their queues alone. *)
DeleteTopic(t) ==
    /\ t \in topics
    /\ topics' = topics \ {t}
    /\ UNCHANGED <<subs, queues, msgSeq, ackSeq, now, req, history>>

(* Subscriptions: the store reads of gRPC CreateSubscription ... *)
CreateSubscription(c, s, t, sec) ==
    /\ Idle(c)
    /\ t \in topics
    /\ ~Stored(s)
    /\ Hold(c, [op |-> "put", sub |-> s,
                res |-> [topic |-> t, ackSec |-> IF sec <= 0 THEN DefaultAckSec ELSE sec]])
    /\ UNCHANGED <<topics, subs, queues, msgSeq, ackSeq, now, history>>

(* ... and of REST PUT, which replaces a subscription that exists and only *)
(* turns a zero deadline into the default.                                 *)
PutSubscription(c, s, t, sec) ==
    /\ Idle(c)
    /\ t \in topics
    /\ Hold(c, [op |-> "put", sub |-> s,
                res |-> [topic |-> t, ackSec |-> IF sec = 0 THEN DefaultAckSec ELSE sec]])
    /\ UNCHANGED <<topics, subs, queues, msgSeq, ackSeq, now, history>>

StoreSubscription(c) ==
    /\ req[c].op = "put"
    /\ subs' = [subs EXCEPT ![req[c].sub] = req[c].res]
    /\ Done(c)
    /\ UNCHANGED <<topics, queues, msgSeq, ackSeq, now, history>>

(* DeleteSubscription: the store first, the queue in a later critical section. *)
DeleteSubscription(c, s) ==
    /\ Idle(c)
    /\ Stored(s)
    /\ subs' = [subs EXCEPT ![s] = NoSub]
    /\ Hold(c, [op |-> "delete", sub |-> s])
    /\ UNCHANGED <<topics, queues, msgSeq, ackSeq, now, history>>

DropQueue(c) ==
    /\ req[c].op = "delete"
    /\ queues' = [queues EXCEPT ![req[c].sub] = {}]
    /\ owed' = [owed EXCEPT ![req[c].sub] = {}]
    /\ Done(c)
    /\ UNCHANGED <<topics, subs, msgSeq, ackSeq, now, handed, acked, nacked>>

(* /admin/reset deletes the keys of the namespace and knows no queue. *)
ResetSubscription(s) ==
    /\ Stored(s)
    /\ subs' = [subs EXCEPT ![s] = NoSub]
    /\ UNCHANGED <<topics, queues, msgSeq, ackSeq, now, req, history>>

-----------------------------------------------------------------------------
(* PublishMessages: Get the topic, List the subscriptions, draw the message *)
(* ids from the atomic counter, then append under the lock.                 *)
PublishMessages(c, t, n) ==
    /\ Idle(c)
    /\ t \in topics
    /\ Hold(c, [op |-> "publish", step |-> "list", topic |-> t,
                targets |-> {}, left |-> n, ids |-> <<>>])
    /\ UNCHANGED <<topics, subs, queues, msgSeq, ackSeq, now, history>>

SubsForTopic(t) == {s \in Subs : Stored(s) /\ subs[s].topic = t}

PublishList(c) ==
    /\ req[c].op = "publish" /\ req[c].step = "list"
    /\ Hold(c, [req[c] EXCEPT !.step = "ids", !.targets = SubsForTopic(req[c].topic)])
    /\ UNCHANGED <<topics, subs, queues, msgSeq, ackSeq, now, history>>

(* Mutant: the loop draws one id more than the batch has messages. *)
PublishIDPastEnd(c) ==
    /\ req[c].op = "publish" /\ req[c].step = "ids"
    /\ msgSeq < MaxMsgs
    /\ msgSeq' = msgSeq + 1
    /\ Hold(c, [req[c] EXCEPT !.left = @ - 1, !.ids = Append(@, msgSeq + 1)])
    /\ UNCHANGED <<topics, subs, queues, ackSeq, now, history>>

PublishID(c) ==
    /\ req[c].op = "publish" /\ req[c].step = "ids" /\ req[c].left > 0
    /\ msgSeq < MaxMsgs
    /\ msgSeq' = msgSeq + 1
    /\ Hold(c, [req[c] EXCEPT !.left = @ - 1, !.ids = Append(@, msgSeq + 1)])
    /\ UNCHANGED <<topics, subs, queues, ackSeq, now, history>>

NewEntry(k, m) ==
    [slot |-> k, msg |-> m, ackID |-> k, inflight |-> FALSE, deadline |-> 0]

(* The ack numbers of one publish: a block per subscription, in the order in *)
(* which the code ranges over the subscriptions List returned (a map, so any *)
(* order).  base[s] is the number before the block of s.                     *)
AckBlocks(S, k) ==
    {base \in [S -> ackSeq .. (ackSeq + Cardinality(S) * k)] :
        /\ \A s \in S : base[s] + k <= ackSeq + Cardinality(S) * k
        /\ \A s, t \in S : s # t => base[s] + k <= base[t] \/ base[t] + k <= base[s]}

(* Mutant: the lock is taken for one subscription at a time. *)
PublishEnqueuePerSub(c) ==
    /\ req[c].op = "publish" /\ req[c].step = "ids" /\ req[c].left = 0
    /\ LET ids == req[c].ids IN
       \/ /\ req[c].targets = {}
          /\ Done(c)
          /\ UNCHANGED <<queues, ackSeq, owed>>
       \/ \E s \in req[c].targets :
             /\ ackSeq + Len(ids) <= MaxAcks
             /\ queues' = [queues EXCEPT ![s] =
                               @ \cup {NewEntry(ackSeq + i, ids[i]) : i \in 1..Len(ids)}]
             /\ ackSeq' = ackSeq + Len(ids)
             /\ owed' = [owed EXCEPT ![s] = @ \cup {ids[i] : i \in 1..Len(ids)}]
             /\ Hold(c, [req[c] EXCEPT !.targets = @ \ {s}])
    /\ UNCHANGED <<topics, subs, msgSeq, now, handed, acked, nacked>>

PublishEnqueue(c) ==
    /\ req[c].op = "publish" /\ req[c].step = "ids" /\ req[c].left = 0
    /\ LET ids == req[c].ids
           S == req[c].targets
           total == Cardinality(S) * Len(ids)
       IN /\ ackSeq + total <= MaxAcks
          /\ \E base \in AckBlocks(S, Len(ids)) :
                queues' = [s \in Subs |->
                    IF s \in S
                    THEN queues[s] \cup {NewEntry(base[s] + i, ids[i]) : i \in 1..Len(ids)}
                    ELSE queues[s]]
          /\ ackSeq' = ackSeq + total
          /\ owed' = [s \in Subs |->
                IF s \in S THEN owed[s] \cup {ids[i] : i \in 1..Len(ids)} ELSE owed[s]]
    /\ Done(c)
    /\ UNCHANGED <<topics, subs, msgSeq, now, handed, acked, nacked>>

-----------------------------------------------------------------------------
(* Mutant: the deadline itself already counts as expired. *)
AvailableAtDeadline(e, t) == ~e.inflight \/ t >= e.deadline

Available(e, t) == ~e.inflight \/ t > e.deadline

AckSeconds(s) == IF subs[s].ackSec <= 0 THEN DefaultAckSec ELSE subs[s].ackSec

(* PullMessages reads the subscription and the clock before it locks. *)
PullMessages(c, s, limit) ==
    /\ Idle(c)
    /\ Stored(s)
    /\ Hold(c, [op |-> "pull", sub |-> s, now |-> now, deadline |-> now + AckSeconds(s),
                limit |-> IF limit <= 0 THEN DefaultLimit ELSE limit])
    /\ UNCHANGED <<topics, subs, queues, msgSeq, ackSeq, now, history>>

(* The loop over the slice takes the first limit entries that are available. *)
FirstAvailable(q, t, limit) ==
    LET avail == {e \in q : Available(e, t)}
    IN {T \in SUBSET avail :
           /\ Cardinality(T) <= limit
           /\ T # avail => Cardinality(T) = limit
           /\ \A e \in T, d \in avail : d.slot < e.slot => d \in T}

(* Mutant: a pull hands out the id the entry already has. *)
ReusedAcks(T) == {[e \in T |-> e.ackID]}

(* The fresh ack numbers of the entries taken, in slice order. *)
FreshAcks(T) ==
    {ack \in [T -> (ackSeq + 1) .. (ackSeq + Cardinality(T))] :
        \A e, d \in T : e.slot < d.slot => ack[e] < ack[d]}

Leased(e, k, deadline) ==
    [e EXCEPT !.ackID = k, !.inflight = TRUE, !.deadline = deadline]

Attempt(s, m) == Cardinality({h \in handed : h.sub = s /\ h.msg = m})

(* Mutant: the pull dequeues what it returns. *)
PullDequeues(c) ==
    /\ req[c].op = "pull"
    /\ LET s == req[c].sub
       IN \E T \in FirstAvailable(queues[s], req[c].now, req[c].limit) :
             /\ ackSeq + Cardinality(T) <= MaxAcks
             /\ queues' = [queues EXCEPT ![s] = @ \ T]
             /\ \E ack \in FreshAcks(T) :
                   handed' = handed \cup
                        {[ack |-> ack[e], sub |-> s, msg |-> e.msg,
                          attempt |-> Attempt(s, e.msg)] : e \in T}
             /\ ackSeq' = ackSeq + Cardinality(T)
    /\ Done(c)
    /\ UNCHANGED <<topics, subs, msgSeq, now, acked, nacked, owed>>

PullLocked(c) ==
    /\ req[c].op = "pull"
    /\ LET s == req[c].sub
           q == queues[s]
       IN \E T \in FirstAvailable(q, req[c].now, req[c].limit) :
             /\ ackSeq + Cardinality(T) <= MaxAcks
             /\ \E ack \in FreshAcks(T) :
                   /\ queues' = [queues EXCEPT ![s] =
                        (q \ T) \cup {Leased(e, ack[e], req[c].deadline) : e \in T}]
                   /\ handed' = handed \cup
                        {[ack |-> ack[e], sub |-> s, msg |-> e.msg,
                          attempt |-> Attempt(s, e.msg)] : e \in T}
             /\ ackSeq' = ackSeq + Cardinality(T)
    /\ Done(c)
    /\ UNCHANGED <<topics, subs, msgSeq, now, acked, nacked, owed>>

-----------------------------------------------------------------------------
(* A client knows the ack ids it was handed, and may name them more than    *)
(* once, late, together, or on another subscription.                        *)
KnownAcks == {h.ack : h \in handed}

Acknowledge(c, s, ids) ==
    /\ Idle(c)
    /\ Stored(s)
    /\ Hold(c, [op |-> "ack", sub |-> s, ids |-> ids])
    /\ UNCHANGED <<topics, subs, queues, msgSeq, ackSeq, now, history>>

(* Mutant: the in-flight test of the acknowledgement is missing. *)
ConsumedInAnyState(e, ids) == e.ackID \in ids

Consumed(e, ids) == e.ackID \in ids /\ e.inflight

AcknowledgeLocked(c) ==
    /\ req[c].op = "ack"
    /\ queues' = [queues EXCEPT ![req[c].sub] = {e \in @ : ~Consumed(e, req[c].ids)}]
    /\ acked' = acked \cup req[c].ids
    /\ Done(c)
    /\ UNCHANGED <<topics, subs, msgSeq, ackSeq, now, handed, nacked, owed>>

ModifyAckDeadline(c, s, ids, sec) ==
    /\ Idle(c)
    /\ Stored(s)
    /\ Hold(c, [op |-> "modack", sub |-> s, ids |-> ids, sec |-> sec, now |-> now])
    /\ UNCHANGED <<topics, subs, queues, msgSeq, ackSeq, now, history>>

Modified(e, r) ==
    IF e.ackID \notin r.ids THEN e
    ELSE IF r.sec <= 0 THEN [e EXCEPT !.inflight = FALSE, !.deadline = 0]
    ELSE [e EXCEPT !.deadline = r.now + r.sec]

ModifyAckDeadlineLocked(c) ==
    /\ req[c].op = "modack"
    /\ LET r == req[c] IN
          /\ queues' = [queues EXCEPT ![r.sub] = {Modified(e, r) : e \in @}]
          /\ nacked' = IF r.sec <= 0
                       THEN nacked \cup {e.ackID : e \in {d \in queues[r.sub] : d.ackID \in r.ids}}
                       ELSE nacked
    /\ Done(c)
    /\ UNCHANGED <<topics, subs, msgSeq, ackSeq, now, handed, acked, owed>>

Tick ==
    /\ now < MaxTime
    /\ now' = now + 1
    /\ UNCHANGED <<topics, subs, queues, msgSeq, ackSeq, req, history>>

-----------------------------------------------------------------------------
Init ==
    /\ topics = {}
    /\ subs = [s \in Subs |-> NoSub]
    /\ queues = [s \in Subs |-> {}]
    /\ msgSeq = 0 /\ ackSeq = 0 /\ now = 0
    /\ req = [c \in Clients |-> NoReq]
    /\ handed = {} /\ acked = {} /\ nacked = {}
    /\ owed = [s \in Subs |-> {}]

Begin(c) ==
    \/ \E s \in Subs, t \in Topics, sec \in AckDeadlines :
          CreateSubscription(c, s, t, sec) \/ PutSubscription(c, s, t, sec)
    \/ \E s \in Subs : DeleteSubscription(c, s)
    \/ \E t \in Topics, n \in 0..MaxBatch : PublishMessages(c, t, n)
    \/ \E s \in Subs, limit \in Limits : PullMessages(c, s, limit)
    \/ \E s \in Subs, ids \in SUBSET KnownAcks \ {{}} :
          \/ Acknowledge(c, s, ids)
          \/ \E sec \in ModSeconds : ModifyAckDeadline(c, s, ids, sec)

Continue(c) ==
    \/ StoreSubscription(c)
    \/ DropQueue(c)
    \/ PublishList(c)
    \/ PublishID(c)
    \/ PublishEnqueue(c)
    \/ PullLocked(c)
    \/ AcknowledgeLocked(c)
    \/ ModifyAckDeadlineLocked(c)

Next ==
    \/ \E t \in Topics : PutTopic(t) \/ DeleteTopic(t)
    \/ \E s \in Subs : ResetSubscription(s)
    \/ \E c \in Clients : Begin(c) \/ Continue(c)
    \/ Tick

Spec == Init /\ [][Next]_vars

-----------------------------------------------------------------------------
(* Properties. *)

TypeOK ==
    /\ topics \subseteq Topics
    /\ subs \in [Subs -> Subscription \cup {NoSub}]
    /\ queues \in [Subs -> SUBSET Entry]
    /\ msgSeq \in Nat /\ ackSeq \in Nat /\ now \in Nat
    /\ req \in [Clients -> Request]
    /\ handed \subseteq Delivery
    /\ acked \subseteq Nat /\ nacked \subseteq Nat
    /\ owed \in [Subs -> SUBSET Nat]

(* An ack id names one delivery for ever: neither a redelivery of the same   *)
(* message nor any other subscription's delivery reuses it, although publish *)
(* and pull draw from the same counter and a redelivery overwrites the id    *)
(* kept in the queue (PullMessages).                                         *)
AckNamesOneDelivery ==
    \A g, h \in handed : g.ack = h.ack => g = h

InQueue(s, m) == \E e \in queues[s] : e.msg = m

Newest(h) == \A g \in handed : g.sub = h.sub /\ g.msg = h.msg => g.ack <= h.ack

(* At-least-once delivery: a message that publish enqueued for a subscription *)
(* leaves its queue only because the receiver of its newest delivery          *)
(* acknowledged it; a late acknowledgement of a lease that has expired and    *)
(* was given to somebody else consumes nothing.                               *)
NoLostMessage ==
    \A s \in Subs : \A m \in owed[s] :
        \/ InQueue(s, m)
        \/ \E h \in handed : h.sub = s /\ h.msg = m /\ Newest(h) /\ h.ack \in acked

(* A nack is final for its lease: a message nacked through its newest lease *)
(* stays in the queue until it is delivered again, even when an             *)
(* acknowledgement of the nacked lease arrives afterwards.                  *)
NackIsFinal ==
    \A h \in handed :
        h.ack \in nacked /\ Newest(h) /\ h.msg \in owed[h.sub] => InQueue(h.sub, h.msg)

(* A lease is exclusive: while the clock has not passed the deadline of an   *)
(* in-flight message no pull, however old the time it read before it got the *)
(* lock, hands the message to somebody else.                                 *)
ExclusiveLease ==
    [][\A s \in Subs : \A e \in queues[s], d \in queues'[s] :
          d.slot = e.slot /\ d.ackID # e.ackID => ~e.inflight \/ now > e.deadline]_vars

(* Concurrent publishers are not reordered: two messages that are queued for *)
(* two subscriptions stand in the same order in both queues.                 *)
SameOrderEverywhere ==
    \A s, t \in Subs : \A e1, e2 \in queues[s], d1, d2 \in queues[t] :
        e1.msg = d1.msg /\ e2.msg = d2.msg => (e1.slot < e2.slot <=> d1.slot < d2.slot)

-----------------------------------------------------------------------------
(* The inductive invariant behind the properties. *)
PendingIDs(c) == IF req[c].op = "publish" THEN {req[c].ids[i] : i \in 1..Len(req[c].ids)} ELSE {}

(* Queues and history are finite, so the counters stay numbers. *)
FiniteData == (\A s \in Subs : IsFiniteSet(queues[s])) /\ IsFiniteSet(handed)

(* The counters are ahead of everything drawn from them. *)
CountersAhead ==
    /\ \A s \in Subs : \A e \in queues[s] : e.slot <= ackSeq /\ e.ackID <= ackSeq
    /\ \A h \in handed : h.ack <= ackSeq
    /\ \A a \in nacked : a <= ackSeq
    /\ \A s \in Subs : \A m \in owed[s] : m <= msgSeq
    /\ \A c \in Clients : \A m \in PendingIDs(c) : m <= msgSeq

(* A queue holds a message once, and the ids in the queues are distinct. *)
EntriesDistinct ==
    /\ \A s \in Subs : \A e, d \in queues[s] : e.slot = d.slot \/ e.msg = d.msg => e = d
    /\ \A s, t \in Subs : \A e \in queues[s], d \in queues[t] :
          e.ackID = d.ackID => s = t /\ e = d

(* A message between its id and its queue is known to nobody else. *)
PendingUnknown ==
    /\ \A c \in Clients : \A m \in PendingIDs(c) : \A s \in Subs : m \notin owed[s]
    /\ \A c \in Clients : \A m \in PendingIDs(c) : \A h \in handed : h.msg # m
    /\ \A c, d \in Clients : \A m \in PendingIDs(c) : m \in PendingIDs(d) => c = d

(* The ids of one batch increase. *)
BatchOrdered ==
    \A c \in Clients : req[c].op = "publish" =>
        \A i, j \in 1..Len(req[c].ids) : i < j => req[c].ids[i] < req[c].ids[j]

(* The id of an in-flight entry is the one its newest receiver was handed. *)
LeaseBinding ==
    /\ \A s \in Subs : \A e \in queues[s] : e.msg \in owed[s]
    /\ \A h \in handed : h.msg <= msgSeq
    /\ \A s \in Subs : \A e \in queues[s] : e.inflight =>
          /\ e.ackID \notin nacked
          /\ \E h \in handed : h.ack = e.ackID /\ h.sub = s /\ h.msg = e.msg
    /\ \A s \in Subs : \A e \in queues[s], h \in handed :
          /\ h.ack = e.ackID => h.sub = s /\ h.msg = e.msg
          /\ h.sub = s /\ h.msg = e.msg => h.ack <= e.ackID

(* What is owed and not queued was consumed through its newest lease. *)
GoneWasAcked ==
    \A s \in Subs : \A m \in owed[s] :
        \/ InQueue(s, m)
        \/ \E h \in handed : /\ h.sub = s /\ h.msg = m /\ Newest(h)
                             /\ h.ack \in acked /\ h.ack \notin nacked

(* The clock values the goroutines carry are not from the future. *)
ClocksBehind == \A c \in Clients : req[c].op = "pull" => req[c].now <= now

IInv ==
    /\ TypeOK /\ FiniteData /\ CountersAhead /\ EntriesDistinct /\ PendingUnknown /\ BatchOrdered
    /\ LeaseBinding /\ AckNamesOneDelivery /\ GoneWasAcked /\ ClocksBehind /\ SameOrderEverywhere

-----------------------------------------------------------------------------
(* Refinement: the queues implement AtLeastOnce. *)
Outbox == [s \in Subs |-> {e.msg : e \in queues[s]}]

LeasesOf(s) ==
    {[sub |-> s, msg |-> e.msg, ack |-> e.ackID] : e \in {d \in queues[s] : d.inflight}}

Leases == UNION {LeasesOf(s) : s \in Subs}

(* The message ids that are out of the hands of their publisher. *)
PublishedIDs == (1..msgSeq) \ UNION {PendingIDs(c) : c \in Clients}

Promise == INSTANCE AtLeastOnce WITH
    Msgs <- 1..MaxMsgs,
    Acks <- 1..MaxAcks,
    outbox <- Outbox,
    lease <- Leases,
    published <- PublishedIDs,
    issued <- KnownAcks

(* The message ids a publisher holds are numbers the counter has given. *)
IdsInRange ==
    msgSeq <= MaxMsgs /\ \A c \in Clients : \A m \in PendingIDs(c) : m \in 1..MaxMsgs

(* Every step of the queues is a step the at-least-once promise allows. *)
KeepsPromise == Promise!Spec
=============================================================================
