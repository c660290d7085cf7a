---------------------------- MODULE PubSubProofs ----------------------------
(* Proofs about PubSub, for all values of its constants. *)
EXTENDS PubSub, FiniteSetTheorems, TLAPS

(* The fields of a request are those of its operation (req in PubSub). *)
LEMMA RequestFields ==
  ASSUME NEW r \in Request
  PROVE  /\ r.op = "put" => r \in PutReq
         /\ r.op = "delete" => r \in DeleteReq
         /\ r.op = "publish" => r \in PublishReq
         /\ r.op = "pull" => r \in PullReq
         /\ r.op = "ack" => r \in AckReq
         /\ r.op = "modack" => r \in ModAckReq
  BY DEF Request, NoReq, PutReq, DeleteReq, PublishReq, PullReq, AckReq, ModAckReq

(* A goroutine that parks a well-formed request keeps req well typed (Hold). *)
LEMMA HoldType ==
  ASSUME TypeOK, NEW c \in Clients, NEW r \in Request, Hold(c, r)
  PROVE  req' \in [Clients -> Request]
  BY DEF Hold, TypeOK

(* The positions of a slice are finitely many (ids in PublishMessages). *)
LEMMA PositionsFinite ==
  ASSUME NEW n \in Nat
  PROVE  IsFiniteSet(1..n)
  <1>1. 1 \in Int /\ n \in Int
    OBVIOUS
  <1>2. QED
    BY <1>1, FS_Interval, Zenon

(* The image of a finite set under a function is finite. *)
LEMMA ImageFinite ==
  ASSUME NEW S, NEW T, IsFiniteSet(S), NEW f \in [S -> T],
         \A y \in T : \E x \in S : f[x] = y
  PROVE  IsFiniteSet(T)
  <1>1. f \in Surjection(S, T)
    BY DEF Surjection
  <1>2. QED
    BY <1>1, FS_Surjection

(* A pull takes a finite part of the queue (FirstAvailable). *)
LEMMA TakenFinite ==
  ASSUME NEW q, IsFiniteSet(q), NEW t, NEW limit, NEW T \in FirstAvailable(q, t, limit)
  PROVE  T \subseteq q /\ IsFiniteSet(T) /\ Cardinality(T) \in Nat
  <1>1. T \subseteq q
    BY DEF FirstAvailable
  <1>2. QED
    BY <1>1, FS_Subset, FS_CardinalityType

(* The state carries only well-typed values, and the queues stay finite, so  *)
(* the counters PublishMessages and PullMessages advance stay numbers.       *)
TypeInv == TypeOK /\ FiniteData

LEMMA TypeInit == Init => TypeInv
  BY FS_EmptySet, PubSubAssumption
     DEF Init, TypeInv, TypeOK, FiniteData, Request, NoReq, NoSub

LEMMA TypeStep == TypeInv /\ [Next]_vars => TypeInv'
  <1> SUFFICES ASSUME TypeOK, FiniteData, [Next]_vars
               PROVE  TypeOK' /\ FiniteData'
    BY DEF TypeInv
  <1> USE PubSubAssumption
  <1>1. ASSUME NEW t \in Topics, PutTopic(t) \/ DeleteTopic(t)
        PROVE  TypeOK' /\ FiniteData'
    BY <1>1 DEF PutTopic, DeleteTopic, TypeOK, FiniteData, history
  <1>2. ASSUME NEW s \in Subs, ResetSubscription(s)
        PROVE  TypeOK' /\ FiniteData'
    BY <1>2 DEF ResetSubscription, TypeOK, FiniteData, history
  <1>3. ASSUME NEW c \in Clients, NEW s \in Subs, NEW t \in Topics, NEW sec \in AckDeadlines,
               CreateSubscription(c, s, t, sec) \/ PutSubscription(c, s, t, sec)
        PROVE  TypeOK' /\ FiniteData'
    <2> DEFINE r(ack) == [op |-> "put", sub |-> s, res |-> [topic |-> t, ackSec |-> ack]]
    <2>1. PICK ack \in Int : Hold(c, r(ack))
      BY <1>3 DEF CreateSubscription, PutSubscription
    <2>2. r(ack) \in Request
      BY DEF Request, PutReq, Subscription
    <2>3. req' \in [Clients -> Request]
      BY <2>1, <2>2, HoldType
    <2>4. QED
      BY <1>3, <2>3 DEF CreateSubscription, PutSubscription, TypeOK, FiniteData, history
  <1>4. ASSUME NEW c \in Clients, NEW s \in Subs, DeleteSubscription(c, s)
        PROVE  TypeOK' /\ FiniteData'
    BY <1>4 DEF DeleteSubscription, TypeOK, FiniteData, history, Hold, Request, DeleteReq
  <1>5. ASSUME NEW c \in Clients, NEW t \in Topics, NEW n \in 0..MaxBatch, PublishMessages(c, t, n)
        PROVE  TypeOK' /\ FiniteData'
    BY <1>5 DEF PublishMessages, TypeOK, FiniteData, history, Hold, Request, PublishReq
  <1>6. ASSUME NEW c \in Clients, NEW s \in Subs, NEW limit \in Limits, PullMessages(c, s, limit)
        PROVE  TypeOK' /\ FiniteData'
    <2>1. subs[s] \in Subscription
      BY <1>6 DEF PullMessages, Stored, TypeOK
    <2>2. AckSeconds(s) \in Int
      BY <2>1 DEF AckSeconds, Subscription
    <2>3. QED
      BY <1>6, <2>2 DEF PullMessages, TypeOK, FiniteData, history, Hold, Request, PullReq
  <1>7. ASSUME NEW c \in Clients, NEW s \in Subs, NEW ids \in SUBSET KnownAcks,
               Acknowledge(c, s, ids)
        PROVE  TypeOK' /\ FiniteData'
    BY <1>7 DEF Acknowledge, KnownAcks, TypeOK, FiniteData, history, Hold, Request, AckReq, Delivery
  <1>8. ASSUME NEW c \in Clients, NEW s \in Subs, NEW ids \in SUBSET KnownAcks,
               NEW sec \in ModSeconds, ModifyAckDeadline(c, s, ids, sec)
        PROVE  TypeOK' /\ FiniteData'
    <2>1. ids \subseteq Nat /\ now \in Nat /\ sec \in Int
      BY DEF KnownAcks, TypeOK, Delivery
    <2>2. [op |-> "modack", sub |-> s, ids |-> ids, sec |-> sec, now |-> now] \in Request
      BY <2>1 DEF Request, ModAckReq
    <2>3. req' \in [Clients -> Request]
      BY <1>8, <2>2, HoldType DEF ModifyAckDeadline
    <2>4. QED
      BY <1>8, <2>3 DEF ModifyAckDeadline, TypeOK, FiniteData, history
  <1>9. ASSUME NEW c \in Clients, StoreSubscription(c)
        PROVE  TypeOK' /\ FiniteData'
    <2>1. req[c] \in PutReq
      BY <1>9, RequestFields DEF StoreSubscription, TypeOK
    <2>2. QED
      BY <1>9, <2>1 DEF StoreSubscription, Done, Hold, TypeOK, FiniteData, history, Request,
                        PutReq, NoReq
  <1>10. ASSUME NEW c \in Clients, DropQueue(c)
         PROVE  TypeOK' /\ FiniteData'
    <2>1. req[c] \in DeleteReq
      BY <1>10, RequestFields DEF DropQueue, TypeOK
    <2>2. QED
      BY <1>10, <2>1, FS_EmptySet DEF DropQueue, Done, Hold, TypeOK, FiniteData, Request,
                         DeleteReq, NoReq
  <1>11. ASSUME NEW c \in Clients, PublishList(c)
         PROVE  TypeOK' /\ FiniteData'
    <2>1. req[c] \in PublishReq
      BY <1>11, RequestFields DEF PublishList, TypeOK
    <2>2. [req[c] EXCEPT !.step = "ids", !.targets = SubsForTopic(req[c].topic)] \in PublishReq
      BY <2>1 DEF PublishReq, SubsForTopic
    <2>3. QED
      BY <1>11, <2>2 DEF PublishList, Hold, TypeOK, FiniteData, history, Request
  <1>12. ASSUME NEW c \in Clients, PublishID(c)
         PROVE  TypeOK' /\ FiniteData'
    <2>1. req[c] \in PublishReq
      BY <1>12, RequestFields DEF PublishID, TypeOK
    <2>a. req[c].left - 1 \in Nat /\ Append(req[c].ids, msgSeq + 1) \in Seq(Nat)
      BY <1>12, <2>1, SMTT(30) DEF PublishReq, PublishID, TypeOK
    <2>2. [req[c] EXCEPT !.left = @ - 1, !.ids = Append(@, msgSeq + 1)] \in PublishReq
      BY <2>1, <2>a DEF PublishReq
    <2>3. QED
      BY <1>12, <2>2 DEF PublishID, Hold, TypeOK, FiniteData, history, Request
  <1>13. ASSUME NEW c \in Clients, PublishEnqueue(c)
         PROVE  TypeOK' /\ FiniteData'
    <2> DEFINE ids == req[c].ids
               S == req[c].targets
               total == Cardinality(S) * Len(ids)
    <2>1. req[c] \in PublishReq
      BY <1>13, RequestFields DEF PublishEnqueue, TypeOK
    <2>2. S \subseteq Subs /\ ids \in Seq(Nat) /\ Len(ids) \in Nat
      BY <2>1 DEF PublishReq
    <2>3. Cardinality(S) \in Nat /\ total \in Nat
      BY <2>2, FS_Subset, FS_CardinalityType
    <2>4. PICK base \in AckBlocks(S, Len(ids)) :
             queues' = [s \in Subs |->
                    IF s \in S
                    THEN queues[s] \cup {NewEntry(base[s] + i, ids[i]) : i \in 1..Len(ids)}
                    ELSE queues[s]]
      BY <1>13 DEF PublishEnqueue
    <2>5. \A s \in S : base[s] \in Nat
      BY <2>3 DEF AckBlocks, TypeOK
    <2>6. \A s \in S : \A i \in 1..Len(ids) : NewEntry(base[s] + i, ids[i]) \in Entry
      BY <2>2, <2>5 DEF NewEntry, Entry
    <2>7. queues' \in [Subs -> SUBSET Entry]
      BY <2>4, <2>6 DEF TypeOK
    <2>8. \A s \in S : IsFiniteSet({NewEntry(base[s] + i, ids[i]) : i \in 1..Len(ids)})
      <3> TAKE s \in S
      <3>1. IsFiniteSet(1..Len(ids))
        BY <2>2, PositionsFinite, Zenon
      <3> DEFINE T == {NewEntry(base[s] + i, ids[i]) : i \in 1..Len(ids)}
                 f == [i \in 1..Len(ids) |-> NewEntry(base[s] + i, ids[i])]
      <3>2. f \in [1..Len(ids) -> T] /\ \A y \in T : \E i \in 1..Len(ids) : f[i] = y
        OBVIOUS
      <3> HIDE DEF f, T
      <3>3. IsFiniteSet(T)
        BY <3>1, <3>2, ImageFinite
      <3>4. QED
        BY <3>3 DEF T
    <2>9. \A s \in Subs : IsFiniteSet(queues'[s])
      BY <2>4, <2>8, FS_Union DEF FiniteData, TypeOK
    <2>10. owed' \in [Subs -> SUBSET Nat]
      BY <1>13, <2>2 DEF PublishEnqueue, TypeOK
    <2>11. req' \in [Clients -> Request]
      BY <1>13 DEF PublishEnqueue, Done, Hold, TypeOK, Request
    <2>12. ackSeq' \in Nat
      BY <1>13, <2>3 DEF PublishEnqueue, TypeOK
    <2>13. QED
      BY <1>13, <2>7, <2>9, <2>10, <2>11, <2>12 DEF PublishEnqueue, TypeOK, FiniteData
  <1>14. ASSUME NEW c \in Clients, PullLocked(c)
         PROVE  TypeOK' /\ FiniteData'
    <2> DEFINE s == req[c].sub
               q == queues[s]
    <2>1. req[c] \in PullReq /\ s \in Subs
      BY <1>14, RequestFields DEF PullLocked, TypeOK, PullReq
    <2>2. PICK T \in FirstAvailable(q, req[c].now, req[c].limit) :
             /\ \E ack \in FreshAcks(T) :
                   /\ queues' = [queues EXCEPT ![s] =
                        (q \ T) \cup {Leased(e, ack[e], req[c].deadline) : e \in T}]
                   /\ handed' = handed \cup
                        {[ack |-> ack[e], sub |-> s, msg |-> e.msg,
                          attempt |-> Attempt(s, e.msg)] : e \in T}
             /\ ackSeq' = ackSeq + Cardinality(T)
      BY <1>14 DEF PullLocked
    <2>3. T \subseteq q /\ IsFiniteSet(T) /\ Cardinality(T) \in Nat
      BY <2>1, TakenFinite DEF FiniteData
    <2>4. PICK ack \in FreshAcks(T) :
                   /\ queues' = [queues EXCEPT ![s] =
                        (q \ T) \cup {Leased(e, ack[e], req[c].deadline) : e \in T}]
                   /\ handed' = handed \cup
                        {[ack |-> ack[e], sub |-> s, msg |-> e.msg,
                          attempt |-> Attempt(s, e.msg)] : e \in T}
      BY <2>2
    <2>5. \A e \in T : ack[e] \in Nat /\ e \in Entry
      BY <2>1, <2>3 DEF FreshAcks, TypeOK
    <2>6. \A e \in T : Leased(e, ack[e], req[c].deadline) \in Entry
      BY <2>1, <2>5, ZenonT(60) DEF Leased, Entry, PullReq
    <2>7. \A m : Attempt(s, m) \in Nat
      <3> TAKE m
      <3>1. IsFiniteSet({h \in handed : h.sub = s /\ h.msg = m})
        BY FS_Subset DEF FiniteData
      <3>2. QED
        BY <3>1, FS_CardinalityType DEF Attempt
    <2>8. \A e \in T : [ack |-> ack[e], sub |-> s, msg |-> e.msg,
                        attempt |-> Attempt(s, e.msg)] \in Delivery
      BY <2>1, <2>5, <2>7 DEF Delivery, Entry
    <2>9. queues' \in [Subs -> SUBSET Entry] /\ handed' \subseteq Delivery
      BY <2>1, <2>4, <2>6, <2>8 DEF TypeOK
    <2>10. IsFiniteSet({Leased(e, ack[e], req[c].deadline) : e \in T})
      <3> DEFINE U == {Leased(e, ack[e], req[c].deadline) : e \in T}
                 f == [e \in T |-> Leased(e, ack[e], req[c].deadline)]
      <3>1. f \in [T -> U] /\ \A y \in U : \E e \in T : f[e] = y
        OBVIOUS
      <3> HIDE DEF f, U
      <3>2. IsFiniteSet(U)
        BY <2>3, <3>1, ImageFinite
      <3>3. QED
        BY <3>2 DEF U
    <2>11. IsFiniteSet({[ack |-> ack[e], sub |-> s, msg |-> e.msg,
                         attempt |-> Attempt(s, e.msg)] : e \in T})
      <3> DEFINE d(e) == [ack |-> ack[e], sub |-> s, msg |-> e.msg,
                          attempt |-> Attempt(s, e.msg)]
                 U == {d(e) : e \in T}
                 f == [e \in T |-> d(e)]
      <3>1. f \in [T -> U] /\ \A y \in U : \E e \in T : f[e] = y
        OBVIOUS
      <3> HIDE DEF f, U
      <3>2. IsFiniteSet(U)
        BY <2>3, <3>1, ImageFinite
      <3>3. QED
        BY <3>2 DEF U
    <2>12. IsFiniteSet(q \ T)
      BY <2>1, FS_Subset DEF FiniteData
    <2>13. FiniteData'
      BY <2>1, <2>4, <2>10, <2>11, <2>12, FS_Union DEF FiniteData, TypeOK
    <2>14. req' \in [Clients -> Request] /\ ackSeq' \in Nat
      BY <1>14, <2>2, <2>3 DEF PullLocked, Done, Hold, TypeOK, Request
    <2>15. QED
      BY <1>14, <2>9, <2>13, <2>14 DEF PullLocked, TypeOK
  <1>15. ASSUME NEW c \in Clients, AcknowledgeLocked(c)
         PROVE  TypeOK' /\ FiniteData'
    <2>1. req[c] \in AckReq
      BY <1>15, RequestFields DEF AcknowledgeLocked, TypeOK
    <2>2. IsFiniteSet({e \in queues[req[c].sub] : ~Consumed(e, req[c].ids)})
      BY <2>1, FS_Subset DEF FiniteData, AckReq
    <2>3. QED
      BY <1>15, <2>1, <2>2 DEF AcknowledgeLocked, Done, Hold, TypeOK, FiniteData, Request, AckReq
  <1>16. ASSUME NEW c \in Clients, ModifyAckDeadlineLocked(c)
         PROVE  TypeOK' /\ FiniteData'
    <2> DEFINE r == req[c]
    <2>1. r \in ModAckReq /\ r.sub \in Subs
      BY <1>16, RequestFields DEF ModifyAckDeadlineLocked, TypeOK, ModAckReq
    <2>2. \A e \in queues[r.sub] : Modified(e, r) \in Entry
      <3> TAKE e \in queues[r.sub]
      <3>1. e \in Entry /\ r.now + r.sec \in Int
        BY <2>1 DEF TypeOK, ModAckReq
      <3> DEFINE later == r.now + r.sec
      <3> HIDE DEF later
      <3>2. [e EXCEPT !.deadline = later] \in Entry
        BY <3>1 DEF Entry, later
      <3> DEFINE d == [e EXCEPT !.inflight = FALSE]
      <3>a. d \in Entry
        BY <3>1 DEF Entry
      <3> HIDE DEF d
      <3>b. [d EXCEPT !.deadline = 0] \in Entry
        BY <3>a DEF Entry
      <3>3. [e EXCEPT !.inflight = FALSE, !.deadline = 0] \in Entry
        BY <3>b DEF d
      <3>4. QED
        BY <3>1, <3>2, <3>3 DEF Modified, later
    <2>3. IsFiniteSet({Modified(e, r) : e \in queues[r.sub]})
      <3> DEFINE q == queues[r.sub]
                 U == {Modified(e, r) : e \in q}
                 f == [e \in q |-> Modified(e, r)]
      <3>1. f \in [q -> U] /\ \A y \in U : \E e \in q : f[e] = y
        OBVIOUS
      <3>2. IsFiniteSet(q)
        BY <2>1 DEF FiniteData
      <3> HIDE DEF f, q, U
      <3>3. IsFiniteSet(U)
        BY <3>1, <3>2, ImageFinite
      <3>4. QED
        BY <3>3 DEF U, q
    <2>4. nacked' \subseteq Nat
      <3>1. \A e \in queues[r.sub] : e.ackID \in Nat
        BY <2>1 DEF TypeOK, Entry
      <3>2. QED
        BY <1>16, <3>1 DEF ModifyAckDeadlineLocked, TypeOK
    <2>5. QED
      BY <1>16, <2>1, <2>2, <2>3, <2>4
         DEF ModifyAckDeadlineLocked, Done, Hold, TypeOK, FiniteData, Request
  <1>17. CASE Tick
    BY <1>17 DEF Tick, TypeOK, FiniteData, history
  <1>18. CASE UNCHANGED vars
    BY <1>18 DEF vars, TypeOK, FiniteData
  <1>19. QED
    BY <1>1, <1>2, <1>3, <1>4, <1>5, <1>6, <1>7, <1>8, <1>9, <1>10, <1>11, <1>12, <1>13,
       <1>14, <1>15, <1>16, <1>17, <1>18
    DEF Next, Begin, Continue

(* Every reachable state is well typed. *)
THEOREM TypeCorrect == Spec => []TypeOK
  <1>1. Spec => []TypeInv
    BY TypeInit, TypeStep, PTL DEF Spec
  <1>2. TypeInv => TypeOK
    BY DEF TypeInv
  <1>3. QED
    BY <1>1, <1>2, PTL

-----------------------------------------------------------------------------
(* The inductive invariant.  The steps that read or write only the store and *)
(* the parked requests leave its data part alone.                            *)
LEMMA IInvInit == Init => IInv
  <1> SUFFICES ASSUME Init PROVE IInv
    OBVIOUS
  <1>1. TypeOK /\ FiniteData
    BY TypeInit DEF TypeInv
  <1>2. \A c \in Clients : PendingIDs(c) = {} /\ req[c].op = "none"
    BY DEF Init, PendingIDs, NoReq
  <1>3. CountersAhead /\ EntriesDistinct /\ PendingUnknown /\ BatchOrdered /\ LeaseBinding
    BY <1>2 DEF Init, CountersAhead, EntriesDistinct, PendingUnknown, BatchOrdered, LeaseBinding
  <1>4. AckNamesOneDelivery /\ GoneWasAcked /\ ClocksBehind /\ SameOrderEverywhere
    BY <1>2 DEF Init, AckNamesOneDelivery, GoneWasAcked, ClocksBehind, SameOrderEverywhere
  <1>5. QED
    BY <1>1, <1>3, <1>4 DEF IInv

(* A parked request that brings no ids of its own shrinks the pending ids. *)
LEMMA PendingShrinks ==
  ASSUME TypeOK, BatchOrdered, NEW c \in Clients, NEW r, Hold(c, r),
         r.op = "publish" => \/ r.ids = <<>>
                             \/ req[c].op = "publish" /\ r.ids = req[c].ids
  PROVE  /\ \A d \in Clients : PendingIDs(d)' \subseteq PendingIDs(d)
         /\ BatchOrdered'
  <1>1. /\ req'[c] = r
        /\ \A d \in Clients : d # c => req'[d] = req[d]
    BY DEF Hold, TypeOK
  <1>2. \A d \in Clients : PendingIDs(d)' \subseteq PendingIDs(d)
    BY <1>1 DEF PendingIDs
  <1>3. BatchOrdered'
    BY <1>1 DEF BatchOrdered
  <1>4. QED
    BY <1>2, <1>3

LEMMA QuietStep ==
  ASSUME IInv, TypeInv', BatchOrdered', ClocksBehind',
         UNCHANGED <<queues, msgSeq, ackSeq, handed, acked, nacked, owed>>,
         \A d \in Clients : PendingIDs(d)' \subseteq PendingIDs(d)
  PROVE  IInv'
  <1>1. CountersAhead'
    BY DEF IInv, CountersAhead
  <1>2. EntriesDistinct' /\ LeaseBinding' /\ AckNamesOneDelivery' /\ SameOrderEverywhere'
    BY DEF IInv, EntriesDistinct, LeaseBinding, AckNamesOneDelivery, SameOrderEverywhere
  <1>3. PendingUnknown'
    BY DEF IInv, PendingUnknown
  <1>4. GoneWasAcked'
    BY DEF IInv, GoneWasAcked, InQueue, Newest
  <1>5. QED
    BY <1>1, <1>2, <1>3, <1>4 DEF IInv, TypeInv

(* DropQueue empties one queue together with what is owed to it. *)
LEMMA DropQueueStep ==
  ASSUME IInv, TypeInv', NEW c \in Clients, DropQueue(c)
  PROVE  IInv'
  <1> DEFINE s == req[c].sub
  <1>1. s \in Subs
    BY RequestFields DEF IInv, TypeOK, DropQueue, DeleteReq
  <1>a. queues' = [queues EXCEPT ![s] = {}] /\ owed' = [owed EXCEPT ![s] = {}]
    BY DEF DropQueue
  <1>b. queues \in [Subs -> SUBSET Entry] /\ owed \in [Subs -> SUBSET Nat]
    BY DEF IInv, TypeOK
  <1>2. /\ \A t \in Subs : queues'[t] \subseteq queues[t]
        /\ \A t \in Subs : owed'[t] \subseteq owed[t]
        /\ \A t \in Subs : t # s => queues'[t] = queues[t]
        /\ queues'[s] = {} /\ owed'[s] = {}
    BY <1>1, <1>a, <1>b
  <1> HIDE DEF s
  <1>3. (\A d \in Clients : PendingIDs(d)' \subseteq PendingIDs(d)) /\ BatchOrdered'
    BY PendingShrinks DEF IInv, DropQueue, Done, NoReq
  <1>4. UNCHANGED <<msgSeq, ackSeq, now, handed, acked, nacked>>
    BY DEF DropQueue
  <1>5. ClocksBehind'
    BY <1>4 DEF DropQueue, Done, Hold, ClocksBehind, IInv, TypeOK, NoReq
  <1>6. CountersAhead' /\ EntriesDistinct' /\ SameOrderEverywhere' /\ AckNamesOneDelivery'
    BY <1>2, <1>3, <1>4
       DEF IInv, CountersAhead, EntriesDistinct, SameOrderEverywhere, AckNamesOneDelivery
  <1>c. PendingUnknown'
    BY <1>2, <1>3, <1>4 DEF IInv, PendingUnknown
  <1>d. \A t \in Subs : \A e \in queues'[t] : e.msg \in owed'[t]
    BY <1>1, <1>2, <1>a, <1>b DEF IInv, LeaseBinding
  <1>e. LeaseBinding'
    BY <1>2, <1>4, <1>d DEF IInv, LeaseBinding
  <1>7. PendingUnknown' /\ LeaseBinding'
    BY <1>c, <1>e
  <1>8. GoneWasAcked'
    BY <1>2, <1>4 DEF IInv, GoneWasAcked, InQueue, Newest
  <1>9. QED
    BY <1>3, <1>5, <1>6, <1>7, <1>8 DEF IInv, TypeInv

(* Acknowledge removes in-flight entries, whose ids their newest receivers hold. *)
LEMMA AcknowledgeStep ==
  ASSUME IInv, TypeInv', NEW c \in Clients, AcknowledgeLocked(c)
  PROVE  IInv'
  <1> DEFINE s == req[c].sub
             ids == req[c].ids
  <1>1. s \in Subs
    BY RequestFields DEF IInv, TypeOK, AcknowledgeLocked, AckReq
  <1>2. \A t \in Subs : queues'[t] = IF t = s THEN {e \in queues[t] : ~Consumed(e, ids)}
                                      ELSE queues[t]
    BY <1>1 DEF AcknowledgeLocked, IInv, TypeOK
  <1>3. acked' = acked \cup ids
    BY DEF AcknowledgeLocked
  <1> HIDE DEF s, ids
  <1>4. (\A d \in Clients : PendingIDs(d)' \subseteq PendingIDs(d)) /\ BatchOrdered'
    BY PendingShrinks DEF IInv, AcknowledgeLocked, Done, NoReq
  <1>5. UNCHANGED <<msgSeq, ackSeq, now, handed, nacked, owed>>
    BY DEF AcknowledgeLocked
  <1>6. ClocksBehind'
    BY <1>5 DEF AcknowledgeLocked, Done, Hold, ClocksBehind, IInv, TypeOK, NoReq
  <1>7. \A t \in Subs : queues'[t] \subseteq queues[t]
    BY <1>2
  <1>8. CountersAhead' /\ EntriesDistinct' /\ SameOrderEverywhere' /\ AckNamesOneDelivery'
    BY <1>4, <1>5, <1>7
       DEF IInv, CountersAhead, EntriesDistinct, SameOrderEverywhere, AckNamesOneDelivery
  <1>9. PendingUnknown' /\ LeaseBinding'
    BY <1>4, <1>5, <1>7 DEF IInv, PendingUnknown, LeaseBinding
  <1>10. GoneWasAcked'
    <2> SUFFICES ASSUME NEW t \in Subs, NEW m \in owed[t], ~InQueue(t, m)'
                 PROVE  \E h \in handed : /\ h.sub = t /\ h.msg = m /\ Newest(h)
                                         /\ h.ack \in acked' /\ h.ack \notin nacked
      BY <1>5 DEF GoneWasAcked, Newest
    <2>1. CASE ~InQueue(t, m)
      BY <2>1, <1>3 DEF IInv, GoneWasAcked
    <2>2. CASE InQueue(t, m)
      <3>1. PICK e \in queues[t] : e.msg = m /\ e \notin queues'[t]
        BY <2>2 DEF InQueue
      <3>2. e.inflight /\ e.ackID \in ids
        BY <3>1, <1>2 DEF Consumed
      <3>3. PICK h \in handed : h.ack = e.ackID /\ h.sub = t /\ h.msg = m
        BY <3>1, <3>2 DEF IInv, LeaseBinding
      <3>4. Newest(h) /\ h.ack \notin nacked
        BY <3>1, <3>2, <3>3 DEF IInv, LeaseBinding, Newest
      <3>5. QED
        BY <1>3, <3>2, <3>3, <3>4
    <2>3. QED
      BY <2>1, <2>2
  <1>11. QED
    BY <1>4, <1>6, <1>8, <1>9, <1>10 DEF IInv, TypeInv

(* ModifyAckDeadline keeps slot, message and id of every entry. *)
LEMMA ModifyAckDeadlineStep ==
  ASSUME IInv, TypeInv', NEW c \in Clients, ModifyAckDeadlineLocked(c)
  PROVE  IInv'
  <1> DEFINE r == req[c]
             Hit == {d \in queues[r.sub] : d.ackID \in r.ids}
  <1>1. r \in ModAckReq /\ r.sub \in Subs
    BY RequestFields DEF IInv, TypeOK, ModifyAckDeadlineLocked, ModAckReq
  <1>2. /\ \A t \in Subs : t # r.sub => queues'[t] = queues[t]
        /\ queues'[r.sub] = {Modified(e, r) : e \in queues[r.sub]}
    BY <1>1 DEF ModifyAckDeadlineLocked, IInv, TypeOK
  <1>3. nacked' = IF r.sec <= 0 THEN nacked \cup {e.ackID : e \in Hit} ELSE nacked
    BY DEF ModifyAckDeadlineLocked
  <1>4. UNCHANGED <<msgSeq, ackSeq, now, handed, acked, owed>>
    BY DEF ModifyAckDeadlineLocked
  <1>5. (\A d \in Clients : PendingIDs(d)' \subseteq PendingIDs(d)) /\ BatchOrdered'
    BY PendingShrinks DEF IInv, ModifyAckDeadlineLocked, Done, NoReq
  <1>6. ClocksBehind'
    BY <1>4 DEF ModifyAckDeadlineLocked, Done, Hold, ClocksBehind, IInv, TypeOK, NoReq
  <1>7. \A t \in Subs : \A e \in queues[t] : e \in Entry
    BY DEF IInv, TypeOK
  <1>8. \A e \in Entry : /\ Modified(e, r).slot = e.slot
                          /\ Modified(e, r).msg = e.msg
                          /\ Modified(e, r).ackID = e.ackID
    BY DEF Modified, Entry
  <1>9. \A e \in Entry : Modified(e, r).inflight => e.inflight /\ ~(r.sec <= 0 /\ e.ackID \in r.ids)
    BY DEF Modified, Entry
  <1> DEFINE Was(t, e) == IF t = r.sub THEN Modified(e, r) ELSE e
  <1>10. \A t \in Subs : queues'[t] = {Was(t, e) : e \in queues[t]}
    BY <1>2
  <1>11. \A t \in Subs : \A e \in queues[t] :
            /\ Was(t, e).slot = e.slot /\ Was(t, e).msg = e.msg /\ Was(t, e).ackID = e.ackID
            /\ Was(t, e).inflight => e.inflight
    BY <1>7, <1>8, <1>9
  <1>12. \A t \in Subs : \A e \in queues[t] : Was(t, e).inflight => e.ackID \notin nacked'
    <2> SUFFICES ASSUME NEW t \in Subs, NEW e \in queues[t], Was(t, e).inflight,
                        e.ackID \in nacked'
                 PROVE  FALSE
      OBVIOUS
    <2>1. e.inflight /\ e.ackID \notin nacked
      BY <1>11 DEF IInv, LeaseBinding
    <2>2. r.sec <= 0 /\ \E d \in Hit : d.ackID = e.ackID
      BY <1>3, <2>1
    <2>3. t = r.sub /\ e \in Hit
      BY <1>1, <2>2 DEF IInv, EntriesDistinct
    <2>4. QED
      BY <1>7, <1>9, <2>2, <2>3
  <1> HIDE DEF Was
  <1>13. CountersAhead'
    BY <1>1, <1>3, <1>4, <1>5, <1>10, <1>11 DEF IInv, CountersAhead
  <1>14. EntriesDistinct'
    BY <1>10, <1>11 DEF IInv, EntriesDistinct
  <1>15. SameOrderEverywhere'
    BY <1>10, <1>11 DEF IInv, SameOrderEverywhere
  <1>16. AckNamesOneDelivery' /\ PendingUnknown'
    BY <1>4, <1>5 DEF IInv, AckNamesOneDelivery, PendingUnknown
  <1>17. LeaseBinding'
    BY <1>4, <1>10, <1>11, <1>12 DEF IInv, LeaseBinding
  <1>18. GoneWasAcked'
    <2> SUFFICES ASSUME NEW t \in Subs, NEW m \in owed[t], ~InQueue(t, m)'
                 PROVE  \E h \in handed : /\ h.sub = t /\ h.msg = m /\ Newest(h)
                                         /\ h.ack \in acked /\ h.ack \notin nacked'
      BY <1>4 DEF GoneWasAcked, Newest
    <2>1. ~InQueue(t, m)
      BY <1>10, <1>11 DEF InQueue
    <2>2. PICK h \in handed : /\ h.sub = t /\ h.msg = m /\ Newest(h)
                              /\ h.ack \in acked /\ h.ack \notin nacked
      BY <2>1 DEF IInv, GoneWasAcked
    <2>3. h.ack \notin nacked'
      <3>1. ASSUME NEW d \in Hit, d.ackID = h.ack PROVE FALSE
        BY <1>1, <2>1, <2>2, <3>1 DEF IInv, LeaseBinding, InQueue
      <3>2. QED
        BY <1>3, <2>2, <3>1
    <2>4. QED
      BY <2>2, <2>3
  <1>19. QED
    BY <1>5, <1>6, <1>13, <1>14, <1>15, <1>16, <1>17, <1>18 DEF IInv, TypeInv

(* A fresh message id is above every id in the service. *)
LEMMA PublishIDStep ==
  ASSUME IInv, TypeInv', NEW c \in Clients, PublishID(c)
  PROVE  IInv'
  <1> DEFINE ids == req[c].ids
             new == msgSeq + 1
  <1>1. req[c] \in PublishReq /\ ids \in Seq(Nat)
    BY RequestFields DEF IInv, TypeOK, PublishID, PublishReq
  <1>2. msgSeq \in Nat /\ msgSeq' = new
    BY DEF IInv, TypeOK, PublishID
  <1>3. /\ req'[c] = [req[c] EXCEPT !.left = @ - 1, !.ids = Append(@, new)]
        /\ \A d \in Clients : d # c => req'[d] = req[d]
    BY DEF PublishID, Hold, IInv, TypeOK
  <1>4. req'[c].op = "publish" /\ req'[c].ids = Append(ids, new)
    BY <1>1, <1>3 DEF PublishID, PublishReq
  <1>5. UNCHANGED <<queues, ackSeq, now, handed, acked, nacked, owed>>
    BY DEF PublishID, history
  <1>6. PendingIDs(c) = {ids[i] : i \in 1..Len(ids)}
    BY DEF PendingIDs, PublishID
  <1>a. /\ \A i \in 1..Len(ids) : Append(ids, new)[i] = ids[i]
        /\ Append(ids, new)[Len(ids) + 1] = new
        /\ Len(ids) \in Nat
    BY <1>1, <1>2
  <1>7. PendingIDs(c)' = PendingIDs(c) \cup {new}
    <2>1. PendingIDs(c)' = {Append(ids, new)[i] : i \in 1..(Len(ids) + 1)}
      BY <1>1, <1>4, SMTT(30) DEF PendingIDs
    <2>2. QED
      BY <1>6, <1>a, <2>1
  <1>8. ASSUME NEW d \in Clients, d # c PROVE PendingIDs(d)' = PendingIDs(d)
    <2>1. req'[d] = req[d]
      BY <1>3, <1>8
    <2>2. QED
      BY <2>1 DEF PendingIDs
  <1>9. \A d \in Clients : \A m \in PendingIDs(d) : m \in Nat /\ m <= msgSeq
    <2> TAKE d \in Clients
    <2> TAKE m \in PendingIDs(d)
    <2>1. req[d] \in PublishReq
      BY RequestFields DEF IInv, TypeOK, PendingIDs
    <2>2. m \in Nat
      BY <2>1 DEF PendingIDs, PublishReq
    <2>3. QED
      BY <2>2 DEF IInv, CountersAhead
  <1>10. CountersAhead'
    BY <1>2, <1>5, <1>7, <1>8, <1>9 DEF IInv, CountersAhead, TypeOK
  <1>11. PendingUnknown'
    <2>1. \A s \in Subs : new \notin owed[s]
      BY <1>2 DEF IInv, CountersAhead, TypeOK
    <2>2. \A h \in handed : h.msg # new
      BY <1>2 DEF IInv, LeaseBinding, TypeOK
    <2>3. \A d \in Clients : new \notin PendingIDs(d)
      BY <1>2, <1>9
    <2>4. QED
      BY <1>5, <1>7, <1>8, <2>1, <2>2, <2>3 DEF IInv, PendingUnknown
  <1>12. BatchOrdered'
    <2> SUFFICES ASSUME NEW d \in Clients, req'[d].op = "publish",
                        NEW i \in 1..Len(req'[d].ids), NEW j \in 1..Len(req'[d].ids), i < j
                 PROVE  req'[d].ids[i] < req'[d].ids[j]
      BY DEF BatchOrdered
    <2>1. CASE d # c
      BY <1>3, <2>1 DEF IInv, BatchOrdered
    <2>2. CASE d = c
      <3>1. i \in 1..Len(ids) /\ ids[i] <= msgSeq /\ ids[i] \in Nat
        <4>1. Len(req'[d].ids) = Len(ids) + 1
          BY <1>1, <1>2, <1>4, <2>2, SMTT(30)
        <4>2. i \in 1..Len(ids)
          BY <1>a, <4>1
        <4>3. ids[i] \in PendingIDs(c)
          BY <1>6, <4>2
        <4>4. QED
          BY <1>9, <4>2, <4>3
      <3>2. CASE j = Len(ids) + 1
        BY <1>2, <1>4, <1>a, <2>2, <3>1, <3>2, SMTT(30)
      <3>3. CASE j # Len(ids) + 1
        <4>1. j \in 1..Len(ids)
          BY <1>1, <1>2, <1>4, <2>2, <3>3, SMTT(30)
        <4>2. ids[i] < ids[j]
          BY <3>1, <4>1 DEF IInv, BatchOrdered, PublishID
        <4>3. QED
          BY <1>4, <1>a, <2>2, <3>1, <4>1, <4>2
      <3>4. QED
        BY <3>2, <3>3
    <2>3. QED
      BY <2>1, <2>2
  <1>13. EntriesDistinct' /\ AckNamesOneDelivery' /\ SameOrderEverywhere'
    BY <1>5 DEF IInv, EntriesDistinct, AckNamesOneDelivery, SameOrderEverywhere
  <1>14. LeaseBinding'
    BY <1>2, <1>5 DEF IInv, LeaseBinding, TypeOK, Delivery
  <1>15. GoneWasAcked'
    BY <1>5 DEF IInv, GoneWasAcked, InQueue, Newest
  <1>16. ClocksBehind'
    BY <1>3, <1>4, <1>5 DEF IInv, ClocksBehind
  <1>17. QED
    BY <1>10, <1>11, <1>12, <1>13, <1>14, <1>15, <1>16 DEF IInv, TypeInv

(* PublishMessages appends entries whose slots and ids are above every id in *)
(* use and whose messages nobody has seen.                                   *)
LEMMA PublishEnqueueStep ==
  ASSUME IInv, TypeInv', NEW c \in Clients, PublishEnqueue(c)
  PROVE  IInv'
  <1> DEFINE ids == req[c].ids
             S == req[c].targets
             k == Len(ids)
             N == 1..k
  <1>1. req[c] \in PublishReq
    BY RequestFields DEF IInv, TypeOK, PublishEnqueue
  <1>2. S \subseteq Subs /\ ids \in Seq(Nat) /\ k \in Nat /\ \A i \in N : ids[i] \in Nat
    BY <1>1 DEF PublishReq
  <1>3. PICK base \in AckBlocks(S, k) :
           queues' = [s \in Subs |-> IF s \in S
                                     THEN queues[s] \cup {NewEntry(base[s] + i, ids[i]) : i \in N}
                                     ELSE queues[s]]
    BY DEF PublishEnqueue
  <1> DEFINE New(s) == IF s \in S THEN {NewEntry(base[s] + i, ids[i]) : i \in N} ELSE {}
  <1>4. \A s \in Subs : queues'[s] = queues[s] \cup New(s)
    BY <1>3
  <1>5. /\ owed' = [s \in Subs |-> IF s \in S THEN owed[s] \cup {ids[i] : i \in N} ELSE owed[s]]
        /\ ackSeq' = ackSeq + Cardinality(S) * k
        /\ UNCHANGED <<msgSeq, now, handed, acked, nacked>>
    BY DEF PublishEnqueue
  <1>6. /\ ackSeq \in Nat /\ ackSeq' \in Nat /\ msgSeq \in Nat
        /\ \A s \in Subs : \A e \in queues[s] : e.slot \in Nat /\ e.ackID \in Nat
        /\ \A h \in handed : h.ack \in Nat /\ h.msg \in Nat
    BY DEF IInv, TypeInv, TypeOK, Entry, Delivery
  <1>7. /\ \A s \in S : base[s] \in Nat /\ ackSeq <= base[s] /\ base[s] + k <= ackSeq'
        /\ \A s, t \in S : s # t => base[s] + k <= base[t] \/ base[t] + k <= base[s]
    BY <1>5, <1>6 DEF AckBlocks
  <1>8. PendingIDs(c) = {ids[i] : i \in N}
    BY DEF PendingIDs, PublishEnqueue
  <1>9. \A i, j \in N : ids[i] = ids[j] => i = j
    <2> SUFFICES ASSUME NEW i \in N, NEW j \in N, ids[i] = ids[j], i < j PROVE FALSE
      BY <1>2
    <2>1. ids[i] < ids[j]
      BY DEF IInv, BatchOrdered, PublishEnqueue
    <2>2. QED
      BY <1>2, <2>1
  <1>10. \A i \in N : /\ \A s \in Subs : ids[i] \notin owed[s]
                      /\ \A h \in handed : h.msg # ids[i]
                      /\ ids[i] <= msgSeq
    BY <1>8 DEF IInv, PendingUnknown, CountersAhead
  <1>11. \A s \in Subs : \A e \in New(s) : s \in S /\ \E i \in N :
            /\ e = NewEntry(base[s] + i, ids[i])
            /\ e.slot = base[s] + i /\ e.ackID = base[s] + i /\ e.msg = ids[i] /\ ~e.inflight
    BY DEF NewEntry
  <1>12. ASSUME NEW s \in S, NEW i \in N PROVE \E e \in New(s) : e.msg = ids[i]
    <2>1. NewEntry(base[s] + i, ids[i]) \in New(s)
      OBVIOUS
    <2>2. NewEntry(base[s] + i, ids[i]).msg = ids[i]
      BY DEF NewEntry
    <2>3. QED
      BY <2>1, <2>2
  <1>13. req'[c].op = "none" /\ \A d \in Clients : d # c => req'[d] = req[d]
    BY DEF PublishEnqueue, Done, Hold, IInv, TypeOK, NoReq
  <1>14. /\ \A d \in Clients : PendingIDs(d)' \subseteq PendingIDs(d)
         /\ BatchOrdered'
    BY PendingShrinks DEF IInv, PublishEnqueue, Done, NoReq
  <1>15. PendingIDs(c)' = {}
    BY <1>13 DEF PendingIDs
  <1>16. ClocksBehind'
    BY <1>5, <1>13 DEF IInv, ClocksBehind
  <1> HIDE DEF ids, S, k, N, New
  <1>17. \A s \in Subs : \A e \in New(s) : /\ e.slot > ackSeq /\ e.ackID > ackSeq
                                           /\ e.slot <= ackSeq' /\ e.ackID <= ackSeq'
                                           /\ e.slot \in Nat /\ e.ackID \in Nat
                                           /\ ~e.inflight
                                           /\ e.msg <= msgSeq /\ e.msg \in owed'[s]
                                           /\ \A t \in Subs : e.msg \notin owed[t]
                                           /\ \A h \in handed : h.msg # e.msg
    <2> SUFFICES ASSUME NEW s \in Subs, NEW e \in New(s)
                 PROVE  /\ e.slot > ackSeq /\ e.ackID > ackSeq
                        /\ e.slot <= ackSeq' /\ e.ackID <= ackSeq'
                        /\ e.slot \in Nat /\ e.ackID \in Nat
                        /\ ~e.inflight
                        /\ e.msg <= msgSeq /\ e.msg \in owed'[s]
                        /\ \A t \in Subs : e.msg \notin owed[t]
                        /\ \A h \in handed : h.msg # e.msg
      OBVIOUS
    <2>1. s \in S
      BY <1>11
    <2>2. PICK i \in N : e.slot = base[s] + i /\ e.ackID = base[s] + i /\ e.msg = ids[i] /\ ~e.inflight
      BY <1>11
    <2>3. base[s] \in Nat /\ ackSeq <= base[s] /\ base[s] + k <= ackSeq'
      BY <1>7, <2>1
    <2>4. i \in Nat /\ 1 <= i /\ i <= k
      BY <1>2 DEF N
    <2>5. /\ e.slot > ackSeq /\ e.ackID > ackSeq /\ e.slot <= ackSeq' /\ e.ackID <= ackSeq'
          /\ e.slot \in Nat /\ e.ackID \in Nat
      BY <1>2, <1>6, <2>2, <2>3, <2>4, SMTT(30)
    <2>6. /\ e.msg <= msgSeq
          /\ \A t \in Subs : e.msg \notin owed[t]
          /\ \A h \in handed : h.msg # e.msg
      BY <1>10, <2>2
    <2>7. e.msg \in owed'[s]
      BY <1>5, <2>1, <2>2
    <2>8. QED
      BY <2>2, <2>5, <2>6, <2>7
  <1>18. \A s \in Subs : \A e \in queues[s] : e.slot <= ackSeq /\ e.ackID <= ackSeq /\ e.msg \in owed[s]
    BY DEF IInv, CountersAhead, LeaseBinding
  <1>19. \A s \in Subs : owed[s] \subseteq owed'[s]
    BY <1>5 DEF IInv, TypeOK
  <1>20. ackSeq <= ackSeq'
    BY <1>5, <1>6, <1>2, FS_Subset, FS_CardinalityType, PubSubAssumption
  <1>21. CountersAhead'
    <2>1. \A s \in Subs : \A e \in queues'[s] : e.slot <= ackSeq' /\ e.ackID <= ackSeq'
      BY <1>4, <1>6, <1>17, <1>18, <1>20
    <2>2. \A h \in handed' : h.ack <= ackSeq'
      BY <1>5, <1>6, <1>20 DEF IInv, CountersAhead
    <2>3. \A s \in Subs : \A m \in owed'[s] : m <= msgSeq'
      BY <1>5, <1>10 DEF IInv, CountersAhead, TypeOK
    <2>4. \A d \in Clients : \A m \in PendingIDs(d)' : m <= msgSeq'
      BY <1>5, <1>14 DEF IInv, CountersAhead
    <2>5. \A a \in nacked' : a <= ackSeq'
      BY <1>5, <1>6, <1>20 DEF IInv, CountersAhead, TypeOK
    <2>6. QED
      BY <2>1, <2>2, <2>3, <2>4, <2>5 DEF CountersAhead
  <1>22. ASSUME NEW s \in Subs, NEW t \in Subs, NEW e \in New(s), NEW d \in New(t),
                e.ackID = d.ackID
         PROVE  s = t /\ e = d
    <2>1. PICK i \in N : e = NewEntry(base[s] + i, ids[i]) /\ e.ackID = base[s] + i
      BY <1>11
    <2>2. PICK j \in N : d = NewEntry(base[t] + j, ids[j]) /\ d.ackID = base[t] + j
      BY <1>11
    <2>3. s \in S /\ t \in S /\ base[s] \in Nat /\ base[t] \in Nat
      BY <1>7, <1>11
    <2>4. i \in Nat /\ j \in Nat /\ 1 <= i /\ i <= k /\ 1 <= j /\ j <= k
      BY <1>2 DEF N
    <2>a. s # t => base[s] + k <= base[t] \/ base[t] + k <= base[s]
      BY <1>7, <2>3
    <2>b. base[s] + i = base[t] + j
      BY <1>22, <2>1, <2>2
    <2>5. s = t
      BY <1>2, <2>3, <2>4, <2>a, <2>b, SMTT(30)
    <2>6. i = j
      BY <1>22, <2>1, <2>2, <2>3, <2>4, <2>5
    <2>7. QED
      BY <2>1, <2>2, <2>5, <2>6
  <1>23. \A s \in Subs : \A e, d \in New(s) : e.slot = d.slot \/ e.msg = d.msg => e = d
    BY <1>2, <1>7, <1>9, <1>11 DEF N
  <1>24. EntriesDistinct'
    <2>1. \A s \in Subs : \A e, d \in queues'[s] : e.slot = d.slot \/ e.msg = d.msg => e = d
      BY <1>4, <1>6, <1>17, <1>18, <1>23 DEF IInv, EntriesDistinct
    <2>2. \A s, t \in Subs : \A e \in queues'[s], d \in queues'[t] :
             e.ackID = d.ackID => s = t /\ e = d
      BY <1>4, <1>6, <1>17, <1>18, <1>22 DEF IInv, EntriesDistinct
    <2>3. QED
      BY <2>1, <2>2 DEF EntriesDistinct
  <1>25. PendingUnknown'
    <2>1. \A d \in Clients : \A m \in PendingIDs(d)' : d # c /\ m \in PendingIDs(d) /\ m \notin PendingIDs(c)
      BY <1>14, <1>15 DEF IInv, PendingUnknown
    <2>2. \A s \in Subs : owed'[s] \subseteq owed[s] \cup PendingIDs(c)
      BY <1>5, <1>8
    <2>3. QED
      BY <1>5, <2>1, <2>2 DEF IInv, PendingUnknown
  <1>26. LeaseBinding'
    <2>1. \A s \in Subs : \A e \in queues'[s] : e.msg \in owed'[s]
      BY <1>4, <1>17, <1>18, <1>19
    <2>2. \A s \in Subs : \A e \in queues'[s] : e.inflight => e \in queues[s]
      BY <1>4, <1>17
    <2>3. \A s \in Subs : \A e \in New(s), h \in handed : h.ack # e.ackID /\ h.msg # e.msg
      BY <1>6, <1>17 DEF IInv, CountersAhead
    <2>4. QED
      BY <1>4, <1>5, <2>1, <2>2, <2>3 DEF IInv, LeaseBinding
  <1>27. GoneWasAcked'
    <2> SUFFICES ASSUME NEW s \in Subs, NEW m \in owed'[s], ~InQueue(s, m)'
                 PROVE  \E h \in handed : /\ h.sub = s /\ h.msg = m /\ Newest(h)
                                         /\ h.ack \in acked /\ h.ack \notin nacked
      BY <1>5 DEF GoneWasAcked, Newest
    <2>1. m \in owed[s] /\ ~InQueue(s, m)
      BY <1>4, <1>5, <1>12 DEF InQueue
    <2>2. QED
      BY <2>1 DEF IInv, GoneWasAcked
  <1>28. SameOrderEverywhere'
    <2> SUFFICES ASSUME NEW s \in Subs, NEW t \in Subs,
                        NEW e1 \in queues'[s], NEW e2 \in queues'[s],
                        NEW d1 \in queues'[t], NEW d2 \in queues'[t],
                        e1.msg = d1.msg, e2.msg = d2.msg
                 PROVE  e1.slot < e2.slot <=> d1.slot < d2.slot
      BY DEF SameOrderEverywhere
    <2>1. e1 \in New(s) <=> d1 \in New(t)
      BY <1>4, <1>17, <1>18
    <2>2. e2 \in New(s) <=> d2 \in New(t)
      BY <1>4, <1>17, <1>18
    <2>3. CASE e1 \in New(s) /\ e2 \in New(s)
      BY <1>2, <1>7, <1>9, <1>11, <2>1, <2>2, <2>3, SMTT(30) DEF N
    <2>4. CASE e1 \notin New(s) /\ e2 \in New(s)
      BY <1>4, <1>6, <1>17, <1>18, <2>1, <2>2, <2>4
    <2>5. CASE e1 \in New(s) /\ e2 \notin New(s)
      BY <1>4, <1>6, <1>17, <1>18, <2>1, <2>2, <2>5
    <2>6. CASE e1 \notin New(s) /\ e2 \notin New(s)
      BY <1>4, <2>1, <2>2, <2>6 DEF IInv, SameOrderEverywhere
    <2>7. QED
      BY <2>3, <2>4, <2>5, <2>6
  <1>29. AckNamesOneDelivery'
    BY <1>5 DEF IInv, AckNamesOneDelivery
  <1>30. QED
    BY <1>14, <1>16, <1>21, <1>24, <1>25, <1>26, <1>27, <1>28, <1>29 DEF IInv, TypeInv

(* PullMessages leases the entries it takes under ids above every id in use. *)
LEMMA PullStep ==
  ASSUME IInv, TypeInv', NEW c \in Clients, PullLocked(c)
  PROVE  IInv'
  <1> DEFINE s == req[c].sub
             q == queues[s]
             dl == req[c].deadline
  <1>1. s \in Subs
    BY RequestFields DEF IInv, TypeOK, PullLocked, PullReq
  <1>2. PICK T \in FirstAvailable(q, req[c].now, req[c].limit) :
           /\ \E ack \in FreshAcks(T) :
                 /\ queues' = [queues EXCEPT ![s] = (q \ T) \cup {Leased(e, ack[e], dl) : e \in T}]
                 /\ handed' = handed \cup
                      {[ack |-> ack[e], sub |-> s, msg |-> e.msg,
                        attempt |-> Attempt(s, e.msg)] : e \in T}
           /\ ackSeq' = ackSeq + Cardinality(T)
    BY DEF PullLocked
  <1>3. PICK ack \in FreshAcks(T) :
                 /\ queues' = [queues EXCEPT ![s] = (q \ T) \cup {Leased(e, ack[e], dl) : e \in T}]
                 /\ handed' = handed \cup
                      {[ack |-> ack[e], sub |-> s, msg |-> e.msg,
                        attempt |-> Attempt(s, e.msg)] : e \in T}
    BY <1>2
  <1> DEFINE L(e) == Leased(e, ack[e], dl)
             D(e) == [ack |-> ack[e], sub |-> s, msg |-> e.msg, attempt |-> Attempt(s, e.msg)]
  <1>4. T \subseteq q /\ Cardinality(T) \in Nat
    BY <1>1, TakenFinite DEF IInv, FiniteData
  <1>5. /\ ackSeq \in Nat /\ ackSeq' \in Nat /\ ackSeq <= ackSeq' /\ msgSeq \in Nat
        /\ nacked \subseteq Nat
        /\ \A t \in Subs : \A e \in queues[t] : e \in Entry /\ e.slot \in Nat /\ e.ackID \in Nat
        /\ \A h \in handed : h.ack \in Nat
    BY <1>2, <1>4 DEF IInv, TypeOK, Entry, Delivery
  <1>6. UNCHANGED <<msgSeq, now, acked, nacked, owed>>
    BY DEF PullLocked
  <1>7. \A e \in T : ack[e] \in Nat /\ ack[e] > ackSeq /\ ack[e] <= ackSeq'
    BY <1>2, <1>4, <1>5 DEF FreshAcks
  <1>8. \A e, d \in T : ack[e] = ack[d] => e = d
    <2> SUFFICES ASSUME NEW e \in T, NEW d \in T, ack[e] = ack[d], e # d PROVE FALSE
      OBVIOUS
    <2>1. e.slot # d.slot /\ e.slot \in Nat /\ d.slot \in Nat
      BY <1>1, <1>4, <1>5 DEF IInv, EntriesDistinct
    <2>2. e.slot < d.slot \/ d.slot < e.slot
      BY <2>1
    <2>3. ack[e] < ack[d] \/ ack[d] < ack[e]
      BY <2>2 DEF FreshAcks
    <2>4. QED
      BY <1>7, <2>3
  <1>9. \A e \in T : /\ L(e).slot = e.slot /\ L(e).msg = e.msg
                     /\ L(e).ackID = ack[e] /\ L(e).inflight
    BY <1>1, <1>4, <1>5 DEF Leased, Entry
  <1>10. /\ queues'[s] = (q \ T) \cup {L(e) : e \in T}
         /\ \A t \in Subs : t # s => queues'[t] = queues[t]
    BY <1>1, <1>3 DEF IInv, TypeOK
  <1>11. handed' = handed \cup {D(e) : e \in T}
    BY <1>3
  <1>12. \A e \in T : D(e).ack = ack[e] /\ D(e).sub = s /\ D(e).msg = e.msg
    OBVIOUS
  <1>13. (\A d \in Clients : PendingIDs(d)' \subseteq PendingIDs(d)) /\ BatchOrdered'
    BY PendingShrinks DEF IInv, PullLocked, Done, NoReq
  <1>14. ClocksBehind'
    BY <1>6 DEF PullLocked, Done, Hold, ClocksBehind, IInv, TypeOK, NoReq
  <1>15. \A t \in Subs : \A e \in queues[t] : e.ackID <= ackSeq /\ e.slot <= ackSeq
    BY DEF IInv, CountersAhead
  <1>16. \A h \in handed : h.ack <= ackSeq
    BY DEF IInv, CountersAhead
  <1>17. \A d, e \in q : d.slot = e.slot \/ d.msg = e.msg => d = e
    BY <1>1 DEF IInv, EntriesDistinct
  <1>18. \A e \in T : e \in q /\ e.msg \in owed[s]
    BY <1>1, <1>4 DEF IInv, LeaseBinding
  <1> HIDE DEF s, q, dl, L, D
  (* Every entry after the step is an old one outside T or the lease of one in T. *)
  <1> DEFINE Old(t) == IF t = s THEN q \ T ELSE queues[t]
             Fresh(t) == IF t = s THEN {L(e) : e \in T} ELSE {}
  <1>19. \A t \in Subs : queues'[t] = Old(t) \cup Fresh(t) /\ Old(t) \subseteq queues[t]
    BY <1>10 DEF q
  <1>20. \A t \in Subs : \A x \in Fresh(t) : t = s /\ \E e \in T :
            /\ x = L(e) /\ x.slot = e.slot /\ x.msg = e.msg /\ x.ackID = ack[e] /\ x.inflight
    BY <1>9
  <1>21. \A t \in Subs : \A x \in Old(t), e \in T : t = s => x.slot # e.slot /\ x.msg # e.msg
    BY <1>4, <1>17
  <1>22. \A e \in T : L(e) \in Fresh(s)
    OBVIOUS
  <1> HIDE DEF Old, Fresh
  <1>23. CountersAhead'
    <2>1. \A t \in Subs : \A x \in queues'[t] : x.slot <= ackSeq' /\ x.ackID <= ackSeq'
      BY <1>1, <1>5, <1>7, <1>15, <1>18, <1>19, <1>20 DEF q
    <2>2. \A h \in handed' : h.ack <= ackSeq'
      BY <1>5, <1>7, <1>11, <1>12, <1>16
    <2>3. \A a \in nacked' : a <= ackSeq'
      BY <1>5, <1>6 DEF IInv, CountersAhead
    <2>4. QED
      BY <1>6, <1>13, <2>1, <2>2, <2>3 DEF IInv, CountersAhead
  <1>24. EntriesDistinct'
    <2>1. \A t \in Subs : \A x, y \in queues'[t] : x.slot = y.slot \/ x.msg = y.msg => x = y
      <3> SUFFICES ASSUME NEW t \in Subs, NEW x \in queues'[t], NEW y \in queues'[t],
                          x.slot = y.slot \/ x.msg = y.msg
                   PROVE  x = y
        OBVIOUS
      <3>1. CASE x \in Old(t) /\ y \in Old(t)
        BY <1>19, <3>1 DEF IInv, EntriesDistinct
      <3>2. CASE x \in Fresh(t) /\ y \in Fresh(t)
        BY <1>17, <1>18, <1>20, <3>2
      <3>3. QED
        BY <1>19, <1>20, <1>21, <3>1, <3>2
    <2>2. \A t, u \in Subs : \A x \in queues'[t], y \in queues'[u] :
             x.ackID = y.ackID => t = u /\ x = y
      <3> SUFFICES ASSUME NEW t \in Subs, NEW u \in Subs,
                          NEW x \in queues'[t], NEW y \in queues'[u], x.ackID = y.ackID
                   PROVE  t = u /\ x = y
        OBVIOUS
      <3>1. CASE x \in Old(t) /\ y \in Old(u)
        BY <1>19, <3>1 DEF IInv, EntriesDistinct
      <3>2. CASE x \in Fresh(t) /\ y \in Fresh(u)
        BY <1>8, <1>20, <3>2
      <3>3. CASE x \in Fresh(t) /\ y \in Old(u)
        BY <1>5, <1>7, <1>15, <1>19, <1>20, <3>3
      <3>4. CASE x \in Old(t) /\ y \in Fresh(u)
        BY <1>5, <1>7, <1>15, <1>19, <1>20, <3>4
      <3>5. QED
        BY <1>19, <3>1, <3>2, <3>3, <3>4
    <2>3. QED
      BY <2>1, <2>2 DEF EntriesDistinct
  <1>25. PendingUnknown'
    <2>1. \A d \in Clients : \A m \in PendingIDs(d) : \A h \in handed' : h.msg # m
      BY <1>1, <1>11, <1>12, <1>18 DEF IInv, PendingUnknown
    <2>2. QED
      BY <1>6, <1>13, <2>1 DEF IInv, PendingUnknown
  <1>26. LeaseBinding'
    <2>1. \A t \in Subs : \A x \in queues'[t] : x.msg \in owed[t]
      BY <1>18, <1>19, <1>20 DEF IInv, LeaseBinding
    <2>2. \A h \in handed' : h.msg <= msgSeq
      BY <1>1, <1>11, <1>12, <1>18 DEF IInv, LeaseBinding, CountersAhead
    <2>3. ASSUME NEW t \in Subs, NEW x \in queues'[t], x.inflight
          PROVE  /\ x.ackID \notin nacked
                 /\ \E h \in handed' : h.ack = x.ackID /\ h.sub = t /\ h.msg = x.msg
      <3>1. CASE x \in Old(t)
        BY <1>11, <1>19, <2>3, <3>1 DEF IInv, LeaseBinding
      <3>2. CASE x \in Fresh(t)
        <4>1. PICK e \in T : t = s /\ x.msg = e.msg /\ x.ackID = ack[e]
          BY <1>20, <3>2
        <4>2. D(e) \in handed'
          BY <1>11
        <4>3. x.ackID \notin nacked
          BY <1>5, <1>7, <4>1 DEF IInv, CountersAhead
        <4>4. QED
          BY <1>12, <4>1, <4>2, <4>3
      <3>3. QED
        BY <1>19, <3>1, <3>2
    <2>4. ASSUME NEW t \in Subs, NEW x \in queues'[t], NEW h \in handed'
          PROVE  /\ h.ack = x.ackID => h.sub = t /\ h.msg = x.msg
                 /\ h.sub = t /\ h.msg = x.msg => h.ack <= x.ackID
      <3>1. CASE x \in Old(t) /\ h \in handed
        BY <1>19, <3>1 DEF IInv, LeaseBinding
      <3>2. CASE x \in Fresh(t) /\ h \in handed
        BY <1>5, <1>7, <1>16, <1>20, <3>2
      <3>3. CASE x \in Old(t) /\ h \notin handed
        <4>1. PICK e \in T : h.ack = ack[e] /\ h.sub = s /\ h.msg = e.msg
          BY <1>11, <1>12, <3>3
        <4>2. h.ack # x.ackID
          BY <1>5, <1>7, <1>15, <1>19, <3>3, <4>1
        <4>3. QED
          BY <1>21, <3>3, <4>1, <4>2
      <3>4. CASE x \in Fresh(t) /\ h \notin handed
        <4>1. PICK e \in T : h.ack = ack[e] /\ h.sub = s /\ h.msg = e.msg
          BY <1>11, <1>12, <3>4
        <4>2. PICK d \in T : t = s /\ x.msg = d.msg /\ x.ackID = ack[d]
          BY <1>20, <3>4
        <4>3. e.msg = d.msg => e = d
          BY <1>17, <1>18
        <4>4. QED
          BY <1>7, <1>8, <4>1, <4>2, <4>3
      <3>5. QED
        BY <1>19, <3>1, <3>2, <3>3, <3>4
    <2>5. QED
      BY <1>6, <2>1, <2>2, <2>3, <2>4 DEF LeaseBinding
  <1>27. AckNamesOneDelivery'
    <2> SUFFICES ASSUME NEW g \in handed', NEW h \in handed', g.ack = h.ack PROVE g = h
      BY DEF AckNamesOneDelivery
    <2>1. CASE g \in handed /\ h \in handed
      BY <2>1 DEF IInv, AckNamesOneDelivery
    <2>2. CASE g \notin handed /\ h \notin handed
      BY <1>8, <1>11, <1>12, <2>2
    <2>3. CASE g \in handed /\ h \notin handed
      BY <1>5, <1>7, <1>11, <1>12, <1>16, <2>3
    <2>4. CASE g \notin handed /\ h \in handed
      BY <1>5, <1>7, <1>11, <1>12, <1>16, <2>4
    <2>5. QED
      BY <2>1, <2>2, <2>3, <2>4
  <1>28. \A t \in Subs : \A m : InQueue(t, m) => InQueue(t, m)'
    BY <1>1, <1>9, <1>10, <1>19, <1>22 DEF InQueue, q, Old
  <1>29. GoneWasAcked'
    <2> SUFFICES ASSUME NEW t \in Subs, NEW m \in owed[t], ~InQueue(t, m)
                 PROVE  \E h \in handed' : /\ h.sub = t /\ h.msg = m /\ Newest(h)'
                                          /\ h.ack \in acked /\ h.ack \notin nacked
      BY <1>6, <1>28 DEF GoneWasAcked
    <2>1. PICK h \in handed : /\ h.sub = t /\ h.msg = m /\ Newest(h)
                              /\ h.ack \in acked /\ h.ack \notin nacked
      BY DEF IInv, GoneWasAcked
    <2>2. \A e \in T : ~(D(e).sub = t /\ D(e).msg = m)
      BY <1>12, <1>18 DEF InQueue, q
    <2>3. Newest(h)'
      BY <1>11, <2>1, <2>2 DEF Newest
    <2>4. QED
      BY <1>11, <2>1, <2>3
  <1>30. SameOrderEverywhere'
    <2>1. \A t \in Subs : \A x \in queues'[t] : \E e \in queues[t] : e.slot = x.slot /\ e.msg = x.msg
      BY <1>1, <1>18, <1>19, <1>20 DEF q
    <2>2. QED
      BY <2>1 DEF IInv, SameOrderEverywhere
  <1>31. QED
    BY <1>13, <1>14, <1>23, <1>24, <1>25, <1>26, <1>27, <1>29, <1>30 DEF IInv, TypeInv

-----------------------------------------------------------------------------
LEMMA IInvStep == IInv /\ [Next]_vars => IInv'
  <1> SUFFICES ASSUME IInv, [Next]_vars PROVE IInv'
    OBVIOUS
  <1> DEFINE data == <<queues, msgSeq, ackSeq, handed, acked, nacked, owed>>
  <1>0. TypeInv'
    BY TypeStep DEF IInv, TypeInv
  <1>1. ASSUME UNCHANGED <<data, req>>, now' = now \/ now' = now + 1 PROVE IInv'
    <2>1. \A d \in Clients : PendingIDs(d)' = PendingIDs(d)
      BY <1>1 DEF PendingIDs
    <2>2. BatchOrdered'
      BY <1>1 DEF IInv, BatchOrdered
    <2>3. ClocksBehind'
      <3>1. \A c \in Clients : req[c].op = "pull" => req[c].now \in Nat
        BY RequestFields DEF IInv, TypeOK, PullReq
      <3>2. QED
        BY <1>1, <3>1 DEF IInv, ClocksBehind, TypeOK
    <2>4. QED
      BY <1>0, <1>1, <2>1, <2>2, <2>3, QuietStep
  <1>2. ASSUME NEW c \in Clients, NEW r, Hold(c, r), UNCHANGED <<data, now>>,
               r.op = "publish" => r.ids = <<>> \/ (req[c].op = "publish" /\ r.ids = req[c].ids),
               r.op = "pull" => r.now = now
        PROVE  IInv'
    <2>1. (\A d \in Clients : PendingIDs(d)' \subseteq PendingIDs(d)) /\ BatchOrdered'
      BY <1>2, PendingShrinks DEF IInv
    <2>2. ClocksBehind'
      BY <1>2 DEF IInv, ClocksBehind, Hold, TypeOK
    <2>3. QED
      BY <1>0, <1>2, <2>1, <2>2, QuietStep
  <1>3. ASSUME NEW t \in Topics, PutTopic(t) \/ DeleteTopic(t) PROVE IInv'
    BY <1>1, <1>3 DEF PutTopic, DeleteTopic, history
  <1>4. ASSUME NEW s \in Subs, ResetSubscription(s) PROVE IInv'
    BY <1>1, <1>4 DEF ResetSubscription, history
  <1>5. ASSUME NEW c \in Clients, NEW s \in Subs, NEW t \in Topics, NEW sec \in AckDeadlines,
               CreateSubscription(c, s, t, sec) \/ PutSubscription(c, s, t, sec)
        PROVE  IInv'
    BY <1>2, <1>5 DEF CreateSubscription, PutSubscription, history
  <1>6. ASSUME NEW c \in Clients, NEW s \in Subs, DeleteSubscription(c, s) PROVE IInv'
    BY <1>2, <1>6 DEF DeleteSubscription, history
  <1>7. ASSUME NEW c \in Clients, NEW t \in Topics, NEW n \in 0..MaxBatch, PublishMessages(c, t, n)
        PROVE  IInv'
    BY <1>2, <1>7 DEF PublishMessages, history
  <1>8. ASSUME NEW c \in Clients, NEW s \in Subs, NEW limit \in Limits, PullMessages(c, s, limit)
        PROVE  IInv'
    BY <1>2, <1>8 DEF PullMessages, history
  <1>9. ASSUME NEW c \in Clients, NEW s \in Subs, NEW ids, Acknowledge(c, s, ids) PROVE IInv'
    BY <1>2, <1>9 DEF Acknowledge, history
  <1>10. ASSUME NEW c \in Clients, NEW s \in Subs, NEW ids, NEW sec, ModifyAckDeadline(c, s, ids, sec)
         PROVE  IInv'
    BY <1>2, <1>10 DEF ModifyAckDeadline, history
  <1>11. ASSUME NEW c \in Clients, StoreSubscription(c) PROVE IInv'
    BY <1>2, <1>11 DEF StoreSubscription, history, Done, NoReq
  <1>12. ASSUME NEW c \in Clients, PublishList(c) PROVE IInv'
    <2> DEFINE r == [req[c] EXCEPT !.step = "ids", !.targets = SubsForTopic(req[c].topic)]
    <2>1. req[c] \in PublishReq
      BY <1>12, RequestFields DEF IInv, TypeOK, PublishList
    <2>2. r.op = "publish" /\ r.ids = req[c].ids /\ req[c].op = "publish"
      BY <2>1 DEF PublishReq
    <2> HIDE DEF r
    <2>3. Hold(c, r) /\ UNCHANGED <<data, now>>
      BY <1>12 DEF PublishList, history, r
    <2>4. QED
      BY <1>2, <2>2, <2>3
  <1>13. CASE Tick
    BY <1>1, <1>13 DEF Tick, history
  <1>14. CASE UNCHANGED vars
    BY <1>1, <1>14 DEF vars
  <1>15. QED
    BY <1>0, <1>3, <1>4, <1>5, <1>6, <1>7, <1>8, <1>9, <1>10, <1>11, <1>12, <1>13, <1>14,
       DropQueueStep, PublishIDStep, PublishEnqueueStep, PullStep, AcknowledgeStep,
       ModifyAckDeadlineStep
    DEF Next, Begin, Continue

LEMMA Invariance == Spec => []IInv
  BY IInvInit, IInvStep, PTL DEF Spec

(* An ack id names one delivery for ever (AckNamesOneDelivery). *)
THEOREM AckIdsNameOneDelivery == Spec => []AckNamesOneDelivery
  <1>1. IInv => AckNamesOneDelivery
    BY DEF IInv
  <1>2. QED
    BY Invariance, <1>1, PTL

(* An enqueued message is queued until the receiver of its newest delivery *)
(* acknowledges it (NoLostMessage).                                        *)
THEOREM AtLeastOnceDelivery == Spec => []NoLostMessage
  <1>1. IInv => NoLostMessage
    BY DEF IInv, GoneWasAcked, NoLostMessage
  <1>2. QED
    BY Invariance, <1>1, PTL

(* A message nacked through its newest lease stays queued (NackIsFinal). *)
THEOREM NackKeepsMessage == Spec => []NackIsFinal
  <1>1. ASSUME IInv PROVE NackIsFinal
    <2> SUFFICES ASSUME NEW h \in handed, h.ack \in nacked, Newest(h), h.msg \in owed[h.sub],
                        ~InQueue(h.sub, h.msg)
                 PROVE  FALSE
      BY DEF NackIsFinal
    <2>1. h.sub \in Subs /\ h.ack \in Nat
      BY <1>1 DEF IInv, TypeOK, Delivery
    <2>2. PICK g \in handed : /\ g.sub = h.sub /\ g.msg = h.msg /\ Newest(g)
                              /\ g.ack \notin nacked
      BY <1>1, <2>1 DEF IInv, GoneWasAcked
    <2>3. g.ack <= h.ack /\ h.ack <= g.ack /\ g.ack \in Nat
      BY <1>1, <2>2 DEF Newest, IInv, TypeOK, Delivery
    <2>4. QED
      BY <2>1, <2>2, <2>3
  <1>2. QED
    BY Invariance, <1>1, PTL

(* Two subscriptions see the messages they share in one order. *)
THEOREM PublishOrder == Spec => []SameOrderEverywhere
  <1>1. IInv => SameOrderEverywhere
    BY DEF IInv
  <1>2. QED
    BY Invariance, <1>1, PTL

-----------------------------------------------------------------------------
(* No lease changes hands before its deadline. *)
Handover ==
    \A s \in Subs : \A e \in queues[s], d \in queues'[s] :
        d.slot = e.slot /\ d.ackID # e.ackID => ~e.inflight \/ now > e.deadline

LEMMA HandoverPull ==
  ASSUME IInv, NEW c \in Clients, PullLocked(c)
  PROVE  Handover
  <1> DEFINE s == req[c].sub
             q == queues[s]
             dl == req[c].deadline
  <1>1. s \in Subs /\ req[c].now \in Nat /\ req[c].now <= now /\ now \in Nat
    BY RequestFields DEF IInv, TypeOK, PullLocked, PullReq, ClocksBehind
  <1>a. PICK T \in FirstAvailable(q, req[c].now, req[c].limit) : \E ack \in FreshAcks(T) :
           queues' = [queues EXCEPT ![s] = (q \ T) \cup {Leased(e, ack[e], dl) : e \in T}]
    BY DEF PullLocked
  <1>2. PICK ack \in FreshAcks(T) :
           queues' = [queues EXCEPT ![s] = (q \ T) \cup {Leased(e, ack[e], dl) : e \in T}]
    BY <1>a
  <1>3. T \subseteq q /\ \A e \in T : Available(e, req[c].now)
    BY DEF FirstAvailable
  <1>4. \A t \in Subs : \A e \in queues[t] : e \in Entry
    BY DEF IInv, TypeOK
  <1>5. \A e \in T : Leased(e, ack[e], dl).slot = e.slot
    BY <1>1, <1>3, <1>4 DEF Leased, Entry
  <1>6. \A t \in Subs : \A d, e \in queues[t] : d.slot = e.slot => d = e
    BY DEF IInv, EntriesDistinct
  <1>7. /\ queues'[s] = (q \ T) \cup {Leased(e, ack[e], dl) : e \in T}
        /\ \A t \in Subs : t # s => queues'[t] = queues[t]
    BY <1>1, <1>2 DEF IInv, TypeOK
  <1>8. ASSUME NEW e \in q, NEW d \in queues'[s], d.slot = e.slot, d.ackID # e.ackID
        PROVE  ~e.inflight \/ now > e.deadline
    <2>1. d \notin q
      BY <1>1, <1>6, <1>8
    <2>2. PICK x \in T : d = Leased(x, ack[x], dl)
      BY <1>7, <2>1
    <2>3. x = e
      BY <1>1, <1>3, <1>5, <1>6, <1>8, <2>2
    <2>4. Available(e, req[c].now) /\ e.deadline \in Int
      BY <1>1, <1>3, <1>4, <2>3 DEF Entry
    <2>5. QED
      BY <1>1, <2>4 DEF Available
  <1> HIDE DEF s
  <1>9. QED
    BY <1>6, <1>7, <1>8 DEF Handover

LEMMA HandoverEnqueue ==
  ASSUME IInv, NEW c \in Clients, PublishEnqueue(c)
  PROVE  Handover
  <1> DEFINE ids == req[c].ids
             S == req[c].targets
  <1>1. PICK base \in AckBlocks(S, Len(ids)) :
           queues' = [s \in Subs |->
               IF s \in S THEN queues[s] \cup {NewEntry(base[s] + i, ids[i]) : i \in 1..Len(ids)}
               ELSE queues[s]]
    BY DEF PublishEnqueue
  <1>2. S \subseteq Subs /\ Len(ids) \in Nat
    BY RequestFields DEF IInv, TypeOK, PublishEnqueue, PublishReq
  <1>3. Cardinality(S) \in Nat /\ ackSeq \in Nat
    BY <1>2, FS_Subset, FS_CardinalityType, PubSubAssumption DEF IInv, TypeOK
  <1>4. \A s \in S : base[s] \in Int /\ base[s] >= ackSeq
    BY <1>2, <1>3 DEF AckBlocks
  <1>5. ASSUME NEW s \in Subs, NEW e \in queues[s], NEW d \in queues'[s], d.slot = e.slot
        PROVE  d = e
    <2>1. CASE d \in queues[s]
      BY <1>5, <2>1 DEF IInv, EntriesDistinct
    <2>2. CASE d \notin queues[s]
      <3>1. PICK i \in 1..Len(ids) : s \in S /\ d.slot = base[s] + i
        BY <1>1, <2>2 DEF NewEntry
      <3>2. e.slot <= ackSeq /\ e.slot \in Nat
        BY DEF IInv, CountersAhead, TypeOK, Entry
      <3>3. QED
        BY <1>2, <1>3, <1>4, <1>5, <3>1, <3>2
    <2>3. QED
      BY <2>1, <2>2
  <1>6. QED
    BY <1>5 DEF Handover

LEMMA HandoverModify ==
  ASSUME IInv, NEW c \in Clients, ModifyAckDeadlineLocked(c)
  PROVE  Handover
  <1> DEFINE r == req[c]
  <1>1. r.sub \in Subs
    BY RequestFields DEF IInv, TypeOK, ModifyAckDeadlineLocked, ModAckReq
  <1>2. /\ \A t \in Subs : t # r.sub => queues'[t] = queues[t]
        /\ queues'[r.sub] = {Modified(e, r) : e \in queues[r.sub]}
    BY <1>1 DEF ModifyAckDeadlineLocked, IInv, TypeOK
  <1>3. \A t \in Subs : \A e \in queues[t] : e \in Entry
    BY DEF IInv, TypeOK
  <1>4. \A e \in Entry : Modified(e, r).slot = e.slot /\ Modified(e, r).ackID = e.ackID
    BY DEF Modified, Entry
  <1>5. \A t \in Subs : \A d \in queues'[t] : \E e \in queues[t] : d.slot = e.slot /\ d.ackID = e.ackID
    BY <1>2, <1>3, <1>4
  <1>6. QED
    BY <1>5 DEF IInv, EntriesDistinct, Handover

LEMMA HandoverStep == IInv /\ [Next]_vars => [Handover]_vars
  <1> SUFFICES ASSUME IInv, Next PROVE Handover
    OBVIOUS
  <1>1. ASSUME \A s \in Subs : queues'[s] \subseteq queues[s] PROVE Handover
    BY <1>1 DEF IInv, EntriesDistinct, Handover
  <1>2. ASSUME NEW t \in Topics, PutTopic(t) \/ DeleteTopic(t) PROVE Handover
    BY <1>1, <1>2 DEF PutTopic, DeleteTopic
  <1>3. ASSUME NEW s \in Subs, ResetSubscription(s) PROVE Handover
    BY <1>1, <1>3 DEF ResetSubscription
  <1>4. ASSUME NEW c \in Clients, Begin(c) PROVE Handover
    BY <1>1, <1>4 DEF Begin, CreateSubscription, PutSubscription, DeleteSubscription,
         PublishMessages, PullMessages, Acknowledge, ModifyAckDeadline
  <1>5. ASSUME NEW c \in Clients, StoreSubscription(c) \/ PublishList(c) \/ PublishID(c)
        PROVE  Handover
    BY <1>1, <1>5 DEF StoreSubscription, PublishList, PublishID
  <1>6. ASSUME NEW c \in Clients, DropQueue(c) PROVE Handover
    BY <1>1, <1>6 DEF DropQueue, IInv, TypeOK
  <1>7. ASSUME NEW c \in Clients, AcknowledgeLocked(c) PROVE Handover
    BY <1>1, <1>7 DEF AcknowledgeLocked, IInv, TypeOK
  <1>8. CASE Tick
    BY <1>1, <1>8 DEF Tick
  <1>9. QED
    BY <1>2, <1>3, <1>4, <1>5, <1>6, <1>7, <1>8, HandoverPull, HandoverEnqueue, HandoverModify
    DEF Next, Continue

(* While the clock has not passed the deadline of a lease, the message is    *)
(* not handed to anybody else (ExclusiveLease).                              *)
THEOREM LeaseIsExclusive == Spec => ExclusiveLease
  <1>1. IInv /\ [Next]_vars => [\A s \in Subs : \A e \in queues[s], d \in queues'[s] :
          d.slot = e.slot /\ d.ackID # e.ackID => ~e.inflight \/ now > e.deadline]_vars
    BY HandoverStep DEF Handover
  <1>2. QED
    BY Invariance, <1>1, PTL DEF Spec, ExclusiveLease

-----------------------------------------------------------------------------
(* The refinement: what the queues do, seen as AtLeastOnce.                  *)

(* What a parked request leaves in the hands of the publishers (Hold). *)
LEMMA PendingAfter ==
  ASSUME TypeOK, NEW c \in Clients, NEW r, Hold(c, r)
  PROVE  /\ \A d \in Clients : d # c => PendingIDs(d)' = PendingIDs(d)
         /\ PendingIDs(c)' = IF r.op = "publish" THEN {r.ids[i] : i \in 1..Len(r.ids)} ELSE {}
  <1>1. req'[c] = r /\ \A d \in Clients : d # c => req'[d] = req[d]
    BY DEF Hold, TypeOK
  <1>2. QED
    BY <1>1 DEF PendingIDs

LEMMA RangeInit == Init => IdsInRange
  <1> SUFFICES ASSUME Init PROVE IdsInRange
    OBVIOUS
  <1>1. \A c \in Clients : PendingIDs(c) = {}
    BY DEF Init, PendingIDs, NoReq
  <1>2. QED
    BY <1>1, PubSubAssumption DEF Init, IdsInRange

(* The ids of publishers are numbers the counter has passed (PublishID). *)
LEMMA DrawnIDs ==
  ASSUME TypeOK, NEW c \in Clients, PublishID(c)
  PROVE  /\ PendingIDs(c)' = PendingIDs(c) \cup {msgSeq + 1}
         /\ \A d \in Clients : d # c => PendingIDs(d)' = PendingIDs(d)
  <1> DEFINE ids == req[c].ids
             new == msgSeq + 1
  <1>1. req[c] \in PublishReq /\ ids \in Seq(Nat) /\ Len(ids) \in Nat
    BY RequestFields DEF TypeOK, PublishID, PublishReq
  <1>2. PICK r : r = [req[c] EXCEPT !.left = @ - 1, !.ids = Append(@, new)]
    OBVIOUS
  <1>3. r.op = "publish" /\ r.ids = Append(ids, new) /\ Hold(c, r)
    BY <1>1, <1>2 DEF PublishID, PublishReq
  <1>4. PendingIDs(c) = {ids[i] : i \in 1..Len(ids)}
    BY DEF PendingIDs, PublishID
  <1>5. new \in Nat
    BY DEF TypeOK
  <1>6. /\ Len(Append(ids, new)) = Len(ids) + 1
        /\ \A i \in 1..Len(ids) : Append(ids, new)[i] = ids[i]
        /\ Append(ids, new)[Len(ids) + 1] = new
    BY <1>1, <1>5
  <1>7. PendingIDs(c)' = {Append(ids, new)[i] : i \in 1..(Len(ids) + 1)}
    <2>1. PendingIDs(c)' = {r.ids[i] : i \in 1..Len(r.ids)}
      BY <1>3, PendingAfter
    <2>2. QED
      BY <1>3, <1>6, <2>1
  <1>8. PendingIDs(c)' = PendingIDs(c) \cup {new}
    BY <1>1, <1>4, <1>6, <1>7
  <1>9. QED
    BY <1>3, <1>8, PendingAfter

LEMMA RangeStep == IInv /\ IdsInRange /\ [Next]_vars => IdsInRange'
  <1> SUFFICES ASSUME IInv, IdsInRange, [Next]_vars PROVE IdsInRange'
    OBVIOUS
  <1>0. TypeOK /\ BatchOrdered /\ msgSeq \in Nat /\ MaxMsgs \in Nat
    BY PubSubAssumption DEF IInv, TypeOK
  <1>1. ASSUME msgSeq' = msgSeq, \A d \in Clients : PendingIDs(d)' \subseteq PendingIDs(d)
        PROVE  IdsInRange'
    BY <1>1 DEF IdsInRange
  <1>2. ASSUME msgSeq' = msgSeq, req' = req PROVE IdsInRange'
    BY <1>1, <1>2 DEF PendingIDs
  <1>3. ASSUME NEW c \in Clients, NEW r, Hold(c, r), msgSeq' = msgSeq,
               r.op = "publish" => r.ids = <<>> \/ (req[c].op = "publish" /\ r.ids = req[c].ids)
        PROVE  IdsInRange'
    BY <1>0, <1>1, <1>3, PendingShrinks
  <1>4. ASSUME NEW c \in Clients, Begin(c) PROVE IdsInRange'
    BY <1>3, <1>4 DEF Begin, CreateSubscription, PutSubscription, DeleteSubscription,
         PublishMessages, PullMessages, Acknowledge, ModifyAckDeadline
  <1>5. ASSUME NEW c \in Clients, PublishList(c) PROVE IdsInRange'
    <2>1. PICK r : r = [req[c] EXCEPT !.step = "ids", !.targets = SubsForTopic(req[c].topic)]
      OBVIOUS
    <2>2. req[c] \in PublishReq
      BY <1>0, <1>5, RequestFields DEF TypeOK, PublishList
    <2>3. r.op = "publish" /\ r.ids = req[c].ids /\ req[c].op = "publish"
      BY <2>1, <2>2 DEF PublishReq
    <2>4. Hold(c, r) /\ msgSeq' = msgSeq
      BY <1>5, <2>1 DEF PublishList
    <2>5. QED
      BY <1>3, <2>3, <2>4
  <1>6. ASSUME NEW c \in Clients, PublishID(c) PROVE IdsInRange'
    <2>1. /\ PendingIDs(c)' = PendingIDs(c) \cup {msgSeq + 1}
          /\ \A d \in Clients : d # c => PendingIDs(d)' = PendingIDs(d)
      BY <1>0, <1>6, DrawnIDs
    <2>2. msgSeq' = msgSeq + 1 /\ msgSeq < MaxMsgs
      BY <1>6 DEF PublishID
    <2>3. msgSeq + 1 \in 1..MaxMsgs
      BY <1>0, <2>2
    <2>4. QED
      BY <1>0, <2>1, <2>2, <2>3 DEF IdsInRange
  <1>7. ASSUME NEW c \in Clients, Continue(c), ~PublishList(c), ~PublishID(c) PROVE IdsInRange'
    BY <1>3, <1>7 DEF Continue, StoreSubscription, DropQueue, PublishEnqueue, PullLocked,
         AcknowledgeLocked, ModifyAckDeadlineLocked, Done, NoReq
  <1>8. CASE UNCHANGED vars
    BY <1>2, <1>8 DEF vars
  <1>9. ASSUME NEW t \in Topics, PutTopic(t) \/ DeleteTopic(t) PROVE IdsInRange'
    BY <1>2, <1>9 DEF PutTopic, DeleteTopic
  <1>10. ASSUME NEW s \in Subs, ResetSubscription(s) PROVE IdsInRange'
    BY <1>2, <1>10 DEF ResetSubscription
  <1>11. CASE Tick
    BY <1>2, <1>11 DEF Tick
  <1>12. QED
    BY <1>4, <1>5, <1>6, <1>7, <1>8, <1>9, <1>10, <1>11 DEF Next

LEMMA PromiseInit == Init => Promise!Init
  <1> SUFFICES ASSUME Init PROVE Promise!Init
    OBVIOUS
  <1>1. PublishedIDs = {} /\ KnownAcks = {}
    BY DEF Init, PublishedIDs, KnownAcks
  <1>2. \A s \in Subs : LeasesOf(s) = {}
    BY DEF Init, LeasesOf
  <1>3. Outbox = [s \in Subs |-> {}]
    BY DEF Init, Outbox
  <1>4. Leases = {}
    BY <1>2 DEF Leases
  <1>5. QED
    BY <1>1, <1>3, <1>4 DEF Promise!Init

-----------------------------------------------------------------------------
(* The current leases, before and after a step (LeasesOf). *)
LEMMA LeaseOfEntry ==
  /\ \A l : l \in Leases <=> \E s \in Subs : l \in LeasesOf(s)
  /\ \A l : l \in Leases' <=> \E s \in Subs : l \in LeasesOf(s)'
  /\ \A s, l : l \in LeasesOf(s) <=> \E e \in queues[s] :
        e.inflight /\ l = [sub |-> s, msg |-> e.msg, ack |-> e.ackID]
  /\ \A s, l : l \in LeasesOf(s)' <=> \E e \in queues'[s] :
        e.inflight /\ l = [sub |-> s, msg |-> e.msg, ack |-> e.ackID]
  BY DEF Leases, LeasesOf

(* A step on one queue changes the leases of that queue only. *)
LEMMA LeasesElsewhere ==
  ASSUME NEW s \in Subs, \A t \in Subs : t # s => queues'[t] = queues[t]
  PROVE  /\ \A l : l \in Leases' <=> \/ l \in Leases /\ l.sub # s
                                     \/ l \in LeasesOf(s)'
         /\ \A l : l \in Leases /\ l.sub = s <=> l \in LeasesOf(s)
         /\ \A l : l \in LeasesOf(s)' => l.sub = s
  <1>1. \A t, l : l \in LeasesOf(t) \/ l \in LeasesOf(t)' => l.sub = t
    BY LeaseOfEntry
  <1>2. \A t \in Subs : t # s => LeasesOf(t)' = LeasesOf(t)
    BY DEF LeasesOf
  <1>3. QED
    BY <1>1, <1>2, LeaseOfEntry

(* The ids of an in-flight entry went out with its delivery. *)
LEMMA LeasesIssued ==
  ASSUME IInv
  PROVE  \A l \in Leases : l.ack \in KnownAcks
  <1> SUFFICES ASSUME NEW l \in Leases PROVE l.ack \in KnownAcks
    OBVIOUS
  <1>0. PICK s \in Subs : l \in LeasesOf(s)
    BY LeaseOfEntry
  <1>1. PICK e \in queues[s] : e.inflight /\ l = [sub |-> s, msg |-> e.msg, ack |-> e.ackID]
    BY <1>0, LeaseOfEntry
  <1>2. \E h \in handed : h.ack = e.ackID
    BY <1>1 DEF IInv, LeaseBinding
  <1>3. QED
    BY <1>1, <1>2 DEF KnownAcks

(* What the promise speaks about, as a step leaves it alone. *)
LEMMA SameQueues ==
  ASSUME queues' = queues
  PROVE  Outbox' = Outbox /\ Leases' = Leases
  BY DEF Outbox, Leases, LeasesOf

LEMMA SamePending ==
  ASSUME msgSeq' = msgSeq, \A c \in Clients : PendingIDs(c)' = PendingIDs(c)
  PROVE  PublishedIDs' = PublishedIDs
  <1>1. {PendingIDs(c)' : c \in Clients} = {PendingIDs(c) : c \in Clients}
    OBVIOUS
  <1>2. QED
    BY <1>1 DEF PublishedIDs

(* A step that neither touches a queue nor a publisher's ids is a stutter. *)
LEMMA QuietIsStutter ==
  ASSUME UNCHANGED <<queues, msgSeq, handed>>,
         \A c \in Clients : PendingIDs(c)' = PendingIDs(c)
  PROVE  UNCHANGED Promise!vars
  <1>1. KnownAcks' = KnownAcks
    BY DEF KnownAcks
  <1>2. QED
    BY <1>1, SameQueues, SamePending DEF Promise!vars

(* Taking and parking requests. *)
LEMMA ParkIsStutter ==
  ASSUME TypeOK, NEW c \in Clients, NEW r, Hold(c, r), UNCHANGED <<queues, msgSeq, handed>>,
         r.op = "publish" => r.ids = <<>>, req[c].op # "publish"
  PROVE  UNCHANGED Promise!vars
  <1>1. PendingIDs(c) = {} /\ PendingIDs(c)' = {}
    <2>1. PendingIDs(c) = {}
      BY DEF PendingIDs
    <2>2. PendingIDs(c)' = IF r.op = "publish" THEN {r.ids[i] : i \in 1..Len(r.ids)} ELSE {}
      BY PendingAfter
    <2>3. r.ids = <<>> => 1..Len(r.ids) = {}
      OBVIOUS
    <2>4. QED
      BY <2>1, <2>2, <2>3
  <1>2. \A d \in Clients : PendingIDs(d)' = PendingIDs(d)
    BY <1>1, PendingAfter
  <1>3. QED
    BY <1>2, QuietIsStutter

LEMMA PublishListIsStutter ==
  ASSUME TypeOK, NEW c \in Clients, PublishList(c)
  PROVE  UNCHANGED Promise!vars
  <1>1. PICK r : r = [req[c] EXCEPT !.step = "ids", !.targets = SubsForTopic(req[c].topic)]
    OBVIOUS
  <1>2. req[c] \in PublishReq
    BY RequestFields DEF TypeOK, PublishList
  <1>3. r.op = "publish" /\ r.ids = req[c].ids /\ req[c].op = "publish"
    BY <1>1, <1>2 DEF PublishReq
  <1>4. Hold(c, r) /\ UNCHANGED <<queues, msgSeq, handed>>
    BY <1>1 DEF PublishList, history
  <1>5. PendingIDs(c)' = PendingIDs(c)
    <2>1. PendingIDs(c)' = {r.ids[i] : i \in 1..Len(r.ids)}
      BY <1>3, <1>4, PendingAfter
    <2>2. QED
      BY <1>3, <2>1 DEF PendingIDs
  <1>6. \A d \in Clients : PendingIDs(d)' = PendingIDs(d)
    BY <1>4, <1>5, PendingAfter
  <1>7. QED
    BY <1>4, <1>6, QuietIsStutter

(* An id drawn from msgSeq is pending at once, so nothing is published yet. *)
LEMMA PublishIDIsStutter ==
  ASSUME TypeOK, NEW c \in Clients, PublishID(c)
  PROVE  UNCHANGED Promise!vars
  <1> DEFINE P == UNION {PendingIDs(d) : d \in Clients}
             Q == UNION {PendingIDs(d)' : d \in Clients}
  <1>1. /\ PendingIDs(c)' = PendingIDs(c) \cup {msgSeq + 1}
        /\ \A d \in Clients : d # c => PendingIDs(d)' = PendingIDs(d)
    BY DrawnIDs
  <1>2. msgSeq \in Nat /\ msgSeq' = msgSeq + 1 /\ UNCHANGED <<queues, handed>>
    BY DEF PublishID, TypeOK, history
  <1>3. Q = P \cup {msgSeq + 1}
    BY <1>1
  <1> HIDE DEF P, Q
  <1>4. 1..(msgSeq + 1) = (1..msgSeq) \cup {msgSeq + 1} /\ msgSeq + 1 \notin 1..msgSeq
    BY <1>2
  <1>5. (1..(msgSeq + 1)) \ Q = (1..msgSeq) \ P
    BY <1>3, <1>4
  <1>6. PublishedIDs' = PublishedIDs
    BY <1>2, <1>5 DEF PublishedIDs, P, Q
  <1>7. KnownAcks' = KnownAcks
    BY <1>2 DEF KnownAcks
  <1>8. QED
    BY <1>2, <1>6, <1>7, SameQueues DEF Promise!vars

-----------------------------------------------------------------------------
(* DropQueue is Drop. *)
LEMMA DropQueueIsDrop ==
  ASSUME IInv, NEW c \in Clients, DropQueue(c)
  PROVE  Promise!Next
  <1>0. PICK s : s = req[c].sub
    OBVIOUS
  <1>1. TypeOK /\ s \in Subs
    BY <1>0, RequestFields DEF IInv, TypeOK, DropQueue, DeleteReq
  <1>2. /\ queues' = [queues EXCEPT ![s] = {}] /\ queues \in [Subs -> SUBSET Entry]
        /\ Hold(c, NoReq) /\ UNCHANGED <<msgSeq, handed>> /\ req[c].op = "delete"
    BY <1>0 DEF DropQueue, Done, IInv, TypeOK
  <1>3. queues'[s] = {} /\ \A t \in Subs : t # s => queues'[t] = queues[t]
    BY <1>1, <1>2
  <1>4. Leases' = {l \in Leases : l.sub # s}
    <2>1. LeasesOf(s)' = {}
      BY <1>3 DEF LeasesOf
    <2>2. QED
      BY <1>1, <1>3, <2>1, LeasesElsewhere
  <1>5. Outbox' = [Outbox EXCEPT ![s] = {}]
    BY <1>1, <1>3 DEF Outbox
  <1>6. PublishedIDs' = PublishedIDs
    <2>1. \A d \in Clients : PendingIDs(d)' = PendingIDs(d)
      BY <1>1, <1>2, PendingAfter DEF PendingIDs, NoReq
    <2>2. QED
      BY <1>2, <2>1, SamePending
  <1>7. KnownAcks' = KnownAcks
    BY <1>2 DEF KnownAcks
  <1>8. Promise!Drop(s)
    BY <1>4, <1>5, <1>6, <1>7 DEF Promise!Drop
  <1>9. QED
    BY <1>1, <1>8 DEF Promise!Next

(* Acknowledge consumes what its ids lease. *)
LEMMA AcknowledgeIsAcknowledge ==
  ASSUME IInv, NEW c \in Clients, AcknowledgeLocked(c)
  PROVE  Promise!Next
  <1>0. PICK s, ids, A, N : /\ s = req[c].sub /\ ids = req[c].ids /\ A = ids \cap KnownAcks
                            /\ N = {l \in Leases : l.sub = s /\ l.ack \in A}
    OBVIOUS
  <1>1. TypeOK /\ s \in Subs
    BY <1>0, RequestFields DEF IInv, TypeOK, AcknowledgeLocked, AckReq
  <1>2. /\ queues' = [queues EXCEPT ![s] = {e \in @ : ~Consumed(e, ids)}]
        /\ queues \in [Subs -> SUBSET Entry]
        /\ Hold(c, NoReq) /\ UNCHANGED <<msgSeq, handed>> /\ req[c].op = "ack"
    BY <1>0 DEF AcknowledgeLocked, Done, IInv, TypeOK
  <1>3. /\ queues'[s] = {e \in queues[s] : ~Consumed(e, ids)}
        /\ \A t \in Subs : t # s => queues'[t] = queues[t]
    BY <1>1, <1>2
  <1>4. \A l : l \in N <=> l \in LeasesOf(s) /\ l.ack \in ids
    BY <1>0, <1>1, <1>3, LeasesElsewhere, LeasesIssued
  <1>5. \A l : l \in LeasesOf(s)' <=> l \in LeasesOf(s) /\ l.ack \notin ids
    BY <1>3, LeaseOfEntry DEF Consumed
  <1>6. Leases' = Leases \ N
    BY <1>1, <1>3, <1>4, <1>5, LeasesElsewhere
  <1>7. \A e \in queues[s] : Consumed(e, ids) <=> e.msg \in {l.msg : l \in N}
    <2> TAKE e \in queues[s]
    <2>1. ASSUME Consumed(e, ids) PROVE \E l \in N : l.msg = e.msg
      <3>1. [sub |-> s, msg |-> e.msg, ack |-> e.ackID] \in LeasesOf(s)
        BY <2>1, LeaseOfEntry DEF Consumed
      <3>2. QED
        BY <1>4, <2>1, <3>1 DEF Consumed
    <2>2. ASSUME NEW l \in N, l.msg = e.msg PROVE Consumed(e, ids)
      <3>1. PICK d \in queues[s] : d.inflight /\ l = [sub |-> s, msg |-> d.msg, ack |-> d.ackID]
        BY <1>4, LeaseOfEntry
      <3>2. d = e
        BY <1>1, <2>2, <3>1 DEF IInv, EntriesDistinct
      <3>3. QED
        BY <1>4, <3>1, <3>2 DEF Consumed
    <2>3. QED
      BY <2>1, <2>2
  <1>8. Outbox' = [Outbox EXCEPT ![s] = @ \ {l.msg : l \in N}]
    <2>1. {e.msg : e \in queues'[s]} = {e.msg : e \in queues[s]} \ {l.msg : l \in N}
      BY <1>3, <1>7
    <2>2. QED
      BY <1>1, <1>3, <2>1 DEF Outbox
  <1>9. PublishedIDs' = PublishedIDs
    <2>1. \A d \in Clients : PendingIDs(d)' = PendingIDs(d)
      BY <1>1, <1>2, PendingAfter DEF PendingIDs, NoReq
    <2>2. QED
      BY <1>2, <2>1, SamePending
  <1>10. KnownAcks' = KnownAcks
    BY <1>2 DEF KnownAcks
  <1>11. Promise!Acknowledge(s, A)
    BY <1>0, <1>6, <1>8, <1>9, <1>10 DEF Promise!Acknowledge, Promise!Named
  <1>12. A \in SUBSET KnownAcks
    BY <1>0
  <1>13. QED
    BY <1>1, <1>11, <1>12 DEF Promise!Next

(* ModifyAckDeadline ends the leases its ids name, or moves their deadline. *)
LEMMA ModifyIsNack ==
  ASSUME IInv, NEW c \in Clients, ModifyAckDeadlineLocked(c)
  PROVE  [Promise!Next]_(Promise!vars)
  <1>0. PICK r, s, A, N : /\ r = req[c] /\ s = r.sub /\ A = r.ids \cap KnownAcks
                          /\ N = {l \in Leases : l.sub = s /\ l.ack \in A}
    OBVIOUS
  <1>1. TypeOK /\ s \in Subs /\ r.sec \in Int
    BY <1>0, RequestFields DEF IInv, TypeOK, ModifyAckDeadlineLocked, ModAckReq
  <1>2. /\ queues' = [queues EXCEPT ![s] = {Modified(e, r) : e \in @}]
        /\ queues \in [Subs -> SUBSET Entry]
        /\ Hold(c, NoReq) /\ UNCHANGED <<msgSeq, handed>> /\ req[c].op = "modack"
    BY <1>0 DEF ModifyAckDeadlineLocked, Done, IInv, TypeOK
  <1>3. /\ queues'[s] = {Modified(e, r) : e \in queues[s]}
        /\ \A t \in Subs : t # s => queues'[t] = queues[t]
    BY <1>1, <1>2
  <1>4. \A e \in queues[s] :
           /\ Modified(e, r).msg = e.msg /\ Modified(e, r).ackID = e.ackID
           /\ Modified(e, r).inflight <=> e.inflight /\ ~(r.sec <= 0 /\ e.ackID \in r.ids)
    <2> TAKE e \in queues[s]
    <2>1. e \in Entry
      BY <1>1, <1>2
    <2>2. QED
      BY <1>1, <2>1 DEF Modified, Entry
  <1>5. Outbox' = Outbox
    <2>1. {e.msg : e \in queues'[s]} = {e.msg : e \in queues[s]}
      BY <1>3, <1>4
    <2>2. QED
      BY <1>1, <1>3, <2>1 DEF Outbox
  <1>6. PublishedIDs' = PublishedIDs
    <2>1. \A d \in Clients : PendingIDs(d)' = PendingIDs(d)
      BY <1>1, <1>2, PendingAfter DEF PendingIDs, NoReq
    <2>2. QED
      BY <1>2, <2>1, SamePending
  <1>7. KnownAcks' = KnownAcks
    BY <1>2 DEF KnownAcks
  <1>8. \A l : l \in LeasesOf(s)' <=> l \in LeasesOf(s) /\ ~(r.sec <= 0 /\ l.ack \in r.ids)
    <2>1. ASSUME NEW l, l \in LeasesOf(s)'
          PROVE  l \in LeasesOf(s) /\ ~(r.sec <= 0 /\ l.ack \in r.ids)
      <3>1. PICK d \in queues'[s] : d.inflight /\ l = [sub |-> s, msg |-> d.msg, ack |-> d.ackID]
        BY <2>1, LeaseOfEntry
      <3>2. PICK e \in queues[s] : d = Modified(e, r)
        BY <1>3
      <3>3. /\ e.inflight /\ l = [sub |-> s, msg |-> e.msg, ack |-> e.ackID]
            /\ ~(r.sec <= 0 /\ e.ackID \in r.ids)
        BY <1>4, <3>1, <3>2
      <3>4. QED
        BY <3>3, LeaseOfEntry
    <2>2. ASSUME NEW l \in LeasesOf(s), ~(r.sec <= 0 /\ l.ack \in r.ids) PROVE l \in LeasesOf(s)'
      <3>1. PICK e \in queues[s] : e.inflight /\ l = [sub |-> s, msg |-> e.msg, ack |-> e.ackID]
        BY LeaseOfEntry
      <3>2. l.ack = e.ackID
        BY <3>1
      <3>3. /\ Modified(e, r).inflight
            /\ l = [sub |-> s, msg |-> Modified(e, r).msg, ack |-> Modified(e, r).ackID]
        BY <1>4, <2>2, <3>1, <3>2
      <3>4. Modified(e, r) \in queues'[s]
        BY <1>3
      <3>5. QED
        BY <3>3, <3>4, LeaseOfEntry
    <2>3. QED
      BY <2>1, <2>2
  <1>9. \A l : l \in N <=> l \in LeasesOf(s) /\ l.ack \in r.ids
    BY <1>0, <1>1, <1>3, LeasesElsewhere, LeasesIssued
  <1>10. CASE r.sec <= 0
    <2>1. Leases' = Leases \ N
      BY <1>1, <1>3, <1>8, <1>9, <1>10, LeasesElsewhere
    <2>2. Promise!Nack(s, A)
      BY <1>0, <1>5, <1>6, <1>7, <2>1 DEF Promise!Nack, Promise!Named
    <2>3. A \in SUBSET KnownAcks
      BY <1>0
    <2>4. QED
      BY <1>1, <2>2, <2>3 DEF Promise!Next
  <1>11. CASE ~(r.sec <= 0)
    <2>1. Leases' = Leases
      BY <1>1, <1>3, <1>8, <1>11, LeasesElsewhere
    <2>2. QED
      BY <1>5, <1>6, <1>7, <2>1 DEF Promise!vars
  <1>12. QED
    BY <1>10, <1>11

(* The messages of a batch become owed to every subscription it found. *)
LEMMA EnqueueIsPublish ==
  ASSUME IInv, IdsInRange, NEW c \in Clients, PublishEnqueue(c)
  PROVE  Promise!Next
  <1> DEFINE S == req[c].targets
             ids == req[c].ids
  <1>0. PICK M, P : M = PendingIDs(c) /\ P = UNION {PendingIDs(d) : d \in Clients}
    OBVIOUS
  <1>1. TypeOK /\ S \subseteq Subs /\ req[c].op = "publish"
    BY RequestFields DEF IInv, TypeOK, PublishEnqueue, PublishReq
  <1>2. M = {ids[i] : i \in 1..Len(ids)}
    BY <1>0, <1>1 DEF PendingIDs
  <1>3. PICK base \in AckBlocks(S, Len(ids)) :
           queues' = [s \in Subs |-> IF s \in S
                                     THEN queues[s] \cup {NewEntry(base[s] + i, ids[i]) : i \in 1..Len(ids)}
                                     ELSE queues[s]]
    BY DEF PublishEnqueue
  <1> HIDE DEF S, ids
  <1>4. UNCHANGED <<msgSeq, handed>> /\ Hold(c, NoReq)
    BY DEF PublishEnqueue, Done
  <1>5. \A k, m : ~NewEntry(k, m).inflight /\ NewEntry(k, m).msg = m
    BY DEF NewEntry
  <1>6. ASSUME NEW s \in Subs
        PROVE  /\ {e.msg : e \in queues'[s]} = IF s \in S THEN {e.msg : e \in queues[s]} \cup M
                                                          ELSE {e.msg : e \in queues[s]}
               /\ LeasesOf(s)' = LeasesOf(s)
    <2>1. PICK E : /\ queues'[s] = queues[s] \cup E
                   /\ E = IF s \in S THEN {NewEntry(base[s] + i, ids[i]) : i \in 1..Len(ids)} ELSE {}
      BY <1>3
    <2>2. (\A e \in E : ~e.inflight) /\ {e.msg : e \in E} = IF s \in S THEN M ELSE {}
      BY <1>2, <1>5, <2>1
    <2>3. QED
      BY <2>1, <2>2 DEF LeasesOf
  <1>7. Outbox' = [s \in Subs |-> IF s \in S THEN Outbox[s] \cup M ELSE Outbox[s]]
    BY <1>6 DEF Outbox
  <1>8. Leases' = Leases
    <2>1. \A l : l \in Leases' <=> l \in Leases
      BY <1>6, LeaseOfEntry
    <2>2. QED
      BY <2>1
  <1>9. M \in SUBSET ((1..MaxMsgs) \ PublishedIDs)
    <2>1. M \subseteq 1..MaxMsgs
      BY <1>0 DEF IdsInRange
    <2>2. M \subseteq P
      BY <1>0
    <2>3. PublishedIDs = (1..msgSeq) \ P
      BY <1>0 DEF PublishedIDs
    <2>4. QED
      BY <2>1, <2>2, <2>3
  <1>10. /\ PendingIDs(c)' = {}
         /\ \A d \in Clients : d # c => PendingIDs(d)' = PendingIDs(d)
    BY <1>1, <1>4, PendingAfter DEF NoReq
  <1>11. UNION {PendingIDs(d)' : d \in Clients} = P \ M
    BY <1>0, <1>10 DEF IInv, PendingUnknown
  <1>12. M \subseteq 1..msgSeq
    <2>1. \A m \in M : m \in 1..MaxMsgs /\ m <= msgSeq
      BY <1>0 DEF IdsInRange, IInv, CountersAhead
    <2>2. QED
      BY <1>1, <2>1 DEF TypeOK
  <1>13. PublishedIDs' = PublishedIDs \cup M
    <2>1. PublishedIDs' = (1..msgSeq) \ (P \ M) /\ PublishedIDs = (1..msgSeq) \ P
      BY <1>0, <1>4, <1>11 DEF PublishedIDs
    <2>2. QED
      BY <1>12, <2>1
  <1>14. KnownAcks' = KnownAcks
    BY <1>4 DEF KnownAcks
  <1>15. Promise!Publish(S, M)
    BY <1>7, <1>8, <1>13, <1>14 DEF Promise!Publish
  <1>16. QED
    BY <1>1, <1>9, <1>15 DEF Promise!Next

(* A pull leases the messages it takes under fresh ids. *)
LEMMA PullIsDeliver ==
  ASSUME IInv, NEW c \in Clients, PullLocked(c)
  PROVE  Promise!Next
  <1> DEFINE Delivers(s, dl, T, ack) ==
                 /\ queues' = [queues EXCEPT ![s] = (queues[s] \ T) \cup {Leased(e, ack[e], dl) : e \in T}]
                 /\ handed' = handed \cup
                      {[ack |-> ack[e], sub |-> s, msg |-> e.msg,
                        attempt |-> Attempt(s, e.msg)] : e \in T}
             Pulls(s, dl) ==
                 \E T \in FirstAvailable(queues[s], req[c].now, req[c].limit) :
                    /\ ackSeq + Cardinality(T) <= MaxAcks
                    /\ \E ack \in FreshAcks(T) : Delivers(s, dl, T, ack)
  <1>a. Pulls(req[c].sub, req[c].deadline)
    BY DEF PullLocked
  <1> HIDE DEF Pulls
  <1>b. PICK s, q, dl : s = req[c].sub /\ q = queues[s] /\ Pulls(s, dl)
    BY <1>a
  <1>1. TypeOK /\ s \in Subs /\ req[c].op = "pull"
    BY <1>b, RequestFields DEF IInv, TypeOK, PullLocked, PullReq
  <1> HIDE DEF Delivers
  <1>2. PICK T \in FirstAvailable(queues[s], req[c].now, req[c].limit) :
           /\ ackSeq + Cardinality(T) <= MaxAcks
           /\ \E ack \in FreshAcks(T) : Delivers(s, dl, T, ack)
    BY <1>b DEF Pulls
  <1>c. PICK ack \in FreshAcks(T) : Delivers(s, dl, T, ack)
    BY <1>2
  <1>3. /\ queues' = [queues EXCEPT ![s] = (queues[s] \ T) \cup {Leased(e, ack[e], dl) : e \in T}]
        /\ handed' = handed \cup
             {[ack |-> ack[e], sub |-> s, msg |-> e.msg, attempt |-> Attempt(s, e.msg)] : e \in T}
    BY <1>c DEF Delivers
  <1>0. q = queues[s]
    BY <1>b
  <1>4. T \subseteq q /\ Cardinality(T) \in Nat
    <2>1. IsFiniteSet(queues[s])
      BY <1>1 DEF IInv, FiniteData
    <2>2. QED
      BY <1>0, <2>1, TakenFinite
  <1>5. /\ ackSeq \in Nat /\ MaxAcks \in Nat
        /\ \A e \in q : e \in Entry /\ e.slot \in Nat
        /\ \A e, d \in q : e.msg = d.msg \/ e.slot = d.slot => e = d
    BY <1>0, <1>1, PubSubAssumption DEF IInv, TypeOK, Entry, EntriesDistinct
  <1>6. \A e \in T : ack[e] \in Nat /\ ack[e] > ackSeq /\ ack[e] <= MaxAcks
    BY <1>2, <1>4, <1>5 DEF FreshAcks
  <1>7. \A e, d \in T : ack[e] = ack[d] => e = d
    <2> SUFFICES ASSUME NEW e \in T, NEW d \in T, ack[e] = ack[d], e # d PROVE FALSE
      OBVIOUS
    <2>1. e.slot # d.slot /\ e.slot \in Nat /\ d.slot \in Nat
      BY <1>4, <1>5
    <2>2. ack[e] < ack[d] \/ ack[d] < ack[e]
      BY <2>1 DEF FreshAcks
    <2>3. QED
      BY <1>6, <2>2
  <1>8. PICK L : L = [e \in T |-> Leased(e, ack[e], dl)]
    OBVIOUS
  <1>9. \A e \in T : L[e].msg = e.msg /\ L[e].ackID = ack[e] /\ L[e].inflight
    BY <1>4, <1>5, <1>8 DEF Leased, Entry
  <1>10. /\ queues'[s] = (q \ T) \cup {L[e] : e \in T}
         /\ \A t \in Subs : t # s => queues'[t] = queues[t]
    BY <1>0, <1>1, <1>3, <1>8 DEF TypeOK
  (* The messages taken, and the ack id of each. *)
  <1>11. PICK M, of : /\ M = {e.msg : e \in T}
                      /\ of = [m \in M |-> ack[CHOOSE e \in T : e.msg = m]]
    OBVIOUS
  <1>d. \A m : m \in M <=> \E e \in T : m = e.msg
    BY <1>11
  <1>12. \A e \in T : e.msg \in M /\ of[e.msg] = ack[e]
    <2> TAKE e \in T
    <2>1. (CHOOSE d \in T : d.msg = e.msg) = e
      BY <1>4, <1>5
    <2>2. QED
      BY <1>11, <2>1
  <1>13. KnownAcks' = KnownAcks \cup {of[m] : m \in M}
    <2>1. \A e \in T : [ack |-> ack[e], sub |-> s, msg |-> e.msg,
                        attempt |-> Attempt(s, e.msg)].ack = of[e.msg]
      BY <1>12
    <2>2. \A h \in handed' : h \in handed \/ \E e \in T : h.ack = of[e.msg]
      BY <1>3, <2>1
    <2>3. \A e \in T : \E h \in handed' : h.ack = of[e.msg]
      BY <1>3, <2>1
    <2>4. \A m \in M : \E e \in T : m = e.msg
      BY <1>d
    <2>5. handed \subseteq handed'
      BY <1>3
    <2>6. \A k : k \in KnownAcks' <=> k \in KnownAcks \cup {of[m] : m \in M}
      BY <1>12, <2>2, <2>3, <2>4, <2>5 DEF KnownAcks
    <2>7. QED
      BY <2>6
  <1>14. of \in [M -> (1..MaxAcks) \ KnownAcks]
    <2>1. \A e \in T : ack[e] \in (1..MaxAcks) \ KnownAcks
      <3>1. \A h \in handed : h.ack <= ackSeq /\ h.ack \in Nat
        BY <1>1 DEF IInv, CountersAhead, TypeOK, Delivery
      <3>2. QED
        BY <1>5, <1>6, <3>1 DEF KnownAcks
    <2>2. QED
      BY <1>11, <1>12, <2>1
  <1>15. \A m, n \in M : of[m] = of[n] => m = n
    BY <1>7, <1>d, <1>12
  <1>16. Outbox' = Outbox
    <2>1. {e.msg : e \in queues'[s]} = {e.msg : e \in queues[s]}
      BY <1>0, <1>4, <1>9, <1>10
    <2>2. QED
      BY <1>1, <1>10, <2>1 DEF Outbox
  <1>17. M \in SUBSET Outbox[s]
    BY <1>0, <1>1, <1>4, <1>11 DEF Outbox
  <1>18. \A l : l \in LeasesOf(s)' <=>
                  \/ l \in LeasesOf(s) /\ l.msg \notin M
                  \/ \E m \in M : l = [sub |-> s, msg |-> m, ack |-> of[m]]
    <2>1. \A e \in q : e \in T <=> e.msg \in M
      BY <1>4, <1>5, <1>d
    <2>2. \A l : l \in LeasesOf(s) /\ l.msg \notin M <=>
                   \E e \in q \ T : e.inflight /\ l = [sub |-> s, msg |-> e.msg, ack |-> e.ackID]
      <3>1. \A e \in q : e.msg \notin M <=> e \in q \ T
        BY <2>1
      <3>2. ASSUME NEW l, l \in LeasesOf(s), l.msg \notin M
            PROVE  \E e \in q \ T : e.inflight /\ l = [sub |-> s, msg |-> e.msg, ack |-> e.ackID]
        <4>1. PICK e \in q : e.inflight /\ l = [sub |-> s, msg |-> e.msg, ack |-> e.ackID]
          BY <1>0, <3>2, LeaseOfEntry
        <4>2. e \in q \ T
          BY <3>1, <3>2, <4>1
        <4>3. QED
          BY <4>1, <4>2
      <3>4. ASSUME NEW l, NEW e \in q \ T, e.inflight, l = [sub |-> s, msg |-> e.msg, ack |-> e.ackID]
            PROVE  l \in LeasesOf(s) /\ l.msg \notin M
        BY <1>0, <3>1, <3>4, LeaseOfEntry
      <3>5. QED
        BY <3>2, <3>4
    <2>3. \A l : (\E m \in M : l = [sub |-> s, msg |-> m, ack |-> of[m]]) <=>
                   \E e \in T : l = [sub |-> s, msg |-> e.msg, ack |-> ack[e]]
      <3>1. \A m \in M : \E e \in T : m = e.msg /\ of[m] = ack[e]
        BY <1>d, <1>12
      <3>2. QED
        BY <1>12, <3>1
    <2>4. \A l : l \in LeasesOf(s)' <=>
                   \/ \E e \in q \ T : e.inflight /\ l = [sub |-> s, msg |-> e.msg, ack |-> e.ackID]
                   \/ \E e \in T : l = [sub |-> s, msg |-> e.msg, ack |-> ack[e]]
      <3>1. \A l : l \in LeasesOf(s)' <=> \E d \in queues'[s] :
               d.inflight /\ l = [sub |-> s, msg |-> d.msg, ack |-> d.ackID]
        BY LeaseOfEntry
      <3>2. \A d : d \in queues'[s] <=> d \in q \ T \/ \E e \in T : d = L[e]
        BY <1>10
      <3>3. \A e \in T : L[e] \in queues'[s]
        BY <3>2
      <3>4. QED
        BY <1>9, <3>1, <3>2, <3>3
    <2>5. QED
      BY <2>2, <2>3, <2>4
  <1>19. Leases' = {l \in Leases : ~(l.sub = s /\ l.msg \in M)}
                     \cup {[sub |-> s, msg |-> m, ack |-> of[m]] : m \in M}
    <2>1. \A l : l \in Leases' <=> \/ l \in Leases /\ l.sub # s
                                   \/ l \in LeasesOf(s)'
      BY <1>1, <1>10, LeasesElsewhere
    <2>2. \A l : l \in Leases /\ l.sub = s <=> l \in LeasesOf(s)
      BY <1>1, <1>10, LeasesElsewhere
    <2>3. QED
      BY <1>18, <2>1, <2>2
  <1>20. PublishedIDs' = PublishedIDs
    <2>1. Hold(c, NoReq) /\ msgSeq' = msgSeq
      BY DEF PullLocked, Done
    <2>2. \A d \in Clients : PendingIDs(d)' = PendingIDs(d)
      BY <1>1, <2>1, PendingAfter DEF PendingIDs, NoReq
    <2>3. QED
      BY <2>1, <2>2, SamePending
  <1>21. Promise!Deliver(s, M, of)
    BY <1>13, <1>15, <1>16, <1>19, <1>20 DEF Promise!Deliver
  <1>22. QED
    BY <1>1, <1>14, <1>17, <1>21 DEF Promise!Next

-----------------------------------------------------------------------------
LEMMA PromiseStep == IInv /\ IdsInRange /\ [Next]_vars => [Promise!Next]_(Promise!vars)
  <1> SUFFICES ASSUME IInv, IdsInRange, [Next]_vars PROVE [Promise!Next]_(Promise!vars)
    OBVIOUS
  <1>0. TypeOK
    BY DEF IInv
  <1>1. ASSUME UNCHANGED <<queues, msgSeq, handed, req>> PROVE UNCHANGED Promise!vars
    BY <1>1, QuietIsStutter DEF PendingIDs
  <1>2. ASSUME NEW c \in Clients, Begin(c) PROVE UNCHANGED Promise!vars
    <2>1. \A r : Idle(c) /\ Hold(c, r) /\ UNCHANGED <<queues, msgSeq, handed>>
                   /\ (r.op = "publish" => r.ids = <<>>) => UNCHANGED Promise!vars
      BY <1>0, ParkIsStutter DEF Idle, NoReq
    <2>2. QED
      BY <1>2, <2>1 DEF Begin, CreateSubscription, PutSubscription, DeleteSubscription,
           PublishMessages, PullMessages, Acknowledge, ModifyAckDeadline, history
  <1>3. ASSUME NEW c \in Clients, StoreSubscription(c) PROVE UNCHANGED Promise!vars
    BY <1>0, <1>3, ParkIsStutter DEF StoreSubscription, Done, NoReq, history
  <1>4. CASE UNCHANGED vars
    BY <1>1, <1>4 DEF vars
  <1>5. ASSUME NEW t \in Topics, PutTopic(t) \/ DeleteTopic(t) PROVE UNCHANGED Promise!vars
    BY <1>1, <1>5 DEF PutTopic, DeleteTopic, history
  <1>6. ASSUME NEW s \in Subs, ResetSubscription(s) PROVE UNCHANGED Promise!vars
    BY <1>1, <1>6 DEF ResetSubscription, history
  <1>7. CASE Tick
    BY <1>1, <1>7 DEF Tick, history
  <1>8. ASSUME NEW c \in Clients, Continue(c) PROVE [Promise!Next]_(Promise!vars)
    BY <1>0, <1>3, <1>8, DropQueueIsDrop, PublishListIsStutter, PublishIDIsStutter, EnqueueIsPublish,
       PullIsDeliver, AcknowledgeIsAcknowledge, ModifyIsNack
    DEF Continue
  <1>9. QED
    BY <1>2, <1>4, <1>5, <1>6, <1>7, <1>8 DEF Next

(* The queues with their leases implement the at-least-once promise: every *)
(* step of the service is a step AtLeastOnce allows (KeepsPromise).        *)
THEOREM QueuesKeepPromise == Spec => KeepsPromise
  <1>1. Spec => [](IInv /\ IdsInRange)
    BY IInvInit, IInvStep, RangeInit, RangeStep, PTL DEF Spec
  <1>2. QED
    BY PromiseInit, PromiseStep, <1>1, PTL DEF Spec, KeepsPromise, Promise!Spec
=============================================================================
