--------------------------- MODULE FirestoreProofs ---------------------------
(* Proofs about Firestore, for all values of its constants. *)
EXTENDS Firestore, SequenceTheorems, FiniteSetTheorems, TLAPS

LEMMA Bounds ==
  /\ Cap \in Nat \ {0} /\ MaxWrites \in Nat /\ MaxOps \in Nat /\ MaxAdds \in Nat
  /\ IsFiniteSet(Docs) /\ Free \notin Writers /\ Writers \cap Listeners = {}
  BY FirestoreAssumption DEF Free

(* What a message at the end of a queue adds to what is said of the queue. *)
LEMMA AtEnd ==
  ASSUME NEW q \in Seq(Message), NEW m \in Message
  PROVE  /\ Append(q, m) \in Seq(Message) /\ Len(Append(q, m)) = Len(q) + 1
         /\ \A v : Below(q, v) /\ (m.from = "locked" => m.ver < v) => Below(Append(q, m), v)
         /\ Rising(q) /\ (m.from = "locked" => Below(q, m.ver)) => Rising(Append(q, m))
         /\ \A d, v : Tells(Append(q, m), d, v) <=>
               Tells(q, d, v) \/ (m.doc = d /\ m.ver = v /\ m.from # "mark")
  <1> DEFINE r == Append(q, m)
  <1>1. /\ r \in Seq(Message) /\ Len(r) = Len(q) + 1 /\ DOMAIN r = 1..(Len(q) + 1)
        /\ DOMAIN q = 1..Len(q) /\ Len(q) \in Nat
        /\ \A i \in 1..Len(q) : r[i] = q[i]
        /\ r[Len(q) + 1] = m
    OBVIOUS
  <1> HIDE DEF r
  <1>2. \A i \in DOMAIN r : i \in DOMAIN q \/ i = Len(q) + 1
    BY <1>1
  <1>3. \A v : Below(q, v) /\ (m.from = "locked" => m.ver < v) => Below(r, v)
    BY <1>1, <1>2 DEF Below
  <1>4. Rising(q) /\ (m.from = "locked" => Below(q, m.ver)) => Rising(r)
    BY <1>1, <1>2 DEF Rising, Below
  <1>5. \A d, v : Tells(r, d, v) <=> Tells(q, d, v) \/ (m.doc = d /\ m.ver = v /\ m.from # "mark")
    BY <1>1, <1>2 DEF Tells
  <1>6. QED
    BY <1>1, <1>3, <1>4, <1>5 DEF r

(* What taking the first message of a queue leaves. *)
LEMMA AtHead ==
  ASSUME NEW q \in Seq(Message), q # <<>>
  PROVE  /\ Tail(q) \in Seq(Message) /\ Len(Tail(q)) = Len(q) - 1 /\ Len(q) > 0
         /\ Head(q) = q[1] /\ Head(q) \in Message
         /\ \A i \in DOMAIN Tail(q) : i + 1 \in DOMAIN q /\ Tail(q)[i] = q[i + 1] /\ i + 1 > 1
         /\ \A v : Below(q, v) => Below(Tail(q), v) /\ (Head(q).from = "locked" => Head(q).ver < v)
         /\ Rising(q) =>
              /\ Rising(Tail(q))
              /\ Head(q).from = "locked" => \A i \in DOMAIN Tail(q) :
                    Tail(q)[i].from = "locked" => Head(q).ver < Tail(q)[i].ver
         /\ \A d, v : Tells(q, d, v) <=>
               Tells(Tail(q), d, v) \/ (Head(q).doc = d /\ Head(q).ver = v /\ Head(q).from # "mark")
  <1> DEFINE r == Tail(q)
  <1>1. /\ r \in Seq(Message) /\ Len(r) = Len(q) - 1 /\ DOMAIN r = 1..(Len(q) - 1)
        /\ DOMAIN q = 1..Len(q) /\ Len(q) \in Nat /\ Len(q) > 0
        /\ Head(q) = q[1] /\ \A i \in 1..(Len(q) - 1) : r[i] = q[i + 1]
    OBVIOUS
  <1>2. q[1] \in Message
    BY <1>1
  <1> HIDE DEF r
  <1>3. /\ \A i \in DOMAIN r : i \in Int /\ i + 1 \in DOMAIN q /\ r[i] = q[i + 1] /\ i + 1 > 1
        /\ \A i \in DOMAIN q : i = 1 \/ (i - 1 \in DOMAIN r /\ r[i - 1] = q[i])
        /\ 1 \in DOMAIN q
    BY <1>1
  <1>4. \A v : Below(q, v) => Below(r, v) /\ (q[1].from = "locked" => q[1].ver < v)
    BY <1>3 DEF Below
  <1>5. Rising(q) => /\ Rising(r)
                     /\ q[1].from = "locked" => \A i \in DOMAIN r :
                           r[i].from = "locked" => q[1].ver < r[i].ver
    <2> SUFFICES ASSUME Rising(q) PROVE
                   /\ Rising(r)
                   /\ q[1].from = "locked" => \A i \in DOMAIN r :
                           r[i].from = "locked" => q[1].ver < r[i].ver
      OBVIOUS
    <2>1. Rising(r)
      <3> SUFFICES ASSUME NEW i \in DOMAIN r, NEW j \in DOMAIN r, i < j,
                          r[i].from = "locked", r[j].from = "locked"
                   PROVE  r[i].ver < r[j].ver
        BY DEF Rising
      <3>1. i + 1 \in DOMAIN q /\ j + 1 \in DOMAIN q /\ i + 1 < j + 1
        BY <1>3
      <3>2. QED
        BY <1>3, <3>1 DEF Rising
    <2>2. QED
      BY <1>3, <2>1 DEF Rising
  <1>6. \A d, v : Tells(r, d, v) \/ (q[1].doc = d /\ q[1].ver = v /\ q[1].from # "mark") => Tells(q, d, v)
    BY <1>3 DEF Tells
  <1>7. \A d, v : Tells(q, d, v) => Tells(r, d, v) \/ (q[1].doc = d /\ q[1].ver = v /\ q[1].from # "mark")
    BY <1>3 DEF Tells
  <1>8. QED
    BY <1>1, <1>2, <1>3, <1>4, <1>5, <1>6, <1>7 DEF r

(* An older bound is a bound. *)
LEMMA BelowMore ==
  ASSUME NEW q \in Seq(Message), NEW u \in Nat, NEW v \in Nat, u <= v, Below(q, u)
  PROVE  Below(q, v)
  <1>0. \A i \in DOMAIN q : q[i] \in Message
    OBVIOUS
  <1>1. \A i \in DOMAIN q : q[i].ver \in Nat
    BY <1>0 DEF Message
  <1>2. QED
    BY <1>1 DEF Below

LEMMA EmptyQueue ==
  <<>> \in Seq(Message) /\ DOMAIN <<>> = {} /\ Rising(<<>>) /\ (\A v : Below(<<>>, v))
    /\ \A d, v : ~Tells(<<>>, d, v)
  BY DEF Rising, Below, Tells

(* What is said of two queues, said of one after the other (CommitUnlock). *)
LEMMA Joined ==
  ASSUME NEW q \in Seq(Message), NEW r \in Seq(Message)
  PROVE  /\ q \o r \in Seq(Message)
         /\ \A d, v : Tells(q, d, v) => Tells(q \o r, d, v)
         /\ \A d, v : Tells(r, d, v) => Tells(q \o r, d, v)
         /\ \A i \in DOMAIN (q \o r) : \/ i \in DOMAIN q /\ (q \o r)[i] = q[i]
                                       \/ i - Len(q) \in DOMAIN r /\ (q \o r)[i] = r[i - Len(q)]
         /\ q \o r = <<>> => q = <<>>
  <1> DEFINE s == q \o r
  <1>1. /\ s \in Seq(Message) /\ Len(s) = Len(q) + Len(r)
        /\ \A i \in 1..Len(s) : s[i] = IF i <= Len(q) THEN q[i] ELSE r[i - Len(q)]
    BY ConcatProperties
  <1>2. /\ DOMAIN s = 1..(Len(q) + Len(r)) /\ DOMAIN q = 1..Len(q) /\ DOMAIN r = 1..Len(r)
        /\ Len(q) \in Nat /\ Len(r) \in Nat
    BY <1>1
  <1> HIDE DEF s
  <1>3. \A i \in DOMAIN q : i \in DOMAIN s /\ s[i] = q[i]
    BY <1>1, <1>2
  <1>4. \A i \in DOMAIN r : i + Len(q) \in DOMAIN s /\ s[i + Len(q)] = r[i]
    BY <1>1, <1>2
  <1>5. \A i \in DOMAIN s : \/ i \in DOMAIN q /\ s[i] = q[i]
                            \/ i - Len(q) \in DOMAIN r /\ s[i] = r[i - Len(q)]
    BY <1>1, <1>2
  <1>6. s = <<>> => q = <<>>
    BY <1>1, <1>2
  <1>7. (\A d, v : Tells(q, d, v) => Tells(s, d, v)) /\ (\A d, v : Tells(r, d, v) => Tells(s, d, v))
    BY <1>3, <1>4 DEF Tells
  <1>8. QED
    BY <1>1, <1>5, <1>6, <1>7 DEF s

(* The parts of the state, each with its type (Shape). *)
LEMMA Fields ==
  ASSUME Shape
  PROVE  /\ writes \in Nat
         /\ \A w \in Writers : wr[w] \in Writer /\ wr[w].evs \in Seq(Message)
                               /\ wr[w].ops \in Seq(Op) /\ wr[w].dels \in Seq(Message)
                               /\ wr[w].left \subseteq Listeners
         /\ \A l \in Listeners : lst[l] \in Listener /\ lst[l].outbox \in Seq(Message)
                                 /\ stream[l] \in Seq(Message)
         /\ \A p \in Writers \cup Listeners : out[p] \in Sending /\ out[p].todo \in Seq(Message)
                                              /\ out[p].full \in BOOLEAN
         /\ \A d \in Docs : docs[d].ver \in 0..writes /\ docs[d].exists \in BOOLEAN
  BY DEF Shape, Writer, Listener, Sending

-----------------------------------------------------------------------------
(* A step of the reader of l, or of its sender when it exits: the record of  *)
(* the listener, except for its outbox, and what the reader sends.           *)
LEMMA ListenerMoves ==
  ASSUME IInv, NEW l \in Listeners, NEW x \in Listener, NEW o \in Sending,
         lst' = [lst EXCEPT ![l] = x], out' = [out EXCEPT ![l] = o],
         UNCHANGED <<docs, writes, mu, wr, stream>>, panic' \in BOOLEAN,
         x.outbox = lst[l].outbox,
         o = out[l] \/ (Idle(l) /\ ~o.full),
         \A i \in DOMAIN o.todo : o.todo[i].from # "locked",
         o.todo # <<>> \/ o.full => o.to = l /\ x.pc \in {"add", "reply"},
         x.pc \in {"recv", "add", "reply"} => x.registered,
         x.pc = "off" => ~x.target,
         Open(x) => \/ Open(lst[l])
                    \/ o.to = l /\ \A d \in Docs : docs[d].exists => Tells(o.todo, d, docs[d].ver)
  PROVE  IInv'
  <1>1. /\ lst'[l] = x /\ \A k \in Listeners : k # l => lst'[k] = lst[k]
        /\ out'[l] = o /\ \A p \in Writers \cup Listeners : p # l => out'[p] = out[p]
        /\ l \notin Writers
    BY Bounds DEF IInv, Shape
  <1>2. \A k \in Listeners : lst'[k].outbox = lst[k].outbox
    BY <1>1
  <1>3. Shape'
    BY DEF IInv, Shape
  <1>4. Budget'
    BY <1>2 DEF IInv, Budget
  <1>5. Busy'
    BY <1>1 DEF IInv, Busy, Idle
  <1>6. Locks'
    BY <1>1 DEF IInv, Locks
  <1>7. Ordered'
    BY <1>1, <1>2 DEF IInv, Ordered
  <1>8. \A p \in Writers \cup Listeners : out'[p].full => out[p].full /\ out'[p].to = out[p].to
    BY <1>1
  <1>9. \A p \in Writers \cup Listeners : out[p].full => out'[p] = out[p]
    BY <1>1 DEF Idle
  <1>10. ASSUME NEW p \in Writers \cup Listeners, NEW d, NEW v, Tells(out[p].todo, d, v)
         PROVE  out'[p] = out[p]
    BY <1>1, <1>10, EmptyQueue DEF Idle
  <1>11. ASSUME NEW k \in Listeners, NEW d \in Docs, Served(k)', docs[d].exists
         PROVE  Informed(k, d, docs[d].ver)'
    <2>1. CASE Open(lst[k])
      <3>1. Served(k)
        BY <1>9, <1>11, <2>1 DEF Served
      <3>2. Informed(k, d, docs[d].ver)
        BY <1>11, <3>1 DEF IInv, Arriving
      <3>3. QED
        BY <1>2, <1>10, <3>2 DEF Informed
    <2>2. CASE ~Open(lst[k])
      <3>1. k = l
        BY <1>1, <1>11, <2>2 DEF Served
      <3>2. o.to = l /\ Tells(o.todo, d, docs[d].ver)
        BY <1>1, <1>11, <2>2, <3>1 DEF Served
      <3>3. QED
        BY <1>1, <3>1, <3>2 DEF Informed
    <2>3. QED
      BY <2>1, <2>2
  <1>12. Arriving'
    BY <1>11 DEF Arriving
  <1>13. QED
    BY <1>3, <1>4, <1>5, <1>6, <1>7, <1>12 DEF IInv

(* A step of the writer w: its own record, what it has to send, the lock and *)
(* the documents.                                                            *)
LEMMA WriterMoves ==
  ASSUME IInv, NEW w \in Writers, NEW x \in Writer, NEW o \in Sending, Idle(w),
         wr' = [wr EXCEPT ![w] = x], out' = [out EXCEPT ![w] = o],
         UNCHANGED <<lst, stream, panic>>,
         docs' \in [Docs -> [ver : 0 .. writes', exists : BOOLEAN]],
         writes' \in Nat, writes <= writes', mu' \in Writers \cup {Free},
         \A v \in Writers : v # w /\ mu = v => mu' = v,
         writes' <= MaxWrites + MaxOps,
         x.pc = "commit" => mu' = w /\ Len(x.ops) <= MaxOps
                               /\ writes' + Len(x.ops) <= MaxWrites + MaxOps,
         \A v \in Writers : v # w /\ wr[v].pc = "commit" =>
            writes' + Len(wr[v].ops) <= MaxWrites + MaxOps,
         ~o.full, o.todo # <<>> => o.to \in Listeners /\ x.pc = "send",
         x.pc = "idle" => x.evs = <<>>, x.pc = "send" => x.evs # <<>>,
         \A i \in DOMAIN x.evs : x.evs[i].from = "locked" =>
            mu' = w /\ Len(x.evs) = 1 /\ x.pc \in {"fan", "send"} /\ x.evs[i].ver <= writes',
         \A i \in DOMAIN x.dels : x.dels[i].from # "locked",
         \A i \in DOMAIN o.todo : o.todo[i].from = "locked" =>
            i = 1 /\ o.todo[i] = Head(x.evs) /\ o.to \notin x.left,
         \A l \in Listeners : Untold(x, o, l) =>
            \/ Untold(wr[w], out[w], l) /\ Head(x.evs) = Head(wr[w].evs)
            \/ Head(x.evs).ver = writes + 1,
         \A l \in Listeners, d \in Docs : docs'[d].exists /\ Served(l) =>
            \/ docs'[d] = docs[d] /\ (Tells(Owed(wr[w], l), d, docs[d].ver) =>
                  \/ Tells(Owed(x, l), d, docs[d].ver)
                  \/ o.to = l /\ Tells(o.todo, d, docs[d].ver))
            \/ Tells(Owed(x, l), d, docs'[d].ver)
  PROVE  IInv'
  <1>1. /\ wr'[w] = x /\ \A v \in Writers : v # w => wr'[v] = wr[v]
        /\ out'[w] = o /\ \A p \in Writers \cup Listeners : p # w => out'[p] = out[p]
        /\ w \notin Listeners
    BY Bounds DEF IInv, Shape
  <1>2. Shape'
    BY DEF IInv, Shape
  <1>3. Budget'
    BY <1>1 DEF IInv, Budget
  <1>4. Busy'
    BY <1>1 DEF IInv, Busy, Idle
  <1>5. Locks'
    <2>1. writes \in Nat /\ \A v \in Writers : \A i \in DOMAIN wr[v].evs : wr[v].evs[i].ver \in Nat
      <3>1. \A v \in Writers : \A i \in DOMAIN wr[v].evs : wr[v].evs[i] \in Message
        BY Fields DEF IInv
      <3>2. QED
        BY <3>1, Fields DEF IInv, Message
    <2>2. ASSUME NEW v \in Writers
          PROVE  /\ wr'[v].pc = "commit" => mu' = v
                 /\ \A i \in DOMAIN wr'[v].evs : wr'[v].evs[i].from = "locked" =>
                      /\ mu' = v /\ Len(wr'[v].evs) = 1 /\ wr'[v].pc \in {"fan", "send"}
                      /\ wr'[v].evs[i].ver <= writes'
                 /\ \A i \in DOMAIN wr'[v].dels : wr'[v].dels[i].from # "locked"
      <3>1. CASE v = w
        BY <1>1, <3>1
      <3>2. CASE v # w
        BY <1>1, <2>1, <3>2 DEF IInv, Locks
      <3>3. QED
        BY <3>1, <3>2
    <2>3. ASSUME NEW p \in Writers \cup Listeners, NEW i \in DOMAIN out'[p].todo,
                 out'[p].todo[i].from = "locked"
          PROVE  /\ p \in Writers /\ i = 1 /\ out'[p].todo[i] = Head(wr'[p].evs)
                 /\ out'[p].to \notin wr'[p].left
      <3>1. CASE p = w
        BY <1>1, <2>3, <3>1
      <3>2. CASE p # w
        BY <1>1, <2>3, <3>2 DEF IInv, Locks
      <3>3. QED
        BY <3>1, <3>2
    <2>4. QED
      BY <2>2, <2>3 DEF Locks
  <1>6. Ordered'
    <2>1. \A l \in Listeners : /\ stream[l] \in Seq(Message) /\ lst[l].outbox \in Seq(Message)
                               /\ writes + 1 \in Nat /\ writes' + 1 \in Nat /\ writes + 1 <= writes' + 1
      <3>1. writes \in Nat
        BY Fields DEF IInv
      <3>2. writes + 1 \in Nat /\ writes' + 1 \in Nat /\ writes + 1 <= writes' + 1
        BY <3>1
      <3>3. QED
        BY <3>2, Fields DEF IInv
    <2>2. \A l \in Listeners : Below(stream[l], writes' + 1) /\ Below(lst[l].outbox, writes' + 1)
      BY <2>1, BelowMore DEF IInv, Ordered
    <2>3. ASSUME NEW v \in Writers, NEW l \in Listeners, Untold(wr'[v], out'[v], l)
          PROVE  Below(stream[l], Head(wr'[v].evs).ver) /\ Below(lst[l].outbox, Head(wr'[v].evs).ver)
      <3>1. CASE v # w
        BY <1>1, <2>3, <3>1 DEF IInv, Ordered
      <3>2. CASE v = w
        BY <1>1, <2>3, <3>2 DEF IInv, Ordered
      <3>3. QED
        BY <3>1, <3>2
    <2>4. QED
      BY <2>2, <2>3 DEF IInv, Ordered
  <1>7. Arriving'
    <2> SUFFICES ASSUME NEW l \in Listeners, NEW d \in Docs, Served(l)', docs'[d].exists
                 PROVE  Informed(l, d, docs[d].ver)'
      BY DEF Arriving
    <2>1. Served(l)
      BY <1>1 DEF Served, Idle
    <2>2. CASE Tells(Owed(x, l), d, docs'[d].ver)
      BY <1>1, <2>2 DEF Informed
    <2>3. CASE /\ docs'[d] = docs[d]
               /\ Tells(Owed(wr[w], l), d, docs[d].ver) => \/ Tells(Owed(x, l), d, docs[d].ver)
                                                           \/ o.to = l /\ Tells(o.todo, d, docs[d].ver)
      <3>1. Informed(l, d, docs[d].ver)
        BY <2>1, <2>3 DEF IInv, Arriving
      <3>2. \A p \in Writers \cup Listeners : Tells(out[p].todo, d, docs[d].ver) => out'[p] = out[p]
        BY <1>1, EmptyQueue DEF Idle
      <3>3. \A v \in Writers : Tells(Owed(wr[v], l), d, docs[d].ver) => Informed(l, d, docs[d].ver)'
        BY <1>1, <2>3 DEF Informed
      <3>4. QED
        BY <2>3, <3>1, <3>2, <3>3 DEF Informed
    <2>4. QED
      BY <2>1, <2>2, <2>3
  <1>8. QED
    BY <1>2, <1>3, <1>4, <1>5, <1>6, <1>7 DEF IInv

-----------------------------------------------------------------------------
(* The steps of the readers, and the exit of a sender. *)
LEMMA ListenerTurns ==
  ASSUME IInv, NEW l \in Listeners, NEW x \in Listener, Idle(l) \/ x.pc = lst[l].pc,
         lst' = [lst EXCEPT ![l] = x], UNCHANGED <<docs, writes, mu, wr, out, stream>>,
         panic' \in BOOLEAN, x.outbox = lst[l].outbox,
         x.pc \in {"recv", "add", "reply"} => x.registered,
         x.pc = "off" => ~x.target, Open(x) => Open(lst[l])
  PROVE  IInv'
  <1>1. out[l] \in Sending /\ out' = [out EXCEPT ![l] = out[l]]
    BY DEF IInv, Shape
  <1>2. \A i \in DOMAIN out[l].todo : out[l].todo[i].from # "locked"
    BY Bounds DEF IInv, Locks
  <1>3. out[l].todo # <<>> \/ out[l].full => out[l].to = l /\ x.pc \in {"add", "reply"}
    BY DEF IInv, Busy, Idle
  <1>4. QED
    BY <1>1, <1>2, <1>3, ListenerMoves

LEMMA ListenStep ==
  ASSUME IInv, NEW l \in Listeners, Listen(l)
  PROVE  IInv'
  <1>1. PICK x : x = [lst[l] EXCEPT !.pc = "recv", !.registered = TRUE, !.sender = "run"]
    OBVIOUS
  <1>2. lst[l] \in Listener /\ lst[l].pc = "off" /\ ~lst[l].target /\ Idle(l)
    BY Fields DEF IInv, Busy, Listen
  <1>3. x \in Listener /\ x.pc = "recv" /\ x.registered /\ ~x.target /\ x.outbox = lst[l].outbox
    BY <1>1, <1>2 DEF Listener
  <1>4. lst' = [lst EXCEPT ![l] = x]
    BY <1>1 DEF Listen, IInv, Shape, Listener
  <1>5. UNCHANGED <<docs, writes, mu, wr, out, stream>> /\ panic' \in BOOLEAN
    BY DEF Listen, IInv, Shape
  <1>6. QED
    BY <1>2, <1>3, <1>4, <1>5, ListenerTurns DEF Open

LEMMA BadTargetStep ==
  ASSUME IInv, NEW l \in Listeners, BadTarget(l)
  PROVE  IInv'
  <1>1. PICK x : x = [lst[l] EXCEPT !.pc = "end", !.registered = FALSE]
    OBVIOUS
  <1>2. lst[l] \in Listener /\ lst[l].pc = "recv" /\ Idle(l)
    BY Fields DEF IInv, Busy, BadTarget
  <1>3. x \in Listener /\ x.pc = "end" /\ ~x.registered /\ x.outbox = lst[l].outbox
    BY <1>1, <1>2 DEF Listener
  <1>4. lst' = [lst EXCEPT ![l] = x]
    BY <1>1 DEF BadTarget, IInv, Shape, Listener
  <1>5. UNCHANGED <<docs, writes, mu, wr, out, stream>> /\ panic' \in BOOLEAN
    BY DEF BadTarget, IInv, Shape
  <1>6. QED
    BY <1>2, <1>3, <1>4, <1>5, ListenerTurns DEF Open

LEMMA RecvErrorStep ==
  ASSUME IInv, NEW l \in Listeners, RecvError(l)
  PROVE  IInv'
  <1>1. PICK x : x = [lst[l] EXCEPT !.pc = "wait", !.done = TRUE]
    OBVIOUS
  <1>2. lst[l] \in Listener /\ lst[l].pc = "recv" /\ Idle(l)
    BY Fields DEF IInv, Busy, RecvError
  <1>3. x \in Listener /\ x.pc = "wait" /\ x.done /\ x.outbox = lst[l].outbox
    BY <1>1, <1>2 DEF Listener
  <1>4. lst' = [lst EXCEPT ![l] = x]
    BY <1>1 DEF RecvError, IInv, Shape, Listener
  <1>5. UNCHANGED <<docs, writes, mu, wr, out, stream>> /\ panic' \in BOOLEAN
    BY <1>2 DEF RecvError, Listener
  <1>6. QED
    BY <1>2, <1>3, <1>4, <1>5, ListenerTurns DEF Open

LEMMA ListenReturnStep ==
  ASSUME IInv, NEW l \in Listeners, ListenReturn(l)
  PROVE  IInv'
  <1>1. PICK x : x = [lst[l] EXCEPT !.pc = "end", !.registered = FALSE]
    OBVIOUS
  <1>2. lst[l] \in Listener /\ lst[l].pc = "wait" /\ Idle(l)
    BY Fields DEF IInv, Busy, ListenReturn
  <1>3. x \in Listener /\ x.pc = "end" /\ ~x.registered /\ x.outbox = lst[l].outbox
    BY <1>1, <1>2 DEF Listener
  <1>4. lst' = [lst EXCEPT ![l] = x]
    BY <1>1 DEF ListenReturn, IInv, Shape, Listener
  <1>5. UNCHANGED <<docs, writes, mu, wr, out, stream>> /\ panic' \in BOOLEAN
    BY DEF ListenReturn, IInv, Shape
  <1>6. QED
    BY <1>2, <1>3, <1>4, <1>5, ListenerTurns DEF Open

LEMMA SenderExitStep ==
  ASSUME IInv, NEW l \in Listeners, SenderExit(l)
  PROVE  IInv'
  <1>1. PICK x : x = [lst[l] EXCEPT !.sender = "end"]
    OBVIOUS
  <1>2. lst[l] \in Listener
    BY Fields DEF IInv
  <1>3. /\ x \in Listener /\ x.sender = "end" /\ x.pc = lst[l].pc
        /\ x.registered = lst[l].registered /\ x.target = lst[l].target /\ x.outbox = lst[l].outbox
    BY <1>1, <1>2 DEF Listener
  <1>4. lst' = [lst EXCEPT ![l] = x]
    BY <1>1 DEF SenderExit
  <1>5. UNCHANGED <<docs, writes, mu, wr, out, stream>> /\ panic' \in BOOLEAN
    BY DEF SenderExit, IInv, Shape
  <1>6. /\ x.pc \in {"recv", "add", "reply"} => x.registered
        /\ x.pc = "off" => ~x.target
    BY <1>3 DEF IInv, Busy
  <1>7. QED
    BY <1>3, <1>4, <1>5, <1>6, ListenerTurns DEF Open

(* The steps of a reader that leave something to send. *)
LEMMA MarkIsMessage ==
  /\ Mark \in Message /\ Mark.from = "mark"
  /\ <<Mark>> \in Seq(Message) /\ \A i \in DOMAIN <<Mark>> : <<Mark>>[i].from # "locked"
  <1>1. Mark \in Message /\ Mark.from = "mark"
    BY DEF Mark, Change, Message
  <1>2. QED
    BY <1>1

LEMMA NothingToSend ==
  /\ Nothing \in Sending /\ Nothing.todo = <<>> /\ ~Nothing.full
  /\ \A l \in Listeners, q \in Seq(Message) :
        /\ Sends(l, q) \in Sending /\ Sends(l, q).to = l /\ Sends(l, q).todo = q
        /\ ~Sends(l, q).full
  BY EmptyQueue DEF Nothing, Sends, Sending

LEMMA AddTargetStep ==
  ASSUME IInv, NEW l \in Listeners, AddTarget(l)
  PROVE  IInv'
  <1>1. PICK x : x = [lst[l] EXCEPT !.pc = "add", !.adds = lst[l].adds + 1, !.target = TRUE]
    OBVIOUS
  <1>2. /\ lst[l] \in Listener /\ lst[l].pc = "recv" /\ lst[l].registered /\ Idle(l)
        /\ lst[l].adds + 1 \in 0..MaxAdds
    BY Fields, Bounds DEF IInv, Busy, AddTarget, Listener
  <1>3. x \in Listener /\ x.pc = "add" /\ x.registered /\ x.outbox = lst[l].outbox
    BY <1>1, <1>2 DEF Listener
  <1>4. lst' = [lst EXCEPT ![l] = x]
    BY <1>1 DEF AddTarget, IInv, Shape, Listener
  <1>5. PICK o : o = Sends(l, <<Mark>>)
    OBVIOUS
  <1>6. /\ o \in Sending /\ o.to = l /\ ~o.full
        /\ \A i \in DOMAIN o.todo : o.todo[i].from # "locked"
    BY <1>5, MarkIsMessage, NothingToSend, ZenonT(60)
  <1>7. /\ out' = [out EXCEPT ![l] = o]
        /\ UNCHANGED <<docs, writes, mu, wr, stream>> /\ panic' \in BOOLEAN
    BY <1>5 DEF AddTarget, IInv, Shape
  <1>8. ~Open(x)
    BY <1>3 DEF Open
  <1>9. QED
    BY <1>2, <1>3, <1>4, <1>6, <1>7, <1>8, ListenerMoves

LEMMA RemoveTargetStep ==
  ASSUME IInv, NEW l \in Listeners, RemoveTarget(l)
  PROVE  IInv'
  <1>1. PICK x : x = [lst[l] EXCEPT !.pc = "reply", !.target = FALSE]
    OBVIOUS
  <1>2. lst[l] \in Listener /\ lst[l].pc = "recv" /\ lst[l].registered /\ Idle(l)
    BY Fields DEF IInv, Busy, RemoveTarget
  <1>3. x \in Listener /\ x.pc = "reply" /\ x.registered /\ ~x.target /\ x.outbox = lst[l].outbox
    BY <1>1, <1>2 DEF Listener
  <1>4. lst' = [lst EXCEPT ![l] = x]
    BY <1>1 DEF RemoveTarget, IInv, Shape, Listener
  <1>5. PICK o : o = Sends(l, <<Mark>>)
    OBVIOUS
  <1>6. /\ o \in Sending /\ o.to = l /\ ~o.full
        /\ \A i \in DOMAIN o.todo : o.todo[i].from # "locked"
    BY <1>5, MarkIsMessage, NothingToSend, ZenonT(60)
  <1>7. /\ out' = [out EXCEPT ![l] = o]
        /\ UNCHANGED <<docs, writes, mu, wr, stream>> /\ panic' \in BOOLEAN
    BY <1>5 DEF RemoveTarget, IInv, Shape
  <1>8. ~Open(x)
    BY <1>3 DEF Open
  <1>9. QED
    BY <1>2, <1>3, <1>4, <1>6, <1>7, <1>8, ListenerMoves

LEMMA RecvStep ==
  ASSUME IInv, NEW l \in Listeners, Recv(l)
  PROVE  IInv'
  <1>1. PICK x : x = [lst[l] EXCEPT !.pc = "recv"]
    OBVIOUS
  <1>2. lst[l] \in Listener /\ lst[l].pc = "reply" /\ lst[l].registered /\ Idle(l)
    BY Fields DEF IInv, Busy, Recv
  <1>3. /\ x \in Listener /\ x.pc = "recv" /\ x.registered /\ x.outbox = lst[l].outbox
        /\ x.target = lst[l].target /\ x.sender = lst[l].sender /\ x.done = lst[l].done
    BY <1>1, <1>2 DEF Listener
  <1>4. lst' = [lst EXCEPT ![l] = x]
    BY <1>1 DEF Recv
  <1>5. /\ out' = [out EXCEPT ![l] = Nothing]
        /\ UNCHANGED <<docs, writes, mu, wr, stream>> /\ panic' \in BOOLEAN
    BY DEF Recv, IInv, Shape
  <1>6. Open(x) => Open(lst[l])
    BY <1>2, <1>3 DEF Open
  <1>7. QED
    BY <1>2, <1>3, <1>4, <1>5, <1>6, EmptyQueue, NothingToSend, ListenerMoves

(* A snapshot names every document there is, in some order. *)
LEMMA SnapshotTells ==
  ASSUME Shape, NEW C, C = {Change(d, docs[d].ver, TRUE, "snapshot") : d \in {e \in Docs : docs[e].exists}},
         NEW s \in SetToSeqs(C)
  PROVE  /\ s \o <<Mark, Mark>> \in Seq(Message)
         /\ \A i \in DOMAIN (s \o <<Mark, Mark>>) : (s \o <<Mark, Mark>>)[i].from # "locked"
         /\ \A d \in Docs : docs[d].exists => Tells(s \o <<Mark, Mark>>, d, docs[d].ver)
  <1> DEFINE E == {e \in Docs : docs[e].exists}
             news(d) == Change(d, docs[d].ver, TRUE, "snapshot")
             n == Cardinality(C)
  <1>1. \A d \in E : /\ news(d) \in Message /\ news(d).doc = d /\ news(d).ver = docs[d].ver
                     /\ news(d).from = "snapshot"
    BY Fields DEF Change, Message
  <1>2. IsFiniteSet(C) /\ n \in Nat
    <2>1. IsFiniteSet(E)
      BY Bounds, FS_Subset
    <2> DEFINE f == [d \in E |-> news(d)]
    <2>2. f \in Surjection(E, C)
      BY DEF Surjection
    <2> HIDE DEF f, E
    <2>3. IsFiniteSet(C)
      BY <2>1, <2>2, FS_Surjection
    <2>4. QED
      BY <2>3, FS_CardinalityType
  <1>3. s \in [1..n -> C] /\ \A i, j \in 1..n : i # j => s[i] # s[j]
    BY DEF SetToSeqs
  <1>4. \A m \in C : \E i \in 1..n : s[i] = m
    <2>1. s \in Injection(1..n, C)
      BY <1>3 DEF Injection, IsInjective
    <2>2. Cardinality(1..n) = n
      BY <1>2, FS_Interval
    <2>3. s \in Surjection(1..n, C)
      BY <1>2, <2>1, <2>2, FS_Injection
    <2>4. QED
      BY <2>3 DEF Surjection
  <1>5. \A d \in Docs : docs[d].exists => d \in E /\ news(d) \in C
    OBVIOUS
  <1>6. \A m \in C : m \in Message /\ m.from = "snapshot"
    <2> SUFFICES ASSUME NEW m \in C PROVE m \in Message /\ m.from = "snapshot"
      OBVIOUS
    <2>1. PICK d \in E : m = news(d)
      OBVIOUS
    <2>2. news(d) \in Message /\ news(d).from = "snapshot"
      BY <1>1
    <2>3. QED
      BY <2>1, <2>2
  <1> HIDE DEF n, E, news
  <1>7. s \in Seq(Message) /\ DOMAIN s = 1..n
    <2>1. s \in [1..n -> Message]
      BY <1>3, <1>6
    <2>2. QED
      BY <1>2, <2>1
  <1>8. PICK t : t = <<Mark, Mark>>
    OBVIOUS
  <1>9. t \in Seq(Message) /\ \A i \in DOMAIN t : t[i].from # "locked"
    <2>1. t \in Seq(Message) /\ DOMAIN t = 1..2 /\ t[1] = Mark /\ t[2] = Mark
      BY <1>8, MarkIsMessage
    <2>2. \A i \in 1..2 : i = 1 \/ i = 2
      OBVIOUS
    <2>3. QED
      BY <2>1, <2>2, MarkIsMessage
  <1>10. \A d \in Docs : docs[d].exists => Tells(s, d, docs[d].ver)
    <2> SUFFICES ASSUME NEW d \in Docs, docs[d].exists PROVE Tells(s, d, docs[d].ver)
      OBVIOUS
    <2>1. d \in E /\ news(d) \in C
      BY <1>5
    <2>2. PICK i \in 1..n : s[i] = news(d)
      BY <1>4, <2>1
    <2>3. s[i].doc = d /\ s[i].ver = docs[d].ver /\ s[i].from # "mark"
      BY <1>1, <2>1, <2>2
    <2>4. QED
      BY <1>7, <2>3 DEF Tells
  <1>11. \A i \in DOMAIN s : s[i].from # "locked"
    BY <1>3, <1>6, <1>7
  <1>12. /\ s \o t \in Seq(Message)
         /\ \A d, v : Tells(s, d, v) => Tells(s \o t, d, v)
         /\ \A i \in DOMAIN (s \o t) : \/ i \in DOMAIN s /\ (s \o t)[i] = s[i]
                                       \/ i - Len(s) \in DOMAIN t /\ (s \o t)[i] = t[i - Len(s)]
    BY <1>7, <1>9, Joined
  <1>13. \A i \in DOMAIN (s \o t) : (s \o t)[i].from # "locked"
    BY <1>9, <1>11, <1>12
  <1>14. QED
    BY <1>8, <1>10, <1>12, <1>13

LEMMA SnapshotStep ==
  ASSUME IInv, NEW l \in Listeners, Snapshot(l)
  PROVE  IInv'
  <1>1. PICK x : x = [lst[l] EXCEPT !.pc = "reply"]
    OBVIOUS
  <1>2. lst[l] \in Listener /\ lst[l].pc = "add" /\ lst[l].registered /\ Idle(l)
    BY Fields DEF IInv, Busy, Snapshot
  <1>3. x \in Listener /\ x.pc = "reply" /\ x.registered /\ x.outbox = lst[l].outbox
    BY <1>1, <1>2 DEF Listener
  <1>4. lst' = [lst EXCEPT ![l] = x]
    BY <1>1 DEF Snapshot
  <1>5. PICK C : C = {Change(d, docs[d].ver, TRUE, "snapshot") : d \in {e \in Docs : docs[e].exists}}
    OBVIOUS
  <1>6. PICK s \in SetToSeqs(C) : out' = [out EXCEPT ![l] = Sends(l, s \o <<Mark, Mark>>)]
    BY <1>5 DEF Snapshot
  <1>7. PICK q : q = s \o <<Mark, Mark>>
    OBVIOUS
  <1>8. /\ q \in Seq(Message) /\ \A i \in DOMAIN q : q[i].from # "locked"
        /\ \A d \in Docs : docs[d].exists => Tells(q, d, docs[d].ver)
    BY <1>5, <1>7, SnapshotTells DEF IInv
  <1>9. UNCHANGED <<docs, writes, mu, wr, stream>> /\ panic' \in BOOLEAN
    BY DEF Snapshot, IInv, Shape
  <1>10. PICK o : o = Sends(l, q)
    OBVIOUS
  <1>11. o \in Sending /\ o.to = l /\ o.todo = q /\ ~o.full
    BY <1>8, <1>10, NothingToSend
  <1>12. out' = [out EXCEPT ![l] = o]
    BY <1>6, <1>7, <1>10
  <1>13. QED
    BY <1>2, <1>3, <1>4, <1>8, <1>9, <1>11, <1>12, ListenerMoves

-----------------------------------------------------------------------------
(* The steps of the writers that send nothing. *)
LEMMA WriterTurns ==
  ASSUME IInv, NEW w \in Writers, NEW x \in Writer, Idle(w),
         wr' = [wr EXCEPT ![w] = x], UNCHANGED <<lst, out, stream, panic>>,
         docs' \in [Docs -> [ver : 0 .. writes', exists : BOOLEAN]],
         writes' \in Nat, writes <= writes', mu' \in Writers \cup {Free},
         \A v \in Writers : v # w /\ mu = v => mu' = v,
         writes' <= MaxWrites + MaxOps,
         x.pc = "commit" => mu' = w /\ Len(x.ops) <= MaxOps
                               /\ writes' + Len(x.ops) <= MaxWrites + MaxOps,
         \A v \in Writers : v # w /\ wr[v].pc = "commit" =>
            writes' + Len(wr[v].ops) <= MaxWrites + MaxOps,
         x.pc = "idle" => x.evs = <<>>, x.pc = "send" => x.evs # <<>>,
         \A i \in DOMAIN x.evs : x.evs[i].from = "locked" =>
            mu' = w /\ Len(x.evs) = 1 /\ x.pc \in {"fan", "send"} /\ x.evs[i].ver <= writes',
         \A i \in DOMAIN x.dels : x.dels[i].from # "locked",
         x.evs # <<>> /\ Head(x.evs).from = "locked" =>
            \/ /\ wr[w].pc = "fan" /\ x.evs = wr[w].evs
            \/ Head(x.evs).ver = writes + 1,
         \A l \in Listeners, d \in Docs : docs'[d].exists /\ Served(l) =>
            \/ docs'[d] = docs[d] /\ (Tells(Owed(wr[w], l), d, docs[d].ver) =>
                                         Tells(Owed(x, l), d, docs[d].ver))
            \/ Tells(Owed(x, l), d, docs'[d].ver)
  PROVE  IInv'
  <1>1. PICK o : o = out[w]
    OBVIOUS
  <1>2. o \in Sending /\ out' = [out EXCEPT ![w] = o]
    BY <1>1 DEF IInv, Shape
  <1>3. o.todo = <<>> /\ ~o.full
    BY <1>1, Fields DEF Idle, IInv
  <1>4. \A l \in Listeners : Untold(x, o, l) =>
            \/ Untold(wr[w], out[w], l) /\ Head(x.evs) = Head(wr[w].evs)
            \/ Head(x.evs).ver = writes + 1
    BY <1>3 DEF Untold
  <1>5. \A i \in DOMAIN o.todo : o.todo[i].from = "locked" =>
            i = 1 /\ o.todo[i] = Head(x.evs) /\ o.to \notin x.left
    BY <1>3, EmptyQueue
  <1>6. \A l \in Listeners, d \in Docs : docs'[d].exists /\ Served(l) =>
            \/ docs'[d] = docs[d] /\ (Tells(Owed(wr[w], l), d, docs[d].ver) =>
                  \/ Tells(Owed(x, l), d, docs[d].ver)
                  \/ o.to = l /\ Tells(o.todo, d, docs[d].ver))
            \/ Tells(Owed(x, l), d, docs'[d].ver)
    OBVIOUS
  <1>7. o.todo # <<>> => o.to \in Listeners /\ x.pc = "send"
    BY <1>3
  <1>8. UNCHANGED <<lst, stream, panic>>
    OBVIOUS
  <1>9. QED
    BY <1>2, <1>3, <1>4, <1>5, <1>6, <1>7, <1>8, WriterMoves, ZenonT(100)

(* A writer that does not broadcast has nothing to send, and no change of    *)
(* its own that was made under the lock, unless it is about to broadcast it. *)
LEMMA Quiet ==
  ASSUME IInv, NEW w \in Writers, wr[w].pc # "send"
  PROVE  /\ Idle(w) /\ (wr[w].pc = "idle" => wr[w].evs = <<>>)
         /\ \A l : Owed(wr[w], l) = wr[w].evs
         /\ wr[w].pc # "fan" => \A i \in DOMAIN wr[w].evs : wr[w].evs[i].from # "locked"
         /\ \A i \in DOMAIN wr[w].dels : wr[w].dels[i].from # "locked"
         /\ wr[w] \in Writer /\ writes \in Nat
  BY Fields DEF IInv, Busy, Locks, Owed

(* A change that was just made. *)
LEMMA News ==
  ASSUME Shape, NEW d \in Docs, NEW b \in BOOLEAN, NEW f \in {"locked", "loose"}, Stored(d, b)
  PROVE  /\ Event(d, b, f) \in Message /\ Event(d, b, f).from = f
         /\ Event(d, b, f).ver = writes + 1 /\ Event(d, b, f).doc = d
         /\ writes' = writes + 1 /\ writes' \in Nat /\ writes \in Nat
         /\ docs'[d].ver = writes + 1 /\ docs'[d].exists = b
         /\ \A e \in Docs : e # d => docs'[e] = docs[e]
         /\ docs' \in [Docs -> [ver : 0 .. writes', exists : BOOLEAN]]
  <1>1. /\ writes \in Nat /\ writes' = writes + 1
        /\ docs \in [Docs -> [ver : 0 .. writes, exists : BOOLEAN]]
        /\ docs' = [docs EXCEPT ![d] = [ver |-> writes + 1, exists |-> b]]
    BY DEF Shape, Stored
  <1>2. [ver |-> writes + 1, exists |-> b] \in [ver : 0 .. writes', exists : BOOLEAN]
    BY <1>1
  <1>3. \A e \in Docs : docs[e] \in [ver : 0 .. writes', exists : BOOLEAN]
    BY <1>1
  <1>4. docs' \in [Docs -> [ver : 0 .. writes', exists : BOOLEAN]]
    BY <1>1, <1>2, <1>3
  <1>5. docs'[d].ver = writes + 1 /\ docs'[d].exists = b /\ \A e \in Docs : e # d => docs'[e] = docs[e]
    BY <1>1
  <1>6. QED
    BY <1>1, <1>4, <1>5 DEF Event, Change, Message

LEMMA OneMessage ==
  ASSUME NEW m \in Message
  PROVE  /\ <<m>> \in Seq(Message) /\ Len(<<m>>) = 1 /\ <<m>> # <<>> /\ Head(<<m>>) = m
         /\ \A i \in DOMAIN <<m>> : i = 1 /\ <<m>>[i] = m
         /\ m.from # "mark" => Tells(<<m>>, m.doc, m.ver)
  BY DEF Tells

(* CreateDocument and UpdateDocument: under the lock. *)
LEMMA LockedStep ==
  ASSUME IInv, NEW w \in Writers, NEW d \in Docs, writes < MaxWrites, wr[w].pc = "idle", mu = Free,
         mu' = w, Stored(d, TRUE), UNCHANGED <<lst, out, stream, panic>>,
         wr' = [wr EXCEPT ![w].pc = "fan", ![w].evs = <<Event(d, TRUE, "locked")>>]
  PROVE  IInv'
  <1>1. PICK e : e = Event(d, TRUE, "locked")
    OBVIOUS
  <1>2. /\ e \in Message /\ e.from = "locked" /\ e.ver = writes + 1 /\ e.doc = d
        /\ writes' = writes + 1 /\ writes' \in Nat /\ writes \in Nat
        /\ docs'[d].ver = writes + 1
        /\ \A c \in Docs : c # d => docs'[c] = docs[c]
        /\ docs' \in [Docs -> [ver : 0 .. writes', exists : BOOLEAN]]
    BY <1>1, News DEF IInv
  <1>3. PICK x : x = [wr[w] EXCEPT !.pc = "fan", !.evs = <<e>>]
    OBVIOUS
  <1>4. /\ Idle(w) /\ wr[w].evs = <<>> /\ wr[w] \in Writer
        /\ \A l : Owed(wr[w], l) = <<>>
        /\ \A i \in DOMAIN wr[w].dels : wr[w].dels[i].from # "locked"
    BY Quiet
  <1>5. /\ <<e>> \in Seq(Message) /\ Len(<<e>>) = 1 /\ <<e>> # <<>> /\ Head(<<e>>) = e
        /\ \A i \in DOMAIN <<e>> : <<e>>[i] = e
        /\ Tells(<<e>>, d, writes + 1)
    BY <1>2, OneMessage
  <1>6. x \in Writer /\ x.pc = "fan" /\ x.evs = <<e>> /\ x.dels = wr[w].dels
    BY <1>3, <1>4, <1>5 DEF Writer
  <1>7. wr' = [wr EXCEPT ![w] = x]
    BY <1>1, <1>3 DEF IInv, Shape, Writer
  <1>8. \A l : Owed(x, l) = <<e>>
    BY <1>6 DEF Owed
  <1>9. \A v \in Writers : mu # v /\ wr[v].pc # "commit"
    BY Bounds DEF IInv, Locks
  <1>10. \A l \in Listeners, c \in Docs :
            \/ docs'[c] = docs[c] /\ ~Tells(Owed(wr[w], l), c, docs[c].ver)
            \/ Tells(Owed(x, l), c, docs'[c].ver)
    BY <1>2, <1>4, <1>5, <1>8, EmptyQueue
  <1>11. writes' <= MaxWrites + MaxOps /\ writes <= writes'
    BY <1>2, Bounds
  <1>12. /\ x.pc = "commit" => mu' = w /\ Len(x.ops) <= MaxOps
                                    /\ writes' + Len(x.ops) <= MaxWrites + MaxOps
         /\ x.pc = "idle" => x.evs = <<>>
         /\ x.pc = "send" => x.evs # <<>>
    BY <1>6
  <1>13. \A i \in DOMAIN x.evs : x.evs[i].from = "locked" =>
            mu' = w /\ Len(x.evs) = 1 /\ x.pc \in {"fan", "send"} /\ x.evs[i].ver <= writes'
    BY <1>2, <1>5, <1>6
  <1>14. x.evs # <<>> /\ Head(x.evs).from = "locked" =>
            \/ /\ wr[w].pc = "fan" /\ x.evs = wr[w].evs
            \/ Head(x.evs).ver = writes + 1
    BY <1>2, <1>5, <1>6
  <1>15. \A l \in Listeners, c \in Docs : docs'[c].exists /\ Served(l) =>
            \/ docs'[c] = docs[c] /\ (Tells(Owed(wr[w], l), c, docs[c].ver) =>
                                         Tells(Owed(x, l), c, docs[c].ver))
            \/ Tells(Owed(x, l), c, docs'[c].ver)
    BY <1>10
  <1>16. \A i \in DOMAIN x.dels : x.dels[i].from # "locked"
    BY <1>4, <1>6
  <1>17. QED
    BY <1>2, <1>4, <1>6, <1>7, <1>9, <1>11, <1>12, <1>13, <1>14, <1>15, <1>16, WriterTurns

LEMMA DeleteDocumentStep ==
  ASSUME IInv, NEW w \in Writers, NEW d \in Docs, DeleteDocument(w, d)
  PROVE  IInv'
  <1>0. /\ writes < MaxWrites /\ wr[w].pc = "idle" /\ mu' = mu /\ Stored(d, FALSE)
        /\ UNCHANGED <<lst, out, stream, panic>>
        /\ wr' = [wr EXCEPT ![w].pc = "fan", ![w].evs = <<Event(d, FALSE, "loose")>>]
    BY DEF DeleteDocument, May
  <1>1. PICK e : e = Event(d, FALSE, "loose")
    OBVIOUS
  <1>2. /\ e \in Message /\ e.from = "loose"
        /\ writes' = writes + 1 /\ writes' \in Nat /\ writes \in Nat
        /\ ~docs'[d].exists
        /\ \A c \in Docs : c # d => docs'[c] = docs[c]
        /\ docs' \in [Docs -> [ver : 0 .. writes', exists : BOOLEAN]]
    BY <1>0, <1>1, News DEF IInv
  <1>3. PICK x : x = [wr[w] EXCEPT !.pc = "fan", !.evs = <<e>>]
    OBVIOUS
  <1>4. /\ Idle(w) /\ wr[w].evs = <<>> /\ wr[w] \in Writer
        /\ \A l : Owed(wr[w], l) = <<>>
        /\ \A i \in DOMAIN wr[w].dels : wr[w].dels[i].from # "locked"
    BY <1>0, Quiet
  <1>5. /\ <<e>> \in Seq(Message) /\ Head(<<e>>) = e /\ \A i \in DOMAIN <<e>> : <<e>>[i] = e
    BY <1>2, OneMessage
  <1>6. x \in Writer /\ x.pc = "fan" /\ x.evs = <<e>> /\ x.dels = wr[w].dels
    BY <1>3, <1>4, <1>5 DEF Writer
  <1>7. wr' = [wr EXCEPT ![w] = x]
    BY <1>0, <1>1, <1>3 DEF IInv, Shape, Writer
  <1>8. \A l \in Listeners, c \in Docs : docs'[c].exists =>
            docs'[c] = docs[c] /\ ~Tells(Owed(wr[w], l), c, docs[c].ver)
    BY <1>2, <1>4, EmptyQueue
  <1>9. writes' <= MaxWrites + MaxOps /\ writes <= writes' /\ mu' \in Writers \cup {Free}
    BY <1>0, <1>2, Bounds DEF IInv, Shape
  <1>10. \A v \in Writers : wr[v].pc = "commit" => writes' + Len(wr[v].ops) <= MaxWrites + MaxOps
    <2> TAKE v \in Writers
    <2>1. Len(wr[v].ops) \in Nat
      BY Fields DEF IInv
    <2>2. QED
      BY <1>0, <1>2, <2>1, Bounds, SMTT(30) DEF IInv, Budget
  <1>11. /\ x.pc = "commit" => mu' = w /\ Len(x.ops) <= MaxOps
                                    /\ writes' + Len(x.ops) <= MaxWrites + MaxOps
         /\ x.pc = "idle" => x.evs = <<>>
         /\ x.pc = "send" => x.evs # <<>>
    BY <1>6
  <1>12. \A i \in DOMAIN x.evs : x.evs[i].from = "locked" =>
            mu' = w /\ Len(x.evs) = 1 /\ x.pc \in {"fan", "send"} /\ x.evs[i].ver <= writes'
    BY <1>2, <1>5, <1>6
  <1>13. x.evs # <<>> /\ Head(x.evs).from = "locked" =>
            \/ /\ wr[w].pc = "fan" /\ x.evs = wr[w].evs
            \/ Head(x.evs).ver = writes + 1
    BY <1>2, <1>5, <1>6
  <1>14. \A l \in Listeners, c \in Docs : docs'[c].exists /\ Served(l) =>
            \/ docs'[c] = docs[c] /\ (Tells(Owed(wr[w], l), c, docs[c].ver) =>
                                         Tells(Owed(x, l), c, docs[c].ver))
            \/ Tells(Owed(x, l), c, docs'[c].ver)
    BY <1>8
  <1>15. \A i \in DOMAIN x.dels : x.dels[i].from # "locked"
    BY <1>4, <1>6
  <1>16. QED
    BY <1>0, <1>2, <1>4, <1>6, <1>7, <1>9, <1>10, <1>11, <1>12, <1>13, <1>14, <1>15, WriterTurns

(* A step that stores nothing. *)
LEMMA NothingStored ==
  ASSUME IInv, UNCHANGED <<docs, writes>>
  PROVE  /\ docs' \in [Docs -> [ver : 0 .. writes', exists : BOOLEAN]]
         /\ writes' \in Nat /\ writes <= writes' /\ writes' <= MaxWrites + MaxOps
         /\ \A v \in Writers : wr[v].pc = "commit" => writes' + Len(wr[v].ops) <= MaxWrites + MaxOps
  BY DEF IInv, Shape, Budget

(* The list of writes of a Commit. *)
LEMMA CommitList ==
  ASSUME NEW ops \in Commits
  PROVE  ops \in Seq(Op) /\ Len(ops) <= MaxOps
  <1>1. PICK m \in 0 .. MaxOps : ops \in [1 .. m -> Op]
    BY DEF Commits, BoundedSeq, SeqOf, Op
  <1>2. m \in Nat /\ m <= MaxOps
    BY Bounds
  <1>3. QED
    BY <1>1, <1>2

LEMMA CommitStep ==
  ASSUME IInv, NEW w \in Writers, NEW ops \in Commits, Commit(w, ops)
  PROVE  IInv'
  <1>0. /\ writes < MaxWrites /\ wr[w].pc = "idle" /\ mu = Free /\ mu' = w
        /\ UNCHANGED <<docs, writes, lst, out, stream, panic>>
        /\ wr' = [wr EXCEPT ![w].pc = "commit", ![w].ops = ops]
    BY DEF Commit, May
  <1>1. PICK x : x = [wr[w] EXCEPT !.pc = "commit", !.ops = ops]
    OBVIOUS
  <1>2. /\ Idle(w) /\ wr[w].evs = <<>> /\ wr[w] \in Writer /\ writes \in Nat
        /\ \A l : Owed(wr[w], l) = <<>>
        /\ \A i \in DOMAIN wr[w].dels : wr[w].dels[i].from # "locked"
    BY <1>0, Quiet
  <1>3. ops \in Seq(Op) /\ Len(ops) \in Nat /\ Len(ops) <= MaxOps
    BY CommitList
  <1>4. x \in Writer /\ x.pc = "commit" /\ x.ops = ops /\ x.evs = <<>> /\ x.dels = wr[w].dels
    BY <1>1, <1>2, <1>3 DEF Writer
  <1>5. wr' = [wr EXCEPT ![w] = x]
    BY <1>0, <1>1 DEF IInv, Shape, Writer
  <1>6. UNCHANGED <<lst, out, stream, panic>>
    BY <1>0
  <1>7. /\ docs' \in [Docs -> [ver : 0 .. writes', exists : BOOLEAN]]
        /\ writes' \in Nat /\ writes <= writes' /\ writes' <= MaxWrites + MaxOps
        /\ \A v \in Writers : wr[v].pc = "commit" => writes' + Len(wr[v].ops) <= MaxWrites + MaxOps
    BY <1>0, NothingStored
  <1>8. mu' \in Writers \cup {Free} /\ \A v \in Writers : v # w /\ mu = v => mu' = v
    BY <1>0, Bounds
  <1>9. x.pc = "commit" => mu' = w /\ Len(x.ops) <= MaxOps
                                /\ writes' + Len(x.ops) <= MaxWrites + MaxOps
    BY <1>0, <1>2, <1>3, <1>4, Bounds
  <1>10. x.pc # "idle" /\ x.pc # "send" /\ x.evs = <<>>
    BY <1>4
  <1>11. /\ \A i \in DOMAIN x.dels : x.dels[i].from # "locked"
         /\ \A i \in DOMAIN x.evs : x.evs[i].from = "locked" =>
               mu' = w /\ Len(x.evs) = 1 /\ x.pc \in {"fan", "send"} /\ x.evs[i].ver <= writes'
    BY <1>2, <1>4, EmptyQueue
  <1>12. \A l \in Listeners, c \in Docs : docs'[c].exists /\ Served(l) =>
            \/ docs'[c] = docs[c] /\ (Tells(Owed(wr[w], l), c, docs[c].ver) =>
                                         Tells(Owed(x, l), c, docs[c].ver))
            \/ Tells(Owed(x, l), c, docs'[c].ver)
    BY <1>0, <1>2, EmptyQueue
  <1>13. QED
    BY <1>2, <1>4, <1>5, <1>6, <1>7, <1>8, <1>9, <1>10, <1>11, <1>12, WriterTurns

LEMMA ReturnStep ==
  ASSUME IInv, NEW w \in Writers, Return(w)
  PROVE  IInv'
  <1>0. /\ wr[w].pc = "fan" /\ wr[w].evs = <<>> /\ mu' = IF mu = w THEN Free ELSE mu
        /\ UNCHANGED <<docs, writes, lst, out, stream, panic>>
        /\ wr' = [wr EXCEPT ![w] = NewWriter]
    BY DEF Return
  <1>1. PICK x : x = NewWriter
    OBVIOUS
  <1>2. /\ Idle(w) /\ wr[w] \in Writer /\ \A l : Owed(wr[w], l) = <<>>
    BY <1>0, Quiet
  <1>3. x \in Writer /\ x.pc = "idle" /\ x.evs = <<>> /\ x.dels = <<>>
    BY <1>1, EmptyQueue DEF NewWriter, Writer
  <1>4. wr' = [wr EXCEPT ![w] = x]
    BY <1>0, <1>1
  <1>5. UNCHANGED <<lst, out, stream, panic>>
    BY <1>0
  <1>6. /\ docs' \in [Docs -> [ver : 0 .. writes', exists : BOOLEAN]]
        /\ writes' \in Nat /\ writes <= writes' /\ writes' <= MaxWrites + MaxOps
        /\ \A v \in Writers : wr[v].pc = "commit" => writes' + Len(wr[v].ops) <= MaxWrites + MaxOps
    BY <1>0, NothingStored
  <1>7. mu' \in Writers \cup {Free} /\ \A v \in Writers : v # w /\ mu = v => mu' = v
    BY <1>0 DEF IInv, Shape
  <1>8. x.pc # "commit" /\ x.pc # "send" /\ x.evs = <<>>
    BY <1>3
  <1>9. /\ \A i \in DOMAIN x.dels : x.dels[i].from # "locked"
        /\ \A i \in DOMAIN x.evs : x.evs[i].from = "locked" =>
               mu' = w /\ Len(x.evs) = 1 /\ x.pc \in {"fan", "send"} /\ x.evs[i].ver <= writes'
    BY <1>3, EmptyQueue
  <1>10. \A l \in Listeners, c \in Docs : docs'[c].exists /\ Served(l) =>
            \/ docs'[c] = docs[c] /\ (Tells(Owed(wr[w], l), c, docs[c].ver) =>
                                         Tells(Owed(x, l), c, docs[c].ver))
            \/ Tells(Owed(x, l), c, docs'[c].ver)
    BY <1>0, <1>2, EmptyQueue
  <1>11. QED
    BY <1>2, <1>3, <1>4, <1>5, <1>6, <1>7, <1>8, <1>9, <1>10, WriterTurns

(* The registered listeners are all the listeners that are served. *)
LEMMA FanStep ==
  ASSUME IInv, NEW w \in Writers, Fan(w)
  PROVE  IInv'
  <1>0. /\ wr[w].pc = "fan" /\ wr[w].evs # <<>> /\ mu' = mu
        /\ UNCHANGED <<docs, writes, lst, out, stream, panic>>
        /\ wr' = [wr EXCEPT ![w].pc = "send", ![w].left = {l \in Listeners : lst[l].registered}]
    BY DEF Fan
  <1>1. PICK L : L = {l \in Listeners : lst[l].registered}
    OBVIOUS
  <1>2. PICK x : x = [wr[w] EXCEPT !.pc = "send", !.left = L]
    OBVIOUS
  <1>3. Idle(w) /\ wr[w] \in Writer /\ \A l : Owed(wr[w], l) = wr[w].evs
    BY <1>0, Quiet
  <1>4. /\ x \in Writer /\ x.pc = "send" /\ x.left = L /\ x.evs = wr[w].evs
        /\ x.dels = wr[w].dels
    BY <1>1, <1>2, <1>3 DEF Writer
  <1>5. wr' = [wr EXCEPT ![w] = x]
    BY <1>0, <1>1, <1>2 DEF IInv, Shape, Writer
  <1>6. UNCHANGED <<lst, out, stream, panic>>
    BY <1>0
  <1>7. /\ docs' \in [Docs -> [ver : 0 .. writes', exists : BOOLEAN]]
        /\ writes' \in Nat /\ writes <= writes' /\ writes' <= MaxWrites + MaxOps
        /\ \A v \in Writers : wr[v].pc = "commit" => writes' + Len(wr[v].ops) <= MaxWrites + MaxOps
    BY <1>0, NothingStored
  <1>8. mu' \in Writers \cup {Free} /\ \A v \in Writers : v # w /\ mu = v => mu' = v
    BY <1>0 DEF IInv, Shape
  <1>9. x.pc # "commit" /\ x.pc # "idle" /\ x.evs # <<>>
    BY <1>0, <1>4
  <1>10. /\ \A i \in DOMAIN x.dels : x.dels[i].from # "locked"
         /\ \A i \in DOMAIN x.evs : x.evs[i].from = "locked" =>
               mu' = w /\ Len(x.evs) = 1 /\ x.pc \in {"fan", "send"} /\ x.evs[i].ver <= writes'
    BY <1>0, <1>4 DEF IInv, Locks
  <1>11. x.evs # <<>> /\ Head(x.evs).from = "locked" =>
            \/ /\ wr[w].pc = "fan" /\ x.evs = wr[w].evs
            \/ Head(x.evs).ver = writes + 1
    BY <1>0, <1>4
  <1>12. \A l \in Listeners : Served(l) => Owed(x, l) = Owed(wr[w], l)
    BY <1>1, <1>3, <1>4 DEF Served, Open, Owed
  <1>13. \A l \in Listeners, c \in Docs : docs'[c].exists /\ Served(l) =>
            \/ docs'[c] = docs[c] /\ (Tells(Owed(wr[w], l), c, docs[c].ver) =>
                                         Tells(Owed(x, l), c, docs[c].ver))
            \/ Tells(Owed(x, l), c, docs'[c].ver)
    BY <1>0, <1>12
  <1>14. QED
    BY <1>3, <1>4, <1>5, <1>6, <1>7, <1>8, <1>9, <1>10, <1>11, <1>13, WriterTurns

(* A queue without a change that was made under the lock has none at its head. *)
LEMMA LooseHead ==
  ASSUME NEW q \in Seq(Message), \A i \in DOMAIN q : q[i].from # "locked"
  PROVE  ~(q # <<>> /\ Head(q).from = "locked")
  <1>1. ASSUME q # <<>> PROVE Head(q).from # "locked"
    <2>1. Head(q) = q[1] /\ 1 \in DOMAIN q
      BY <1>1
    <2>2. QED
      BY <2>1
  <1>2. QED
    BY <1>1

(* Between the writes of a Commit, which holds the lock. *)
LEMMA CommitTurns ==
  ASSUME IInv, NEW w \in Writers, NEW x \in Writer, wr[w].pc = "commit",
         wr' = [wr EXCEPT ![w] = x], UNCHANGED <<mu, lst, out, stream, panic>>,
         docs' \in [Docs -> [ver : 0 .. writes', exists : BOOLEAN]],
         writes' \in Nat, writes <= writes', x.pc = "commit",
         Len(x.ops) <= MaxOps, writes' + Len(x.ops) <= MaxWrites + MaxOps,
         \A i \in DOMAIN x.evs : x.evs[i].from # "locked",
         \A i \in DOMAIN x.dels : x.dels[i].from # "locked",
         \A l \in Listeners, d \in Docs : docs'[d].exists /\ Served(l) =>
            \/ docs'[d] = docs[d] /\ (Tells(Owed(wr[w], l), d, docs[d].ver) =>
                                         Tells(Owed(x, l), d, docs[d].ver))
            \/ Tells(Owed(x, l), d, docs'[d].ver)
  PROVE  IInv'
  <1>1. Idle(w)
    BY Quiet
  <1>2. mu = w /\ \A v \in Writers : v # w => wr[v].pc # "commit"
    BY DEF IInv, Locks
  <1>3. UNCHANGED <<lst, out, stream, panic>>
    OBVIOUS
  <1>4. mu' \in Writers \cup {Free} /\ mu' = w /\ \A v \in Writers : v # w /\ mu = v => mu' = v
    BY <1>2
  <1>5. writes' <= MaxWrites + MaxOps
    <2>1. x.ops \in Seq(Op)
      BY DEF Writer
    <2>2. Len(x.ops) \in Nat
      BY <2>1
    <2>3. QED
      BY <2>2, Bounds
  <1>6. x.pc # "idle" /\ x.pc # "send"
    OBVIOUS
  <1>7. x.evs \in Seq(Message)
    BY DEF Writer
  <1>8. /\ \A i \in DOMAIN x.evs : x.evs[i].from = "locked" =>
            mu' = w /\ Len(x.evs) = 1 /\ x.pc \in {"fan", "send"} /\ x.evs[i].ver <= writes'
        /\ ~(x.evs # <<>> /\ Head(x.evs).from = "locked")
    BY <1>7, LooseHead
  <1>9. QED
    BY <1>1, <1>2, <1>3, <1>4, <1>5, <1>6, <1>8, WriterTurns

LEMMA CommitWriteStep ==
  ASSUME IInv, NEW w \in Writers, CommitWrite(w)
  PROVE  IInv'
  <1>1. PICK op : op = Head(wr[w].ops)
    OBVIOUS
  <1>2. PICK s : s = Tail(wr[w].ops)
    OBVIOUS
  <1>3. /\ wr[w].pc = "commit" /\ wr[w].ops # <<>>
        /\ UNCHANGED <<mu, lst, out, stream, panic>>
        /\ \/ /\ op.kind = "update" /\ Stored(op.doc, TRUE)
              /\ wr' = [[wr EXCEPT ![w].ops = s] EXCEPT
                           ![w].evs = Append(@, Event(op.doc, TRUE, "loose"))]
           \/ /\ op.kind = "delete" /\ Stored(op.doc, FALSE)
              /\ wr' = [[wr EXCEPT ![w].ops = s] EXCEPT
                           ![w].dels = Append(@, Event(op.doc, FALSE, "loose"))]
           \/ wr' = [wr EXCEPT ![w].ops = s] /\ UNCHANGED <<docs, writes>>
    BY <1>1, <1>2 DEF CommitWrite
  <1>4. /\ wr[w] \in Writer /\ wr[w].ops \in Seq(Op) /\ writes \in Nat
        /\ \A l : Owed(wr[w], l) = wr[w].evs
        /\ \A i \in DOMAIN wr[w].evs : wr[w].evs[i].from # "locked"
        /\ \A i \in DOMAIN wr[w].dels : wr[w].dels[i].from # "locked"
    BY <1>3, Quiet DEF Writer
  <1>5. wr[w].evs \in Seq(Message) /\ wr[w].dels \in Seq(Message)
    BY <1>4 DEF Writer
  <1>6. op \in Op /\ s \in Seq(Op) /\ Len(s) \in Nat /\ Len(s) = Len(wr[w].ops) - 1
    BY <1>1, <1>2, <1>3, <1>4, SMTT(90)
  <1>7. op.doc \in Docs
    BY <1>6 DEF Op
  <1>8. Len(s) <= MaxOps /\ writes + 1 + Len(s) <= MaxWrites + MaxOps
    BY <1>3, <1>4, <1>6, Bounds, SMTT(30) DEF IInv, Budget
  <1>9. CASE /\ Stored(op.doc, TRUE)
             /\ wr' = [[wr EXCEPT ![w].ops = s] EXCEPT
                          ![w].evs = Append(@, Event(op.doc, TRUE, "loose"))]
    <2>1. PICK e : e = Event(op.doc, TRUE, "loose")
      OBVIOUS
    <2>2. /\ e \in Message /\ e.from = "loose" /\ e.ver = writes + 1 /\ e.doc = op.doc
          /\ writes' = writes + 1 /\ writes' \in Nat
          /\ docs'[op.doc].ver = writes + 1
          /\ \A c \in Docs : c # op.doc => docs'[c] = docs[c]
          /\ docs' \in [Docs -> [ver : 0 .. writes', exists : BOOLEAN]]
      BY <1>7, <1>9, <2>1, News DEF IInv
    <2>3. PICK q : q = Append(wr[w].evs, e)
      OBVIOUS
    <2>4. q \in Seq(Message) /\ \A d, v : Tells(q, d, v) <=>
             Tells(wr[w].evs, d, v) \/ (e.doc = d /\ e.ver = v /\ e.from # "mark")
      BY <1>5, <2>2, <2>3, AtEnd
    <2>5. \A i \in DOMAIN q : q[i].from # "locked"
      <3> TAKE i \in DOMAIN q
      <3>1. \/ i \in DOMAIN wr[w].evs /\ q[i] = wr[w].evs[i]
            \/ q[i] = e
        BY <1>5, <2>2, <2>3
      <3>2. QED
        BY <1>4, <2>2, <3>1
    <2>6. PICK x : x = [wr[w] EXCEPT !.ops = s, !.evs = q]
      OBVIOUS
    <2>7. /\ x \in Writer /\ x.pc = "commit" /\ x.ops = s /\ x.evs = q /\ x.dels = wr[w].dels
      BY <1>3, <1>4, <1>6, <2>4, <2>6 DEF Writer
    <2>8. wr' = [wr EXCEPT ![w] = x]
      BY <1>9, <2>1, <2>3, <2>6 DEF IInv, Shape, Writer
    <2>9. \A l : Owed(x, l) = q
      BY <2>7 DEF Owed
    <2>10. \A l \in Listeners, d \in Docs : docs'[d].exists /\ Served(l) =>
            \/ docs'[d] = docs[d] /\ (Tells(Owed(wr[w], l), d, docs[d].ver) =>
                                         Tells(Owed(x, l), d, docs[d].ver))
            \/ Tells(Owed(x, l), d, docs'[d].ver)
      BY <1>4, <2>2, <2>4, <2>9
    <2>11. /\ \A i \in DOMAIN x.evs : x.evs[i].from # "locked"
           /\ \A i \in DOMAIN x.dels : x.dels[i].from # "locked"
      BY <1>4, <2>5, <2>7
    <2>12. writes <= writes' /\ Len(x.ops) <= MaxOps /\ writes' + Len(x.ops) <= MaxWrites + MaxOps
      BY <1>4, <1>8, <2>2, <2>7
    <2>13. QED
      BY <1>3, <2>2, <2>7, <2>8, <2>10, <2>11, <2>12, CommitTurns
  <1>10. CASE /\ Stored(op.doc, FALSE)
              /\ wr' = [[wr EXCEPT ![w].ops = s] EXCEPT
                           ![w].dels = Append(@, Event(op.doc, FALSE, "loose"))]
    <2>1. PICK e : e = Event(op.doc, FALSE, "loose")
      OBVIOUS
    <2>2. /\ e \in Message /\ e.from = "loose"
          /\ writes' = writes + 1 /\ writes' \in Nat
          /\ ~docs'[op.doc].exists
          /\ \A c \in Docs : c # op.doc => docs'[c] = docs[c]
          /\ docs' \in [Docs -> [ver : 0 .. writes', exists : BOOLEAN]]
      BY <1>7, <1>10, <2>1, News DEF IInv
    <2>3. PICK q : q = Append(wr[w].dels, e)
      OBVIOUS
    <2>4. q \in Seq(Message)
      BY <1>5, <2>2, <2>3
    <2>5. \A i \in DOMAIN q : q[i].from # "locked"
      <3> TAKE i \in DOMAIN q
      <3>1. \/ i \in DOMAIN wr[w].dels /\ q[i] = wr[w].dels[i]
            \/ q[i] = e
        BY <1>5, <2>2, <2>3
      <3>2. QED
        BY <1>4, <2>2, <3>1
    <2>6. PICK x : x = [wr[w] EXCEPT !.ops = s, !.dels = q]
      OBVIOUS
    <2>7. /\ x \in Writer /\ x.pc = "commit" /\ x.ops = s /\ x.dels = q /\ x.evs = wr[w].evs
      BY <1>3, <1>4, <1>6, <2>4, <2>6 DEF Writer
    <2>8. wr' = [wr EXCEPT ![w] = x]
      BY <1>10, <2>1, <2>3, <2>6 DEF IInv, Shape, Writer
    <2>9. \A l : Owed(x, l) = wr[w].evs
      BY <2>7 DEF Owed
    <2>10. \A l \in Listeners, d \in Docs : docs'[d].exists /\ Served(l) =>
            \/ docs'[d] = docs[d] /\ (Tells(Owed(wr[w], l), d, docs[d].ver) =>
                                         Tells(Owed(x, l), d, docs[d].ver))
            \/ Tells(Owed(x, l), d, docs'[d].ver)
      BY <1>4, <2>2, <2>9
    <2>11. /\ \A i \in DOMAIN x.evs : x.evs[i].from # "locked"
           /\ \A i \in DOMAIN x.dels : x.dels[i].from # "locked"
      BY <1>4, <2>5, <2>7
    <2>12. writes <= writes' /\ Len(x.ops) <= MaxOps /\ writes' + Len(x.ops) <= MaxWrites + MaxOps
      BY <1>4, <1>8, <2>2, <2>7
    <2>13. QED
      BY <1>3, <2>2, <2>7, <2>8, <2>10, <2>11, <2>12, CommitTurns
  <1>11. CASE wr' = [wr EXCEPT ![w].ops = s] /\ UNCHANGED <<docs, writes>>
    <2>1. PICK x : x = [wr[w] EXCEPT !.ops = s]
      OBVIOUS
    <2>2. /\ x \in Writer /\ x.pc = "commit" /\ x.ops = s
          /\ x.evs = wr[w].evs /\ x.dels = wr[w].dels
      BY <1>3, <1>4, <1>6, <2>1 DEF Writer
    <2>3. wr' = [wr EXCEPT ![w] = x]
      BY <1>11, <2>1 DEF IInv, Shape, Writer
    <2>4. \A l : Owed(x, l) = wr[w].evs
      BY <2>2 DEF Owed
    <2>5. /\ docs' \in [Docs -> [ver : 0 .. writes', exists : BOOLEAN]]
          /\ writes' \in Nat /\ writes <= writes'
      BY <1>11, NothingStored
    <2>6. \A l \in Listeners, d \in Docs : docs'[d].exists /\ Served(l) =>
            \/ docs'[d] = docs[d] /\ (Tells(Owed(wr[w], l), d, docs[d].ver) =>
                                         Tells(Owed(x, l), d, docs[d].ver))
            \/ Tells(Owed(x, l), d, docs'[d].ver)
      BY <1>4, <1>11, <2>4
    <2>7. /\ \A i \in DOMAIN x.evs : x.evs[i].from # "locked"
          /\ \A i \in DOMAIN x.dels : x.dels[i].from # "locked"
      BY <1>4, <2>2
    <2>8. Len(x.ops) <= MaxOps /\ writes' + Len(x.ops) <= MaxWrites + MaxOps
      BY <1>4, <1>6, <1>8, <1>11, <2>2, Bounds, SMTT(30)
    <2>9. QED
      BY <1>3, <2>2, <2>3, <2>5, <2>6, <2>7, <2>8, CommitTurns
  <1>12. QED
    BY <1>3, <1>9, <1>10, <1>11

LEMMA CommitUnlockStep ==
  ASSUME IInv, NEW w \in Writers, CommitUnlock(w)
  PROVE  IInv'
  <1>0. /\ wr[w].pc = "commit" /\ mu' = Free
        /\ UNCHANGED <<docs, writes, lst, out, stream, panic>>
        /\ wr' = [wr EXCEPT ![w].pc = "fan", ![w].evs = @ \o wr[w].dels, ![w].dels = <<>>]
    BY DEF CommitUnlock
  <1>1. /\ Idle(w) /\ wr[w] \in Writer
        /\ \A l : Owed(wr[w], l) = wr[w].evs
        /\ \A i \in DOMAIN wr[w].evs : wr[w].evs[i].from # "locked"
        /\ \A i \in DOMAIN wr[w].dels : wr[w].dels[i].from # "locked"
    BY <1>0, Quiet
  <1>2. wr[w].evs \in Seq(Message) /\ wr[w].dels \in Seq(Message)
    BY <1>1 DEF Writer
  <1>3. PICK q : q = wr[w].evs \o wr[w].dels
    OBVIOUS
  <1>4. q \in Seq(Message) /\ \A d, v : Tells(wr[w].evs, d, v) => Tells(q, d, v)
    BY <1>2, <1>3, Joined
  <1>5. \A i \in DOMAIN q : \/ i \in DOMAIN wr[w].evs /\ q[i] = wr[w].evs[i]
                            \/ i - Len(wr[w].evs) \in DOMAIN wr[w].dels
                               /\ q[i] = wr[w].dels[i - Len(wr[w].evs)]
    BY <1>2, <1>3, Joined
  <1>6. \A i \in DOMAIN q : q[i].from # "locked"
    BY <1>1, <1>5
  <1>7. PICK x : x = [wr[w] EXCEPT !.pc = "fan", !.evs = q, !.dels = <<>>]
    OBVIOUS
  <1>8. x \in Writer /\ x.pc = "fan" /\ x.evs = q /\ x.dels = <<>>
    BY <1>1, <1>4, <1>7, EmptyQueue DEF Writer
  <1>9. wr' = [wr EXCEPT ![w] = x]
    BY <1>0, <1>3, <1>7 DEF IInv, Shape, Writer
  <1>10. UNCHANGED <<lst, out, stream, panic>>
    BY <1>0
  <1>11. /\ docs' \in [Docs -> [ver : 0 .. writes', exists : BOOLEAN]]
         /\ writes' \in Nat /\ writes <= writes' /\ writes' <= MaxWrites + MaxOps
         /\ \A v \in Writers : wr[v].pc = "commit" => writes' + Len(wr[v].ops) <= MaxWrites + MaxOps
    BY <1>0, NothingStored
  <1>12. mu' \in Writers \cup {Free} /\ \A v \in Writers : v # w /\ mu = v => mu' = v
    BY <1>0 DEF IInv, Locks
  <1>13. x.pc # "commit" /\ x.pc # "idle" /\ x.pc # "send"
    BY <1>8
  <1>14. /\ \A i \in DOMAIN x.dels : x.dels[i].from # "locked"
         /\ \A i \in DOMAIN x.evs : x.evs[i].from = "locked" =>
               mu' = w /\ Len(x.evs) = 1 /\ x.pc \in {"fan", "send"} /\ x.evs[i].ver <= writes'
    BY <1>6, <1>8, EmptyQueue
  <1>15. ~(x.evs # <<>> /\ Head(x.evs).from = "locked")
    BY <1>4, <1>6, <1>8, LooseHead
  <1>16. \A l : Owed(x, l) = q
    BY <1>8 DEF Owed
  <1>17. \A l \in Listeners, c \in Docs : docs'[c].exists /\ Served(l) =>
            \/ docs'[c] = docs[c] /\ (Tells(Owed(wr[w], l), c, docs[c].ver) =>
                                         Tells(Owed(x, l), c, docs[c].ver))
            \/ Tells(Owed(x, l), c, docs'[c].ver)
    BY <1>0, <1>1, <1>4, <1>16
  <1>18. QED
    BY <1>1, <1>8, <1>9, <1>10, <1>11, <1>12, <1>13, <1>14, <1>15, <1>17, WriterTurns

(* The two messages of a broadcast. *)
LEMMA TwoMessages ==
  ASSUME NEW m \in Message, NEW l \in Listeners
  PROVE  /\ Sends(l, <<m, Mark>>) \in Sending /\ Sends(l, <<m, Mark>>).to = l
         /\ Sends(l, <<m, Mark>>).todo = <<m, Mark>> /\ ~Sends(l, <<m, Mark>>).full
         /\ <<m, Mark>> # <<>>
         /\ \A i \in DOMAIN <<m, Mark>> : <<m, Mark>>[i].from = "locked" => i = 1 /\ <<m, Mark>>[i] = m
         /\ m.from # "mark" => Tells(<<m, Mark>>, m.doc, m.ver)
  <1>1. PICK t : t = <<m, Mark>>
    OBVIOUS
  <1>2. t \in Seq(Message) /\ DOMAIN t = 1..2 /\ t[1] = m /\ t[2] = Mark /\ t # <<>>
    BY <1>1, MarkIsMessage
  <1>3. \A i \in 1..2 : i = 1 \/ i = 2
    OBVIOUS
  <1>4. \A i \in DOMAIN t : t[i].from = "locked" => i = 1 /\ t[i] = m
    BY <1>2, <1>3, MarkIsMessage
  <1>5. m.from # "mark" => Tells(t, m.doc, m.ver)
    BY <1>2 DEF Tells
  <1>6. Sends(l, t) \in Sending /\ Sends(l, t).to = l /\ Sends(l, t).todo = t /\ ~Sends(l, t).full
    BY <1>2, NothingToSend
  <1>7. QED
    BY <1>1, <1>2, <1>4, <1>5, <1>6

LEMMA BroadcastStep ==
  ASSUME IInv, NEW w \in Writers, NEW l \in Listeners, Broadcast(w, l)
  PROVE  IInv'
  <1>1. PICK m : m = Head(wr[w].evs)
    OBVIOUS
  <1>2. PICK o : o = IF lst[l].target THEN Sends(l, <<m, Mark>>) ELSE out[w]
    OBVIOUS
  <1>3. /\ wr[w].pc = "send" /\ Idle(w) /\ l \in wr[w].left /\ mu' = mu
        /\ wr' = [wr EXCEPT ![w].left = @ \ {l}]
        /\ UNCHANGED <<docs, writes, lst, stream, panic>>
    BY DEF Broadcast
  <1>4. out' = [out EXCEPT ![w] = o]
    BY <1>1, <1>2 DEF Broadcast, IInv, Shape
  <1>5. /\ wr[w] \in Writer /\ wr[w].evs \in Seq(Message) /\ wr[w].evs # <<>>
        /\ out[w] \in Sending /\ out[w].todo = <<>> /\ ~out[w].full
    BY <1>3, Fields DEF IInv, Busy, Idle
  <1>6. /\ m \in Message
        /\ \A d, v : Tells(wr[w].evs, d, v) =>
              Tells(Tail(wr[w].evs), d, v) \/ (m.doc = d /\ m.ver = v /\ m.from # "mark")
    BY <1>1, <1>5, AtHead
  <1>7. PICK x : x = [wr[w] EXCEPT !.left = @ \ {l}]
    OBVIOUS
  <1>8. /\ x \in Writer /\ x.pc = "send" /\ x.evs = wr[w].evs /\ x.dels = wr[w].dels
        /\ x.left = wr[w].left \ {l}
    BY <1>3, <1>5, <1>7 DEF Writer
  <1>9. wr' = [wr EXCEPT ![w] = x]
    BY <1>3, <1>7 DEF IInv, Shape, Writer
  <1>10. \/ /\ lst[l].target /\ o \in Sending /\ o.to = l /\ o.todo = <<m, Mark>> /\ ~o.full
            /\ \A i \in DOMAIN o.todo : o.todo[i].from = "locked" => i = 1 /\ o.todo[i] = m
            /\ m.from # "mark" => Tells(o.todo, m.doc, m.ver)
         \/ ~lst[l].target /\ o = out[w]
    BY <1>2, <1>6, TwoMessages
  <1>11. o \in Sending /\ ~o.full /\ (o.todo # <<>> => o.to = l)
    BY <1>5, <1>10
  <1>12. UNCHANGED <<lst, stream, panic>>
    BY <1>3
  <1>13. /\ docs' \in [Docs -> [ver : 0 .. writes', exists : BOOLEAN]]
         /\ writes' \in Nat /\ writes <= writes' /\ writes' <= MaxWrites + MaxOps
         /\ \A v \in Writers : wr[v].pc = "commit" => writes' + Len(wr[v].ops) <= MaxWrites + MaxOps
    BY <1>3, NothingStored
  <1>14. mu' \in Writers \cup {Free} /\ \A v \in Writers : v # w /\ mu = v => mu' = v
    BY <1>3 DEF IInv, Shape
  <1>15. x.pc # "commit" /\ x.pc # "idle" /\ x.evs # <<>>
         /\ (o.todo # <<>> => o.to \in Listeners /\ x.pc = "send")
    BY <1>5, <1>8, <1>11
  <1>16. /\ \A i \in DOMAIN x.dels : x.dels[i].from # "locked"
         /\ \A i \in DOMAIN x.evs : x.evs[i].from = "locked" =>
               mu' = w /\ Len(x.evs) = 1 /\ x.pc \in {"fan", "send"} /\ x.evs[i].ver <= writes'
    BY <1>3, <1>8 DEF IInv, Locks
  <1>17. \A i \in DOMAIN o.todo : o.todo[i].from = "locked" =>
            i = 1 /\ o.todo[i] = Head(x.evs) /\ o.to \notin x.left
    BY <1>1, <1>5, <1>8, <1>10, EmptyQueue
  <1>18. \A k \in Listeners : Untold(x, o, k) =>
            \/ Untold(wr[w], out[w], k) /\ Head(x.evs) = Head(wr[w].evs)
            \/ Head(x.evs).ver = writes + 1
    BY <1>3, <1>8, <1>11 DEF Untold
  <1>19. ASSUME NEW k \in Listeners, NEW d \in Docs, Served(k), NEW v, Tells(Owed(wr[w], k), d, v)
         PROVE  \/ Tells(Owed(x, k), d, v)
                \/ o.to = k /\ Tells(o.todo, d, v)
    <2>1. CASE k # l
      BY <1>3, <1>8, <1>19, <2>1 DEF Owed
    <2>2. CASE k = l
      <3>1. lst[l].target
        BY <1>19, <2>2 DEF Served, Open
      <3>2. Owed(wr[w], k) = wr[w].evs /\ Owed(x, k) = Tail(wr[w].evs)
        BY <1>3, <1>8, <2>2 DEF Owed
      <3>3. QED
        BY <1>6, <1>10, <1>19, <2>2, <3>1, <3>2
    <2>3. QED
      BY <2>1, <2>2
  <1>20. \A k \in Listeners, d \in Docs : docs'[d].exists /\ Served(k) =>
            \/ docs'[d] = docs[d] /\ (Tells(Owed(wr[w], k), d, docs[d].ver) =>
                  \/ Tells(Owed(x, k), d, docs[d].ver)
                  \/ o.to = k /\ Tells(o.todo, d, docs[d].ver))
            \/ Tells(Owed(x, k), d, docs'[d].ver)
    BY <1>3, <1>19
  <1>21. QED
    BY <1>3, <1>4, <1>8, <1>9, <1>11, <1>12, <1>13, <1>14, <1>15, <1>16, <1>17, <1>18, <1>20,
       WriterMoves, ZenonT(60)

LEMMA NextEventStep ==
  ASSUME IInv, NEW w \in Writers, NextEvent(w)
  PROVE  IInv'
  <1>1. PICK q : q = Tail(wr[w].evs)
    OBVIOUS
  <1>2. PICK o : o = Nothing
    OBVIOUS
  <1>3. /\ wr[w].pc = "send" /\ Idle(w) /\ wr[w].left = {} /\ mu' = mu
        /\ wr' = [wr EXCEPT ![w].pc = "fan", ![w].evs = q]
        /\ out' = [out EXCEPT ![w] = o]
        /\ UNCHANGED <<docs, writes, lst, stream, panic>>
    BY <1>1, <1>2 DEF NextEvent
  <1>4. /\ wr[w] \in Writer /\ wr[w].evs \in Seq(Message) /\ wr[w].evs # <<>>
    BY <1>3, Fields DEF IInv, Busy
  <1>5. /\ q \in Seq(Message) /\ Len(q) = Len(wr[w].evs) - 1
        /\ \A i \in DOMAIN q : i + 1 \in DOMAIN wr[w].evs /\ q[i] = wr[w].evs[i + 1] /\ i + 1 > 1
    BY <1>1, <1>4, AtHead
  <1>6. \A i \in DOMAIN q : q[i].from # "locked"
    <2> SUFFICES ASSUME NEW i \in DOMAIN q, q[i].from = "locked" PROVE FALSE
      OBVIOUS
    <2>1. wr[w].evs[i + 1].from = "locked" /\ i + 1 \in DOMAIN wr[w].evs
      BY <1>5
    <2>2. Len(wr[w].evs) = 1
      BY <2>1 DEF IInv, Locks
    <2>3. QED
      BY <1>4, <1>5, <2>2
  <1>7. PICK x : x = [wr[w] EXCEPT !.pc = "fan", !.evs = q]
    OBVIOUS
  <1>8. x \in Writer /\ x.pc = "fan" /\ x.evs = q /\ x.dels = wr[w].dels
    BY <1>4, <1>5, <1>7 DEF Writer
  <1>9. wr' = [wr EXCEPT ![w] = x]
    BY <1>3, <1>7 DEF IInv, Shape, Writer
  <1>10. o \in Sending /\ o.todo = <<>> /\ ~o.full
    BY <1>2, NothingToSend
  <1>11. UNCHANGED <<lst, stream, panic>>
    BY <1>3
  <1>12. /\ docs' \in [Docs -> [ver : 0 .. writes', exists : BOOLEAN]]
         /\ writes' \in Nat /\ writes <= writes' /\ writes' <= MaxWrites + MaxOps
         /\ \A v \in Writers : wr[v].pc = "commit" => writes' + Len(wr[v].ops) <= MaxWrites + MaxOps
    BY <1>3, NothingStored
  <1>13. mu' \in Writers \cup {Free} /\ \A v \in Writers : v # w /\ mu = v => mu' = v
    BY <1>3 DEF IInv, Shape
  <1>14. /\ x.pc # "commit" /\ x.pc # "idle" /\ x.pc # "send"
         /\ (o.todo # <<>> => o.to \in Listeners /\ x.pc = "send")
    BY <1>8, <1>10
  <1>15. /\ \A i \in DOMAIN x.dels : x.dels[i].from # "locked"
         /\ \A i \in DOMAIN x.evs : x.evs[i].from = "locked" =>
               mu' = w /\ Len(x.evs) = 1 /\ x.pc \in {"fan", "send"} /\ x.evs[i].ver <= writes'
    BY <1>6, <1>8 DEF IInv, Locks
  <1>16. \A i \in DOMAIN o.todo : o.todo[i].from = "locked" =>
            i = 1 /\ o.todo[i] = Head(x.evs) /\ o.to \notin x.left
    BY <1>10, EmptyQueue
  <1>17. ~(x.evs # <<>> /\ Head(x.evs).from = "locked")
    BY <1>5, <1>6, <1>8, LooseHead
  <1>18. \A k \in Listeners : Untold(x, o, k) =>
            \/ Untold(wr[w], out[w], k) /\ Head(x.evs) = Head(wr[w].evs)
            \/ Head(x.evs).ver = writes + 1
    BY <1>17 DEF Untold
  <1>19. \A k : Owed(wr[w], k) = q /\ Owed(x, k) = q
    BY <1>1, <1>3, <1>8 DEF Owed
  <1>20. \A k \in Listeners, d \in Docs : docs'[d].exists /\ Served(k) =>
            \/ docs'[d] = docs[d] /\ (Tells(Owed(wr[w], k), d, docs[d].ver) =>
                  \/ Tells(Owed(x, k), d, docs[d].ver)
                  \/ o.to = k /\ Tells(o.todo, d, docs[d].ver))
            \/ Tells(Owed(x, k), d, docs'[d].ver)
    BY <1>3, <1>19
  <1>21. QED
    BY <1>3, <1>8, <1>9, <1>10, <1>11, <1>12, <1>13, <1>14, <1>15, <1>16, <1>18, <1>20,
       WriterMoves, ZenonT(60)

-----------------------------------------------------------------------------
(* A step at the outbox of l, or at its stream: what p has yet to send, the  *)
(* outbox, done and the sender.                                              *)
LEMMA ChannelMoves ==
  ASSUME IInv, NEW p \in Writers \cup Listeners, NEW l \in Listeners,
         NEW x \in Listener, NEW o \in Sending, NEW t \in Seq(Message),
         lst' = [lst EXCEPT ![l] = x], out' = [out EXCEPT ![p] = o],
         stream' = [stream EXCEPT ![l] = t],
         UNCHANGED <<docs, writes, mu, wr>>, panic' \in BOOLEAN,
         x.pc = lst[l].pc, x.target = lst[l].target, x.registered = lst[l].registered,
         o = out[p] \/ (out[p].to = l /\ o.to = l /\ ~Idle(p)),
         o.todo = out[p].todo \/ \A i \in DOMAIN o.todo : o.todo[i].from # "locked",
         Len(x.outbox) <= Cap,
         Rising(t), Rising(x.outbox), Below(t, writes + 1), Below(x.outbox, writes + 1),
         \A i \in DOMAIN x.outbox : x.outbox[i].from = "locked" => Below(t, x.outbox[i].ver),
         \A w \in Writers : Untold(wr[w], out'[w], l) =>
            Below(t, Head(wr[w].evs).ver) /\ Below(x.outbox, Head(wr[w].evs).ver),
         Open(x) /\ ~(o.full /\ o.to = l) =>
            /\ Open(lst[l]) /\ (out[p].full => out[p].to # l)
            /\ \A d, v : \/ Tells(stream[l], d, v) \/ Tells(lst[l].outbox, d, v)
                         \/ out[p].to = l /\ Tells(out[p].todo, d, v)
                 => \/ Tells(t, d, v) \/ Tells(x.outbox, d, v)
                    \/ o.to = l /\ Tells(o.todo, d, v)
  PROVE  IInv'
  <1>1. /\ lst'[l] = x /\ \A k \in Listeners : k # l => lst'[k] = lst[k]
        /\ out'[p] = o /\ \A r \in Writers \cup Listeners : r # p => out'[r] = out[r]
        /\ stream'[l] = t /\ \A k \in Listeners : k # l => stream'[k] = stream[k]
    BY DEF IInv, Shape
  <1>2. Shape'
    BY DEF IInv, Shape
  <1>3. Budget'
    BY <1>1 DEF IInv, Budget
  <1>4. \A r \in Writers \cup Listeners : out'[r] = out[r] \/ (~Idle(r) /\ out'[r].to = l)
    BY <1>1
  <1>5. \A k \in Listeners : /\ lst'[k].pc = lst[k].pc /\ lst'[k].target = lst[k].target
                             /\ lst'[k].registered = lst[k].registered
    BY <1>1
  <1>6. \A r \in Writers \cup Listeners : ~Idle(r)' => ~Idle(r) /\ (out'[r].to = out[r].to \/ out'[r].to = l)
    BY <1>4 DEF Idle
  <1>7. Busy'
    BY <1>5, <1>6 DEF IInv, Busy
  <1>8. Locks'
    <2> SUFFICES ASSUME NEW r \in Writers \cup Listeners, NEW i \in DOMAIN out'[r].todo,
                        out'[r].todo[i].from = "locked"
                 PROVE  /\ r \in Writers /\ i = 1 /\ out'[r].todo[i] = Head(wr[r].evs)
                        /\ out'[r].to \notin wr[r].left
      BY DEF IInv, Locks
    <2>1. out'[r].todo = out[r].todo /\ out'[r].to = out[r].to
      BY <1>1
    <2>2. QED
      BY <2>1 DEF IInv, Locks
  <1>9. Ordered'
    <2>1. ASSUME NEW k \in Listeners
          PROVE  /\ Rising(stream'[k]) /\ Rising(lst'[k].outbox)
                 /\ Below(stream'[k], writes + 1) /\ Below(lst'[k].outbox, writes + 1)
                 /\ \A i \in DOMAIN lst'[k].outbox : lst'[k].outbox[i].from = "locked" =>
                       Below(stream'[k], lst'[k].outbox[i].ver)
      <3>1. CASE k = l
        BY <1>1, <3>1
      <3>2. CASE k # l
        BY <1>1, <3>2 DEF IInv, Ordered
      <3>3. QED
        BY <3>1, <3>2
    <2>2. ASSUME NEW w \in Writers, NEW k \in Listeners, Untold(wr[w], out'[w], k)
          PROVE  Below(stream'[k], Head(wr[w].evs).ver) /\ Below(lst'[k].outbox, Head(wr[w].evs).ver)
      <3>1. CASE k = l
        BY <1>1, <2>2, <3>1
      <3>2. CASE k # l
        <4>1. Untold(wr[w], out[w], k)
          BY <1>4, <2>2, <3>2 DEF Untold
        <4>2. QED
          BY <1>1, <3>2, <4>1 DEF IInv, Ordered
      <3>3. QED
        BY <3>1, <3>2
    <2>3. QED
      BY <2>1, <2>2 DEF Ordered
  <1>10. Arriving'
    <2> SUFFICES ASSUME NEW k \in Listeners, NEW d \in Docs, Served(k)', docs[d].exists
                 PROVE  Informed(k, d, docs[d].ver)'
      BY DEF Arriving
    <2>1. CASE k = l
      <3>1. Open(x) /\ ~(o.full /\ o.to = l)
        BY <1>1, <2>1 DEF Served
      <3>2. Served(l)
        BY <1>1, <2>1, <3>1 DEF Served
      <3>3. Informed(l, d, docs[d].ver)
        BY <3>2 DEF IInv, Arriving
      <3>4. CASE \/ Tells(stream[l], d, docs[d].ver) \/ Tells(lst[l].outbox, d, docs[d].ver)
                 \/ out[p].to = l /\ Tells(out[p].todo, d, docs[d].ver)
        <4>1. \/ Tells(t, d, docs[d].ver) \/ Tells(x.outbox, d, docs[d].ver)
              \/ o.to = l /\ Tells(o.todo, d, docs[d].ver)
          BY <3>1, <3>4
        <4>2. QED
          BY <1>1, <2>1, <4>1 DEF Informed
      <3>5. CASE \E r \in Writers \cup Listeners : r # p /\ out[r].to = l /\ Tells(out[r].todo, d, docs[d].ver)
        BY <1>1, <2>1, <3>5 DEF Informed
      <3>6. CASE \E w \in Writers : Tells(Owed(wr[w], l), d, docs[d].ver)
        BY <2>1, <3>6 DEF Informed
      <3>7. QED
        BY <3>3, <3>4, <3>5, <3>6 DEF Informed
    <2>2. CASE k # l
      <3>1. Served(k)
        BY <1>1, <1>4, <2>2 DEF Served
      <3>2. Informed(k, d, docs[d].ver)
        BY <3>1 DEF IInv, Arriving
      <3>3. \A r \in Writers \cup Listeners : out[r].to = k => out'[r] = out[r]
        BY <1>1, <2>2
      <3>4. QED
        BY <1>1, <2>2, <3>2, <3>3 DEF Informed
    <2>3. QED
      BY <2>1, <2>2
  <1>11. QED
    BY <1>2, <1>3, <1>7, <1>8, <1>9, <1>10 DEF IInv

(* The message that p sends next.  A change made under the lock is the one   *)
(* that its writer, the holder of the lock, had still to tell the listener.  *)
Delivers(p, l, m, s) ==
    /\ l = out[p].to /\ m = Head(out[p].todo) /\ s = Tail(out[p].todo) /\ ~Idle(p)
    /\ \A i \in DOMAIN s : s[i].from # "locked"
    /\ \A d, v : Tells(out[p].todo, d, v) <=>
          Tells(s, d, v) \/ (m.doc = d /\ m.ver = v /\ m.from # "mark")
    /\ m.from = "locked" =>
         /\ Below(stream[l], m.ver) /\ Below(lst[l].outbox, m.ver)
         /\ m.ver \in Nat /\ m.ver < writes + 1
         /\ \A w \in Writers : wr[w].evs # <<>> /\ Head(wr[w].evs).from = "locked" => w = p
         /\ p \in Writers /\ l \notin wr[p].left /\ wr[p].pc = "send"

LEMMA NextMessage ==
  ASSUME IInv, NEW p \in Writers \cup Listeners, out[p].todo # <<>>
  PROVE  \E l \in Listeners, m \in Message, s \in Seq(Message) : Delivers(p, l, m, s)
  <1>1. PICK l : l = out[p].to
    OBVIOUS
  <1>2. PICK m : m = Head(out[p].todo)
    OBVIOUS
  <1>3. PICK s : s = Tail(out[p].todo)
    OBVIOUS
  <1>4. out[p].todo \in Seq(Message)
    BY Fields DEF IInv
  <1>5. /\ s \in Seq(Message) /\ m = out[p].todo[1] /\ m \in Message /\ 1 \in DOMAIN out[p].todo
        /\ \A i \in DOMAIN s : i + 1 \in DOMAIN out[p].todo /\ s[i] = out[p].todo[i + 1] /\ i + 1 > 1
        /\ \A d, v : Tells(out[p].todo, d, v) <=>
               Tells(s, d, v) \/ (m.doc = d /\ m.ver = v /\ m.from # "mark")
    BY <1>4, <1>2, <1>3, AtHead
  <1>6. ~Idle(p) /\ l \in Listeners
    BY <1>1 DEF IInv, Busy, Idle
  <1>7. \A i \in DOMAIN s : s[i].from # "locked"
    <2> SUFFICES ASSUME NEW i \in DOMAIN s, s[i].from = "locked" PROVE FALSE
      OBVIOUS
    <2>1. i + 1 \in DOMAIN out[p].todo /\ out[p].todo[i + 1].from = "locked" /\ i + 1 > 1
      BY <1>5
    <2>2. i + 1 = 1
      BY <2>1 DEF IInv, Locks
    <2>3. QED
      BY <2>1, <2>2
  <1>8. ASSUME m.from = "locked"
        PROVE  /\ Below(stream[l], m.ver) /\ Below(lst[l].outbox, m.ver)
               /\ m.ver \in Nat /\ m.ver < writes + 1
               /\ \A w \in Writers : wr[w].evs # <<>> /\ Head(wr[w].evs).from = "locked" => w = p
               /\ p \in Writers /\ l \notin wr[p].left /\ wr[p].pc = "send"
    <2>1. p \in Writers /\ m = Head(wr[p].evs) /\ l \notin wr[p].left
      BY <1>5, <1>8, <1>1 DEF IInv, Locks
    <2>2. wr[p].pc = "send" /\ wr[p].evs # <<>> /\ wr[p].evs \in Seq(Message)
      BY <1>6, <2>1, Fields DEF IInv, Busy
    <2>3. Untold(wr[p], out[p], l)
      BY <1>5, <1>8, <1>1, <2>1, <2>2 DEF Untold
    <2>4. Below(stream[l], m.ver) /\ Below(lst[l].outbox, m.ver)
      BY <1>6, <2>1, <2>3 DEF IInv, Ordered
    <2>5. ASSUME NEW w \in Writers, wr[w].evs # <<>>, Head(wr[w].evs).from = "locked"
          PROVE  mu = w /\ Head(wr[w].evs).ver <= writes
      <3>1. wr[w].evs \in Seq(Message)
        BY Fields DEF IInv
      <3>2. Head(wr[w].evs) = wr[w].evs[1] /\ 1 \in DOMAIN wr[w].evs
        BY <2>5, <3>1
      <3>3. QED
        BY <2>5, <3>2 DEF IInv, Locks
    <2>6. mu = p /\ m.ver <= writes
      BY <1>8, <2>1, <2>2, <2>5
    <2>7. m.ver \in Nat /\ m.ver < writes + 1
      BY <1>5, <2>6, Fields DEF IInv, Message
    <2>8. QED
      BY <2>1, <2>2, <2>4, <2>5, <2>6, <2>7
  <1>9. l \in Listeners /\ m \in Message /\ s \in Seq(Message)
    BY <1>5, <1>6
  <1>10. Delivers(p, l, m, s)
    BY <1>1, <1>2, <1>3, <1>5, <1>6, <1>7, <1>8 DEF Delivers
  <1>11. QED
    BY <1>9, <1>10

LEMMA SendStep ==
  ASSUME IInv, NEW p \in Writers \cup Listeners, Send(p)
  PROVE  IInv'
  <1>1. out[p].todo # <<>> /\ ~out[p].full /\ UNCHANGED <<docs, writes, mu, wr, stream, panic>>
    BY DEF Send
  <1>2. PICK l \in Listeners, m \in Message, s \in Seq(Message) : Delivers(p, l, m, s)
    BY <1>1, NextMessage
  <1>3. \/ /\ Len(lst[l].outbox) < Cap
           /\ lst' = [lst EXCEPT ![l].outbox = Append(@, m)]
           /\ out' = [out EXCEPT ![p].todo = s]
        \/ /\ lst[l].done /\ out' = [out EXCEPT ![p].todo = s] /\ UNCHANGED lst
        \/ /\ out' = [out EXCEPT ![p].todo = s, ![p].full = TRUE] /\ UNCHANGED lst
    BY <1>2 DEF Send, Delivers
  <1>4. /\ out[p].todo # <<>> /\ ~out[p].full /\ UNCHANGED <<docs, writes, mu, wr, stream, panic>>
    BY <1>1
  <1>5. /\ l \in Listeners /\ ~Idle(p) /\ m \in Message /\ s \in Seq(Message) /\ l = out[p].to
        /\ \A i \in DOMAIN s : s[i].from # "locked"
        /\ \A d, v : Tells(out[p].todo, d, v) <=>
               Tells(s, d, v) \/ (m.doc = d /\ m.ver = v /\ m.from # "mark")
    BY <1>2 DEF Delivers
  <1>6. m.from = "locked" =>
              /\ Below(stream[l], m.ver) /\ Below(lst[l].outbox, m.ver)
              /\ m.ver \in Nat /\ m.ver < writes + 1
              /\ \A w \in Writers : wr[w].evs # <<>> /\ Head(wr[w].evs).from = "locked" => w = p
              /\ p \in Writers /\ l \notin wr[p].left /\ wr[p].pc = "send"
    BY <1>2 DEF Delivers
  <1>7. /\ lst[l] \in Listener /\ lst[l].outbox \in Seq(Message) /\ stream[l] \in Seq(Message)
        /\ out[p] \in Sending /\ writes \in Nat
    BY <1>5, Fields DEF IInv
  <1>8. /\ Rising(stream[l]) /\ Rising(lst[l].outbox)
        /\ Below(stream[l], writes + 1) /\ Below(lst[l].outbox, writes + 1)
        /\ \A i \in DOMAIN lst[l].outbox : lst[l].outbox[i].from = "locked" =>
                 Below(stream[l], lst[l].outbox[i].ver)
    BY <1>5 DEF IInv, Ordered
  <1>9. PICK t : t = stream[l]
    OBVIOUS
  <1>10. stream' = [stream EXCEPT ![l] = t] /\ panic' \in BOOLEAN
    BY <1>4, <1>9 DEF IInv, Shape
  <1>11. ASSUME NEW o, o.todo = s, out' = [out EXCEPT ![p] = o]
         PROVE  \A w \in Writers : Untold(wr[w], out'[w], l) =>
                   /\ Untold(wr[w], out[w], l) /\ (w = p => wr[w].pc # "send" \/ l \in wr[w].left)
                   /\ wr[w].evs # <<>> /\ Head(wr[w].evs).from = "locked"
    <2> TAKE w \in Writers
    <2>1. CASE w # p
      <3>1. out'[w] = out[w]
        BY <1>11, <2>1 DEF IInv, Shape
      <3>2. QED
        BY <2>1, <3>1 DEF Untold
    <2>2. CASE w = p
      <3>1. out'[w] = o
        BY <1>11, <2>2 DEF IInv, Shape
      <3>2. ~(s # <<>> /\ s[1].from = "locked")
        BY <1>5
      <3>3. QED
        BY <1>11, <2>2, <3>1, <3>2 DEF Untold
    <2>3. QED
      BY <2>1, <2>2
  <1>12. ASSUME Len(lst[l].outbox) < Cap, lst' = [lst EXCEPT ![l].outbox = Append(@, m)],
                out' = [out EXCEPT ![p].todo = s]
         PROVE  IInv'
    <2>1. PICK q : q = Append(lst[l].outbox, m)
      OBVIOUS
    <2>2. /\ q \in Seq(Message) /\ Len(q) = Len(lst[l].outbox) + 1
          /\ \A v : Below(lst[l].outbox, v) /\ (m.from = "locked" => m.ver < v) => Below(q, v)
          /\ Rising(lst[l].outbox) /\ (m.from = "locked" => Below(lst[l].outbox, m.ver)) => Rising(q)
          /\ \A d, v : Tells(q, d, v) <=>
                Tells(lst[l].outbox, d, v) \/ (m.doc = d /\ m.ver = v /\ m.from # "mark")
      BY <1>5, <1>7, <2>1, AtEnd
    <2>3. PICK x : x = [lst[l] EXCEPT !.outbox = q]
      OBVIOUS
    <2>4. PICK o : o = [out[p] EXCEPT !.todo = s]
      OBVIOUS
    <2>5. /\ x \in Listener /\ x.outbox = q /\ x.pc = lst[l].pc /\ x.target = lst[l].target
          /\ x.registered = lst[l].registered /\ x.done = lst[l].done /\ x.sender = lst[l].sender
      BY <1>7, <2>2, <2>3 DEF Listener
    <2>6. o \in Sending /\ o.todo = s /\ o.to = l /\ o.full = out[p].full
      BY <1>5, <1>7, <2>4 DEF Sending
    <2>7. lst' = [lst EXCEPT ![l] = x] /\ out' = [out EXCEPT ![p] = o]
      BY <1>12, <2>1, <2>3, <2>4 DEF IInv, Shape, Listener, Sending
    <2>8. Len(x.outbox) <= Cap
      BY <1>7, <1>12, <2>2, <2>5, Bounds
    <2>9. Rising(x.outbox) /\ Below(x.outbox, writes + 1)
      BY <1>6, <1>8, <2>2, <2>5
    <2>10. \A i \in DOMAIN x.outbox : x.outbox[i].from = "locked" => Below(t, x.outbox[i].ver)
      <3> SUFFICES ASSUME NEW i \in DOMAIN q, q[i].from = "locked" PROVE Below(t, q[i].ver)
        BY <2>5
      <3>1. (i \in DOMAIN lst[l].outbox /\ q[i] = lst[l].outbox[i]) \/ q[i] = m
        BY <1>5, <1>7, <2>1
      <3>2. QED
        BY <1>6, <1>8, <1>9, <3>1
    <2>11. ASSUME NEW w \in Writers, Untold(wr[w], out'[w], l)
           PROVE  Below(t, Head(wr[w].evs).ver) /\ Below(x.outbox, Head(wr[w].evs).ver)
      <3>1. /\ Untold(wr[w], out[w], l) /\ (w = p => wr[w].pc # "send" \/ l \in wr[w].left)
            /\ wr[w].evs # <<>> /\ Head(wr[w].evs).from = "locked"
        BY <1>11, <2>6, <2>7, <2>11
      <3>2. m.from # "locked"
        BY <1>6, <3>1
      <3>3. Below(stream[l], Head(wr[w].evs).ver) /\ Below(lst[l].outbox, Head(wr[w].evs).ver)
        BY <1>5, <3>1 DEF IInv, Ordered
      <3>4. QED
        BY <1>9, <2>2, <2>5, <3>2, <3>3
    <2>12. Open(x) /\ ~(o.full /\ o.to = l) =>
            /\ Open(lst[l]) /\ (out[p].full => out[p].to # l)
            /\ \A d, v : \/ Tells(stream[l], d, v) \/ Tells(lst[l].outbox, d, v)
                         \/ out[p].to = l /\ Tells(out[p].todo, d, v)
                 => \/ Tells(t, d, v) \/ Tells(x.outbox, d, v)
                    \/ o.to = l /\ Tells(o.todo, d, v)
      <3>1. Open(x) => Open(lst[l])
        BY <2>5 DEF Open
      <3>2. QED
        BY <1>4, <1>5, <1>9, <2>2, <2>5, <2>6, <3>1
    <2>13. /\ o = out[p] \/ (out[p].to = l /\ o.to = l /\ ~Idle(p))
           /\ o.todo = out[p].todo \/ \A i \in DOMAIN o.todo : o.todo[i].from # "locked"
      BY <1>5, <2>6
    <2>14. t \in Seq(Message) /\ Rising(t) /\ Below(t, writes + 1)
      BY <1>7, <1>8, <1>9
    <2>15. UNCHANGED <<docs, writes, mu, wr>>
      BY <1>4
    <2>16. QED
      BY <1>5, <1>10, <2>5, <2>6, <2>7, <2>8, <2>9, <2>10, <2>11, <2>12, <2>13, <2>14, <2>15,
         ChannelMoves
  <1>13. ASSUME lst[l].done, out' = [out EXCEPT ![p].todo = s], UNCHANGED lst
         PROVE  IInv'
    <2>1. PICK x : x = lst[l]
      OBVIOUS
    <2>2. PICK o : o = [out[p] EXCEPT !.todo = s]
      OBVIOUS
    <2>3. o \in Sending /\ o.todo = s /\ o.to = l
      BY <1>5, <1>7, <2>2 DEF Sending
    <2>4. lst' = [lst EXCEPT ![l] = x] /\ out' = [out EXCEPT ![p] = o]
      BY <1>13, <2>1, <2>2 DEF IInv, Shape, Listener, Sending
    <2>5. ASSUME NEW w \in Writers, Untold(wr[w], out'[w], l)
          PROVE  Below(t, Head(wr[w].evs).ver) /\ Below(x.outbox, Head(wr[w].evs).ver)
      <3>1. Untold(wr[w], out[w], l)
        BY <1>11, <2>3, <2>4, <2>5
      <3>2. QED
        BY <1>5, <1>9, <2>1, <3>1 DEF IInv, Ordered
    <2>6. ~Open(x)
      BY <1>13, <2>1 DEF Open
    <2>7. /\ o = out[p] \/ (out[p].to = l /\ o.to = l /\ ~Idle(p))
          /\ o.todo = out[p].todo \/ \A i \in DOMAIN o.todo : o.todo[i].from # "locked"
      BY <1>5, <2>3
    <2>8. /\ t \in Seq(Message) /\ Rising(t) /\ Below(t, writes + 1)
          /\ x \in Listener /\ Rising(x.outbox) /\ Below(x.outbox, writes + 1)
          /\ Len(x.outbox) <= Cap
          /\ x.pc = lst[l].pc /\ x.target = lst[l].target /\ x.registered = lst[l].registered
      BY <1>5, <1>7, <1>8, <1>9, <2>1 DEF IInv, Budget
    <2>9. \A i \in DOMAIN x.outbox : x.outbox[i].from = "locked" => Below(t, x.outbox[i].ver)
      BY <1>8, <1>9, <2>1
    <2>10. UNCHANGED <<docs, writes, mu, wr>>
      BY <1>4
    <2>11. QED
      BY <1>5, <1>10, <2>3, <2>4, <2>5, <2>6, <2>7, <2>8, <2>9, <2>10, ChannelMoves
  <1>14. ASSUME out' = [out EXCEPT ![p].todo = s, ![p].full = TRUE], UNCHANGED lst
         PROVE  IInv'
    <2>1. PICK x : x = lst[l]
      OBVIOUS
    <2>2. PICK o : o = [out[p] EXCEPT !.todo = s, !.full = TRUE]
      OBVIOUS
    <2>3. o \in Sending /\ o.todo = s /\ o.to = l /\ o.full
      BY <1>5, <1>7, <2>2 DEF Sending
    <2>4. lst' = [lst EXCEPT ![l] = x] /\ out' = [out EXCEPT ![p] = o]
      BY <1>14, <2>1, <2>2 DEF IInv, Shape, Listener, Sending
    <2>5. ASSUME NEW w \in Writers, Untold(wr[w], out'[w], l)
          PROVE  Below(t, Head(wr[w].evs).ver) /\ Below(x.outbox, Head(wr[w].evs).ver)
      <3>1. Untold(wr[w], out[w], l)
        BY <1>11, <2>3, <2>4, <2>5
      <3>2. QED
        BY <1>5, <1>9, <2>1, <3>1 DEF IInv, Ordered
    <2>6. /\ o = out[p] \/ (out[p].to = l /\ o.to = l /\ ~Idle(p))
          /\ o.todo = out[p].todo \/ \A i \in DOMAIN o.todo : o.todo[i].from # "locked"
      BY <1>5, <2>3
    <2>7. /\ t \in Seq(Message) /\ Rising(t) /\ Below(t, writes + 1)
          /\ x \in Listener /\ Rising(x.outbox) /\ Below(x.outbox, writes + 1)
          /\ Len(x.outbox) <= Cap
          /\ x.pc = lst[l].pc /\ x.target = lst[l].target /\ x.registered = lst[l].registered
      BY <1>5, <1>7, <1>8, <1>9, <2>1 DEF IInv, Budget
    <2>8. \A i \in DOMAIN x.outbox : x.outbox[i].from = "locked" => Below(t, x.outbox[i].ver)
      BY <1>8, <1>9, <2>1
    <2>9. UNCHANGED <<docs, writes, mu, wr>>
      BY <1>4
    <2>10. QED
      BY <1>5, <1>10, <2>3, <2>4, <2>5, <2>6, <2>7, <2>8, <2>9, ChannelMoves
  <1>15. QED
    BY <1>3, <1>12, <1>13, <1>14

LEMMA CloseFullStep ==
  ASSUME IInv, NEW p \in Writers \cup Listeners, CloseFull(p)
  PROVE  IInv'
  <1>1. PICK l : l = out[p].to
    OBVIOUS
  <1>2. /\ out[p].full /\ panic' = lst[l].done
        /\ lst' = [lst EXCEPT ![l].done = TRUE] /\ out' = [out EXCEPT ![p].full = FALSE]
        /\ UNCHANGED <<docs, writes, mu, wr, stream>>
    BY <1>1 DEF CloseFull, CloseDone
  <1>3. ~Idle(p) /\ l \in Listeners
    BY <1>1, <1>2 DEF IInv, Busy, Idle
  <1>4. /\ lst[l] \in Listener /\ stream[l] \in Seq(Message) /\ out[p] \in Sending
    BY <1>3, Fields DEF IInv
  <1>5. /\ Rising(stream[l]) /\ Rising(lst[l].outbox)
        /\ Below(stream[l], writes + 1) /\ Below(lst[l].outbox, writes + 1)
        /\ \A i \in DOMAIN lst[l].outbox : lst[l].outbox[i].from = "locked" =>
                 Below(stream[l], lst[l].outbox[i].ver)
    BY <1>3 DEF IInv, Ordered
  <1>6. PICK t : t = stream[l]
    OBVIOUS
  <1>7. PICK x : x = [lst[l] EXCEPT !.done = TRUE]
    OBVIOUS
  <1>8. PICK o : o = [out[p] EXCEPT !.full = FALSE]
    OBVIOUS
  <1>9. /\ x \in Listener /\ x.outbox = lst[l].outbox /\ x.pc = lst[l].pc /\ x.done
        /\ x.target = lst[l].target /\ x.registered = lst[l].registered
    BY <1>4, <1>7 DEF Listener
  <1>10. o \in Sending /\ o.todo = out[p].todo /\ o.to = l
    BY <1>1, <1>4, <1>8 DEF Sending
  <1>11. lst' = [lst EXCEPT ![l] = x] /\ out' = [out EXCEPT ![p] = o]
    BY <1>2, <1>7, <1>8 DEF IInv, Shape, Listener, Sending
  <1>12. stream' = [stream EXCEPT ![l] = t] /\ panic' \in BOOLEAN /\ UNCHANGED <<docs, writes, mu, wr>>
    BY <1>2, <1>4, <1>6 DEF IInv, Shape, Listener
  <1>13. ASSUME NEW w \in Writers, Untold(wr[w], out'[w], l)
         PROVE  Below(t, Head(wr[w].evs).ver) /\ Below(x.outbox, Head(wr[w].evs).ver)
    <2>1. out'[w].to = out[w].to /\ out'[w].todo = out[w].todo
      BY <1>1, <1>10, <1>11 DEF IInv, Shape
    <2>2. Untold(wr[w], out[w], l)
      BY <1>13, <2>1 DEF Untold
    <2>3. QED
      BY <1>3, <1>6, <1>9, <2>2 DEF IInv, Ordered
  <1>14. /\ t \in Seq(Message) /\ Rising(t) /\ Below(t, writes + 1)
         /\ Rising(x.outbox) /\ Below(x.outbox, writes + 1) /\ Len(x.outbox) <= Cap
         /\ \A i \in DOMAIN x.outbox : x.outbox[i].from = "locked" => Below(t, x.outbox[i].ver)
    BY <1>3, <1>4, <1>5, <1>6, <1>9 DEF IInv, Budget
  <1>15. ~Open(x)
    BY <1>9 DEF Open
  <1>16. /\ o = out[p] \/ (out[p].to = l /\ o.to = l /\ ~Idle(p))
         /\ o.todo = out[p].todo \/ \A i \in DOMAIN o.todo : o.todo[i].from # "locked"
    BY <1>1, <1>3, <1>10
  <1>17. QED
    BY <1>3, <1>9, <1>10, <1>11, <1>12, <1>13, <1>14, <1>15, <1>16, ChannelMoves

(* The sender takes a message from the outbox, whether or not it gets to the *)
(* client.                                                                   *)
LEMMA SenderTakes ==
  ASSUME IInv, NEW l \in Listeners, lst[l].sender = "run", lst[l].outbox # <<>>,
         NEW x \in Listener, NEW t \in Seq(Message), NEW m, m = Head(lst[l].outbox),
         lst' = [lst EXCEPT ![l] = x], stream' = [stream EXCEPT ![l] = t],
         UNCHANGED <<docs, writes, mu, wr, out, panic>>,
         x.pc = lst[l].pc, x.target = lst[l].target, x.registered = lst[l].registered,
         x.outbox = Tail(lst[l].outbox),
         t = stream[l] \/ t = Append(stream[l], m),
         Open(x) => Open(lst[l]) /\ (t = Append(stream[l], m) \/ m.from = "mark")
  PROVE  IInv'
  <1>1. PICK q : q = Tail(lst[l].outbox)
    OBVIOUS
  <1>2. /\ lst[l].outbox \in Seq(Message) /\ stream[l] \in Seq(Message) /\ out[l] \in Sending
    BY Fields DEF IInv
  <1>3. /\ Rising(stream[l]) /\ Rising(lst[l].outbox)
        /\ Below(stream[l], writes + 1) /\ Below(lst[l].outbox, writes + 1)
        /\ \A i \in DOMAIN lst[l].outbox : lst[l].outbox[i].from = "locked" =>
                 Below(stream[l], lst[l].outbox[i].ver)
    BY DEF IInv, Ordered
  <1>4. /\ q \in Seq(Message) /\ Len(q) = Len(lst[l].outbox) - 1 /\ m = lst[l].outbox[1] /\ m \in Message
        /\ \A i \in DOMAIN q : i + 1 \in DOMAIN lst[l].outbox /\ q[i] = lst[l].outbox[i + 1]
        /\ \A v : Below(lst[l].outbox, v) => Below(q, v) /\ (m.from = "locked" => m.ver < v)
        /\ Rising(q)
        /\ m.from = "locked" => \A i \in DOMAIN q : q[i].from = "locked" => m.ver < q[i].ver
        /\ \A d, v : Tells(lst[l].outbox, d, v) <=>
               Tells(q, d, v) \/ (m.doc = d /\ m.ver = v /\ m.from # "mark")
    <2>1. /\ q \in Seq(Message) /\ Len(q) = Len(lst[l].outbox) - 1
          /\ m = lst[l].outbox[1] /\ m \in Message
          /\ \A i \in DOMAIN q : i + 1 \in DOMAIN lst[l].outbox /\ q[i] = lst[l].outbox[i + 1]
      BY <1>1, <1>2, AtHead
    <2>2. \A v : Below(lst[l].outbox, v) => Below(q, v) /\ (m.from = "locked" => m.ver < v)
      BY <1>1, <1>2, AtHead
    <2>3. /\ Rising(q)
          /\ m.from = "locked" => \A i \in DOMAIN q : q[i].from = "locked" => m.ver < q[i].ver
      BY <1>1, <1>2, <1>3, AtHead
    <2>4. \A d, v : Tells(lst[l].outbox, d, v) <=>
               Tells(q, d, v) \/ (m.doc = d /\ m.ver = v /\ m.from # "mark")
      BY <1>1, <1>2, AtHead
    <2>5. QED
      BY <2>1, <2>2, <2>3, <2>4
  <1>5. 1 \in DOMAIN lst[l].outbox
    BY <1>2
  <1>6. m.from = "locked" => Below(stream[l], m.ver)
    BY <1>3, <1>4, <1>5
  <1>7. PICK a : a = Append(stream[l], m)
    OBVIOUS
  <1>8. /\ \A v : Below(stream[l], v) /\ (m.from = "locked" => m.ver < v) => Below(a, v)
        /\ Rising(stream[l]) /\ (m.from = "locked" => Below(stream[l], m.ver)) => Rising(a)
        /\ \A d, v : Tells(a, d, v) <=>
               Tells(stream[l], d, v) \/ (m.doc = d /\ m.ver = v /\ m.from # "mark")
    BY <1>2, <1>4, <1>7, AtEnd
  <1>9. /\ \A v : Below(stream[l], v) /\ (m.from = "locked" => m.ver < v) => Below(t, v)
        /\ Rising(t)
        /\ \A d, v : Tells(stream[l], d, v) => Tells(t, d, v)
    BY <1>3, <1>6, <1>7, <1>8
  <1>10. /\ Below(t, writes + 1) /\ Below(q, writes + 1)
    BY <1>3, <1>4, <1>9
  <1>11. \A i \in DOMAIN q : q[i].from = "locked" => Below(t, q[i].ver)
    <2> SUFFICES ASSUME NEW i \in DOMAIN q, q[i].from = "locked" PROVE Below(t, q[i].ver)
      OBVIOUS
    <2>1. Below(stream[l], q[i].ver)
      BY <1>3, <1>4
    <2>2. m.from = "locked" => m.ver < q[i].ver
      BY <1>4
    <2>3. QED
      BY <1>9, <2>1, <2>2
  <1>12. ASSUME NEW w \in Writers, Untold(wr[w], out'[w], l)
         PROVE  Below(t, Head(wr[w].evs).ver) /\ Below(q, Head(wr[w].evs).ver)
    <2>1. Untold(wr[w], out[w], l)
      BY <1>12
    <2>2. Below(stream[l], Head(wr[w].evs).ver) /\ Below(lst[l].outbox, Head(wr[w].evs).ver)
      BY <2>1 DEF IInv, Ordered
    <2>3. QED
      BY <1>4, <1>9, <2>2
  <1>13. PICK o : o = out[l]
    OBVIOUS
  <1>14. /\ o \in Sending /\ out' = [out EXCEPT ![l] = o] /\ o.todo = out[l].todo /\ o = out[l]
    BY <1>2, <1>13 DEF IInv, Shape
  <1>15. x.outbox = q /\ Len(x.outbox) <= Cap
    <2>1. Len(lst[l].outbox) <= Cap /\ Len(lst[l].outbox) \in Nat
      BY <1>2 DEF IInv, Budget
    <2>2. QED
      BY <1>1, <1>4, <2>1, Bounds
  <1>16. Open(x) => Open(lst[l]) /\ \A d, v : Tells(lst[l].outbox, d, v) => Tells(q, d, v) \/ Tells(t, d, v)
    <2> SUFFICES ASSUME Open(x), NEW d, NEW v, Tells(lst[l].outbox, d, v)
                 PROVE  Tells(q, d, v) \/ Tells(t, d, v)
      OBVIOUS
    <2>1. Tells(q, d, v) \/ (m.doc = d /\ m.ver = v /\ m.from # "mark")
      BY <1>4
    <2>2. t = a \/ m.from = "mark"
      BY <1>7
    <2>3. Tells(a, d, v) <=> Tells(stream[l], d, v) \/ (m.doc = d /\ m.ver = v /\ m.from # "mark")
      BY <1>8
    <2>4. QED
      BY <2>1, <2>2, <2>3
  <1>17. PICK p : p = l
    OBVIOUS
  <1>18. panic' \in BOOLEAN /\ UNCHANGED <<docs, writes, mu, wr>>
    BY DEF IInv, Shape
  <1>19. \A d, v : out[p].to = l /\ Tells(out[p].todo, d, v) => o.to = l /\ Tells(o.todo, d, v)
    BY <1>13, <1>17
  <1>20. Open(x) /\ ~(o.full /\ o.to = l) =>
            /\ Open(lst[l]) /\ (out[p].full => out[p].to # l)
            /\ \A d, v : \/ Tells(stream[l], d, v) \/ Tells(lst[l].outbox, d, v)
                         \/ out[p].to = l /\ Tells(out[p].todo, d, v)
                 => \/ Tells(t, d, v) \/ Tells(x.outbox, d, v)
                    \/ o.to = l /\ Tells(o.todo, d, v)
    BY <1>9, <1>13, <1>15, <1>16, <1>17, <1>19
  <1>21. /\ Rising(t) /\ Rising(x.outbox) /\ Below(x.outbox, writes + 1)
         /\ \A i \in DOMAIN x.outbox : x.outbox[i].from = "locked" => Below(t, x.outbox[i].ver)
         /\ \A w \in Writers : Untold(wr[w], out'[w], l) =>
              Below(t, Head(wr[w].evs).ver) /\ Below(x.outbox, Head(wr[w].evs).ver)
    BY <1>4, <1>9, <1>10, <1>11, <1>12, <1>15
  <1>22. p \in Writers \cup Listeners /\ out' = [out EXCEPT ![p] = o] /\ o = out[p] /\ o.todo = out[p].todo
    BY <1>14, <1>17
  <1>23. QED
    BY <1>10, <1>14, <1>15, <1>18, <1>20, <1>21, <1>22, ChannelMoves

LEMMA SenderSendStep ==
  ASSUME IInv, NEW l \in Listeners, SenderSend(l)
  PROVE  IInv'
  <1>1. PICK m : m = Head(lst[l].outbox)
    OBVIOUS
  <1>2. PICK q : q = Tail(lst[l].outbox)
    OBVIOUS
  <1>3. PICK t : t = IF m = Mark THEN stream[l] ELSE Append(stream[l], m)
    OBVIOUS
  <1>4. /\ lst[l].sender = "run" /\ lst[l].outbox # <<>>
        /\ lst' = [lst EXCEPT ![l].outbox = q] /\ UNCHANGED <<docs, writes, mu, wr, out, panic>>
    BY <1>2 DEF SenderSend
  <1>5. stream' = [stream EXCEPT ![l] = t]
    BY <1>1, <1>3 DEF SenderSend
  <1>6. /\ lst[l] \in Listener /\ lst[l].outbox \in Seq(Message) /\ stream[l] \in Seq(Message)
    BY Fields DEF IInv
  <1>7. q \in Seq(Message) /\ m \in Message
    BY <1>1, <1>2, <1>4, <1>6, AtHead
  <1>8. t \in Seq(Message) /\ (t = stream[l] \/ t = Append(stream[l], m))
        /\ (t = Append(stream[l], m) \/ m.from = "mark")
    BY <1>3, <1>6, <1>7, MarkIsMessage
  <1>9. PICK x : x = [lst[l] EXCEPT !.outbox = q]
    OBVIOUS
  <1>10. /\ x \in Listener /\ x.pc = lst[l].pc /\ x.target = lst[l].target
         /\ x.registered = lst[l].registered /\ x.outbox = Tail(lst[l].outbox)
         /\ x.sender = lst[l].sender /\ x.done = lst[l].done
    BY <1>2, <1>6, <1>7, <1>9 DEF Listener
  <1>11. Open(x) => Open(lst[l])
    BY <1>10 DEF Open
  <1>12. lst' = [lst EXCEPT ![l] = x]
    BY <1>4, <1>9 DEF IInv, Shape, Listener
  <1>13. QED
    BY <1>1, <1>4, <1>5, <1>8, <1>10, <1>11, <1>12, SenderTakes

LEMMA SendErrorStep ==
  ASSUME IInv, NEW l \in Listeners, SendError(l)
  PROVE  IInv'
  <1>1. PICK m : m = Head(lst[l].outbox)
    OBVIOUS
  <1>2. PICK q : q = Tail(lst[l].outbox)
    OBVIOUS
  <1>3. PICK t : t = stream[l]
    OBVIOUS
  <1>4. /\ lst[l].sender = "run" /\ lst[l].outbox # <<>>
        /\ lst' = [lst EXCEPT ![l].outbox = q, ![l].sender = "end"]
        /\ UNCHANGED <<docs, writes, mu, wr, out, panic>>
    BY <1>2 DEF SendError
  <1>5. stream' = [stream EXCEPT ![l] = t]
    BY <1>3 DEF SendError, IInv, Shape
  <1>6. /\ lst[l] \in Listener /\ lst[l].outbox \in Seq(Message) /\ stream[l] \in Seq(Message)
    BY Fields DEF IInv
  <1>7. q \in Seq(Message)
    BY <1>2, <1>4, <1>6, AtHead
  <1>8. t \in Seq(Message) /\ t = stream[l]
    BY <1>3, <1>6
  <1>9. PICK x : x = [lst[l] EXCEPT !.outbox = q, !.sender = "end"]
    OBVIOUS
  <1>10. /\ x \in Listener /\ x.pc = lst[l].pc /\ x.target = lst[l].target
         /\ x.registered = lst[l].registered /\ x.outbox = Tail(lst[l].outbox)
         /\ x.sender = "end"
    BY <1>2, <1>6, <1>7, <1>9 DEF Listener
  <1>11. ~Open(x)
    BY <1>10 DEF Open
  <1>12. lst' = [lst EXCEPT ![l] = x]
    BY <1>4, <1>9 DEF IInv, Shape, Listener
  <1>13. QED
    BY <1>1, <1>4, <1>5, <1>8, <1>10, <1>11, <1>12, SenderTakes

-----------------------------------------------------------------------------
LEMMA IInvInit ==
  ASSUME Init PROVE IInv
  <1>1. /\ docs = [d \in Docs |-> [ver |-> 0, exists |-> FALSE]] /\ writes = 0 /\ mu = Free
        /\ wr = [w \in Writers |-> NewWriter] /\ lst = [l \in Listeners |-> NewListener]
        /\ out = [p \in Writers \cup Listeners |-> Nothing]
        /\ stream = [l \in Listeners |-> <<>>] /\ panic = FALSE
    BY DEF Init
  <1>2. /\ NewWriter \in Writer /\ NewWriter.pc = "idle" /\ NewWriter.evs = <<>> /\ NewWriter.dels = <<>>
    BY EmptyQueue DEF NewWriter, Writer
  <1>3. /\ NewListener \in Listener /\ NewListener.pc = "off" /\ NewListener.outbox = <<>>
        /\ ~NewListener.target
    BY EmptyQueue, Bounds DEF NewListener, Listener
  <1>4. Nothing \in Sending /\ Nothing.todo = <<>> /\ ~Nothing.full
    BY NothingToSend
  <1>5. /\ \A w \in Writers : wr[w] = NewWriter
        /\ \A l \in Listeners : lst[l] = NewListener /\ stream[l] = <<>>
        /\ \A p \in Writers \cup Listeners : out[p] = Nothing
        /\ \A d \in Docs : ~docs[d].exists
    BY <1>1
  <1>6. Shape
    <2>1. docs \in [Docs -> [ver : 0 .. writes, exists : BOOLEAN]] /\ writes \in Nat
      BY <1>1
    <2>2. wr \in [Writers -> Writer] /\ lst \in [Listeners -> Listener]
      BY <1>1, <1>2, <1>3
    <2>3. out \in [Writers \cup Listeners -> Sending] /\ stream \in [Listeners -> Seq(Message)]
      BY <1>1, <1>4, EmptyQueue
    <2>4. QED
      BY <1>1, <2>1, <2>2, <2>3 DEF Shape
  <1>7. Budget
    BY <1>1, <1>2, <1>3, <1>5, Bounds DEF Budget
  <1>8. Busy
    BY <1>2, <1>3, <1>4, <1>5 DEF Busy, Idle
  <1>9. Locks
    BY <1>2, <1>4, <1>5, EmptyQueue DEF Locks
  <1>10. Ordered
    BY <1>2, <1>3, <1>5, EmptyQueue DEF Ordered, Untold
  <1>11. Arriving
    BY <1>5 DEF Arriving
  <1>12. QED
    BY <1>6, <1>7, <1>8, <1>9, <1>10, <1>11 DEF IInv

LEMMA IInvStep ==
  ASSUME IInv, [Next]_vars PROVE IInv'
  <1>1. CASE UNCHANGED vars
    BY <1>1 DEF vars, IInv, Shape, Budget, Busy, Idle, Locks, Ordered, Arriving, Served, Informed
  <1>2. ASSUME NEW w \in Writers, NEW d \in Docs,
               CreateDocument(w, d) \/ UpdateDocument(w, d) \/ DeleteDocument(w, d)
        PROVE  IInv'
    <2>1. CASE CreateDocument(w, d)
      <3>1. /\ writes < MaxWrites /\ wr[w].pc = "idle" /\ mu = Free
            /\ mu' = w /\ Stored(d, TRUE) /\ UNCHANGED <<lst, out, stream, panic>>
            /\ wr' = [wr EXCEPT ![w].pc = "fan", ![w].evs = <<Event(d, TRUE, "locked")>>]
        BY <2>1 DEF CreateDocument, May
      <3>2. QED
        BY <3>1, LockedStep
    <2>2. CASE UpdateDocument(w, d)
      <3>1. /\ writes < MaxWrites /\ wr[w].pc = "idle" /\ mu = Free
            /\ mu' = w /\ Stored(d, TRUE) /\ UNCHANGED <<lst, out, stream, panic>>
            /\ wr' = [wr EXCEPT ![w].pc = "fan", ![w].evs = <<Event(d, TRUE, "locked")>>]
        BY <2>2 DEF UpdateDocument, May
      <3>2. QED
        BY <3>1, LockedStep
    <2>3. QED
      BY <1>2, <2>1, <2>2, DeleteDocumentStep
  <1>3. ASSUME NEW w \in Writers, NEW ops \in Commits, Commit(w, ops) PROVE IInv'
    BY <1>3, CommitStep
  <1>4. ASSUME NEW l \in Listeners,
               Listen(l) \/ AddTarget(l) \/ BadTarget(l) \/ RemoveTarget(l) \/ RecvError(l) \/ SendError(l)
        PROVE  IInv'
    BY <1>4, ListenStep, AddTargetStep, BadTargetStep, RemoveTargetStep, RecvErrorStep, SendErrorStep
  <1>5. ASSUME NEW w \in Writers, WriterStep(w) PROVE IInv'
    BY <1>5, SendStep, CloseFullStep, CommitWriteStep, CommitUnlockStep, FanStep, NextEventStep,
       ReturnStep, BroadcastStep DEF WriterStep
  <1>6. ASSUME NEW l \in Listeners, ReaderStep(l) PROVE IInv'
    BY <1>6, SendStep, CloseFullStep, SnapshotStep, RecvStep, ListenReturnStep DEF ReaderStep
  <1>7. ASSUME NEW l \in Listeners, SenderStep(l) PROVE IInv'
    BY <1>7, SenderSendStep, SenderExitStep DEF SenderStep
  <1>8. QED
    BY <1>1, <1>2, <1>3, <1>4, <1>5, <1>6, <1>7 DEF Next, Client

LEMMA Invariance == Spec => []IInv
  <1>1. Init => IInv
    BY IInvInit
  <1>2. IInv /\ [Next]_vars => IInv'
    BY IInvStep
  <1>3. QED
    BY <1>1, <1>2, PTL DEF Spec

(* ListenInv, for any number of writers, listeners and documents and any    *)
(* capacity: an outbox never holds more than fits, however many goroutines  *)
(* send to it, a commit runs under the lock, and the changes that Create    *)
(* and Update broadcast under Service.mu reach each stream in the order in  *)
(* which they were made (broadcastChange, send, runSender).                 *)
THEOREM LiveStreamInOrder == Spec => []ListenInv
  <1>1. ASSUME IInv PROVE ListenInv
    <2>1. TypeOK
      <3>1. docs \in [Docs -> [ver : 0 .. writes, exists : BOOLEAN]] /\ mu \in Writers \cup {Free}
            /\ panic \in BOOLEAN
        BY <1>1 DEF IInv, Shape
      <3>2. writes \in 0 .. MaxWrites + MaxOps
        BY <1>1, Bounds DEF IInv, Shape, Budget
      <3>3. \A w \in Writers : /\ wr[w].pc \in {"idle", "commit", "fan", "send"}
                               /\ wr[w].left \subseteq Listeners
                               /\ wr[w].pc = "commit" => mu = w
        BY <1>1 DEF IInv, Shape, Writer, Locks
      <3>4. \A l \in Listeners : /\ lst[l].pc \in {"off", "recv", "add", "reply", "wait", "end"}
                                 /\ lst[l].adds \in 0 .. MaxAdds
                                 /\ Len(lst[l].outbox) <= Cap
                                 /\ lst[l].sender \in {"off", "run", "end"}
        BY <1>1 DEF IInv, Shape, Listener, Budget
      <3>5. QED
        BY <3>1, <3>2, <3>3, <3>4 DEF TypeOK
    <2>2. LiveInOrder
      BY <1>1 DEF IInv, Ordered, Rising, LiveInOrder
    <2>3. QED
      BY <2>1, <2>2 DEF ListenInv
  <1>2. QED
    BY <1>1, Invariance, PTL

(* NewestShown: a stream whose target is up, with nothing under way and     *)
(* nothing given up, has shown the newest version of every document, for    *)
(* every interleaving of register, list and send with the RPCs that change  *)
(* documents, inside and outside of the lock.                               *)
THEOREM SettledShowsNewest == Spec => []NewestShown
  <1>1. ASSUME IInv, NEW l \in Listeners, NEW d \in Docs, Settled(l), docs[d].exists
        PROVE  \E i \in DOMAIN stream[l] : stream[l][i].doc = d /\ stream[l][i].ver = docs[d].ver
    <2>1. \A w \in Writers : wr[w].pc = "idle" /\ wr[w].evs = <<>> /\ Idle(w)
      BY <1>1 DEF Settled, IInv, Busy
    <2>2. \A p \in Writers \cup Listeners : out[p].to = l => out[p].todo = <<>> /\ ~out[p].full
      <3>1. ASSUME NEW k \in Listeners, out[k].to = l PROVE Idle(k)
        BY <1>1, <3>1 DEF Settled, IInv, Busy
      <3>2. QED
        BY <2>1, <3>1, Fields, <1>1 DEF Idle, IInv
    <2>3. Served(l)
      BY <1>1, <2>2 DEF Served, Open, Settled, IInv, Busy
    <2>4. Informed(l, d, docs[d].ver)
      BY <1>1, <2>3 DEF IInv, Arriving
    <2>5. /\ ~Tells(lst[l].outbox, d, docs[d].ver)
          /\ \A p \in Writers \cup Listeners : out[p].to = l => ~Tells(out[p].todo, d, docs[d].ver)
          /\ \A w \in Writers : ~Tells(Owed(wr[w], l), d, docs[d].ver)
      BY <1>1, <2>1, <2>2, EmptyQueue DEF Settled, Owed
    <2>6. QED
      BY <2>4, <2>5 DEF Informed, Tells
  <1>2. IInv => NewestShown
    BY <1>1 DEF NewestShown
  <1>3. QED
    BY <1>2, Invariance, PTL
=============================================================================
