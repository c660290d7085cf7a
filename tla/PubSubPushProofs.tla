-------------------------- MODULE PubSubPushProofs --------------------------
(* Proofs about PubSubPush, for all values of its constants. *)
EXTENDS PubSubPush, FunctionTheorems, SequenceTheorems, FiniteSetTheorems, TLAPS

(* The order of a pull: the ranks of the messages taken are 1, 2, ..., so    *)
(* that every place of the batch is filled with one of them (PullMessages).  *)
LEMMA BatchOfTaken ==
  ASSUME NEW n \in Nat, NEW S \in SUBSET (1..n)
  PROVE  /\ IsFiniteSet(S) /\ Cardinality(S) \in Nat
         /\ InOrder(S) \in Seq(S) /\ Len(InOrder(S)) = Cardinality(S)
  <1> DEFINE upTo(m) == {k \in S : k <= m}
             f == [m \in S |-> Rank(S, m)]
             N == Cardinality(S)
  <1>0. \A m \in S : m \in Int
    OBVIOUS
  <1>1. IsFiniteSet(S) /\ N \in Nat
    <2>1. IsFiniteSet(1..n)
      BY FS_Interval
    <2>2. IsFiniteSet(S)
      BY <2>1, FS_Subset
    <2>3. QED
      BY <2>2, FS_CardinalityType
  <1>2. \A m \in S : /\ IsFiniteSet(upTo(m)) /\ Cardinality(upTo(m)) \in Nat
                     /\ Cardinality(upTo(m)) <= N /\ m \in upTo(m)
    BY <1>1, FS_Subset, FS_CardinalityType
  <1>3. \A m \in S : Rank(S, m) = Cardinality(upTo(m)) /\ Rank(S, m) \in 1..N
    <2> SUFFICES ASSUME NEW m \in S PROVE Rank(S, m) = Cardinality(upTo(m)) /\ Rank(S, m) \in 1..N
      OBVIOUS
    <2>1. Cardinality(upTo(m)) # 0
      BY <1>2, FS_EmptySet
    <2>2. Rank(S, m) = Cardinality(upTo(m))
      BY DEF Rank
    <2>3. Cardinality(upTo(m)) \in Nat /\ Cardinality(upTo(m)) <= N
      BY <1>2
    <2> HIDE DEF upTo, N
    <2>4. Cardinality(upTo(m)) \in 1..N
      BY <1>1, <2>1, <2>3
    <2>5. QED
      BY <2>2, <2>4
  <1>4. ASSUME NEW a \in S, NEW b \in S, a < b PROVE Rank(S, a) < Rank(S, b)
    <2>1. upTo(a) \in SUBSET upTo(b) /\ b \in upTo(b) /\ b \notin upTo(a)
      <3>1. a \in Int /\ b \in Int /\ a < b
        BY <1>0, <1>4
      <3>2. \A k \in S : k <= a => k <= b
        BY <1>0, <3>1
      <3>3. b <= b /\ ~(b <= a)
        BY <3>1
      <3>4. QED
        BY <3>2, <3>3
    <2>2. Cardinality(upTo(a)) <= Cardinality(upTo(b)) /\ Cardinality(upTo(a)) # Cardinality(upTo(b))
      <3>1. IsFiniteSet(upTo(b)) /\ upTo(a) # upTo(b)
        BY <1>2, <2>1
      <3> HIDE DEF upTo
      <3>2. QED
        BY <2>1, <3>1, FS_Subset
    <2>3. Cardinality(upTo(a)) \in Nat /\ Cardinality(upTo(b)) \in Nat
      BY <1>2
    <2>4. Rank(S, a) = Cardinality(upTo(a)) /\ Rank(S, b) = Cardinality(upTo(b))
      BY <1>3
    <2> HIDE DEF upTo
    <2>5. QED
      BY <2>2, <2>3, <2>4
  <1>5. f \in Injection(S, 1..N)
    <2>1. f \in [S -> 1..N]
      BY <1>3
    <2>2. \A a, b \in S : f[a] = f[b] => a = b
      <3> SUFFICES ASSUME NEW a \in S, NEW b \in S, Rank(S, a) = Rank(S, b) PROVE a = b
        OBVIOUS
      <3>1. a \in Int /\ b \in Int
        BY <1>0
      <3> HIDE DEF upTo, f
      <3>2. Rank(S, a) \in Int /\ Rank(S, b) \in Int
        BY <1>3
      <3>3. ~(a < b) /\ ~(b < a)
        BY <1>4, <3>2
      <3>4. QED
        BY <3>1, <3>3
    <2>3. QED
      BY <2>1, <2>2 DEF Injection, IsInjective
  <1>6. f \in Surjection(S, 1..N)
    <2>1. IsFiniteSet(1..N) /\ Cardinality(1..N) = N
      BY <1>1, FS_Interval
    <2>2. QED
      BY <1>5, <2>1, FS_Injection
  <1>7. \A i \in 1..N : \E m \in S : Rank(S, m) = i
    BY <1>6 DEF Surjection
  <1>8. InOrder(S) \in [1..N -> S]
    BY <1>7 DEF InOrder
  <1>9. QED
    BY <1>1, <1>8

(* The fields of a call in progress. *)
LEMMA CallFields ==
  ASSUME TypeOK, NEW c \in Clients
  PROVE  /\ req[c].op \in {"none", "start", "stop", "drop", "enqueue", "cancel"}
         /\ Idle(c) => req[c].op = "none"
         /\ req[c].op # "none" => req[c].sub \in Subs
         /\ req[c].op = "start" => req[c].ep \in Endpoints
         /\ req[c].op = "cancel" => req[c].pusher \in 1..MaxPushers
  <1>1. req[c] \in Request
    BY DEF TypeOK
  <1>2. CASE req[c] = NoReq
    BY <1>2 DEF Idle, NoReq
  <1>3. CASE req[c] \in [op : {"start"}, sub : Subs, ep : Endpoints]
    BY <1>3 DEF Idle, NoReq
  <1>4. CASE req[c] \in [op : {"stop", "drop", "enqueue"}, sub : Subs]
    BY <1>4 DEF Idle, NoReq
  <1>5. CASE req[c] \in [op : {"cancel"}, sub : Subs, pusher : 1..MaxPushers]
    BY <1>5 DEF Idle, NoReq
  <1>6. QED
    BY <1>1, <1>2, <1>3, <1>4, <1>5 DEF Request

(* The goroutines are numbered from 1; the counters are numbers. *)
LEMMA WorkFields ==
  ASSUME TypeOK
  PROVE  /\ work \in Seq(Pusher) /\ Len(work) \in Nat /\ DOMAIN work = 1..Len(work)
         /\ \A w \in 1..Len(work) : work[w] \in Pusher
         /\ msgSeq \in Nat /\ MaxMsgs \in Nat /\ MaxPushers \in Nat /\ msgSeq <= MaxMsgs
  BY PushAssumption DEF TypeOK

LEMMA PendingCount ==
  ASSUME NEW op
  PROVE  Pending(op) \in Nat /\ IsFiniteSet({c \in Clients : req[c].op = op})
  <1>1. IsFiniteSet({c \in Clients : req[c].op = op})
    BY PushAssumption, FS_Subset
  <1>2. QED
    BY <1>1, FS_CardinalityType DEF Pending

(* How the number of calls that are about to do op changes with one call. *)
LEMMA PendingStep ==
  ASSUME TypeOK, NEW op, NEW c \in Clients, NEW r, Hold(c, r)
  PROVE  /\ Pending(op)' \in Nat
         /\ r.op = op => Pending(op)' <= Pending(op) + 1
         /\ r.op # op => Pending(op)' <= Pending(op)
         /\ r.op # op /\ req[c].op = op => Pending(op)' = Pending(op) - 1
  <1> DEFINE P == {d \in Clients : req[d].op = op}
             Q == {d \in Clients : req'[d].op = op}
  <1>0. IsFiniteSet(P) /\ Cardinality(P) \in Nat /\ Pending(op) = Cardinality(P) /\ Pending(op)' = Cardinality(Q)
    BY PendingCount DEF Pending
  <1>1. req' = [req EXCEPT ![c] = r] /\ DOMAIN req = Clients
    BY DEF Hold, TypeOK
  <1>2. CASE r.op = op
    <2>1. Q = P \cup {c}
      BY <1>1, <1>2
    <2>2. /\ IsFiniteSet(P \cup {c})
          /\ Cardinality(P \cup {c}) = IF c \in P THEN Cardinality(P) ELSE Cardinality(P) + 1
      BY <1>0, FS_AddElement
    <2> HIDE DEF P, Q
    <2>3. QED
      BY <1>0, <1>2, <2>1, <2>2
  <1>3. CASE r.op # op
    <2>1. Q = P \ {c} /\ (c \in P <=> req[c].op = op)
      BY <1>1, <1>3
    <2>2. /\ IsFiniteSet(P \ {c})
          /\ Cardinality(P \ {c}) = IF c \in P THEN Cardinality(P) - 1 ELSE Cardinality(P)
      BY <1>0, FS_RemoveElement
    <2>3. Cardinality(P \ {c}) \in Nat
      BY <2>2, FS_CardinalityType
    <2> HIDE DEF P, Q
    <2>4. QED
      BY <1>0, <1>3, <2>1, <2>2, <2>3
  <1>4. QED
    BY <1>2, <1>3

-----------------------------------------------------------------------------
LEMMA IInvInit == Init => IInv
  <1> SUFFICES ASSUME Init PROVE IInv
    OBVIOUS
  <1>0. work = <<>> /\ Len(work) = 0 /\ work \in Seq(Pusher) /\ 1..Len(work) = {} /\ 1..msgSeq = {}
    BY DEF Init
  <1>1. MaxPushers \in Nat /\ MaxMsgs \in Nat
    BY PushAssumption
  <1>2. TypeOK
    <2>1. queue \in [Subs -> SUBSET (1..msgSeq)] /\ pushers \in [Subs -> 0..Len(work)]
      BY <1>0 DEF Init
    <2>2. [by |-> 0, over |-> FALSE] \in [by : 0..Len(work), over : BOOLEAN]
      BY <1>0
    <2>3. lease \in [1..MaxMsgs -> [by : 0..Len(work), over : BOOLEAN]]
      BY <2>2 DEF Init
    <2>4. req \in [Clients -> Request] /\ subs \in [Subs -> Endpoints \cup {"pull", "none"}]
      BY DEF Init, Request
    <2>5. msgSeq \in 0..MaxMsgs /\ Len(work) <= MaxPushers
      BY <1>0, <1>1 DEF Init
    <2>6. QED
      BY <1>0, <2>1, <2>3, <2>4, <2>5 DEF Init, TypeOK
  <1>3. Pending("start") = 0 /\ Pending("enqueue") = 0
    <2>1. {c \in Clients : req[c].op = "start"} = {} /\ {c \in Clients : req[c].op = "enqueue"} = {}
      BY DEF Init, NoReq
    <2>2. QED
      BY <2>1, FS_EmptySet DEF Pending
  <1>4. CallsCounted
    BY <1>0, <1>1, <1>3 DEF Init, CallsCounted
  <1>5. BatchHeld /\ OnePusher /\ NoSilentDrop /\ NobodyPosts
    BY <1>0 DEF BatchHeld, OnePusher, NoSilentDrop, NobodyPosts, Serving
  <1>6. CancelsStarted
    BY DEF Init, CancelsStarted, NoReq
  <1>7. QED
    BY <1>2, <1>4, <1>5, <1>6 DEF IInv

(* A goroutine moves to p. *)
LEMMA StepFields ==
  ASSUME TypeOK, NEW w \in 1..Len(work), NEW p \in Pusher, Step(w, p)
  PROVE  /\ work' \in Seq(Pusher) /\ Len(work') = Len(work)
         /\ work'[w] = p /\ \A v \in 1..Len(work) : v # w => work'[v] = work[v]
  BY WorkFields DEF Step

(* A step of a goroutine that runs: what is left to show is what it holds,   *)
(* and that the messages it removes were accepted.                           *)
LEMMA PusherStep ==
  ASSUME IInv, NEW w \in 1..Len(work), Live(w), NEW p \in Pusher, Step(w, p),
         p.sub = work[w].sub, p.cancelled = work[w].cancelled,
         p.batch \in Seq(1..msgSeq),
         p.pc \in {"send", "post", "ack", "hold"} => p.batch # <<>>,
         p.pc = "ack" => Head(p.batch) \in accepted',
         p.pc = "post" => stop = "no",
         accepted \subseteq accepted', accepted' \subseteq 1..msgSeq,
         \A s \in Subs : queue'[s] \subseteq queue[s] /\ queue[s] \subseteq queue'[s] \cup accepted',
         queue' \in [Subs -> SUBSET (1..msgSeq)],
         lease' \in [1..MaxMsgs -> [by : 0..Len(work), over : BOOLEAN]],
         UNCHANGED <<subs, pushers, msgSeq, req, stop, dropped>>
  PROVE  IInv'
  <1>1. /\ work' \in Seq(Pusher) /\ Len(work') = Len(work)
        /\ work'[w] = p /\ \A v \in 1..Len(work) : v # w => work'[v] = work[v]
    BY StepFields DEF IInv
  <1>2. TypeOK'
    BY <1>1 DEF IInv, TypeOK
  <1>3. CallsCounted' /\ CancelsStarted'
    BY <1>1 DEF IInv, CallsCounted, Pending, CancelsStarted
  <1>4. BatchHeld'
    BY <1>1 DEF IInv, BatchHeld
  <1>5. OnePusher'
    <2>1. \A s \in Subs : Serving(s)' \subseteq Serving(s)
      BY <1>1 DEF Serving, Live
    <2>2. QED
      BY <2>1 DEF IInv, OnePusher
  <1>6. NoSilentDrop'
    BY DEF IInv, NoSilentDrop
  <1>7. NobodyPosts'
    BY <1>1 DEF IInv, NobodyPosts
  <1>8. QED
    BY <1>2, <1>3, <1>4, <1>5, <1>6, <1>7 DEF IInv

(* The next place in the loop of runPusher, its batch kept or its head dropped. *)
LEMMA GotoPusher ==
  ASSUME TypeOK, BatchHeld, NEW w \in 1..Len(work),
         NEW pc \in {"select", "pull", "send", "post", "ack", "hold", "done"}
  PROVE  LET p == [work[w] EXCEPT !.pc = pc]
         IN /\ p \in Pusher /\ p.pc = pc /\ p.sub = work[w].sub /\ p.cancelled = work[w].cancelled
            /\ p.batch = work[w].batch /\ p.batch \in Seq(1..msgSeq)
  BY WorkFields DEF Pusher, BatchHeld

Moved(w, pc, b) == [work[w] EXCEPT !.pc = pc, !.batch = b]

LEMMA BatchPusher ==
  ASSUME TypeOK, NEW w \in 1..Len(work), NEW b \in Seq(1..msgSeq),
         NEW pc \in {"select", "pull", "send", "post", "ack", "hold", "done"},
         NEW p, p = Moved(w, pc, b)
  PROVE  /\ p \in Pusher /\ p.pc = pc /\ p.sub = work[w].sub /\ p.cancelled = work[w].cancelled
         /\ p.batch = b
  <1> DEFINE e == [work[w] EXCEPT !.pc = pc]
  <1>1. work[w] \in Pusher
    BY WorkFields
  <1>2. e \in Pusher /\ e.pc = pc /\ e.sub = work[w].sub /\ e.cancelled = work[w].cancelled
    BY <1>1 DEF Pusher
  <1>3. b \in Seq(1..MaxMsgs)
    <2>1. 1..msgSeq \subseteq 1..MaxMsgs
      BY WorkFields
    <2>2. QED
      BY <2>1, SeqMonotonic
  <1>4. p = [e EXCEPT !.batch = b]
    BY DEF Moved
  <1> HIDE DEF e
  <1>5. QED
    BY <1>2, <1>3, <1>4 DEF Pusher

(* What is left of a batch, and its head. *)
LEMMA BatchParts ==
  ASSUME NEW S, NEW b \in Seq(S), b # <<>>
  PROVE  Head(b) \in S /\ Tail(b) \in Seq(S) /\ (Len(b) # 1 => Tail(b) # <<>>)
  <1>1. Len(b) \in Nat /\ Len(b) # 0 /\ Head(b) \in S /\ Tail(b) \in Seq(S) /\ Len(Tail(b)) = Len(b) - 1
    BY HeadTailProperties, EmptySeq
  <1>2. Len(<<>>) = 0
    OBVIOUS
  <1>3. Len(b) # 1 => Len(Tail(b)) # 0
    BY <1>1
  <1>4. QED
    BY <1>1, <1>2, <1>3, Zenon

LEMMA GotoStep ==
  ASSUME IInv, NEW w \in 1..Len(work), Live(w),
         NEW pc \in {"select", "pull", "send", "post", "ack", "hold", "done"}, Goto(w, pc),
         pc \in {"send", "post", "ack", "hold"} => work[w].batch # <<>>,
         pc = "ack" => Head(work[w].batch) \in accepted',
         pc = "post" => stop = "no",
         accepted \subseteq accepted', accepted' \subseteq 1..msgSeq,
         UNCHANGED <<subs, pushers, queue, lease, msgSeq, req, stop, dropped>>
  PROVE  IInv'
  <1> DEFINE p == [work[w] EXCEPT !.pc = pc]
  <1>1. /\ p \in Pusher /\ p.pc = pc /\ p.sub = work[w].sub /\ p.cancelled = work[w].cancelled
        /\ p.batch = work[w].batch /\ p.batch \in Seq(1..msgSeq)
    BY GotoPusher DEF IInv
  <1>2. Step(w, p)
    BY DEF Goto
  <1>3. /\ queue' \in [Subs -> SUBSET (1..msgSeq)]
        /\ lease' \in [1..MaxMsgs -> [by : 0..Len(work), over : BOOLEAN]]
    BY DEF IInv, TypeOK
  <1> HIDE DEF p
  <1>4. QED
    BY <1>1, <1>2, <1>3, PusherStep

(* The message at the head of a batch is dropped and the loop goes on. *)
LEMMA NextOfBatchStep ==
  ASSUME IInv, NEW w \in 1..Len(work), work[w].pc \in {"ack", "hold"}, NextOfBatch(w),
         \A s \in Subs : queue'[s] \subseteq queue[s] /\ queue[s] \subseteq queue'[s] \cup accepted,
         queue' \in [Subs -> SUBSET (1..msgSeq)],
         lease' \in [1..MaxMsgs -> [by : 0..Len(work), over : BOOLEAN]],
         UNCHANGED <<subs, pushers, msgSeq, req, stop, accepted, dropped>>
  PROVE  IInv'
  <1> DEFINE b == Tail(work[w].batch)
             pc == IF Len(work[w].batch) = 1 THEN "select" ELSE "send"
             p == Moved(w, pc, b)
  <1>1. work[w].batch \in Seq(1..msgSeq) /\ work[w].batch # <<>> /\ TypeOK
    BY DEF IInv, BatchHeld
  <1>2. b \in Seq(1..msgSeq) /\ (pc = "send" => b # <<>>)
    BY <1>1, BatchParts
  <1>3. pc \in {"select", "send"}
    OBVIOUS
  <1>4. Step(w, p) /\ p = Moved(w, pc, b)
    BY DEF NextOfBatch, Moved
  <1> HIDE DEF b, pc, p
  <1>5. /\ p \in Pusher /\ p.pc = pc /\ p.sub = work[w].sub /\ p.cancelled = work[w].cancelled
        /\ p.batch = b
    BY <1>1, <1>2, <1>3, <1>4, BatchPusher
  <1>6. Live(w) /\ accepted' \subseteq 1..msgSeq /\ accepted \subseteq accepted'
    BY DEF Live, IInv, TypeOK
  <1>7. QED
    BY <1>2, <1>3, <1>4, <1>5, <1>6, PusherStep

(* Every message that a delivery is about is published. *)
LEMMA HeadPublished ==
  ASSUME IInv, NEW w \in 1..Len(work), work[w].pc \in {"send", "post", "ack", "hold"}
  PROVE  /\ Head(work[w].batch) \in 1..msgSeq /\ Head(work[w].batch) \in 1..MaxMsgs
         /\ work[w].batch # <<>> /\ work[w].sub \in Subs
  <1>1. work[w].batch \in Seq(1..msgSeq) /\ work[w].batch # <<>>
    BY DEF IInv, BatchHeld
  <1>2. Head(work[w].batch) \in 1..msgSeq
    BY <1>1, BatchParts
  <1>3. QED
    BY <1>1, <1>2, WorkFields DEF IInv, Pusher

LEMMA RunStep ==
  ASSUME IInv, NEW w \in 1..Len(work), Run(w) \/ PushAccepted(w) \/ PushFailed(w)
  PROVE  IInv'
  <1>0. TypeOK /\ accepted \subseteq 1..msgSeq /\ work[w] \in Pusher /\ work[w].sub \in Subs
    BY WorkFields DEF IInv, TypeOK, Pusher
  <1>1. CASE PusherExit(w)
    BY <1>0, <1>1, GotoStep DEF PusherExit, Live
  <1>2. CASE PusherTick(w)
    <2> DEFINE pc == IF subs[work[w].sub] = "none" THEN "done" ELSE "pull"
    <2>1. pc \in {"done", "pull"} /\ Goto(w, pc)
      BY <1>2 DEF PusherTick
    <2> HIDE DEF pc
    <2>2. QED
      BY <1>0, <1>2, <2>1, GotoStep DEF PusherTick, Live
  <1>3. CASE PusherPull(w)
    <2> DEFINE taken == Taken(work[w].sub)
               b == InOrder(taken)
               pc == IF taken = {} THEN "select" ELSE "send"
               p == Moved(w, pc, b)
    <2>1. taken \in SUBSET (1..msgSeq) /\ msgSeq \in Nat
      BY <1>0, WorkFields DEF Taken, TypeOK
    <2> HIDE DEF taken
    <2>2. /\ IsFiniteSet(taken) /\ Cardinality(taken) \in Nat
          /\ b \in Seq(taken) /\ Len(b) = Cardinality(taken)
      BY <2>1, BatchOfTaken
    <2>3. b \in Seq(1..msgSeq)
      BY <2>1, <2>2, SeqMonotonic
    <2>4. pc = "send" => b # <<>>
      <3>1. taken # {} => Cardinality(taken) # 0
        BY <2>2, FS_EmptySet
      <3>2. QED
        BY <2>2, <3>1
    <2>5. /\ Step(w, p) /\ p = Moved(w, pc, b)
          /\ pc \in {"select", "send"} /\ Live(w)
          /\ lease' = [m \in 1..MaxMsgs |-> IF m \in taken THEN [by |-> w, over |-> FALSE] ELSE lease[m]]
          /\ UNCHANGED <<subs, pushers, queue, msgSeq, req, stop, accepted, dropped>>
      BY <1>3 DEF PusherPull, Live, taken, Moved
    <2> HIDE DEF b, pc, p
    <2>6. /\ p \in Pusher /\ p.pc = pc /\ p.sub = work[w].sub /\ p.cancelled = work[w].cancelled
          /\ p.batch = b
      BY <1>0, <2>3, <2>5, BatchPusher
    <2>7. lease' \in [1..MaxMsgs -> [by : 0..Len(work), over : BOOLEAN]]
      <3>1. [by |-> w, over |-> FALSE] \in [by : 0..Len(work), over : BOOLEAN]
        BY <1>0, WorkFields
      <3>2. QED
        BY <1>0, <2>5, <3>1 DEF TypeOK
    <2>8. queue' \in [Subs -> SUBSET (1..msgSeq)]
      BY <1>0, <2>5 DEF TypeOK
    <2>9. QED
      BY <1>0, <2>3, <2>4, <2>5, <2>6, <2>7, <2>8, PusherStep
  <1>4. CASE PusherSend(w)
    <2>1. work[w].batch # <<>>
      BY <1>4, HeadPublished DEF PusherSend
    <2>2. CASE Cancelled(w)
      BY <1>0, <1>4, <2>1, <2>2, GotoStep DEF PusherSend, Live
    <2>3. CASE ~Cancelled(w)
      BY <1>0, <1>4, <2>1, <2>3, GotoStep DEF PusherSend, Live, Cancelled
    <2>4. QED
      BY <2>2, <2>3
  <1>5. CASE PushAccepted(w)
    <2>1. work[w].batch # <<>> /\ Head(work[w].batch) \in 1..msgSeq
      BY <1>5, HeadPublished DEF PushAccepted
    <2>2. QED
      BY <1>0, <1>5, <2>1, GotoStep DEF PushAccepted, Live
  <1>6. CASE PushFailed(w)
    <2>1. work[w].batch # <<>> /\ Head(work[w].batch) \in 1..msgSeq
      BY <1>6, HeadPublished DEF PushFailed
    <2>2. QED
      BY <1>0, <1>6, <2>1, GotoStep DEF PushFailed, Live
  <1>7. CASE PusherAck(w)
    <2> DEFINE m == Head(work[w].batch)
               s == work[w].sub
    <2>1. m \in accepted
      BY <1>7 DEF PusherAck, IInv, BatchHeld
    <2>2. queue' = queue \/ queue' = [queue EXCEPT ![s] = queue[s] \ {m}]
      BY <1>7 DEF PusherAck
    <2> HIDE DEF m
    <2>3. /\ queue' \in [Subs -> SUBSET (1..msgSeq)]
          /\ \A t \in Subs : queue'[t] \subseteq queue[t] /\ queue[t] \subseteq queue'[t] \cup accepted
      BY <1>0, <2>1, <2>2 DEF TypeOK
    <2>4. QED
      BY <1>0, <1>7, <2>3, NextOfBatchStep DEF PusherAck, TypeOK
  <1>8. CASE PusherHold(w)
    <2> DEFINE m == Head(work[w].batch)
    <2>1. m \in 1..MaxMsgs
      BY <1>8, HeadPublished DEF PusherHold
    <2>2. lease' = lease \/ lease' = [lease EXCEPT ![m].over = FALSE]
      BY <1>8 DEF PusherHold
    <2> HIDE DEF m
    <2>3. lease' \in [1..MaxMsgs -> [by : 0..Len(work), over : BOOLEAN]]
      <3>1. lease \in [1..MaxMsgs -> [by : 0..Len(work), over : BOOLEAN]]
        BY <1>0 DEF TypeOK
      <3>2. lease[m] \in [by : 0..Len(work), over : BOOLEAN]
        BY <2>1, <3>1
      <3>3. PICK e \in [by : 0..Len(work), over : BOOLEAN] : e = [lease[m] EXCEPT !.over = FALSE]
        BY <3>2
      <3>4. lease' = lease \/ lease' = [lease EXCEPT ![m] = e]
        BY <2>2, <3>3
      <3>5. QED
        BY <3>1, <3>3, <3>4
    <2>4. queue' \in [Subs -> SUBSET (1..msgSeq)]
      BY <1>0, <1>8 DEF PusherHold, TypeOK
    <2>5. QED
      BY <1>0, <1>8, <2>3, <2>4, NextOfBatchStep DEF PusherHold
  <1>9. QED
    BY <1>1, <1>2, <1>3, <1>4, <1>5, <1>6, <1>7, <1>8 DEF Run

-----------------------------------------------------------------------------
(* A step of a call that starts, files and cancels no pusher. *)
LEMMA QuietCall ==
  ASSUME IInv, TypeOK', CallsCounted', NoSilentDrop', NEW c \in Clients, NEW r, Hold(c, r),
         req[c].op # "cancel", r.op # "cancel", msgSeq' >= msgSeq,
         UNCHANGED <<pushers, work, stop, accepted>>
  PROVE  IInv'
  <1>1. req'[c] = r /\ \A d \in Clients : d # c => req'[d] = req[d]
    BY DEF Hold, IInv, TypeOK
  <1>2. BatchHeld'
    <2>1. msgSeq \in Nat /\ msgSeq' \in Nat
      BY WorkFields, PushAssumption DEF IInv, TypeOK
    <2>2. 1..msgSeq \subseteq 1..msgSeq'
      BY <2>1
    <2>3. \A w \in 1..Len(work) : work[w].batch \in Seq(1..msgSeq')
      BY <2>2, SeqMonotonic DEF IInv, BatchHeld
    <2>4. QED
      BY <2>3 DEF IInv, BatchHeld
  <1>3. CancelsStarted' /\ NobodyPosts'
    BY <1>1 DEF IInv, CancelsStarted, NobodyPosts
  <1>4. OnePusher'
    <2>1. \A s \in Subs : Serving(s)' \subseteq Serving(s)
      BY <1>1 DEF Serving, Live
    <2>2. QED
      BY <2>1 DEF IInv, OnePusher
  <1>5. QED
    BY <1>2, <1>3, <1>4 DEF IInv

(* A call that begins, or is answered at once. *)
LEMMA CallBegins ==
  ASSUME IInv, NEW c \in Clients, NEW r \in Request, Hold(c, r), Idle(c), r.op # "cancel",
         r.op = "start" => Len(work) + Pending("start") < MaxPushers,
         r.op = "enqueue" => msgSeq + Pending("enqueue") < MaxMsgs,
         subs' \in [Subs -> Endpoints \cup {"pull", "none"}],
         UNCHANGED <<pushers, work, queue, lease, msgSeq, stop, accepted, dropped>>
  PROVE  IInv'
  <1>0. TypeOK /\ Len(work) \in Nat /\ msgSeq \in Nat /\ MaxMsgs \in Nat /\ MaxPushers \in Nat
    BY WorkFields DEF IInv
  <1>1. TypeOK'
    BY <1>0 DEF TypeOK, Hold
  <1>2. CallsCounted'
    <2>1. /\ Pending("start")' \in Nat /\ Pending("enqueue")' \in Nat
          /\ Pending("start") \in Nat /\ Pending("enqueue") \in Nat
      BY <1>0, PendingStep, PendingCount
    <2>2. /\ r.op = "start" => Pending("start")' <= Pending("start") + 1
          /\ r.op # "start" => Pending("start")' <= Pending("start")
          /\ r.op = "enqueue" => Pending("enqueue")' <= Pending("enqueue") + 1
          /\ r.op # "enqueue" => Pending("enqueue")' <= Pending("enqueue")
      BY <1>0, PendingStep
    <2>3. QED
      BY <1>0, <2>1, <2>2, SMTT(30) DEF IInv, CallsCounted
  <1>3. NoSilentDrop'
    BY DEF IInv, NoSilentDrop
  <1>4. req[c].op # "cancel"
    BY <1>0, CallFields
  <1>5. QED
    BY <1>0, <1>1, <1>2, <1>3, <1>4, QuietCall

LEMMA BeginStep ==
  ASSUME IInv, NEW c \in Clients, Begin(c)
  PROVE  IInv'
  <1>0. TypeOK
    BY DEF IInv
  <1>1. ASSUME NEW s \in Subs, NEW cfg \in Endpoints \cup {"pull"}, PutSubscription(c, s, cfg) PROVE IInv'
    <2> DEFINE r == IF cfg = "pull" THEN NoReq ELSE [op |-> "start", sub |-> s, ep |-> cfg]
    <2>1. r \in Request /\ r.op \in {"none", "start"}
      BY DEF Request, NoReq
    <2>2. /\ Hold(c, r) /\ Idle(c) /\ Len(work) + Pending("start") < MaxPushers
          /\ UNCHANGED <<pushers, work, queue, lease, msgSeq, stop, accepted, dropped>>
      BY <1>1 DEF PutSubscription
    <2>3. subs' \in [Subs -> Endpoints \cup {"pull", "none"}]
      BY <1>0, <1>1 DEF PutSubscription, TypeOK
    <2> HIDE DEF r
    <2>4. QED
      BY <2>1, <2>2, <2>3, CallBegins
  <1>2. ASSUME NEW s \in Subs, DeleteSubscription(c, s) PROVE IInv'
    <2> DEFINE r == [op |-> "stop", sub |-> s]
    <2>1. r \in Request /\ r.op = "stop"
      BY DEF Request
    <2>2. /\ Hold(c, r) /\ Idle(c)
          /\ UNCHANGED <<pushers, work, queue, lease, msgSeq, stop, accepted, dropped>>
      BY <1>2 DEF DeleteSubscription
    <2>3. subs' \in [Subs -> Endpoints \cup {"pull", "none"}]
      BY <1>0, <1>2 DEF DeleteSubscription, TypeOK
    <2> HIDE DEF r
    <2>4. QED
      BY <2>1, <2>2, <2>3, CallBegins
  <1>3. ASSUME NEW s \in Subs, PublishMessages(c, s) PROVE IInv'
    <2> DEFINE r == [op |-> "enqueue", sub |-> s]
    <2>1. r \in Request /\ r.op = "enqueue"
      BY DEF Request
    <2>2. /\ Hold(c, r) /\ Idle(c) /\ msgSeq + Pending("enqueue") < MaxMsgs
          /\ UNCHANGED <<pushers, work, queue, lease, msgSeq, stop, accepted, dropped>>
      BY <1>3 DEF PublishMessages
    <2>3. subs' \in [Subs -> Endpoints \cup {"pull", "none"}]
      BY <1>0, <1>3 DEF PublishMessages, TypeOK
    <2> HIDE DEF r
    <2>4. QED
      BY <2>1, <2>2, <2>3, CallBegins
  <1>4. QED
    BY <1>1, <1>2, <1>3 DEF Begin

-----------------------------------------------------------------------------
(* What a step of a call that is not answered by a new start or enqueue does *)
(* to the counts.                                                            *)
LEMMA CountsShrink ==
  ASSUME IInv, NEW c \in Clients, NEW r, Hold(c, r), r.op \notin {"start", "enqueue"}
  PROVE  /\ Len(work) + Pending("start")' <= MaxPushers /\ msgSeq + Pending("enqueue")' <= MaxMsgs
         /\ req[c].op = "start" => Len(work) + 1 + Pending("start")' <= MaxPushers
         /\ req[c].op = "enqueue" => msgSeq + 1 + Pending("enqueue")' <= MaxMsgs
         /\ Pending("start")' \in Nat /\ Pending("enqueue")' \in Nat
  <1>0. TypeOK /\ Len(work) \in Nat /\ msgSeq \in Nat /\ MaxMsgs \in Nat /\ MaxPushers \in Nat
    BY WorkFields DEF IInv
  <1>1. /\ Pending("start") \in Nat /\ Pending("enqueue") \in Nat
        /\ Pending("start")' \in Nat /\ Pending("enqueue")' \in Nat
    BY <1>0, PendingStep, PendingCount
  <1>2. /\ Pending("start")' <= Pending("start") /\ Pending("enqueue")' <= Pending("enqueue")
        /\ req[c].op = "start" => Pending("start")' = Pending("start") - 1
        /\ req[c].op = "enqueue" => Pending("enqueue")' = Pending("enqueue") - 1
    BY <1>0, PendingStep
  <1>3. QED
    BY <1>0, <1>1, <1>2, SMTT(30) DEF IInv, CallsCounted

LEMMA StartPusherStep ==
  ASSUME IInv, NEW c \in Clients, StartPusher(c)
  PROVE  IInv'
  <1> DEFINE s == req[c].sub
             n == Len(work) + 1
             p == [sub |-> s, ep |-> req[c].ep, cancelled |-> FALSE, pc |-> "select", batch |-> <<>>]
  <1>0. /\ TypeOK /\ Len(work) \in Nat /\ msgSeq \in Nat /\ work \in Seq(Pusher)
        /\ MaxPushers \in Nat /\ DOMAIN work = 1..Len(work)
    BY WorkFields DEF IInv
  <1>1. s \in Subs /\ req[c].ep \in Endpoints /\ req[c].op = "start"
    BY <1>0, CallFields DEF StartPusher
  <1>2. /\ Hold(c, NoReq) /\ UNCHANGED <<subs, queue, lease, msgSeq, stop, accepted, dropped>>
        /\ \/ pushers' = pushers /\ work' = work
           \/ /\ pushers[s] = 0 /\ work' = Append(work, p)
              /\ pushers' = [pushers EXCEPT ![s] = n]
    BY DEF StartPusher
  <1>3. /\ Pending("start")' \in Nat /\ Pending("enqueue")' \in Nat
        /\ Len(work) + 1 + Pending("start")' <= MaxPushers /\ msgSeq + Pending("enqueue")' <= MaxMsgs
    BY <1>1, <1>2, CountsShrink DEF NoReq
  <1>4. NoReq.op = "none" /\ NoReq \in Request
    BY DEF NoReq, Request
  <1>5. req' \in [Clients -> Request]
    BY <1>0, <1>2, <1>4 DEF Hold, TypeOK
  <1>6. p \in Pusher /\ p.sub = s /\ p.pc = "select" /\ p.batch = <<>>
    BY <1>1 DEF Pusher
  <1>7. CASE pushers' = pushers /\ work' = work
    <2>1. TypeOK' /\ NoSilentDrop'
      BY <1>0, <1>2, <1>5, <1>7 DEF IInv, TypeOK, NoSilentDrop
    <2>2. CallsCounted'
      BY <1>0, <1>2, <1>3, <1>7 DEF CallsCounted
    <2>3. QED
      BY <1>0, <1>1, <1>2, <1>4, <1>7, <2>1, <2>2, QuietCall
  <1>8. CASE pushers[s] = 0 /\ work' = Append(work, p) /\ pushers' = [pushers EXCEPT ![s] = n]
    <2> HIDE DEF p, s
    <2>1. /\ work' \in Seq(Pusher) /\ Len(work') = n /\ work'[n] = p
          /\ \A v \in 1..Len(work) : work'[v] = work[v]
      BY <1>0, <1>6, <1>8
    <2>2. n \notin 1..Len(work) /\ \A v \in 1..n : v = n \/ v \in 1..Len(work)
      BY <1>0
    <2>3. TypeOK'
      <3>1. pushers' \in [Subs -> 0..Len(work')]
        BY <1>0, <1>1, <1>8, <2>1 DEF TypeOK
      <3>2. lease' \in [1..MaxMsgs -> [by : 0..Len(work'), over : BOOLEAN]]
        <4>1. 0..Len(work) \subseteq 0..Len(work')
          BY <1>0, <2>1
        <4>2. [by : 0..Len(work), over : BOOLEAN] \subseteq [by : 0..Len(work'), over : BOOLEAN]
          BY <4>1
        <4>3. QED
          BY <1>0, <1>2, <4>2 DEF TypeOK
      <3>3. Len(work') <= MaxPushers
        BY <1>0, <1>3, <2>1
      <3>4. QED
        BY <1>0, <1>2, <1>5, <2>1, <3>1, <3>2, <3>3 DEF TypeOK
    <2>4. CallsCounted' /\ NoSilentDrop'
      BY <1>0, <1>2, <1>3, <2>1 DEF IInv, CallsCounted, NoSilentDrop
    <2>5. BatchHeld'
      <3>1. p.batch \in Seq(1..msgSeq) /\ p.pc = "select"
        BY <1>6
      <3> HIDE DEF n
      <3>2. \A v \in 1..Len(work') : v = n \/ v \in 1..Len(work)
        BY <2>1, <2>2
      <3>3. QED
        BY <1>2, <2>1, <3>1, <3>2 DEF IInv, BatchHeld
    <2>6. req'[c] = NoReq /\ \A d \in Clients : d # c => req'[d] = req[d]
      BY <1>0, <1>2 DEF Hold, TypeOK
    <2>7. CancelsStarted'
      <3>1. \A d \in Clients : req[d].op = "cancel" => req[d].pusher \in Nat
        BY <1>0, CallFields
      <3>2. QED
        BY <1>0, <1>4, <2>1, <2>6, <3>1 DEF IInv, CancelsStarted
    <2>8. NobodyPosts'
      BY <1>2, <1>6, <2>1, <2>2 DEF IInv, NobodyPosts
    <2>9. OnePusher'
      <3>1. pushers'[s] = n /\ \A t \in Subs : t # s => pushers'[t] = pushers[t]
        BY <1>0, <1>1, <1>8 DEF TypeOK
      <3>2. Serving(s) = {}
        <4>1. Serving(s) \subseteq {0} /\ 0 \notin Serving(s)
          BY <1>1, <1>8 DEF IInv, OnePusher, Serving
        <4>2. QED
          BY <4>1
      <3>3. \A t \in Subs : \A w \in Serving(t)' : w \in 1..n /\ (w # n => w \in Serving(t))
        BY <1>1, <1>4, <2>1, <2>2, <2>6 DEF Serving, Live
      <3>4. \A t \in Subs : n \in Serving(t)' => t = s
        BY <1>6, <2>1 DEF Serving
      <3> HIDE DEF n
      <3>5. QED
        BY <1>1, <3>1, <3>2, <3>3, <3>4 DEF IInv, OnePusher
    <2>10. QED
      BY <2>3, <2>4, <2>5, <2>7, <2>8, <2>9 DEF IInv
  <1>9. QED
    BY <1>2, <1>7, <1>8

LEMMA StopPusherStep ==
  ASSUME IInv, NEW c \in Clients, StopPusher(c)
  PROVE  IInv'
  <1> DEFINE s == req[c].sub
             r == IF pushers[s] = 0 THEN [op |-> "drop", sub |-> s]
                  ELSE [op |-> "cancel", sub |-> s, pusher |-> pushers[s]]
  <1>0. TypeOK /\ Len(work) \in Nat /\ msgSeq \in Nat /\ MaxPushers \in Nat /\ Len(work) <= MaxPushers
    BY WorkFields DEF IInv, TypeOK
  <1>1. s \in Subs /\ req[c].op = "stop" /\ pushers[s] \in 0..Len(work)
    BY <1>0, CallFields DEF StopPusher, TypeOK
  <1>2. /\ Hold(c, r) /\ UNCHANGED <<subs, work, queue, lease, msgSeq, stop, accepted, dropped>>
        /\ pushers' = [pushers EXCEPT ![s] = 0]
    BY DEF StopPusher
  <1>3. /\ r \in Request /\ r.op \in {"drop", "cancel"}
        /\ r.op = "cancel" <=> pushers[s] # 0
        /\ r.op = "cancel" => r.pusher = pushers[s]
    <2>1. CASE pushers[s] = 0
      BY <1>1, <2>1 DEF Request
    <2>2. CASE pushers[s] # 0
      <3>1. pushers[s] \in 1..MaxPushers
        BY <1>0, <1>1, <2>2
      <3>2. QED
        BY <1>1, <2>2, <3>1 DEF Request
    <2>3. QED
      BY <2>1, <2>2
  <1> HIDE DEF r, s
  <1>4. TypeOK'
    BY <1>0, <1>1, <1>2, <1>3 DEF TypeOK, Hold
  <1>5. CallsCounted' /\ NoSilentDrop' /\ BatchHeld' /\ NobodyPosts'
    <2>1. Len(work) + Pending("start")' <= MaxPushers /\ msgSeq + Pending("enqueue")' <= MaxMsgs
      BY <1>2, <1>3, CountsShrink
    <2>2. QED
      BY <1>2, <2>1 DEF IInv, CallsCounted, NoSilentDrop, BatchHeld, NobodyPosts
  <1>6. req'[c] = r /\ \A d \in Clients : d # c => req'[d] = req[d]
    BY <1>0, <1>2 DEF Hold, TypeOK
  <1>7. CancelsStarted'
    BY <1>0, <1>1, <1>2, <1>3, <1>6 DEF IInv, CancelsStarted
  <1>8. OnePusher'
    <2>1. \A t \in Subs : Serving(t)' \subseteq Serving(t)
      BY <1>1, <1>2, <1>6 DEF Serving, Live
    <2>2. \A t \in Subs : t # s => pushers'[t] = pushers[t]
      BY <1>0, <1>2 DEF TypeOK
    <2>3. ASSUME NEW t \in Subs, t = s PROVE Serving(t)' = {}
      <3>1. Serving(t)' \subseteq {pushers[t]}
        BY <2>1 DEF IInv, OnePusher
      <3>2. pushers[t] \notin Serving(t)'
        <4>1. CASE pushers[t] = 0
          BY <1>0, <1>2, <4>1 DEF Serving
        <4>2. CASE pushers[t] # 0
          BY <1>3, <1>6, <2>3, <4>2 DEF Serving
        <4>3. QED
          BY <4>1, <4>2
      <3>3. QED
        BY <3>1, <3>2
    <2>4. QED
      BY <2>1, <2>2, <2>3 DEF IInv, OnePusher
  <1>9. QED
    BY <1>4, <1>5, <1>7, <1>8 DEF IInv

LEMMA CancelPusherStep ==
  ASSUME IInv, NEW c \in Clients, CancelPusher(c)
  PROVE  IInv'
  <1> DEFINE s == req[c].sub
             x == req[c].pusher
             r == [op |-> "drop", sub |-> s]
             p == [work[x] EXCEPT !.cancelled = TRUE]
  <1>0. /\ TypeOK /\ Len(work) \in Nat /\ msgSeq \in Nat /\ work \in Seq(Pusher)
        /\ DOMAIN work = 1..Len(work)
    BY WorkFields DEF IInv, TypeOK
  <1>1. s \in Subs /\ req[c].op = "cancel" /\ x \in 1..MaxPushers
    BY <1>0, CallFields DEF CancelPusher
  <1>2. x \in 1..Len(work) /\ work[x] \in Pusher
    BY <1>0, <1>1, WorkFields DEF IInv, CancelsStarted
  <1>3. /\ Hold(c, r) /\ UNCHANGED <<subs, pushers, queue, lease, msgSeq, stop, accepted, dropped>>
        /\ work' = [work EXCEPT ![x] = p]
    BY DEF CancelPusher
  <1>4. r \in Request /\ r.op = "drop"
    BY <1>1 DEF Request
  <1>5. /\ p \in Pusher /\ p.cancelled = TRUE /\ p.sub = work[x].sub /\ p.pc = work[x].pc
        /\ p.batch = work[x].batch
    BY <1>2 DEF Pusher
  <1> HIDE DEF r, s, x, p
  <1>6. /\ work' \in Seq(Pusher) /\ Len(work') = Len(work) /\ work'[x] = p
        /\ \A v \in 1..Len(work) : v # x => work'[v] = work[v]
    BY <1>0, <1>2, <1>3, <1>5
  <1>7. TypeOK'
    BY <1>0, <1>3, <1>4, <1>6 DEF TypeOK, Hold
  <1>8. CallsCounted' /\ NoSilentDrop' /\ BatchHeld' /\ NobodyPosts'
    <2>1. Len(work) + Pending("start")' <= MaxPushers /\ msgSeq + Pending("enqueue")' <= MaxMsgs
      BY <1>3, <1>4, CountsShrink
    <2>2. CallsCounted' /\ NoSilentDrop'
      BY <1>3, <1>6, <2>1 DEF IInv, CallsCounted, NoSilentDrop
    <2>3. BatchHeld' /\ NobodyPosts'
      BY <1>2, <1>3, <1>5, <1>6 DEF IInv, BatchHeld, NobodyPosts
    <2>4. QED
      BY <2>2, <2>3
  <1>9. req'[c] = r /\ \A d \in Clients : d # c => req'[d] = req[d]
    BY <1>0, <1>3 DEF Hold, TypeOK
  <1>10. CancelsStarted'
    BY <1>4, <1>6, <1>9 DEF IInv, CancelsStarted
  <1>11. OnePusher'
    <2>1. \A t \in Subs : Serving(t)' \subseteq Serving(t)
      <3> SUFFICES ASSUME NEW t \in Subs, NEW w \in Serving(t)' PROVE w \in Serving(t)
        OBVIOUS
      <3>1. w \in 1..Len(work) /\ w # x
        BY <1>5, <1>6 DEF Serving
      <3>2. \A d \in Clients : req[d].op = "cancel" => req[d].pusher # w
        <4>1. \A d \in Clients : d # c /\ req[d].op = "cancel" => req[d].pusher # w
          BY <1>9 DEF Serving
        <4>2. req[c].pusher # w
          BY <3>1 DEF x
        <4>3. QED
          BY <4>1, <4>2
      <3>3. QED
        BY <1>6, <3>1, <3>2 DEF Serving, Live
    <2>2. QED
      BY <1>3, <2>1 DEF IInv, OnePusher
  <1>12. QED
    BY <1>7, <1>8, <1>10, <1>11 DEF IInv

LEMMA DropQueueStep ==
  ASSUME IInv, NEW c \in Clients, DropQueue(c)
  PROVE  IInv'
  <1> DEFINE s == req[c].sub
  <1>0. TypeOK /\ Len(work) \in Nat /\ msgSeq \in Nat
    BY WorkFields DEF IInv, TypeOK
  <1>1. s \in Subs /\ req[c].op = "drop"
    BY <1>0, CallFields DEF DropQueue
  <1>2. /\ Hold(c, NoReq) /\ UNCHANGED <<subs, pushers, work, lease, msgSeq, stop, accepted>>
        /\ dropped' = dropped \cup queue[s] /\ queue' = [queue EXCEPT ![s] = {}]
    BY DEF DropQueue
  <1>3. NoReq.op = "none" /\ NoReq \in Request
    BY DEF NoReq, Request
  <1> HIDE DEF s
  <1>4. TypeOK'
    BY <1>0, <1>1, <1>2, <1>3 DEF TypeOK, Hold
  <1>5. CallsCounted'
    BY <1>2, <1>3, CountsShrink DEF CallsCounted
  <1>6. NoSilentDrop'
    BY <1>0, <1>1, <1>2 DEF IInv, NoSilentDrop, TypeOK
  <1>7. QED
    BY <1>0, <1>1, <1>2, <1>3, <1>4, <1>5, <1>6, QuietCall

LEMMA EnqueueStep ==
  ASSUME IInv, NEW c \in Clients, PublishEnqueue(c)
  PROVE  IInv'
  <1> DEFINE s == req[c].sub
  <1>0. TypeOK /\ Len(work) \in Nat /\ msgSeq \in Nat /\ MaxMsgs \in Nat
    BY WorkFields DEF IInv, TypeOK
  <1>1. s \in Subs /\ req[c].op = "enqueue"
    BY <1>0, CallFields DEF PublishEnqueue
  <1>2. /\ Hold(c, NoReq) /\ UNCHANGED <<subs, pushers, work, lease, stop, accepted, dropped>>
        /\ msgSeq' = msgSeq + 1 /\ queue' = [queue EXCEPT ![s] = queue[s] \cup {msgSeq + 1}]
    BY DEF PublishEnqueue
  <1>3. NoReq.op = "none" /\ NoReq \in Request
    BY DEF NoReq, Request
  <1>4. /\ Len(work) + Pending("start")' <= MaxPushers /\ msgSeq + 1 + Pending("enqueue")' <= MaxMsgs
        /\ Pending("enqueue")' \in Nat
    BY <1>1, <1>2, <1>3, CountsShrink
  <1> HIDE DEF s
  <1>5. msgSeq' \in 0..MaxMsgs /\ 1..msgSeq' = 1..msgSeq \cup {msgSeq + 1}
    BY <1>0, <1>2, <1>4
  <1>6. TypeOK'
    <2>1. queue' \in [Subs -> SUBSET (1..msgSeq')]
      BY <1>0, <1>1, <1>2, <1>5 DEF TypeOK
    <2>2. req' \in [Clients -> Request]
      BY <1>0, <1>2, <1>3 DEF TypeOK, Hold
    <2>3. accepted' \subseteq 1..msgSeq' /\ dropped' \subseteq 1..msgSeq'
      BY <1>0, <1>2, <1>5 DEF TypeOK
    <2>4. QED
      BY <1>0, <1>2, <1>5, <2>1, <2>2, <2>3 DEF TypeOK
  <1>7. CallsCounted'
    BY <1>2, <1>4 DEF CallsCounted
  <1>8. NoSilentDrop'
    <2>1. queue'[s] = queue[s] \cup {msgSeq + 1} /\ \A t \in Subs : queue[t] \subseteq queue'[t]
      BY <1>0, <1>1, <1>2 DEF TypeOK
    <2>2. QED
      BY <1>1, <1>2, <1>5, <2>1 DEF IInv, NoSilentDrop
  <1>9. QED
    BY <1>0, <1>1, <1>2, <1>3, <1>6, <1>7, <1>8, QuietCall

-----------------------------------------------------------------------------
LEMMA IInvStep == IInv /\ [Next]_vars => IInv'
  <1> SUFFICES ASSUME IInv, [Next]_vars PROVE IInv'
    OBVIOUS
  <1>1. ASSUME NEW c \in Clients, Begin(c) \/ Continue(c) PROVE IInv'
    BY <1>1, BeginStep, StartPusherStep, StopPusherStep, CancelPusherStep, DropQueueStep, EnqueueStep
       DEF Continue
  <1>2. ASSUME TypeOK', UNCHANGED <<pushers, work, queue, msgSeq, req, accepted, dropped>>,
               stop' = "returned" => \A w \in 1..Len(work) : work[w].pc # "post"
        PROVE  IInv'
    <2>1. CallsCounted' /\ BatchHeld' /\ CancelsStarted' /\ NoSilentDrop' /\ NobodyPosts'
      BY <1>2 DEF IInv, CallsCounted, Pending, BatchHeld, CancelsStarted, NoSilentDrop, NobodyPosts
    <2>2. OnePusher'
      BY <1>2 DEF IInv, OnePusher, Serving, Live
    <2>3. QED
      BY <1>2, <2>1, <2>2 DEF IInv
  <1>3. ASSUME NEW s \in Subs, ResetSubscription(s) PROVE IInv'
    <2>1. TypeOK'
      BY <1>3 DEF ResetSubscription, IInv, TypeOK
    <2>2. QED
      BY <1>2, <1>3, <2>1 DEF ResetSubscription, IInv, NobodyPosts
  <1>4. ASSUME NEW m \in 1..MaxMsgs, Expire(m) PROVE IInv'
    <2>1. TypeOK'
      BY <1>4 DEF Expire, IInv, TypeOK
    <2>2. QED
      BY <1>2, <1>4, <2>1 DEF Expire, IInv, NobodyPosts
  <1>5. CASE StopCancel \/ StopReturn
    <2>1. TypeOK'
      BY <1>5 DEF StopCancel, StopReturn, IInv, TypeOK
    <2>2. QED
      BY <1>2, <1>5, <2>1 DEF StopCancel, StopReturn, Live
  <1>6. CASE UNCHANGED vars
    <2>1. TypeOK'
      BY <1>6 DEF vars, IInv, TypeOK
    <2>2. QED
      BY <1>2, <1>6, <2>1 DEF vars, IInv, NobodyPosts
  <1>7. QED
    BY <1>1, <1>3, <1>4, <1>5, <1>6, RunStep DEF Next

LEMMA Invariance == Spec => []IInv
  BY IInvInit, IInvStep, PTL DEF Spec

(* startPusher and stopPusher, called in any order by any number of clients, *)
(* leave a subscription at most one delivery goroutine nobody is cancelling, *)
(* and it is the one the map names (PushInv).                                *)
THEOREM OnePusherPerSub == Spec => []PushInv
  <1>1. IInv => PushInv
    BY DEF IInv, PushInv
  <1>2. QED
    BY Invariance, <1>1, PTL

(* No interleaving of pushers, calls and expired leases takes a message out  *)
(* of the queue that was neither accepted nor deleted with its subscription  *)
(* (NoSilentDrop).                                                           *)
THEOREM NothingDropped == Spec => []NoSilentDrop
  <1>1. IInv => NoSilentDrop
    BY DEF IInv
  <1>2. QED
    BY Invariance, <1>1, PTL

(* No message reaches an endpoint once Stop has returned (NoPushAfterStop). *)
THEOREM SilentAfterStop == Spec => NoPushAfterStop
  <1>1. IInv /\ [Next]_vars => [stop = "returned" => accepted' = accepted]_vars
    <2> SUFFICES ASSUME IInv, Next, stop = "returned" PROVE accepted' = accepted
      OBVIOUS
    <2>1. \A w \in 1..Len(work) : ~PushAccepted(w) /\ ~PushFailed(w)
      BY DEF IInv, NobodyPosts, PushAccepted, PushFailed
    <2>2. ASSUME NEW c \in Clients, Begin(c) \/ Continue(c) PROVE accepted' = accepted
      BY <2>2 DEF Begin, Continue, PutSubscription, DeleteSubscription, PublishMessages, StartPusher,
                  StopPusher, CancelPusher, DropQueue, PublishEnqueue
    <2>3. ASSUME NEW w \in 1..Len(work), Run(w) PROVE accepted' = accepted
      BY <2>3 DEF Run, PusherExit, PusherTick, PusherPull, PusherSend, PusherAck, PusherHold
    <2>4. QED
      BY <2>1, <2>2, <2>3 DEF Next, ResetSubscription, Expire, StopCancel, StopReturn
  <1>2. QED
    BY Invariance, <1>1, PTL DEF Spec, NoPushAfterStop

-----------------------------------------------------------------------------
(* One client that calls at a time, and no reset: Tended is inductive too. *)
Sequential == ~MayReset /\ \A c, d \in Clients : c = d

LEMMA TendedInit == Init => Tended
  <1> SUFFICES ASSUME Init PROVE Tended
    OBVIOUS
  <1>1. \A s \in Subs : subs[s] = "none" /\ pushers[s] = 0 /\ ~IsPush(s)
    BY PushAssumption DEF Init, IsPush
  <1>2. \A s \in Subs : ~Calls("start", s) /\ ~Calls("stop", s)
    BY DEF Init, Calls, NoReq
  <1>3. QED
    BY <1>1, <1>2 DEF Tended

(* A goroutine ends when it was cancelled or its subscription is gone, and   *)
(* not otherwise (runPusher).                                                *)
LEMMA TendedRun ==
  ASSUME IInv, Tended, NEW w \in 1..Len(work), Live(w), NEW p \in Pusher, Step(w, p),
         p.sub = work[w].sub, p.cancelled = work[w].cancelled,
         p.pc = "done" => Cancelled(w) \/ subs[work[w].sub] = "none",
         UNCHANGED <<subs, pushers, req, stop>>
  PROVE  Tended'
  <1> SUFFICES ASSUME stop = "no" PROVE Tended'
    BY DEF Tended
  <1>1. /\ work' \in Seq(Pusher) /\ Len(work') = Len(work)
        /\ work'[w] = p /\ \A v \in 1..Len(work) : v # w => work'[v] = work[v]
    BY StepFields DEF IInv
  <1>2. pushers \in [Subs -> 0..Len(work)] /\ Len(work) \in Nat
    BY WorkFields DEF IInv, TypeOK
  <1>3. \A v \in 1..Len(work) : work'[v].sub = work[v].sub
    BY <1>1
  <1>4. \A s \in Subs : pushers[s] # 0 => pushers[s] \in 1..Len(work)
    BY <1>2
  <1>5. ASSUME NEW s \in Subs, subs[s] # "none", NEW v \in Serving(s) PROVE v \in Serving(s)'
    <2>1. v \in 1..Len(work) /\ work[v].sub = s /\ Live(v) /\ ~work[v].cancelled
      BY DEF Serving
    <2>2. v = w => p.pc # "done"
      BY <1>5, <2>1 DEF Cancelled
    <2>3. work'[v].sub = s /\ work'[v].pc # "done" /\ ~work'[v].cancelled
      BY <1>1, <2>1, <2>2 DEF Live
    <2>4. QED
      BY <1>1, <2>1, <2>3 DEF Serving, Live
  <1>6. \A s \in Subs : \A op : Calls(op, s)' <=> Calls(op, s)
    BY DEF Calls
  <1>7. QED
    BY <1>3, <1>4, <1>5, <1>6 DEF Tended, IsPush

LEMMA TendedGoto ==
  ASSUME IInv, Tended, NEW w \in 1..Len(work), Live(w),
         NEW pc \in {"select", "pull", "send", "post", "ack", "hold", "done"}, Goto(w, pc),
         pc = "done" => Cancelled(w) \/ subs[work[w].sub] = "none",
         UNCHANGED <<subs, pushers, req, stop>>
  PROVE  Tended'
  <1> DEFINE p == [work[w] EXCEPT !.pc = pc]
  <1>1. p \in Pusher /\ p.pc = pc /\ p.sub = work[w].sub /\ p.cancelled = work[w].cancelled
    BY GotoPusher DEF IInv
  <1>2. Step(w, p)
    BY DEF Goto
  <1> HIDE DEF p
  <1>3. QED
    BY <1>1, <1>2, TendedRun

LEMMA TendedPusher ==
  ASSUME IInv, Tended, NEW w \in 1..Len(work), Run(w) \/ PushAccepted(w) \/ PushFailed(w)
  PROVE  Tended'
  <1>1. CASE PusherExit(w)
    BY <1>1, TendedGoto DEF PusherExit, Live
  <1>2. CASE PusherTick(w)
    BY <1>2, TendedGoto DEF PusherTick, Live
  <1>3. CASE PusherSend(w)
    BY <1>3, TendedGoto DEF PusherSend, Live
  <1>4. CASE PushAccepted(w)
    BY <1>4, TendedGoto DEF PushAccepted, Live
  <1>5. CASE PushFailed(w)
    BY <1>5, TendedGoto DEF PushFailed, Live
  <1>6. CASE PusherPull(w)
    <2> DEFINE T == Taken(work[w].sub)
               pc == IF T = {} THEN "select" ELSE "send"
               b == InOrder(T)
               p == Moved(w, pc, b)
    <2>1. TypeOK /\ msgSeq \in Nat /\ work[w].sub \in Subs
      BY WorkFields DEF IInv, Pusher
    <2>2. T \in SUBSET (1..msgSeq)
      BY <2>1 DEF Taken, TypeOK
    <2>3. b \in Seq(1..msgSeq)
      <3>1. b \in Seq(T)
        BY <2>1, <2>2, BatchOfTaken
      <3>2. QED
        BY <2>2, <3>1, SeqMonotonic
    <2>4. pc \in {"select", "send"}
      OBVIOUS
    <2>5. Step(w, p) /\ p = Moved(w, pc, b) /\ Live(w) /\ UNCHANGED <<subs, pushers, req, stop>>
      BY <1>6 DEF PusherPull, Moved, Live
    <2> HIDE DEF T, pc, b, p
    <2>6. p \in Pusher /\ p.pc = pc /\ p.sub = work[w].sub /\ p.cancelled = work[w].cancelled
      BY <2>1, <2>3, <2>4, <2>5, BatchPusher
    <2>7. QED
      BY <2>4, <2>5, <2>6, TendedRun
  <1>7. CASE PusherAck(w) \/ PusherHold(w)
    <2> DEFINE b == Tail(work[w].batch)
               pc == IF Len(work[w].batch) = 1 THEN "select" ELSE "send"
               p == Moved(w, pc, b)
    <2>1. NextOfBatch(w) /\ Live(w) /\ UNCHANGED <<subs, pushers, req, stop>> /\ work[w].pc \in {"ack", "hold"}
      BY <1>7 DEF PusherAck, PusherHold, Live
    <2>2. TypeOK /\ work[w].batch \in Seq(1..msgSeq) /\ work[w].batch # <<>>
      BY <2>1 DEF IInv, BatchHeld
    <2>3. b \in Seq(1..msgSeq)
      BY <2>2, BatchParts
    <2>4. pc \in {"select", "send"}
      OBVIOUS
    <2>5. Step(w, p) /\ p = Moved(w, pc, b)
      BY <2>1 DEF NextOfBatch, Moved
    <2> HIDE DEF pc, b, p
    <2>6. p \in Pusher /\ p.pc = pc /\ p.sub = work[w].sub /\ p.cancelled = work[w].cancelled
      BY <2>2, <2>3, <2>4, <2>5, BatchPusher
    <2>7. QED
      BY <2>1, <2>4, <2>5, <2>6, TendedRun
  <1>8. QED
    BY <1>1, <1>2, <1>3, <1>4, <1>5, <1>6, <1>7 DEF Run

(* The calls in progress are those of the only client. *)
LEMMA OnlyCall ==
  ASSUME Sequential, TypeOK, NEW c \in Clients, NEW r, Hold(c, r)
  PROVE  /\ \A op : \A s \in Subs : Calls(op, s) <=> (req[c].op = op /\ req[c].sub = s)
         /\ \A op : \A s \in Subs : Calls(op, s)' <=> (r.op = op /\ r.sub = s)
         /\ \A s \in Subs : Serving(s) = {w \in 1..Len(work) :
                /\ work[w].sub = s /\ Live(w) /\ ~work[w].cancelled
                /\ req[c].op = "cancel" => req[c].pusher # w}
         /\ \A s \in Subs : Serving(s)' = {w \in 1..Len(work') :
                /\ work'[w].sub = s /\ work'[w].pc # "done" /\ ~work'[w].cancelled
                /\ r.op = "cancel" => r.pusher # w}
  <1>1. req'[c] = r /\ \A d \in Clients : d = c
    BY DEF Hold, TypeOK, Sequential
  <1>2. QED
    BY <1>1 DEF Calls, Serving, Live

(* A call that touches neither the map nor the goroutines. *)
LEMMA TendedQuiet ==
  ASSUME Sequential, IInv, Tended, NEW c \in Clients, NEW r, Hold(c, r), UNCHANGED <<pushers, work, stop>>,
         r.op # "cancel", req[c].op \notin {"start", "stop", "cancel"},
         NEW t \in Subs, \A s \in Subs : s # t => subs'[s] = subs[s],
         r.op \in {"start", "stop"} => r.sub = t,
         r.op = "start" => subs'[t] # "none",
         r.op = "stop" => subs'[t] = "none",
         r.op = "stop" \/ subs'[t] = subs[t] \/ (subs'[t] # "none" /\ (IsPush(t)' => r.op = "start"))
  PROVE  Tended'
  <1> SUFFICES ASSUME stop = "no" PROVE Tended'
    BY DEF Tended
  <1>1. TypeOK
    BY DEF IInv
  <1>2. \A s \in Subs : ~Calls("start", s) /\ ~Calls("stop", s)
    BY <1>1, OnlyCall
  <1>3. \A op : \A s \in Subs : Calls(op, s)' <=> (r.op = op /\ r.sub = s)
    BY <1>1, OnlyCall
  <1>4. \A s \in Subs : Serving(s)' = Serving(s)
    <2>1. req'[c] = r /\ \A d \in Clients : d = c
      BY <1>1 DEF Hold, TypeOK, Sequential
    <2>2. QED
      BY <2>1 DEF Serving, Live
  <1>5. ASSUME NEW s \in Subs
        PROVE  /\ pushers[s] # 0 => work[pushers[s]].sub = s /\ subs[s] # "none" /\ pushers[s] \in Serving(s)
               /\ pushers[s] = 0 => ~IsPush(s)
    BY <1>2 DEF Tended
  <1>6. ASSUME NEW s \in Subs, s # t PROVE ~Calls("start", s)' /\ ~Calls("stop", s)' /\ subs'[s] = subs[s]
    BY <1>3, <1>6
  <1>7. /\ Calls("start", t)' => subs'[t] # "none"
        /\ Calls("stop", t)' => subs'[t] = "none"
        /\ pushers[t] # 0 /\ subs'[t] = "none" => Calls("stop", t)'
        /\ pushers[t] = 0 /\ IsPush(t)' => Calls("start", t)'
    <2>1. PushAssumption
      BY PushAssumption
    <2>2. r.op = "stop" => ~IsPush(t)'
      BY <2>1 DEF IsPush, PushAssumption
    <2>3. subs'[t] = subs[t] => (IsPush(t)' <=> IsPush(t))
      BY DEF IsPush
    <2>4. QED
      BY <1>3, <1>5, <2>2, <2>3
  <1>8. QED
    BY <1>4, <1>5, <1>6, <1>7 DEF Tended, IsPush

LEMMA TendedBegin ==
  ASSUME Sequential, IInv, Tended, NEW c \in Clients, Begin(c)
  PROVE  Tended'
  <1>1. TypeOK /\ (Idle(c) => req[c].op = "none") /\ PushAssumption
    BY CallFields, PushAssumption DEF IInv
  <1>2. subs \in [Subs -> Endpoints \cup {"pull", "none"}]
    BY <1>1 DEF TypeOK
  <1>3. ASSUME NEW s \in Subs, NEW cfg \in Endpoints \cup {"pull"}, PutSubscription(c, s, cfg) PROVE Tended'
    <2> DEFINE r == IF cfg = "pull" THEN NoReq ELSE [op |-> "start", sub |-> s, ep |-> cfg]
    <2>1. /\ Hold(c, r) /\ UNCHANGED <<pushers, work, stop>> /\ req[c].op = "none"
          /\ subs'[s] = cfg /\ \A t \in Subs : t # s => subs'[t] = subs[t]
      BY <1>1, <1>2, <1>3 DEF PutSubscription
    <2>2. /\ r.op \in {"none", "start"} /\ (r.op = "start" => r.sub = s)
          /\ cfg # "none" /\ (cfg \in Endpoints => r.op = "start")
      BY <1>1 DEF NoReq, PushAssumption
    <2> HIDE DEF r
    <2>3. QED
      BY <2>1, <2>2, TendedQuiet DEF IsPush
  <1>4. ASSUME NEW s \in Subs, DeleteSubscription(c, s) PROVE Tended'
    <2> DEFINE r == [op |-> "stop", sub |-> s]
    <2>1. /\ Hold(c, r) /\ UNCHANGED <<pushers, work, stop>> /\ req[c].op = "none"
          /\ subs'[s] = "none" /\ \A t \in Subs : t # s => subs'[t] = subs[t]
      BY <1>1, <1>2, <1>4 DEF DeleteSubscription
    <2>2. r.op = "stop" /\ r.sub = s
      OBVIOUS
    <2> HIDE DEF r
    <2>3. QED
      BY <2>1, <2>2, TendedQuiet
  <1>5. ASSUME NEW s \in Subs, PublishMessages(c, s) PROVE Tended'
    <2> DEFINE r == [op |-> "enqueue", sub |-> s]
    <2>1. Hold(c, r) /\ UNCHANGED <<subs, pushers, work, stop>> /\ req[c].op = "none"
      BY <1>1, <1>5 DEF PublishMessages
    <2>2. r.op = "enqueue"
      OBVIOUS
    <2> HIDE DEF r
    <2>3. QED
      BY <2>1, <2>2, TendedQuiet
  <1>6. QED
    BY <1>3, <1>4, <1>5 DEF Begin

LEMMA TendedContinue ==
  ASSUME Sequential, IInv, Tended, NEW c \in Clients, Continue(c)
  PROVE  Tended'
  <1>1. /\ TypeOK /\ Len(work) \in Nat /\ work \in Seq(Pusher) /\ pushers \in [Subs -> 0..Len(work)]
        /\ NoReq.op = "none"
    BY WorkFields DEF IInv, TypeOK, NoReq
  <1>2. CASE DropQueue(c) \/ PublishEnqueue(c)
    <2>1. /\ Hold(c, NoReq) /\ UNCHANGED <<subs, pushers, work, stop>> /\ req[c].op \in {"drop", "enqueue"}
          /\ req[c].sub \in Subs
      BY <1>1, <1>2, CallFields DEF DropQueue, PublishEnqueue
    <2>2. QED
      BY <1>1, <2>1, TendedQuiet
  <1>3. CASE StartPusher(c)
    <2> SUFFICES ASSUME stop = "no" PROVE Tended'
      BY <1>3 DEF Tended, StartPusher
    <2>0. PICK s \in Subs : s = req[c].sub
      BY <1>1, <1>3, CallFields DEF StartPusher
    <2> DEFINE n == Len(work) + 1
               p == [sub |-> s, ep |-> req[c].ep, cancelled |-> FALSE, pc |-> "select", batch |-> <<>>]
    <2>1. /\ s \in Subs /\ req[c].op = "start" /\ req[c].ep \in Endpoints
          /\ Hold(c, NoReq) /\ UNCHANGED <<subs, stop>>
          /\ \/ pushers[s] # 0 /\ pushers' = pushers /\ work' = work
             \/ pushers[s] = 0 /\ work' = Append(work, p) /\ pushers' = [pushers EXCEPT ![s] = n]
      BY <1>1, <1>3, <2>0, CallFields DEF StartPusher
    <2>2. p \in Pusher /\ p.sub = s /\ p.pc = "select" /\ p.cancelled = FALSE
      BY <2>1 DEF Pusher
    <2> HIDE DEF p
    <2>3. \A t \in Subs : /\ ~Calls("stop", t) /\ (Calls("start", t) <=> t = s)
                          /\ ~Calls("start", t)' /\ ~Calls("stop", t)'
      BY <1>1, <2>0, <2>1, OnlyCall
    <2>4. \A t \in Subs : \A w \in Serving(t) : w \in 1..Len(work) /\ work[w].sub = t /\ Live(w) /\ ~work[w].cancelled
      BY DEF Serving
    <2>5. \A t \in Subs : \A w \in 1..Len(work') :
             work'[w].sub = t /\ work'[w].pc # "done" /\ ~work'[w].cancelled => w \in Serving(t)'
      BY <1>1, <2>1, OnlyCall
    <2>6. ASSUME NEW t \in Subs
          PROVE  /\ pushers[t] # 0 => /\ pushers[t] \in 1..Len(work) /\ work[pushers[t]].sub = t
                                      /\ subs[t] # "none" /\ pushers[t] \in Serving(t)
                 /\ pushers[t] = 0 /\ IsPush(t) => t = s
      BY <1>1, <2>3 DEF Tended
    <2>7. CASE pushers[s] # 0 /\ pushers' = pushers /\ work' = work
      <3>1. \A t \in Subs : pushers[t] # 0 => pushers[t] \in Serving(t)'
        BY <2>4, <2>5, <2>6, <2>7 DEF Live
      <3>2. QED
        BY <2>1, <2>3, <2>6, <2>7, <3>1 DEF Tended, IsPush
    <2>8. CASE pushers[s] = 0 /\ work' = Append(work, p) /\ pushers' = [pushers EXCEPT ![s] = n]
      <3>1. /\ Len(work') = n /\ work'[n] = p /\ n # 0 /\ n \in 1..Len(work')
            /\ \A v \in 1..Len(work) : work'[v] = work[v] /\ v \in 1..Len(work')
        BY <1>1, <2>2, <2>8
      <3> HIDE DEF n
      <3>2. pushers'[s] = n /\ \A t \in Subs : t # s => pushers'[t] = pushers[t]
        BY <1>1, <2>1, <2>8
      <3>3. pushers'[s] \in Serving(s)' /\ work'[pushers'[s]].sub = s
        BY <2>1, <2>2, <2>5, <3>1, <3>2
      <3>4. ASSUME NEW t \in Subs, t # s, pushers[t] # 0
            PROVE  pushers'[t] \in Serving(t)' /\ work'[pushers'[t]].sub = t
        <4>1. pushers[t] \in 1..Len(work) /\ work[pushers[t]].sub = t /\ Live(pushers[t]) /\ ~work[pushers[t]].cancelled
          BY <2>4, <2>6, <3>4
        <4>2. QED
          BY <2>5, <3>1, <3>2, <3>4, <4>1 DEF Live
      <3>5. subs[s] # "none"
        BY <2>1, <2>3 DEF Tended
      <3>6. QED
        BY <2>1, <2>3, <2>6, <3>1, <3>2, <3>3, <3>4, <3>5 DEF Tended, IsPush
    <2>9. QED
      BY <2>1, <2>7, <2>8
  <1>4. CASE StopPusher(c)
    <2> SUFFICES ASSUME stop = "no" PROVE Tended'
      BY <1>4 DEF Tended, StopPusher
    <2> DEFINE s == req[c].sub
               r == IF pushers[s] = 0 THEN [op |-> "drop", sub |-> s]
                    ELSE [op |-> "cancel", sub |-> s, pusher |-> pushers[s]]
    <2>1. /\ s \in Subs /\ req[c].op = "stop" /\ Hold(c, r) /\ UNCHANGED <<subs, work, stop>>
          /\ pushers' = [pushers EXCEPT ![s] = 0]
      BY <1>1, <1>4, CallFields DEF StopPusher
    <2>2. /\ r.op \in {"drop", "cancel"}
          /\ r.op = "cancel" => r.pusher = pushers[s] /\ pushers[s] # 0
      OBVIOUS
    <2> HIDE DEF s, r
    <2>3. \A t \in Subs : /\ ~Calls("start", t) /\ (Calls("stop", t) <=> t = s)
                          /\ ~Calls("start", t)' /\ ~Calls("stop", t)'
      BY <1>1, <2>1, <2>2, OnlyCall DEF s
    <2>4. pushers'[s] = 0 /\ \A t \in Subs : t # s => pushers'[t] = pushers[t]
      BY <1>1, <2>1
    <2>5. subs[s] = "none" /\ ~IsPush(s)
      BY <2>1, <2>3, PushAssumption DEF Tended, IsPush
    <2>6. ASSUME NEW t \in Subs, t # s, pushers[t] # 0
          PROVE  work[pushers[t]].sub = t /\ subs[t] # "none" /\ pushers[t] \in Serving(t)'
      <3>1. work[pushers[t]].sub = t /\ subs[t] # "none" /\ pushers[t] \in Serving(t)
        BY <2>3, <2>6 DEF Tended
      <3>2. r.op = "cancel" => work[r.pusher].sub = s
        BY <2>1, <2>2 DEF Tended
      <3>3. QED
        BY <1>1, <2>1, <2>6, <3>1, <3>2, OnlyCall DEF Live
    <2>7. \A t \in Subs : t # s /\ pushers[t] = 0 => ~IsPush(t)
      BY <2>3 DEF Tended
    <2>8. QED
      BY <2>1, <2>3, <2>4, <2>5, <2>6, <2>7 DEF Tended, IsPush
  <1>5. CASE CancelPusher(c)
    <2> SUFFICES ASSUME stop = "no" PROVE Tended'
      BY <1>5 DEF Tended, CancelPusher
    <2> DEFINE s == req[c].sub
               x == req[c].pusher
               r == [op |-> "drop", sub |-> s]
    <2>1. /\ s \in Subs /\ req[c].op = "cancel" /\ Hold(c, r) /\ UNCHANGED <<subs, pushers, stop>>
          /\ work' = [work EXCEPT ![x].cancelled = TRUE]
      BY <1>1, <1>5, CallFields DEF CancelPusher
    <2>2. r.op = "drop"
      OBVIOUS
    <2> HIDE DEF s, r, x
    <2>3. Len(work') = Len(work) /\ \A w \in 1..Len(work) : /\ w # x => work'[w] = work[w]
                                                            /\ work'[w].sub = work[w].sub
      BY <1>1, <2>1 DEF Pusher
    <2>4. \A t \in Subs : /\ ~Calls("start", t) /\ ~Calls("stop", t)
                          /\ ~Calls("start", t)' /\ ~Calls("stop", t)'
      BY <1>1, <2>1, <2>2, OnlyCall
    <2>5. ASSUME NEW t \in Subs
          PROVE  /\ pushers[t] # 0 => /\ pushers[t] \in 1..Len(work) /\ work[pushers[t]].sub = t
                                      /\ subs[t] # "none" /\ pushers[t] \in Serving(t)
                 /\ pushers[t] = 0 => ~IsPush(t)
      BY <1>1, <2>4 DEF Tended
    <2>6. \A t \in Subs : \A w \in Serving(t) : w \in Serving(t)'
      <3>1. \A t \in Subs : \A w \in Serving(t) :
               w \in 1..Len(work) /\ w # x /\ work[w].sub = t /\ work[w].pc # "done" /\ ~work[w].cancelled
        BY <1>1, <2>1, OnlyCall DEF Live, x
      <3>2. QED
        BY <1>1, <2>1, <2>2, <2>3, <3>1, OnlyCall
    <2>7. QED
      BY <2>1, <2>3, <2>4, <2>5, <2>6 DEF Tended, IsPush
  <1>6. QED
    BY <1>2, <1>3, <1>4, <1>5 DEF Continue

LEMMA TendedStep == Sequential /\ IInv /\ Tended /\ [Next]_vars => Tended'
  <1> SUFFICES ASSUME Sequential, IInv, Tended, [Next]_vars PROVE Tended'
    OBVIOUS
  <1>1. CASE UNCHANGED <<subs, pushers, work, req, stop>>
    BY <1>1 DEF Tended, Calls, Serving, Live, IsPush
  <1>2. CASE StopCancel \/ StopReturn
    BY <1>2 DEF Tended, StopCancel, StopReturn
  <1>3. ASSUME NEW m \in 1..MaxMsgs, Expire(m) PROVE Tended'
    BY <1>1, <1>3 DEF Expire
  <1>4. ASSUME NEW s \in Subs, ResetSubscription(s) PROVE Tended'
    BY <1>4 DEF ResetSubscription, Sequential
  <1>5. CASE UNCHANGED vars
    BY <1>1, <1>5 DEF vars
  <1>6. QED
    BY <1>2, <1>3, <1>4, <1>5, TendedPusher, TendedBegin, TendedContinue DEF Next

(* Where one client calls at a time and nothing is reset, a push             *)
(* subscription has a goroutine that serves it whenever no call is in        *)
(* progress: startPusher, stopPusher and the ways out of runPusher leave no  *)
(* entry of the map behind that would keep the next one from starting        *)
(* (PushSubHasPusher).                                                       *)
THEOREM PushSubsAreServed == Sequential /\ Spec => []PushSubHasPusher
  <1>1. IInv /\ Tended => PushSubHasPusher
    <2> SUFFICES ASSUME Tended, stop = "no", \A c \in Clients : Idle(c), NEW s \in Subs, IsPush(s)
                 PROVE  Serving(s) # {}
      BY DEF PushSubHasPusher
    <2>1. ~Calls("start", s) /\ subs[s] # "none"
      BY PushAssumption DEF Calls, Idle, NoReq, IsPush
    <2>2. QED
      BY <2>1 DEF Tended
  <1>2. SUFFICES ASSUME Sequential PROVE Spec => []PushSubHasPusher
    OBVIOUS
  <1>3. IInv /\ Tended /\ [Next]_vars => Tended'
    BY <1>2, TendedStep
  <1>4. QED
    BY Invariance, TendedInit, <1>1, <1>3, PTL DEF Spec
=============================================================================
