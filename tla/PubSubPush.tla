----------------------------- MODULE PubSubPush -----------------------------
(***************************************************************************)
(* Push delivery of the Pub/Sub service: the subscriptions in the store,   *)
(* the map pushers from a subscription to the cancel function of its       *)
(* delivery goroutine, the goroutines themselves (runPusher), the API      *)
(* calls that start and stop them, /admin/reset and Service.Stop.          *)
(*                                                                         *)
(* The lease protocol is the subject of PubSub.  Here a queued message has *)
(* a lease [by, over]: the pusher whose pull handed it out (0: none) and   *)
(* whether the deadline has passed.  How long a lease or the back-off      *)
(* lasts is left open.  Messages are numbered in the order of the queue.   *)
(***************************************************************************)
EXTENDS Integers, Sequences, FiniteSets

CONSTANTS Subs,        \* subscription names
          Endpoints,   \* push endpoints
          Clients,     \* goroutines that serve an API call
          PullLimit,   \* messages one poll takes (10 in the code)
          MayReset,    \* whether /admin/reset is called
          MaxPushers,  \* bound on the pusher goroutines ever started
          MaxMsgs      \* bound on the messages ever published

ASSUME PushAssumption ==
    /\ PullLimit \in Nat \ {0} /\ MayReset \in BOOLEAN
    /\ MaxPushers \in Nat /\ MaxMsgs \in Nat
    /\ IsFiniteSet(Clients)
    /\ "none" \notin Endpoints /\ "pull" \notin Endpoints

VARIABLES subs,      \* pubsub/subscriptions: the endpoint, "pull" or "none"
          pushers,   \* Service.pushers: the goroutine registered, 0 for none
          work,      \* the pusher goroutines started so far, in order
          queue,     \* Service.queues
          lease,     \* the lease of every message
          msgSeq,    \* messages enqueued so far
          req,       \* what the API goroutines still have to do
          stop,      \* Service.Stop: "no", "waiting" or "returned"
          accepted,  \* history: messages an endpoint answered with 2xx
          dropped    \* history: messages deleted with their subscription

vars == <<subs, pushers, work, queue, lease, msgSeq, req, stop, accepted, dropped>>

NoReq == [op |-> "none"]

Pusher == [sub : Subs, ep : Endpoints, cancelled : BOOLEAN, batch : Seq(1..MaxMsgs),
           pc : {"select", "pull", "send", "post", "ack", "hold", "done"}]

IsPush(s) == subs[s] \in Endpoints

Live(w) == work[w].pc # "done"

(* The context of a pusher is a child of the one Service.Stop cancels. *)
Cancelled(w) == work[w].cancelled \/ stop # "no"

Idle(c) == req[c] = NoReq

Hold(c, r) == req' = [req EXCEPT ![c] = r]

-----------------------------------------------------------------------------
(* API calls.  CreateSubscription and REST PUT store the subscription and   *)
(* then call startPusher, which does nothing when the name is registered.   *)
Pending(op) == Cardinality({c \in Clients : req[c].op = op})

PutSubscription(c, s, cfg) ==
    /\ Idle(c)
    /\ Len(work) + Pending("start") < MaxPushers
    /\ subs' = [subs EXCEPT ![s] = cfg]
    /\ Hold(c, IF cfg = "pull" THEN NoReq ELSE [op |-> "start", sub |-> s, ep |-> cfg])
    /\ UNCHANGED <<pushers, work, queue, lease, msgSeq, stop, accepted, dropped>>

(* Mutant: startPusher does not look whether a pusher is registered. *)
StartPusherAgain(c) ==
    /\ req[c].op = "start"
    /\ LET s == req[c].sub
       IN /\ work' = Append(work, [sub |-> s, ep |-> req[c].ep, cancelled |-> FALSE,
                                   pc |-> "select", batch |-> <<>>])
          /\ pushers' = [pushers EXCEPT ![s] = Len(work) + 1]
    /\ Hold(c, NoReq)
    /\ UNCHANGED <<subs, queue, lease, msgSeq, stop, accepted, dropped>>

(* Mutant: the pusher is registered but its goroutine is not started. *)
StartPusherNoGo(c) ==
    /\ req[c].op = "start"
    /\ pushers' = [pushers EXCEPT ![req[c].sub] = Len(work) + 1]
    /\ Hold(c, NoReq)
    /\ UNCHANGED <<subs, work, queue, lease, msgSeq, stop, accepted, dropped>>

StartPusher(c) ==
    /\ req[c].op = "start"
    /\ LET s == req[c].sub IN
       \/ pushers[s] # 0 /\ UNCHANGED <<pushers, work>>
       \/ /\ pushers[s] = 0
          /\ work' = Append(work, [sub |-> s, ep |-> req[c].ep, cancelled |-> FALSE,
                                   pc |-> "select", batch |-> <<>>])
          /\ pushers' = [pushers EXCEPT ![s] = Len(work) + 1]
    /\ Hold(c, NoReq)
    /\ UNCHANGED <<subs, queue, lease, msgSeq, stop, accepted, dropped>>

(* DeleteSubscription: the store, the map, the context, the queue. *)
DeleteSubscription(c, s) ==
    /\ Idle(c)
    /\ subs[s] # "none"
    /\ subs' = [subs EXCEPT ![s] = "none"]
    /\ Hold(c, [op |-> "stop", sub |-> s])
    /\ UNCHANGED <<pushers, work, queue, lease, msgSeq, stop, accepted, dropped>>

(* Mutant: the pusher is cancelled but stays in the map. *)
StopPusherKeepsEntry(c) ==
    /\ req[c].op = "stop"
    /\ LET s == req[c].sub
       IN Hold(c, IF pushers[s] = 0 THEN [op |-> "drop", sub |-> s]
                  ELSE [op |-> "cancel", sub |-> s, pusher |-> pushers[s]])
    /\ UNCHANGED <<subs, pushers, work, queue, lease, msgSeq, stop, accepted, dropped>>

StopPusher(c) ==
    /\ req[c].op = "stop"
    /\ LET s == req[c].sub
       IN /\ pushers' = [pushers EXCEPT ![s] = 0]
          /\ Hold(c, IF pushers[s] = 0 THEN [op |-> "drop", sub |-> s]
                     ELSE [op |-> "cancel", sub |-> s, pusher |-> pushers[s]])
    /\ UNCHANGED <<subs, work, queue, lease, msgSeq, stop, accepted, dropped>>

CancelPusher(c) ==
    /\ req[c].op = "cancel"
    /\ work' = [work EXCEPT ![req[c].pusher].cancelled = TRUE]
    /\ Hold(c, [op |-> "drop", sub |-> req[c].sub])
    /\ UNCHANGED <<subs, pushers, queue, lease, msgSeq, stop, accepted, dropped>>

DropQueue(c) ==
    /\ req[c].op = "drop"
    /\ dropped' = dropped \cup queue[req[c].sub]
    /\ queue' = [queue EXCEPT ![req[c].sub] = {}]
    /\ Hold(c, NoReq)
    /\ UNCHANGED <<subs, pushers, work, lease, msgSeq, stop, accepted>>

(* PublishMessages finds the subscription and appends in a later step. *)
PublishMessages(c, s) ==
    /\ Idle(c)
    /\ subs[s] # "none"
    /\ msgSeq + Pending("enqueue") < MaxMsgs
    /\ Hold(c, [op |-> "enqueue", sub |-> s])
    /\ UNCHANGED <<subs, pushers, work, queue, lease, msgSeq, stop, accepted, dropped>>

PublishEnqueue(c) ==
    /\ req[c].op = "enqueue"
    /\ msgSeq' = msgSeq + 1
    /\ queue' = [queue EXCEPT ![req[c].sub] = @ \cup {msgSeq + 1}]
    /\ Hold(c, NoReq)
    /\ UNCHANGED <<subs, pushers, work, lease, stop, accepted, dropped>>

(* /admin/reset deletes the key and knows neither the map nor the queue. *)
ResetSubscription(s) ==
    /\ MayReset
    /\ subs[s] # "none"
    /\ subs' = [subs EXCEPT ![s] = "none"]
    /\ UNCHANGED <<pushers, work, queue, lease, msgSeq, req, stop, accepted, dropped>>

-----------------------------------------------------------------------------
(* The goroutine runPusher. *)
Step(w, p) == work' = [work EXCEPT ![w] = p]

Goto(w, pc) == Step(w, [work[w] EXCEPT !.pc = pc])

(* Mutant: the pusher's context is not derived from the service's. *)
PusherExitIgnoresStop(w) ==
    /\ work[w].pc = "select"
    /\ work[w].cancelled
    /\ Goto(w, "done")
    /\ UNCHANGED <<subs, pushers, queue, lease, msgSeq, req, stop, accepted, dropped>>

(* The select, when the context is done. *)
PusherExit(w) ==
    /\ work[w].pc = "select"
    /\ Cancelled(w)
    /\ Goto(w, "done")
    /\ UNCHANGED <<subs, pushers, queue, lease, msgSeq, req, stop, accepted, dropped>>

(* The select, when the ticker has fired (both may be ready: either branch    *)
(* runs), and the reads of the subscription by subAckSeconds and PullMessages *)
(* that end the goroutine when it is gone, its map entry left behind.         *)
PusherTick(w) ==
    /\ work[w].pc = "select"
    /\ Goto(w, IF subs[work[w].sub] = "none" THEN "done" ELSE "pull")
    /\ UNCHANGED <<subs, pushers, queue, lease, msgSeq, req, stop, accepted, dropped>>

Available(m) == lease[m].by = 0 \/ lease[m].over

Rank(S, m) == Cardinality({k \in S : k <= m})

InOrder(S) == [i \in 1..Cardinality(S) |-> CHOOSE m \in S : Rank(S, m) = i]

(* The first PullLimit available messages of the queue. *)
Taken(s) ==
    LET avail == {m \in queue[s] : Available(m)}
    IN {m \in avail : Rank(avail, m) <= PullLimit}

(* The critical section of PullMessages. *)
PusherPull(w) ==
    /\ work[w].pc = "pull"
    /\ LET taken == Taken(work[w].sub)
       IN /\ lease' = [m \in 1..MaxMsgs |->
                          IF m \in taken THEN [by |-> w, over |-> FALSE] ELSE lease[m]]
          /\ Step(w, [work[w] EXCEPT !.pc = IF taken = {} THEN "select" ELSE "send",
                                     !.batch = InOrder(taken)])
    /\ UNCHANGED <<subs, pushers, queue, msgSeq, req, stop, accepted, dropped>>

(* The context check before every delivery. *)
PusherSend(w) ==
    /\ work[w].pc = "send"
    /\ Goto(w, IF Cancelled(w) THEN "done" ELSE "post")
    /\ UNCHANGED <<subs, pushers, queue, lease, msgSeq, req, stop, accepted, dropped>>

(* deliver: the endpoint answers 2xx, ... *)
PushAccepted(w) ==
    /\ work[w].pc = "post"
    /\ accepted' = accepted \cup {Head(work[w].batch)}
    /\ Goto(w, "ack")
    /\ UNCHANGED <<subs, pushers, queue, lease, msgSeq, req, stop, dropped>>

(* ... or answers otherwise, or the call fails, the message having reached *)
(* the endpoint or not (a cancelled context and the 5 s timeout included). *)
PushFailed(w) ==
    /\ work[w].pc = "post"
    /\ accepted' \in {accepted, accepted \cup {Head(work[w].batch)}}
    /\ Goto(w, "hold")
    /\ UNCHANGED <<subs, pushers, queue, lease, msgSeq, req, stop, dropped>>

NextOfBatch(w) ==
    Step(w, [work[w] EXCEPT !.pc = IF Len(work[w].batch) = 1 THEN "select" ELSE "send",
                            !.batch = Tail(@)])

(* Acknowledge: an error for a subscription that is gone is ignored; an ack *)
(* id that a later pull has replaced consumes nothing.                      *)
PusherAck(w) ==
    /\ work[w].pc = "ack"
    /\ LET s == work[w].sub
           m == Head(work[w].batch)
       IN queue' = IF subs[s] # "none" /\ lease[m].by = w
                   THEN [queue EXCEPT ![s] = @ \ {m}] ELSE queue
    /\ NextOfBatch(w)
    /\ UNCHANGED <<subs, pushers, lease, msgSeq, req, stop, accepted, dropped>>

(* Mutant: a failed delivery is acknowledged like a successful one. *)
PusherHoldAcks(w) ==
    /\ work[w].pc = "hold"
    /\ LET s == work[w].sub
           m == Head(work[w].batch)
       IN queue' = IF subs[s] # "none" /\ lease[m].by = w
                   THEN [queue EXCEPT ![s] = @ \ {m}] ELSE queue
    /\ NextOfBatch(w)
    /\ UNCHANGED <<subs, pushers, lease, msgSeq, req, stop, accepted, dropped>>

(* Mutant: the goroutine gives up after the first failed delivery. *)
PusherHoldGivesUp(w) ==
    /\ work[w].pc = "hold"
    /\ Goto(w, "done")
    /\ UNCHANGED <<subs, pushers, queue, lease, msgSeq, req, stop, accepted, dropped>>

(* ModifyAckDeadline with the back-off, at least one second: never a nack. *)
PusherHold(w) ==
    /\ work[w].pc = "hold"
    /\ LET m == Head(work[w].batch)
       IN lease' = IF subs[work[w].sub] # "none" /\ lease[m].by = w
                   THEN [lease EXCEPT ![m].over = FALSE] ELSE lease
    /\ NextOfBatch(w)
    /\ UNCHANGED <<subs, pushers, queue, msgSeq, req, stop, accepted, dropped>>

Expire(m) ==
    /\ lease[m].by # 0 /\ ~lease[m].over
    /\ \E s \in Subs : m \in queue[s]
    /\ lease' = [lease EXCEPT ![m].over = TRUE]
    /\ UNCHANGED <<subs, pushers, work, queue, msgSeq, req, stop, accepted, dropped>>

-----------------------------------------------------------------------------
(* Service.Stop cancels every context, then waits for the goroutines.  The *)
(* API is still being served: the gateway stops its HTTP server later.     *)
StopCancel ==
    /\ stop = "no"
    /\ stop' = "waiting"
    /\ UNCHANGED <<subs, pushers, work, queue, lease, msgSeq, req, accepted, dropped>>

(* Mutant: Stop does not wait for the goroutines. *)
StopReturnsAtOnce ==
    /\ stop = "waiting"
    /\ stop' = "returned"
    /\ UNCHANGED <<subs, pushers, work, queue, lease, msgSeq, req, accepted, dropped>>

StopReturn ==
    /\ stop = "waiting"
    /\ \A w \in 1..Len(work) : ~Live(w)
    /\ stop' = "returned"
    /\ UNCHANGED <<subs, pushers, work, queue, lease, msgSeq, req, accepted, dropped>>

-----------------------------------------------------------------------------
Init ==
    /\ subs = [s \in Subs |-> "none"]
    /\ pushers = [s \in Subs |-> 0]
    /\ work = <<>>
    /\ queue = [s \in Subs |-> {}]
    /\ lease = [m \in 1..MaxMsgs |-> [by |-> 0, over |-> FALSE]]
    /\ msgSeq = 0
    /\ req = [c \in Clients |-> NoReq]
    /\ stop = "no"
    /\ accepted = {} /\ dropped = {}

Begin(c) ==
    \E s \in Subs :
        \/ \E cfg \in Endpoints \cup {"pull"} : PutSubscription(c, s, cfg)
        \/ DeleteSubscription(c, s)
        \/ PublishMessages(c, s)

Continue(c) ==
    \/ StartPusher(c)
    \/ StopPusher(c)
    \/ CancelPusher(c)
    \/ DropQueue(c)
    \/ PublishEnqueue(c)

(* Every step of the goroutine but the answer of the endpoint. *)
Run(w) ==
    \/ PusherExit(w)
    \/ PusherTick(w)
    \/ PusherPull(w)
    \/ PusherSend(w)
    \/ PusherAck(w)
    \/ PusherHold(w)

Next ==
    \/ \E c \in Clients : Begin(c) \/ Continue(c)
    \/ \E s \in Subs : ResetSubscription(s)
    \/ \E w \in 1..Len(work) : Run(w) \/ PushAccepted(w) \/ PushFailed(w)
    \/ \E m \in 1..MaxMsgs : Expire(m)
    \/ StopCancel \/ StopReturn

Spec == Init /\ [][Next]_vars

Started(w) == w \in 1..Len(work)

(* The scheduler runs every goroutine; a select whose channels are both      *)
(* ready picks one at random, so it cannot ignore the context for ever; the  *)
(* HTTP client returns within its timeout; an endpoint that is asked again   *)
(* and again is assumed to answer 2xx in the end; deadlines pass.            *)
Fairness ==
    /\ \A c \in Clients : WF_vars(Continue(c))
    /\ \A w \in 1..MaxPushers :
          /\ WF_vars(Started(w) /\ Run(w))
          /\ WF_vars(Started(w) /\ (PushAccepted(w) \/ PushFailed(w)))
          /\ SF_vars(Started(w) /\ PusherExit(w))
          /\ SF_vars(Started(w) /\ PushAccepted(w))
    /\ \A m \in 1..MaxMsgs : WF_vars(Expire(m))
    /\ WF_vars(StopReturn)

-----------------------------------------------------------------------------
(* Properties. *)

Request ==
    {NoReq}
    \cup [op : {"start"}, sub : Subs, ep : Endpoints]
    \cup [op : {"stop", "drop", "enqueue"}, sub : Subs]
    \cup [op : {"cancel"}, sub : Subs, pusher : 1..MaxPushers]

TypeOK ==
    /\ subs \in [Subs -> Endpoints \cup {"pull", "none"}]
    /\ work \in Seq(Pusher) /\ Len(work) <= MaxPushers
    /\ pushers \in [Subs -> 0..Len(work)]
    /\ queue \in [Subs -> SUBSET (1..msgSeq)]
    /\ lease \in [1..MaxMsgs -> [by : 0..Len(work), over : BOOLEAN]]
    /\ msgSeq \in 0..MaxMsgs
    /\ req \in [Clients -> Request]
    /\ stop \in {"no", "waiting", "returned"}
    /\ accepted \subseteq 1..msgSeq /\ dropped \subseteq 1..msgSeq

(* The pushers of s that nobody has cancelled or is about to cancel. *)
Serving(s) ==
    {w \in 1..Len(work) :
        /\ work[w].sub = s /\ Live(w) /\ ~work[w].cancelled
        /\ \A c \in Clients : req[c].op = "cancel" => req[c].pusher # w}

(* One delivery goroutine per push subscription: calls of startPusher and   *)
(* stopPusher in any order never leave two of them serving the same name,   *)
(* and the one that serves is the one stopPusher would find in the map.     *)
OnePusher ==
    \A s \in Subs : Serving(s) \subseteq {pushers[s]}

(* The state of the pushers has its shape and a subscription one goroutine:  *)
(* an entry of the map that names no goroutine, or a goroutine the map does  *)
(* not name, could not be stopped (startPusher, stopPusher).                 *)
PushInv == TypeOK /\ OnePusher

(* A message leaves the queue of a push subscription only after an endpoint *)
(* answered 2xx or with its subscription, whatever pushers, calls and       *)
(* expired leases overlap (runPusher, deliver).                             *)
NoSilentDrop ==
    \A m \in 1..msgSeq :
        m \in accepted \/ m \in dropped \/ \E s \in Subs : m \in queue[s]

(* After Stop has returned no message reaches an endpoint, although the API *)
(* is still served and may start pushers (Stop, startPusher).               *)
NoPushAfterStop ==
    [][stop = "returned" => accepted' = accepted]_vars

(* A push subscription that no call is working on has a goroutine serving it, *)
(* through any series of PUT and DELETE without a reset (startPusher,         *)
(* stopPusher).                                                               *)
PushSubHasPusher ==
    stop = "no" /\ (\A c \in Clients : Idle(c)) =>
        \A s \in Subs : IsPush(s) => Serving(s) # {}

(* No message stays in the queue of a push subscription for ever: it is      *)
(* delivered and acknowledged, over any number of refusals and expired       *)
(* leases, while the subscription stays one with an endpoint and the service *)
(* runs (runPusher, deliver).                                                *)
PushDelivers ==
    \A s \in Subs : \A m \in 1..MaxMsgs :
        []<>(m \notin queue[s] \/ ~IsPush(s) \/ stop # "no")

(* Stop does not wait for ever: every pusher notices the cancelled context,  *)
(* from wherever in its loop it is, and those started meanwhile do too.      *)
StopReturns == []<>(stop # "waiting")
-----------------------------------------------------------------------------
(* The inductive invariant behind PushInv, NoSilentDrop and NoPushAfterStop. *)

(* Every call about to start a pusher, or to enqueue, has room for it. *)
CallsCounted ==
    /\ Len(work) + Pending("start") <= MaxPushers
    /\ msgSeq + Pending("enqueue") <= MaxMsgs

(* A pusher that is delivering holds published messages, and is about to *)
(* acknowledge only what an endpoint has accepted.                       *)
BatchHeld ==
    \A w \in 1..Len(work) :
        /\ work[w].batch \in Seq(1..msgSeq)
        /\ work[w].pc \in {"send", "post", "ack", "hold"} => work[w].batch # <<>>
        /\ work[w].pc = "ack" => Head(work[w].batch) \in accepted

(* A call that is to cancel a pusher names one that was started. *)
CancelsStarted ==
    \A c \in Clients : req[c].op = "cancel" => req[c].pusher <= Len(work)

(* Whatever starts after Stop has returned ends before its first delivery. *)
NobodyPosts == stop = "returned" => \A w \in 1..Len(work) : work[w].pc # "post"

IInv ==
    /\ TypeOK /\ CallsCounted /\ BatchHeld /\ CancelsStarted /\ OnePusher /\ NoSilentDrop
    /\ NobodyPosts

(* What PushSubHasPusher needs where one client calls at a time and nothing  *)
(* is reset: the entry of the map is the goroutine of its subscription, it   *)
(* runs for as long as the subscription is stored, and a push subscription   *)
(* without an entry, or an entry without a subscription, has a call that is  *)
(* about to see to it.                                                       *)
Calls(op, s) == \E c \in Clients : req[c].op = op /\ req[c].sub = s

Tended ==
    stop = "no" => \A s \in Subs :
        /\ Calls("start", s) => subs[s] # "none"
        /\ Calls("stop", s) => subs[s] = "none"
        /\ pushers[s] # 0 => work[pushers[s]].sub = s
        /\ pushers[s] # 0 /\ subs[s] = "none" => Calls("stop", s)
        /\ pushers[s] # 0 /\ subs[s] # "none" => pushers[s] \in Serving(s)
        /\ pushers[s] = 0 /\ IsPush(s) => Calls("start", s)
=============================================================================
