----------------------------- MODULE AtLeastOnce -----------------------------
(***************************************************************************)
(* What a Pub/Sub subscription promises, without queues, clocks or locks:  *)
(* a published message is owed to the subscription until the holder of its *)
(* current lease acknowledges it or the subscription's queue is dropped.   *)
(***************************************************************************)
EXTENDS Naturals, FiniteSets

CONSTANTS Subs, Msgs, Acks

VARIABLES outbox,     \* the messages owed to each subscription
          lease,      \* for each leased message, the ack id that may consume it
          published,  \* message ids handed out by publish so far
          issued      \* ack ids handed to receivers so far

vars == <<outbox, lease, published, issued>>

Lease == [sub : Subs, msg : Msgs, ack : Acks]

Init ==
    /\ outbox = [s \in Subs |-> {}]
    /\ lease = {} /\ published = {} /\ issued = {}

(* The fresh messages M become owed to every subscription of S. *)
Publish(S, M) ==
    /\ outbox' = [s \in Subs |-> IF s \in S THEN outbox[s] \cup M ELSE outbox[s]]
    /\ published' = published \cup M
    /\ UNCHANGED <<lease, issued>>

(* The owed messages T of s go out, each under an ack id nobody has seen;   *)
(* an earlier lease of the same message is void from here on.               *)
Deliver(s, T, ack) ==
    /\ \A m, n \in T : ack[m] = ack[n] => m = n
    /\ lease' = {l \in lease : ~(l.sub = s /\ l.msg \in T)}
                  \cup {[sub |-> s, msg |-> m, ack |-> ack[m]] : m \in T}
    /\ issued' = issued \cup {ack[m] : m \in T}
    /\ UNCHANGED <<outbox, published>>

Named(s, A) == {l \in lease : l.sub = s /\ l.ack \in A}

(* An acknowledgement consumes what its ack ids currently lease, no more. *)
Acknowledge(s, A) ==
    /\ outbox' = [outbox EXCEPT ![s] = @ \ {l.msg : l \in Named(s, A)}]
    /\ lease' = lease \ Named(s, A)
    /\ UNCHANGED <<published, issued>>

Nack(s, A) ==
    /\ lease' = lease \ Named(s, A)
    /\ UNCHANGED <<outbox, published, issued>>

Drop(s) ==
    /\ outbox' = [outbox EXCEPT ![s] = {}]
    /\ lease' = {l \in lease : l.sub # s}
    /\ UNCHANGED <<published, issued>>

Next ==
    \/ \E S \in SUBSET Subs, M \in SUBSET (Msgs \ published) : Publish(S, M)
    \/ \E s \in Subs :
          \/ \E T \in SUBSET outbox[s] :
                \E ack \in [T -> Acks \ issued] : Deliver(s, T, ack)
          \/ \E A \in SUBSET issued : Acknowledge(s, A) \/ Nack(s, A)
          \/ Drop(s)

Spec == Init /\ [][Next]_vars
=============================================================================
