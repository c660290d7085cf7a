----------------------------- MODULE Firestore ------------------------------
(***************************************************************************)
(* Firestore: documents in the state store, the RPCs that change them, and *)
(* the Listen streams they are broadcast to.  Service.mu serialises the    *)
(* mutations: CreateDocument and UpdateDocument broadcast while they hold  *)
(* it, Commit after it has released it, and DeleteDocument never takes it. *)
(*                                                                         *)
(* A document is the number of the mutation that made it and whether it    *)
(* exists.  A listener has at most one target, a collection that all the   *)
(* documents are in.  Its outbox is a buffered channel that a sender       *)
(* goroutine drains onto the stream, while the reader goroutine serves the *)
(* requests of the client.  Everything that is put into an outbox goes     *)
(* through listener.send, which the writers and the readers call.          *)
(***************************************************************************)
EXTENDS Integers, Sequences, FiniteSets, SequencesExt

CONSTANTS Docs,       \* documents of one collection
          Writers,    \* goroutines that serve a mutation
          Listeners,  \* Listen streams
          Ops,        \* the mutations the writers use
          Cap,        \* capacity of the outbox, 64 in the code
          MaxWrites,  \* bound on the mutations
          MaxOps,     \* bound on the writes of a commit
          MaxAdds     \* bound on the AddTarget requests of a stream

ASSUME FirestoreAssumption ==
    /\ Ops \subseteq {"create", "update", "delete", "commit"}
    /\ Cap \in Nat \ {0} /\ MaxWrites \in Nat /\ MaxOps \in Nat /\ MaxAdds \in Nat
    /\ IsFiniteSet(Docs) /\ "free" \notin Writers /\ Writers \cap Listeners = {}

VARIABLES docs,    \* firestore/documents
          writes,  \* mutations so far
          mu,      \* the writer that holds Service.mu, or Free
          wr,      \* the writers
          lst,     \* the listeners, with their reader and sender goroutines
          out,     \* what a writer or a reader has yet to send, and to whom
          stream,  \* what the client of each listener was sent about documents
          panic    \* whether the channel done of a listener was closed twice

vars == <<docs, writes, mu, wr, lst, out, stream, panic>>

Free == "free"
None == "none"

(* A message of the stream about a document: from a snapshot, or broadcast *)
(* inside or outside the lock; and any other message (ADD, REMOVE, CURRENT, *)
(* NO_CHANGE).                                                              *)
Change(d, v, exists, from) == [doc |-> d, ver |-> v, exists |-> exists, from |-> from]
Mark == Change(None, 0, FALSE, "mark")

NewWriter == [pc |-> "idle", ops |-> <<>>, evs |-> <<>>, dels |-> <<>>, left |-> {}]

NewListener ==
    [pc |-> "off", adds |-> 0, target |-> FALSE, registered |-> FALSE,
     outbox |-> <<>>, done |-> FALSE, sender |-> "off"]

Nothing == [to |-> None, todo |-> <<>>, full |-> FALSE]
Sends(l, msgs) == [to |-> l, todo |-> msgs, full |-> FALSE]
Idle(p) == out[p].todo = <<>> /\ ~out[p].full

-----------------------------------------------------------------------------
(* Mutant: a full outbox blocks the caller. *)
SendBlocks(p) ==
    /\ out[p].todo # <<>> /\ ~out[p].full
    /\ Len(lst[out[p].to].outbox) < Cap
    /\ lst' = [lst EXCEPT ![out[p].to].outbox = Append(@, Head(out[p].todo))]
    /\ out' = [out EXCEPT ![p].todo = Tail(@)]
    /\ UNCHANGED <<docs, writes, mu, wr, stream, panic>>

(* Mutant: the outbox is not bounded. *)
SendUnbounded(p) ==
    /\ out[p].todo # <<>> /\ ~out[p].full
    /\ lst' = [lst EXCEPT ![out[p].to].outbox = Append(@, Head(out[p].todo))]
    /\ out' = [out EXCEPT ![p].todo = Tail(@)]
    /\ UNCHANGED <<docs, writes, mu, wr, stream, panic>>

(* send: the message goes into the outbox, or is dropped because the       *)
(* listener is done, or there is no room and done is to be closed, which   *)
(* is a step of its own: others may close it between the check and that.   *)
Send(p) ==
    /\ out[p].todo # <<>> /\ ~out[p].full
    /\ LET l == out[p].to
           rest == Tail(out[p].todo)
           room == Len(lst[l].outbox) < Cap
       IN \/ /\ room
             /\ lst' = [lst EXCEPT ![l].outbox = Append(@, Head(out[p].todo))]
             /\ out' = [out EXCEPT ![p].todo = rest]
          \/ /\ lst[l].done
             /\ out' = [out EXCEPT ![p].todo = rest]
             /\ UNCHANGED lst
          \/ /\ ~room /\ ~lst[l].done
             /\ out' = [out EXCEPT ![p].todo = rest, ![p].full = TRUE]
             /\ UNCHANGED lst
    /\ UNCHANGED <<docs, writes, mu, wr, stream, panic>>

(* close(l.done), which panics when it is closed already. *)
CloseDone(l) ==
    /\ panic' = lst[l].done
    /\ lst' = [lst EXCEPT ![l].done = TRUE]

CloseFull(p) ==
    /\ out[p].full
    /\ CloseDone(out[p].to)
    /\ out' = [out EXCEPT ![p].full = FALSE]
    /\ UNCHANGED <<docs, writes, mu, wr, stream>>

-----------------------------------------------------------------------------
(* The mutations.  putDoc and store.Delete give the document its next state. *)
Stored(d, exists) ==
    /\ writes' = writes + 1
    /\ docs' = [docs EXCEPT ![d] = [ver |-> writes + 1, exists |-> exists]]

Event(d, exists, from) == Change(d, writes + 1, exists, from)

May(w, op) == op \in Ops /\ writes < MaxWrites /\ wr[w].pc = "idle"

(* CreateDocument answers ALREADY_EXISTS for a document that is there. *)
CreateDocument(w, d) ==
    /\ May(w, "create") /\ mu = Free /\ ~docs[d].exists
    /\ mu' = w
    /\ Stored(d, TRUE)
    /\ wr' = [wr EXCEPT ![w].pc = "fan", ![w].evs = <<Event(d, TRUE, "locked")>>]
    /\ UNCHANGED <<lst, out, stream, panic>>

(* Mutant: the broadcast of UpdateDocument runs without the lock. *)
UpdateDocumentUnlocked(w, d) ==
    /\ May(w, "update") /\ mu = Free
    /\ Stored(d, TRUE)
    /\ wr' = [wr EXCEPT ![w].pc = "fan", ![w].evs = <<Event(d, TRUE, "locked")>>]
    /\ UNCHANGED <<mu, lst, out, stream, panic>>

UpdateDocument(w, d) ==
    /\ May(w, "update") /\ mu = Free
    /\ mu' = w
    /\ Stored(d, TRUE)
    /\ wr' = [wr EXCEPT ![w].pc = "fan", ![w].evs = <<Event(d, TRUE, "locked")>>]
    /\ UNCHANGED <<lst, out, stream, panic>>

DeleteDocument(w, d) ==
    /\ May(w, "delete") /\ docs[d].exists
    /\ Stored(d, FALSE)
    /\ wr' = [wr EXCEPT ![w].pc = "fan", ![w].evs = <<Event(d, FALSE, "loose")>>]
    /\ UNCHANGED <<mu, lst, out, stream, panic>>

(* Commit and BatchWrite: take the lock, ... *)
Commit(w, ops) ==
    /\ May(w, "commit") /\ mu = Free
    /\ mu' = w
    /\ wr' = [wr EXCEPT ![w].pc = "commit", ![w].ops = ops]
    /\ UNCHANGED <<docs, writes, lst, out, stream, panic>>

(* ... carry out the writes one by one, noting what changed, ... *)
CommitWrite(w) ==
    /\ wr[w].pc = "commit" /\ wr[w].ops # <<>>
    /\ LET op == Head(wr[w].ops)
           step == [wr EXCEPT ![w].ops = Tail(@)]
       IN \/ /\ op.kind = "update"
             /\ Stored(op.doc, TRUE)
             /\ wr' = [step EXCEPT ![w].evs = Append(@, Event(op.doc, TRUE, "loose"))]
          \/ /\ op.kind = "delete" /\ docs[op.doc].exists
             /\ Stored(op.doc, FALSE)
             /\ wr' = [step EXCEPT ![w].dels = Append(@, Event(op.doc, FALSE, "loose"))]
          \/ /\ op.kind = "delete" /\ ~docs[op.doc].exists
             /\ wr' = step
             /\ UNCHANGED <<docs, writes>>
    /\ UNCHANGED <<mu, lst, out, stream, panic>>

(* ... release it, and broadcast the changes first and then the deletes. *)
CommitUnlock(w) ==
    /\ wr[w].pc = "commit" /\ wr[w].ops = <<>>
    /\ mu' = Free
    /\ wr' = [wr EXCEPT ![w].pc = "fan", ![w].evs = @ \o wr[w].dels, ![w].dels = <<>>]
    /\ UNCHANGED <<docs, writes, lst, out, stream, panic>>

-----------------------------------------------------------------------------
(* broadcastChange and broadcastDelete: copy the list of listeners, ... *)
Fan(w) ==
    /\ wr[w].pc = "fan" /\ wr[w].evs # <<>>
    /\ wr' = [wr EXCEPT ![w].pc = "send",
                        ![w].left = {l \in Listeners : lst[l].registered}]
    /\ UNCHANGED <<docs, writes, mu, lst, out, stream, panic>>

(* Mutant: a listener gets live changes once its snapshot has been sent. *)
BroadcastAfterSnapshot(w, l) ==
    /\ wr[w].pc = "send" /\ Idle(w) /\ l \in wr[w].left
    /\ wr' = [wr EXCEPT ![w].left = @ \ {l}]
    /\ out' = [out EXCEPT ![w] = IF lst[l].target /\ lst[l].pc = "recv"
                                 THEN Sends(l, <<Head(wr[w].evs), Mark>>)
                                 ELSE @]
    /\ UNCHANGED <<docs, writes, mu, lst, stream, panic>>

(* ... and send those whose target matches the change and a NO_CHANGE. *)
Broadcast(w, l) ==
    /\ wr[w].pc = "send" /\ Idle(w) /\ l \in wr[w].left
    /\ wr' = [wr EXCEPT ![w].left = @ \ {l}]
    /\ out' = [out EXCEPT ![w] = IF lst[l].target THEN Sends(l, <<Head(wr[w].evs), Mark>>)
                                                  ELSE @]
    /\ UNCHANGED <<docs, writes, mu, lst, stream, panic>>

NextEvent(w) ==
    /\ wr[w].pc = "send" /\ Idle(w) /\ wr[w].left = {}
    /\ wr' = [wr EXCEPT ![w].pc = "fan", ![w].evs = Tail(@)]
    /\ out' = [out EXCEPT ![w] = Nothing]
    /\ UNCHANGED <<docs, writes, mu, lst, stream, panic>>

(* The RPC returns, and its deferred mu.Unlock runs. *)
Return(w) ==
    /\ wr[w].pc = "fan" /\ wr[w].evs = <<>>
    /\ wr' = [wr EXCEPT ![w] = NewWriter]
    /\ mu' = IF mu = w THEN Free ELSE mu
    /\ UNCHANGED <<docs, writes, lst, out, stream, panic>>

-----------------------------------------------------------------------------
(* The reader goroutine of Listen. *)
Listen(l) ==
    /\ lst[l].pc = "off"
    /\ lst' = [lst EXCEPT ![l].pc = "recv", ![l].registered = TRUE, ![l].sender = "run"]
    /\ UNCHANGED <<docs, writes, mu, wr, out, stream, panic>>

(* addListenTarget: register the target and acknowledge it, ... *)
AddTarget(l) ==
    /\ lst[l].pc = "recv" /\ lst[l].adds < MaxAdds
    /\ lst' = [lst EXCEPT ![l].pc = "add", ![l].adds = @ + 1, ![l].target = TRUE]
    /\ out' = [out EXCEPT ![l] = Sends(l, <<Mark>>)]
    /\ UNCHANGED <<docs, writes, mu, wr, stream, panic>>

(* ... then list the collection, in the order of a Go map, and send that, *)
(* CURRENT and NO_CHANGE.                                                 *)
Snapshot(l) ==
    /\ lst[l].pc = "add" /\ Idle(l)
    /\ \E s \in SetToSeqs({Change(d, docs[d].ver, TRUE, "snapshot") :
                              d \in {e \in Docs : docs[e].exists}}) :
          out' = [out EXCEPT ![l] = Sends(l, s \o <<Mark, Mark>>)]
    /\ lst' = [lst EXCEPT ![l].pc = "reply"]
    /\ UNCHANGED <<docs, writes, mu, wr, stream, panic>>

(* A target without a collection: the stream ends with an error, and the *)
(* sender is not told.                                                   *)
BadTarget(l) ==
    /\ lst[l].pc = "recv" /\ lst[l].adds < MaxAdds
    /\ lst' = [lst EXCEPT ![l].pc = "end", ![l].registered = FALSE]
    /\ UNCHANGED <<docs, writes, mu, wr, out, stream, panic>>

RemoveTarget(l) ==
    /\ lst[l].pc = "recv" /\ lst[l].target
    /\ lst' = [lst EXCEPT ![l].pc = "reply", ![l].target = FALSE]
    /\ out' = [out EXCEPT ![l] = Sends(l, <<Mark>>)]
    /\ UNCHANGED <<docs, writes, mu, wr, stream, panic>>

(* The request is served, and the reader receives the next one. *)
Recv(l) ==
    /\ lst[l].pc = "reply" /\ Idle(l)
    /\ lst' = [lst EXCEPT ![l].pc = "recv"]
    /\ out' = [out EXCEPT ![l] = Nothing]
    /\ UNCHANGED <<docs, writes, mu, wr, stream, panic>>

(* Recv fails because the client is gone: close done, ... *)
RecvError(l) ==
    /\ lst[l].pc = "recv"
    /\ panic' = lst[l].done
    /\ lst' = [lst EXCEPT ![l].pc = "wait", ![l].done = TRUE]
    /\ UNCHANGED <<docs, writes, mu, wr, out, stream>>

(* ... wait for the sender, and removeListener. *)
ListenReturn(l) ==
    /\ lst[l].pc = "wait" /\ lst[l].sender = "end"
    /\ lst' = [lst EXCEPT ![l].pc = "end", ![l].registered = FALSE]
    /\ UNCHANGED <<docs, writes, mu, wr, out, stream, panic>>

-----------------------------------------------------------------------------
(* The sender goroutine of Listen. *)
SenderSend(l) ==
    /\ lst[l].sender = "run" /\ lst[l].outbox # <<>>
    /\ LET msg == Head(lst[l].outbox) IN
          stream' = [stream EXCEPT ![l] = IF msg = Mark THEN @ ELSE Append(@, msg)]
    /\ lst' = [lst EXCEPT ![l].outbox = Tail(@)]
    /\ UNCHANGED <<docs, writes, mu, wr, out, panic>>

SendError(l) ==
    /\ lst[l].sender = "run" /\ lst[l].outbox # <<>>
    /\ lst' = [lst EXCEPT ![l].outbox = Tail(@), ![l].sender = "end"]
    /\ UNCHANGED <<docs, writes, mu, wr, out, stream, panic>>

SenderExit(l) ==
    /\ lst[l].sender = "run" /\ lst[l].done
    /\ lst' = [lst EXCEPT ![l].sender = "end"]
    /\ UNCHANGED <<docs, writes, mu, wr, out, stream, panic>>

-----------------------------------------------------------------------------
Init ==
    /\ docs = [d \in Docs |-> [ver |-> 0, exists |-> FALSE]]
    /\ writes = 0
    /\ mu = Free
    /\ wr = [w \in Writers |-> NewWriter]
    /\ lst = [l \in Listeners |-> NewListener]
    /\ out = [p \in Writers \cup Listeners |-> Nothing]
    /\ stream = [l \in Listeners |-> <<>>]
    /\ panic = FALSE

Commits == BoundedSeq([kind : {"update", "delete"}, doc : Docs], MaxOps)

WriterStep(w) ==
    \/ Send(w) \/ CloseFull(w) \/ CommitWrite(w) \/ CommitUnlock(w)
    \/ Fan(w) \/ NextEvent(w) \/ Return(w)
    \/ \E l \in Listeners : Broadcast(w, l)

ReaderStep(l) == Send(l) \/ CloseFull(l) \/ Snapshot(l) \/ Recv(l) \/ ListenReturn(l)

SenderStep(l) == SenderSend(l) \/ SenderExit(l)

Client ==
    \/ \E w \in Writers, d \in Docs :
          CreateDocument(w, d) \/ UpdateDocument(w, d) \/ DeleteDocument(w, d)
    \/ \E w \in Writers, ops \in Commits : Commit(w, ops)
    \/ \E l \in Listeners :
          \/ Listen(l) \/ AddTarget(l) \/ BadTarget(l) \/ RemoveTarget(l)
          \/ RecvError(l) \/ SendError(l)

(* A panic ends the process. *)
Next ==
    /\ ~panic
    /\ \/ Client
       \/ \E w \in Writers : WriterStep(w)
       \/ \E l \in Listeners : ReaderStep(l) \/ SenderStep(l)

Spec == Init /\ [][Next]_vars

-----------------------------------------------------------------------------
TypeOK ==
    /\ docs \in [Docs -> [ver : 0 .. writes, exists : BOOLEAN]]
    /\ writes \in 0 .. MaxWrites + MaxOps
    /\ mu \in Writers \cup {Free}
    /\ \A w \in Writers :
          /\ wr[w].pc \in {"idle", "commit", "fan", "send"}
          /\ wr[w].left \subseteq Listeners
          /\ wr[w].pc = "commit" => mu = w
    /\ \A l \in Listeners :
          /\ lst[l].pc \in {"off", "recv", "add", "reply", "wait", "end"}
          /\ lst[l].adds \in 0 .. MaxAdds
          /\ Len(lst[l].outbox) <= Cap
          /\ lst[l].sender \in {"off", "run", "end"}
    /\ panic \in BOOLEAN

(* The client of listener l is served as it should be: the target is up,   *)
(* the snapshot was sent, nothing is under way and nothing was given up.   *)
Settled(l) ==
    /\ lst[l].pc = "recv" /\ lst[l].target /\ lst[l].sender = "run"
    /\ lst[l].outbox = <<>> /\ ~lst[l].done
    /\ \A w \in Writers : wr[w].pc = "idle"

(* A change made while the target is being added is in the snapshot, or is *)
(* broadcast to the stream, or both: the newest version of every document  *)
(* that exists reached the client of a settled stream, whichever RPC made  *)
(* it and wherever addListenTarget was between register, list and send.    *)
NewestShown ==
    \A l \in Listeners, d \in Docs :
       (Settled(l) /\ docs[d].exists) =>
          \E i \in DOMAIN stream[l] :
             stream[l][i].doc = d /\ stream[l][i].ver = docs[d].ver

(* Create and update broadcast while they hold Service.mu, so their changes *)
(* to one document reach every stream in the order they were made, however  *)
(* the writers interleave.  (Commit and DeleteDocument promise no such.)    *)
LiveInOrder ==
    \A l \in Listeners : \A i, j \in DOMAIN stream[l] :
       LET a == stream[l][i]
           b == stream[l][j]
       IN (i < j /\ a.from = "locked" /\ b.from = "locked" /\ a.doc = b.doc) => a.ver < b.ver

(* The state has its shape, the outboxes within their capacity, and the live *)
(* stream its order (broadcastChange, send).                                 *)
ListenInv == TypeOK /\ LiveInOrder

(* "the broadcast path never blocks on the network": a mutation that has    *)
(* begun, perhaps with the lock of the service, can always take its next    *)
(* step, whatever the outboxes hold and whether or not a sender ever runs.  *)
WriterNeverWaits ==
    \A w \in Writers : (wr[w].pc # "idle" /\ ~panic) => ENABLED WriterStep(w)

(* A listener is closed once.  The code does not keep this: the reader     *)
(* closes done when Recv fails, whether or not a full outbox closed it.    *)
NoDoubleClose == ~panic

-----------------------------------------------------------------------------
(* The inductive invariant behind ListenInv and NewestShown. *)
Message == [doc : Docs \cup {None}, ver : Nat, exists : BOOLEAN,
            from : {"mark", "snapshot", "locked", "loose"}]

Op == [kind : {"update", "delete"}, doc : Docs]

Writer == [pc : {"idle", "commit", "fan", "send"}, ops : Seq(Op), evs : Seq(Message),
           dels : Seq(Message), left : SUBSET Listeners]

Listener == [pc : {"off", "recv", "add", "reply", "wait", "end"}, adds : 0 .. MaxAdds,
             target : BOOLEAN, registered : BOOLEAN, outbox : Seq(Message), done : BOOLEAN,
             sender : {"off", "run", "end"}]

Sending == [to : Listeners \cup {None}, todo : Seq(Message), full : BOOLEAN]

Shape ==
    /\ docs \in [Docs -> [ver : 0 .. writes, exists : BOOLEAN]]
    /\ writes \in Nat
    /\ mu \in Writers \cup {Free}
    /\ wr \in [Writers -> Writer]
    /\ lst \in [Listeners -> Listener]
    /\ out \in [Writers \cup Listeners -> Sending]
    /\ stream \in [Listeners -> Seq(Message)]
    /\ panic \in BOOLEAN

(* What is left of a commit fits into the bound of writes. *)
Budget ==
    /\ writes <= MaxWrites + MaxOps
    /\ \A w \in Writers : wr[w].pc = "commit" =>
          Len(wr[w].ops) <= MaxOps /\ writes + Len(wr[w].ops) <= MaxWrites + MaxOps
    /\ \A l \in Listeners : Len(lst[l].outbox) <= Cap

(* A goroutine sends in the middle of its own work only, and a reader only to *)
(* its own client.                                                            *)
Busy ==
    /\ \A p \in Writers \cup Listeners : ~Idle(p) => out[p].to \in Listeners
    /\ \A w \in Writers :
          /\ wr[w].pc = "idle" => wr[w].evs = <<>>
          /\ wr[w].pc = "send" => wr[w].evs # <<>>
          /\ ~Idle(w) => wr[w].pc = "send"
    /\ \A l \in Listeners :
          /\ lst[l].pc \in {"recv", "add", "reply"} => lst[l].registered
          /\ lst[l].pc = "off" => ~lst[l].target
          /\ ~Idle(l) => out[l].to = l /\ lst[l].pc \in {"add", "reply"}

(* A change made under the lock is broadcast, alone, by the holder of it. *)
Locks ==
    /\ \A w \in Writers :
          /\ wr[w].pc = "commit" => mu = w
          /\ \A i \in DOMAIN wr[w].evs : wr[w].evs[i].from = "locked" =>
                 /\ mu = w /\ Len(wr[w].evs) = 1 /\ wr[w].pc \in {"fan", "send"}
                 /\ wr[w].evs[i].ver <= writes
          /\ \A i \in DOMAIN wr[w].dels : wr[w].dels[i].from # "locked"
    /\ \A p \in Writers \cup Listeners : \A i \in DOMAIN out[p].todo :
          out[p].todo[i].from = "locked" =>
             /\ p \in Writers /\ i = 1 /\ out[p].todo[i] = Head(wr[p].evs)
             /\ out[p].to \notin wr[p].left

(* The locked changes of q are older than ver, or rise in version. *)
Below(q, ver) == \A i \in DOMAIN q : q[i].from = "locked" => q[i].ver < ver

Rising(q) ==
    \A i, j \in DOMAIN q :
       i < j /\ q[i].from = "locked" /\ q[j].from = "locked" => q[i].ver < q[j].ver

(* Has a writer x, which is sending o, still to tell l of its change? *)
Untold(x, o, l) ==
    /\ x.evs # <<>> /\ Head(x.evs).from = "locked"
    /\ \/ x.pc = "fan"
       \/ x.pc = "send" /\ l \in x.left
       \/ o.to = l /\ o.todo # <<>> /\ o.todo[1].from = "locked"

Ordered ==
    /\ \A l \in Listeners :
          /\ Rising(stream[l]) /\ Rising(lst[l].outbox)
          /\ Below(stream[l], writes + 1) /\ Below(lst[l].outbox, writes + 1)
          /\ \A i \in DOMAIN lst[l].outbox : lst[l].outbox[i].from = "locked" =>
                 Below(stream[l], lst[l].outbox[i].ver)
    /\ \A w \in Writers, l \in Listeners : Untold(wr[w], out[w], l) =>
          /\ Below(stream[l], Head(wr[w].evs).ver)
          /\ Below(lst[l].outbox, Head(wr[w].evs).ver)

(* A stream that loses nothing, and what it has or will be told about d. *)
Open(x) == x.registered /\ x.target /\ x.sender = "run" /\ ~x.done /\ x.pc # "add"

Served(l) == Open(lst[l]) /\ \A p \in Writers \cup Listeners : out[p].full => out[p].to # l

Tells(q, d, ver) == \E i \in DOMAIN q : q[i].doc = d /\ q[i].ver = ver /\ q[i].from # "mark"

(* The changes that a writer x has still to tell l of. *)
Owed(x, l) == IF x.pc = "send" /\ l \notin x.left THEN Tail(x.evs) ELSE x.evs

Informed(l, d, ver) ==
    \/ Tells(stream[l], d, ver) \/ Tells(lst[l].outbox, d, ver)
    \/ \E p \in Writers \cup Listeners : out[p].to = l /\ Tells(out[p].todo, d, ver)
    \/ \E w \in Writers : Tells(Owed(wr[w], l), d, ver)

Arriving ==
    \A l \in Listeners, d \in Docs :
       Served(l) /\ docs[d].exists => Informed(l, d, docs[d].ver)

IInv == Shape /\ Budget /\ Busy /\ Locks /\ Ordered /\ Arriving
=============================================================================
