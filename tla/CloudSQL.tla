------------------------------ MODULE CloudSQL ------------------------------
(***************************************************************************)
(* Cloud SQL: instance records in the state store, the map listeners under *)
(* Service.mu, and a wire listener per instance with its accept loop, its  *)
(* sessions and its in-memory database.  POST looks the record up, starts  *)
(* a listener, enters it in the map and puts the record; DELETE looks the  *)
(* record up, takes the listener out of the map, stops it, which waits for *)
(* every session, and deletes the record.  New starts the instances of the *)
(* configuration; Stop, at shutdown, stops every listener of the map while *)
(* requests are still served.                                              *)
(*                                                                         *)
(* Listeners are numbered as they start; the number stands for the port.   *)
(***************************************************************************)
EXTENDS Integers, Sequences, FiniteSets

CONSTANTS Names,         \* instance names
          Configured,    \* the instances of the configuration, a sequence of names
          Clients,       \* goroutines that serve an API call
          Main,          \* the goroutine that runs the shutdown
          MaxListeners,  \* bound on the listeners ever started
          MaxRestarts    \* bound on restarts over the same database

VARIABLES stored,     \* cloudsql/instances: the port of the record, 0 for none
          listeners,  \* Service.listeners, 0 for none
          lns,        \* the listeners: their accept loop, sessions and database
          req,        \* what the goroutines still have to do
          stopped,    \* whether Service.Stop has been called
          panicked,   \* whether the process has crashed
          restarts,   \* restarts so far
          raced,      \* history: names the calls on which overlapped
          stale       \* history: names whose record is from before a restart

vars == <<stored, listeners, lns, req, stopped, panicked, restarts, raced, stale>>

Procs == Clients \cup {Main}

NoReq == [op |-> "none"]

Numbers == 0..MaxListeners

(* ln: whether l.ln is set; db: whether the database is open; sessions of   *)
(* clients that are connected, at most one here.                            *)
Listener == [name : Names, ln : BOOLEAN, loop : {"accept", "got", "top", "done"},
             sessions : 0..1, db : BOOLEAN]

Request ==
    {NoReq}
    \cup [op : {"start", "unmap", "delete"}, name : Names]
    \cup [op : {"register", "put", "close", "wait"}, name : Names, port : Numbers \ {0}]
    \cup [op : {"stop"}, ports : SUBSET (Numbers \ {0})]

Idle(c) == req[c] = NoReq

Hold(c, r) == req' = [req EXCEPT ![c] = r]

Started(n) == [name |-> n, ln |-> TRUE, loop |-> "accept", sessions |-> 0, db |-> TRUE]

-----------------------------------------------------------------------------
(* POST: an existing instance is a conflict. *)
Create(c, n) ==
    /\ Idle(c) /\ stored[n] = 0
    /\ Hold(c, [op |-> "start", name |-> n])
    /\ UNCHANGED <<stored, listeners, lns, stopped, restarts, stale>>

(* startInstance: the database is opened and the port bound. *)
StartListener(c) ==
    /\ req[c].op = "start"
    /\ Len(lns) < MaxListeners
    /\ lns' = Append(lns, Started(req[c].name))
    /\ Hold(c, [op |-> "register", name |-> req[c].name, port |-> Len(lns) + 1])
    /\ UNCHANGED <<stored, listeners, stopped, restarts, stale>>

(* The port is taken or the engine unknown: the request fails. *)
StartFails(c) ==
    /\ req[c].op = "start"
    /\ Hold(c, NoReq)
    /\ UNCHANGED <<stored, listeners, lns, stopped, restarts, stale>>

Register(c) ==
    /\ req[c].op = "register"
    /\ listeners' = [listeners EXCEPT ![req[c].name] = req[c].port]
    /\ Hold(c, [req[c] EXCEPT !.op = "put"])
    /\ UNCHANGED <<stored, lns, stopped, restarts, stale>>

PutInstance(c) ==
    /\ req[c].op = "put"
    /\ stored' = [stored EXCEPT ![req[c].name] = req[c].port]
    /\ Hold(c, NoReq)
    /\ stale' = stale \ {req[c].name}
    /\ UNCHANGED <<listeners, lns, stopped, restarts>>

Delete(c, n) ==
    /\ Idle(c) /\ stored[n] # 0
    /\ Hold(c, [op |-> "unmap", name |-> n])
    /\ UNCHANGED <<stored, listeners, lns, stopped, restarts, stale>>

(* Mutant: the listener stays in the map and is not stopped. *)
UnmapForgets(c) ==
    /\ req[c].op = "unmap"
    /\ Hold(c, [op |-> "delete", name |-> req[c].name])
    /\ UNCHANGED <<stored, listeners, lns, stopped, restarts, stale>>

(* stopInstance, the critical section. *)
Unmap(c) ==
    /\ req[c].op = "unmap"
    /\ LET n == req[c].name
       IN /\ listeners' = [listeners EXCEPT ![n] = 0]
          /\ Hold(c, IF listeners[n] = 0 THEN [op |-> "delete", name |-> n]
                     ELSE [op |-> "close", name |-> n, port |-> listeners[n]])
    /\ UNCHANGED <<stored, lns, stopped, restarts, stale>>

(* Listener.Stop: l.ln is cleared and the socket closed. *)
CloseListener(c) ==
    /\ req[c].op = "close"
    /\ lns' = [lns EXCEPT ![req[c].port].ln = FALSE]
    /\ Hold(c, [req[c] EXCEPT !.op = "wait"])
    /\ UNCHANGED <<stored, listeners, stopped, restarts, stale>>

(* Mutant: the accept loop is not in the wait group. *)
WaitSessionsOnly(l) == lns[l].sessions = 0

(* l.wg.Wait: the accept loop and every session have returned. *)
Waited(l) == lns[l].loop = "done" /\ lns[l].sessions = 0

CloseDatabase(c) ==
    /\ req[c].op = "wait" /\ Waited(req[c].port)
    /\ lns' = [lns EXCEPT ![req[c].port].db = FALSE]
    /\ Hold(c, [op |-> "delete", name |-> req[c].name])
    /\ UNCHANGED <<stored, listeners, stopped, restarts, stale>>

DeleteRecord(c) ==
    /\ req[c].op = "delete"
    /\ stored' = [stored EXCEPT ![req[c].name] = 0]
    /\ stale' = stale \ {req[c].name}
    /\ Hold(c, NoReq)
    /\ UNCHANGED <<listeners, lns, stopped, restarts>>

-----------------------------------------------------------------------------
(* acceptLoop: Accept returns a connection, a session is started in the wait *)
(* group, and l.ln is read again without the lock.                           *)
Accept(l) ==
    /\ lns[l].ln /\ lns[l].loop = "accept" /\ lns[l].sessions = 0
    /\ lns' = [lns EXCEPT ![l].loop = "got"]
    /\ UNCHANGED <<stored, listeners, req, stopped, panicked, restarts, stale>>

StartSession(l) ==
    /\ lns[l].loop = "got"
    /\ lns' = [lns EXCEPT ![l].loop = "top", ![l].sessions = 1]
    /\ UNCHANGED <<stored, listeners, req, stopped, panicked, restarts, stale>>

(* Stop may have cleared l.ln: the call on nil is a panic that ends the process. *)
NextAccept(l) ==
    /\ lns[l].loop = "top"
    /\ IF lns[l].ln THEN lns' = [lns EXCEPT ![l].loop = "accept"] /\ UNCHANGED panicked
       ELSE panicked' = TRUE /\ UNCHANGED lns
    /\ UNCHANGED <<stored, listeners, req, stopped, restarts, stale>>

AcceptFails(l) ==
    /\ ~lns[l].ln /\ lns[l].loop = "accept"
    /\ lns' = [lns EXCEPT ![l].loop = "done"]
    /\ UNCHANGED <<stored, listeners, req, stopped, panicked, restarts, stale>>

(* serve returns when the client hangs up or terminates, or sends a message  *)
(* after the context was cancelled; it is not interrupted while it receives. *)
EndSession(l) ==
    /\ lns[l].sessions = 1
    /\ lns' = [lns EXCEPT ![l].sessions = 0]
    /\ UNCHANGED <<stored, listeners, req, stopped, panicked, restarts, stale>>

-----------------------------------------------------------------------------
(* Stop, at shutdown: the map is emptied and its listeners stopped in turn. *)
StopAll ==
    /\ ~stopped /\ Idle(Main)
    /\ stopped' = TRUE
    /\ Hold(Main, [op |-> "stop", ports |-> {listeners[n] : n \in Names} \ {0}])
    /\ listeners' = [n \in Names |-> 0]
    /\ UNCHANGED <<stored, lns, restarts, stale>>

StopOne(l) ==
    /\ req[Main].op = "stop" /\ l \in req[Main].ports
    /\ \A k \in req[Main].ports \ {l} : lns[k].ln   \* one after the other
    /\ IF lns[l].ln
         THEN /\ lns' = [lns EXCEPT ![l].ln = FALSE]
              /\ UNCHANGED req
         ELSE /\ Waited(l)
              /\ lns' = [lns EXCEPT ![l].db = FALSE]
              /\ Hold(Main, IF req[Main].ports = {l} THEN NoReq
                            ELSE [req[Main] EXCEPT !.ports = @ \ {l}])
    /\ UNCHANGED <<stored, listeners, stopped, restarts, stale>>

(* Mutant: New leaves a stored record as it is. *)
NewKeepsRecord(old, port) == IF old = 0 THEN port ELSE old

(* New puts the record of a configured instance, whatever is stored. *)
NewRecord(old, port) == IF port = 0 THEN old ELSE port

(* New starts the instances of the configuration in order: their ports, when *)
(* k listeners were started before.                                          *)
NewPorts(k) ==
    [n \in Names |-> IF \E i \in DOMAIN Configured : Configured[i] = n
                     THEN k + CHOOSE i \in DOMAIN Configured : Configured[i] = n ELSE 0]

NewListeners == [i \in DOMAIN Configured |-> Started(Configured[i])]

Dead(l) == [lns[l] EXCEPT !.ln = FALSE, !.loop = "done", !.sessions = 0, !.db = FALSE]

(* The process ends or has crashed and is started again over BoltDB: the     *)
(* records that are not of the configuration stay, with no listener.         *)
Restart ==
    /\ restarts < MaxRestarts
    /\ Len(lns) + Len(Configured) <= MaxListeners
    /\ restarts' = restarts + 1
    /\ lns' = [l \in DOMAIN lns |-> Dead(l)] \o NewListeners
    /\ listeners' = NewPorts(Len(lns))
    /\ stored' = [n \in Names |-> NewRecord(stored[n], NewPorts(Len(lns))[n])]
    /\ stale' = {n \in Names : stored[n] # 0 /\ NewPorts(0)[n] = 0}
    /\ stopped' = FALSE /\ panicked' = FALSE
    /\ req' = [c \in Procs |-> NoReq]

Init ==
    /\ lns = NewListeners
    /\ listeners = NewPorts(0) /\ stored = NewPorts(0)
    /\ req = [c \in Procs |-> NoReq]
    /\ stopped = FALSE /\ panicked = FALSE
    /\ restarts = 0 /\ raced = {} /\ stale = {}

Continue(c) ==
    \/ StartListener(c) \/ StartFails(c) \/ Register(c) \/ PutInstance(c)
    \/ Unmap(c) \/ CloseListener(c) \/ CloseDatabase(c) \/ DeleteRecord(c)

Serve(l) == Accept(l) \/ StartSession(l) \/ NextAccept(l) \/ AcceptFails(l) \/ EndSession(l)

(* The names two requests are about, or one while Stop runs. *)
About(c, n) == req[c].op \notin {"none", "stop"} /\ req[c].name = n

Races ==
    {n \in Names : \E c \in Clients, d \in Procs :
        c # d /\ About(c, n) /\ (About(d, n) \/ req[d].op = "stop")}

Next ==
    /\ \/ /\ ~panicked
          /\ \/ /\ \/ \E c \in Clients : \/ \E n \in Names : Create(c, n) \/ Delete(c, n)
                                         \/ Continue(c)
                   \/ StopAll
                   \/ \E l \in DOMAIN lns : StopOne(l)
                /\ UNCHANGED panicked
             \/ \E l \in DOMAIN lns : Serve(l)
       \/ Restart
    /\ raced' = raced \cup Races'

Spec == Init /\ [][Next]_vars

-----------------------------------------------------------------------------
TypeOK ==
    /\ stored \in [Names -> 0..Len(lns)] /\ listeners \in [Names -> 0..Len(lns)]
    /\ lns \in Seq(Listener) /\ Len(lns) <= MaxListeners
    /\ req \in [Procs -> Request]
    /\ stopped \in BOOLEAN /\ panicked \in BOOLEAN /\ restarts \in 0..MaxRestarts
    /\ raced \subseteq Names /\ stale \subseteq Names

Quiet == ~panicked /\ \A c \in Procs : Idle(c)

(* "Stop closes the listener and waits for connection goroutines"            *)
(* (listener.go:63): no session, however late its connection was accepted,   *)
(* is served against a database that Stop has closed.                        *)
SessionHasDatabase == \A l \in DOMAIN lns : lns[l].sessions = 1 => lns[l].db

(* No listener outlives its instance: when no call is in progress, a port    *)
(* that is open belongs to an instance that is stored, and DELETE and Stop   *)
(* find it in the map, whatever failed, ended or was restarted before.  It   *)
(* says nothing of names that two calls were about at once.                  *)
NoLeakedListener ==
    Quiet => \A l \in DOMAIN lns : lns[l].ln =>
        LET n == lns[l].name IN n \in raced \/ (listeners[n] = l /\ stored[n] = l)

(* A stored instance is served on the port its record names, after a restart *)
(* too if it is a configured one, until Stop.  It says nothing of the others *)
(* after a restart (their record has no listener) and of raced names.        *)
InstanceServed ==
    Quiet /\ ~stopped =>
        \A n \in Names \ (raced \cup stale) : stored[n] # 0 => lns[stored[n]].ln
-----------------------------------------------------------------------------
(* The inductive invariant behind the three. *)

(* The database of a listener is closed after its loop and its sessions. *)
DatabaseLast ==
    \A l \in DOMAIN lns : ~lns[l].db => lns[l].loop = "done" /\ lns[l].sessions = 0

(* Two requests on one name, or one beside Stop, are on record. *)
RacesKept == Races \subseteq raced

(* What the map, a request or Stop names is a listener of that name. *)
NamesKept ==
    /\ \A n \in Names : listeners[n] # 0 => lns[listeners[n]].name = n
    /\ \A c \in Clients :
          /\ req[c].op # "stop"
          /\ req[c].op \in {"register", "put", "close", "wait"} =>
                req[c].port <= Len(lns) /\ lns[req[c].port].name = req[c].name
    /\ req[Main].op \in {"none", "stop"}
    /\ req[Main].op = "stop" => /\ stopped /\ req[Main].ports \subseteq DOMAIN lns
                               /\ \A n \in Names \ raced : listeners[n] = 0

(* The entry of the map between the steps of a request that is alone. *)
CallsAlone ==
    \A c \in Clients : req[c].op \in {"start", "register", "put", "close", "wait", "delete"} =>
        LET n == req[c].name IN n \in raced \/
            /\ IF req[c].op = "put" THEN listeners[n] = req[c].port ELSE listeners[n] = 0
            /\ req[c].op = "register" => lns[req[c].port].ln

(* A listener in the map is open, and is in the record or about to be. *)
MapOpen ==
    \A n \in Names \ raced : listeners[n] # 0 =>
        /\ lns[listeners[n]].ln
        /\ stored[n] = listeners[n] \/ \E c \in Clients : req[c].op = "put" /\ req[c].name = n

(* An open listener is in the map or in the hands of a call that will enter *)
(* it or close it.                                                          *)
ListenersOwned ==
    \A l \in DOMAIN lns : lns[l].ln =>
        \/ lns[l].name \in raced \/ listeners[lns[l].name] = l
        \/ \E c \in Clients : req[c].op \in {"register", "close"} /\ req[c].port = l
        \/ req[Main].op = "stop" /\ l \in req[Main].ports

(* Before Stop, a record has its listener in the map or is being deleted. *)
RecordsServed ==
    ~stopped => \A n \in Names \ (raced \cup stale) : stored[n] # 0 =>
        \/ listeners[n] = stored[n]
        \/ \E c \in Clients : req[c].op \in {"close", "wait", "delete"} /\ req[c].name = n

IInv ==
    /\ TypeOK /\ DatabaseLast /\ RacesKept /\ NamesKept /\ CallsAlone /\ MapOpen
    /\ ListenersOwned /\ RecordsServed
=============================================================================
