------------------------------ MODULE CloudRun ------------------------------
(***************************************************************************)
(* Cloud Run and Cloud Functions: resources in the state store and the     *)
(* runner that owns the child processes spawned for them.  startOrGet      *)
(* looks in the map children under the lock, spawns the process and waits  *)
(* for its port with the lock released, and takes the lock again to cache  *)
(* the handle.                                                             *)
(*                                                                         *)
(* A resource with a command is a name; children are numbered as they are  *)
(* spawned.  SIGKILL is assumed to end a process at once.                  *)
(***************************************************************************)
EXTENDS Integers, Sequences, FiniteSets

CONSTANTS Names,        \* resources with a command
          Clients,      \* goroutines that serve an API call
          MaxChildren   \* bound on the processes ever spawned

VARIABLES stored,    \* the namespace of the service
          children,  \* runner.children: the child cached, 0 for none
          procs,     \* the processes spawned so far, in order
          req,       \* what the API goroutines still have to do
          stopped,   \* whether Service.Stop has run
          raced      \* history: names the calls on which overlapped

vars == <<stored, children, procs, req, stopped, raced>>

NoReq == [op |-> "none"]

Process == [name : Names, alive : BOOLEAN]

Request ==
    {NoReq}
    \cup [op : {"lookup", "spawn", "stop"}, name : Names]
    \cup [op : {"listen", "cache"}, name : Names, child : 1..MaxChildren]

Idle(c) == req[c] = NoReq

Hold(c, r) == req' = [req EXCEPT ![c] = r]

Killed(ps, K) == [k \in DOMAIN ps |-> IF k \in K THEN [ps[k] EXCEPT !.alive = FALSE] ELSE ps[k]]

-----------------------------------------------------------------------------
CreateResource(n) ==
    /\ stored' = stored \cup {n}
    /\ UNCHANGED <<children, procs, req, stopped>>

(* invoke reads the resource, then asks the runner for a child. *)
Invoke(c, n) ==
    /\ Idle(c)
    /\ n \in stored
    /\ Hold(c, [op |-> "lookup", name |-> n])
    /\ UNCHANGED <<stored, children, procs, stopped>>

(* The first critical section: a live child is returned and the request is *)
(* proxied to it; the entry of one that has exited is removed.             *)
Lookup(c) ==
    /\ req[c].op = "lookup"
    /\ LET n == req[c].name
           k == children[n]
       IN \/ k # 0 /\ procs[k].alive /\ Hold(c, NoReq) /\ UNCHANGED children
          \/ /\ k # 0 => ~procs[k].alive
             /\ children' = [children EXCEPT ![n] = 0]
             /\ Hold(c, [op |-> "spawn", name |-> n])
    /\ UNCHANGED <<stored, procs, stopped>>

(* cmd.Start, with the lock released. *)
Spawn(c) ==
    /\ req[c].op = "spawn"
    /\ Len(procs) < MaxChildren
    /\ procs' = Append(procs, [name |-> req[c].name, alive |-> TRUE])
    /\ Hold(c, [op |-> "listen", name |-> req[c].name, child |-> Len(procs) + 1])
    /\ UNCHANGED <<stored, children, stopped>>

(* Mutant: the handle is cached although there is no process. *)
SpawnFailsCached(c) ==
    /\ req[c].op = "spawn"
    /\ children' = [children EXCEPT ![req[c].name] = Len(procs) + 1]
    /\ Hold(c, NoReq)
    /\ UNCHANGED <<stored, procs, stopped>>

(* No free port, or Start fails. *)
SpawnFails(c) ==
    /\ req[c].op = "spawn"
    /\ Hold(c, NoReq)
    /\ UNCHANGED <<stored, children, procs, stopped>>

(* waitListening: the port answers ... *)
Listening(c) ==
    /\ req[c].op = "listen"
    /\ Hold(c, [req[c] EXCEPT !.op = "cache"])
    /\ UNCHANGED <<stored, children, procs, stopped>>

(* Mutant: a child that does not bind its port is left running. *)
NotListeningLeft(c) ==
    /\ req[c].op = "listen"
    /\ Hold(c, NoReq)
    /\ UNCHANGED <<stored, children, procs, stopped>>

(* ... or the caller leaves or ten seconds pass, and the child is killed. *)
NotListening(c) ==
    /\ req[c].op = "listen"
    /\ procs' = Killed(procs, {req[c].child})
    /\ Hold(c, NoReq)
    /\ UNCHANGED <<stored, children, stopped>>

(* The second critical section: whatever the map holds is replaced. *)
CacheChild(c) ==
    /\ req[c].op = "cache"
    /\ children' = [children EXCEPT ![req[c].name] = req[c].child]
    /\ Hold(c, NoReq)
    /\ UNCHANGED <<stored, procs, stopped>>

(* DELETE removes the resource, then stops its child. *)
DeleteResource(c, n) ==
    /\ Idle(c)
    /\ n \in stored
    /\ stored' = stored \ {n}
    /\ Hold(c, [op |-> "stop", name |-> n])
    /\ UNCHANGED <<children, procs, stopped>>

StopChild(c) ==
    /\ req[c].op = "stop"
    /\ children' = [children EXCEPT ![req[c].name] = 0]
    /\ procs' = Killed(procs, {children[req[c].name]})
    /\ Hold(c, NoReq)
    /\ UNCHANGED <<stored, stopped>>

(* A child may exit by itself at any time. *)
ChildExits(k) ==
    /\ procs[k].alive
    /\ procs' = Killed(procs, {k})
    /\ UNCHANGED <<stored, children, req, stopped>>

(* Service.Stop at shutdown: stopAll.  The API is still served. *)
StopAll ==
    /\ ~stopped
    /\ stopped' = TRUE
    /\ procs' = Killed(procs, {children[n] : n \in Names})
    /\ children' = [n \in Names |-> 0]
    /\ UNCHANGED <<stored, req>>

-----------------------------------------------------------------------------
Init ==
    /\ stored = {}
    /\ children = [n \in Names |-> 0]
    /\ procs = <<>>
    /\ req = [c \in Clients |-> NoReq]
    /\ stopped = FALSE
    /\ raced = {}

Continue(c) ==
    \/ Lookup(c)
    \/ Spawn(c) \/ SpawnFails(c)
    \/ Listening(c) \/ NotListening(c)
    \/ CacheChild(c)
    \/ StopChild(c)

(* The names two calls in progress are about: the lock is released while a *)
(* process is spawned, and Start and waitListening run without it.         *)
About(c, n) == ~Idle(c) /\ req[c].name = n

Races ==
    {n \in Names : \E c, d \in Clients : c # d /\ About(c, n) /\ About(d, n)}

Next ==
    /\ \/ \E n \in Names : CreateResource(n)
       \/ \E c \in Clients : \/ \E n \in Names : Invoke(c, n) \/ DeleteResource(c, n)
                             \/ Continue(c)
       \/ \E k \in DOMAIN procs : ChildExits(k)
       \/ StopAll
    /\ raced' = raced \cup Races'

Spec == Init /\ [][Next]_vars

-----------------------------------------------------------------------------
(* Properties. *)

TypeOK ==
    /\ stored \subseteq Names
    /\ procs \in Seq(Process) /\ Len(procs) <= MaxChildren
    /\ children \in [Names -> 0..Len(procs)]
    /\ req \in [Clients -> Request]
    /\ stopped \in BOOLEAN
    /\ raced \subseteq Names

Quiet == \A c \in Clients : Idle(c)

(* No child is lost: when no call is in progress, a process that runs is the *)
(* cached child of a resource that exists, where the next invoke, DELETE and, *)
(* until it has run, stopAll look for it, whether its port answered, the      *)
(* spawn failed, the child before it died or other names were in use          *)
(* (runner.startOrGet, runner.stop).  Two things it does not say.  stopAll    *)
(* runs once: a child cached behind it stays in the map, and only DELETE, if  *)
(* it still comes, ends it (MCCloudRun).  And it leaves out the names two     *)
(* calls were about at once.                                                  *)
NoLeakedChild ==
    Quiet => \A k \in DOMAIN procs : procs[k].alive =>
        \/ procs[k].name \in raced
        \/ procs[k].name \in stored /\ children[procs[k].name] = k
-----------------------------------------------------------------------------
(* The inductive invariant behind NoLeakedChild. *)

(* Two calls on one name are on record. *)
RacesKept == Races \subseteq raced

(* A call between its critical sections is about a stored resource without a *)
(* cached child, and about a process it has spawned.                         *)
CallsAlone ==
    \A c \in Clients :
        /\ req[c].op \in {"lookup", "spawn", "listen", "cache"} => req[c].name \in stored \cup raced
        /\ req[c].op \in {"spawn", "listen", "cache"} =>
              req[c].name \in raced \/ children[req[c].name] = 0
        /\ req[c].op \in {"listen", "cache"} => req[c].child <= Len(procs)

(* A child of a name without races is cached, for a resource that exists or *)
(* that a call is about to stop, or is about to be.                         *)
Cached(k) ==
    LET n == procs[k].name
    IN children[n] = k /\ (n \in stored \/ \E c \in Clients : req[c].op = "stop" /\ req[c].name = n)

Expected(k) ==
    \E c \in Clients :
        req[c].op \in {"listen", "cache"} /\ req[c].child = k /\ req[c].name = procs[k].name

ChildrenOwned ==
    \A k \in DOMAIN procs :
        procs[k].alive => procs[k].name \in raced \/ Cached(k) \/ Expected(k)

IInv == TypeOK /\ RacesKept /\ CallsAlone /\ ChildrenOwned
=============================================================================
