---------------------------- MODULE ServersProofs ---------------------------
(* Proofs about the parts that MCServers puts together, for all values of    *)
(* their constants.                                                          *)
EXTENDS MCServers, SequenceTheorems, FiniteSetTheorems, WellFoundedInduction, NaturalsInduction, TLAPS

-----------------------------------------------------------------------------
(* Cloud Run. *)

(* A call holds the fields of its operation (startOrGet, stop). *)
LEMMA RunCallFields ==
  ASSUME Run!TypeOK, NEW c \in Clients
  PROVE  /\ runReq[c].op \in {"none", "lookup", "spawn", "stop", "listen", "cache"}
         /\ Run!Idle(c) <=> runReq[c].op = "none"
         /\ runReq[c].op # "none" => runReq[c].name \in Pair
         /\ runReq[c].op \in {"listen", "cache"} => runReq[c].child \in 1..MaxChildren
         /\ [runReq[c] EXCEPT !.op = "cache"].op = "cache"
         /\ runReq[c].op = "listen" =>
               /\ [runReq[c] EXCEPT !.op = "cache"] \in Run!Request
               /\ [runReq[c] EXCEPT !.op = "cache"].name = runReq[c].name
               /\ [runReq[c] EXCEPT !.op = "cache"].child = runReq[c].child
  <1>1. runReq[c] \in Run!Request
    BY DEF Run!TypeOK
  <1>2. CASE runReq[c] = Run!NoReq
    BY <1>2 DEF Run!Idle, Run!NoReq
  <1>3. CASE runReq[c] \in [op : {"lookup", "spawn", "stop"}, name : Pair]
    BY <1>3 DEF Run!Idle, Run!NoReq
  <1>4. CASE runReq[c] \in [op : {"listen", "cache"}, name : Pair, child : 1..MaxChildren]
    BY <1>4 DEF Run!Idle, Run!NoReq, Run!Request
  <1>5. QED
    BY <1>1, <1>2, <1>3, <1>4 DEF Run!Request

LEMMA ProcessFields ==
  ASSUME Run!TypeOK
  PROVE  /\ procs \in Seq(Run!Process) /\ Len(procs) \in Nat /\ DOMAIN procs = 1..Len(procs)
         /\ \A k \in DOMAIN procs : procs[k].name \in Pair
  <1>1. procs \in Seq(Run!Process) /\ Len(procs) \in Nat /\ DOMAIN procs = 1..Len(procs)
    BY DEF Run!TypeOK
  <1>2. \A k \in DOMAIN procs : procs[k] \in Run!Process
    BY <1>1
  <1>3. \A p \in Run!Process : p.name \in Pair
    BY DEF Run!Process
  <1>4. QED
    BY <1>1, <1>2, <1>3

(* A kill ends the processes named and leaves the others as they are. *)
LEMMA KilledFields ==
  ASSUME Run!TypeOK, NEW K, NEW ps, ps = Run!Killed(procs, K)
  PROVE  /\ ps \in Seq(Run!Process) /\ Len(ps) = Len(procs) /\ DOMAIN ps = DOMAIN procs
         /\ \A k \in DOMAIN procs : /\ ps[k].name = procs[k].name
                                    /\ k \in K => ~ps[k].alive
                                    /\ k \notin K => ps[k] = procs[k]
  <1>1. procs \in Seq(Run!Process) /\ Len(procs) \in Nat /\ DOMAIN procs = 1..Len(procs)
    BY DEF Run!TypeOK
  <1>2. \A k \in 1..Len(procs) : procs[k] \in Run!Process /\ [procs[k] EXCEPT !.alive = FALSE] \in Run!Process
    <2>1. \A k \in 1..Len(procs) : procs[k] \in Run!Process
      BY <1>1
    <2>2. \A p \in Run!Process : [p EXCEPT !.alive = FALSE] \in Run!Process
      BY DEF Run!Process
    <2>3. QED
      BY <2>1, <2>2
  <1>3. DOMAIN ps = 1..Len(procs) /\ \A k \in 1..Len(procs) :
           ps[k] = IF k \in K THEN [procs[k] EXCEPT !.alive = FALSE] ELSE procs[k]
    BY <1>1 DEF Run!Killed
  <1>4. ps \in [1..Len(procs) -> Run!Process]
    BY <1>1, <1>2 DEF Run!Killed
  <1>5. ps \in Seq(Run!Process) /\ Len(ps) = Len(procs)
    BY <1>1, <1>4
  <1>6. \A k \in 1..Len(procs) : /\ [procs[k] EXCEPT !.alive = FALSE].name = procs[k].name
                                 /\ ~[procs[k] EXCEPT !.alive = FALSE].alive
    BY <1>2 DEF Run!Process
  <1>7. QED
    BY <1>1, <1>3, <1>5, <1>6

LEMMA RunInit == Run!Init => Run!IInv
  <1> SUFFICES ASSUME Run!Init PROVE Run!IInv
    OBVIOUS
  <1>1. procs = <<>> /\ Len(procs) = 0 /\ DOMAIN procs = {} /\ procs \in Seq(Run!Process)
    BY DEF Run!Init
  <1>2. \A c \in Clients : runReq[c] = Run!NoReq /\ runReq[c].op = "none"
    BY DEF Run!Init, Run!NoReq
  <1>3. Run!TypeOK
    <2>1. runStopped \in BOOLEAN
      BY Zenon DEF Run!Init
    <2>2. children \in [Pair -> 0..Len(procs)] /\ Len(procs) <= MaxChildren
      BY <1>1, ServersAssumption DEF Run!Init
    <2>3. runReq \in [Clients -> Run!Request] /\ resources \subseteq Pair /\ runRaced \subseteq Pair
      BY DEF Run!Init, Run!Request
    <2>4. QED
      BY <1>1, <2>1, <2>2, <2>3 DEF Run!TypeOK
  <1>4. Run!RacesKept
    BY <1>2 DEF Run!RacesKept, Run!Races, Run!About, Run!Idle
  <1>5. Run!CallsAlone
    BY <1>2 DEF Run!CallsAlone
  <1>6. Run!ChildrenOwned
    BY <1>1 DEF Run!ChildrenOwned
  <1>7. QED
    BY <1>3, <1>4, <1>5, <1>6 DEF Run!IInv

(* What every step does to the history, and so what is left to show of one. *)
LEMMA RunStepParts ==
  ASSUME Run!IInv, runRaced' = runRaced \cup Run!Races', Run!TypeOK', Run!CallsAlone',
         \A k \in DOMAIN procs' :
            procs'[k].alive => procs'[k].name \in runRaced' \/ Run!Cached(k)' \/ Run!Expected(k)'
  PROVE  Run!IInv'
  <1>1. Run!RacesKept'
    BY DEF Run!RacesKept
  <1>2. Run!ChildrenOwned'
    BY DEF Run!ChildrenOwned
  <1>3. QED
    BY <1>1, <1>2 DEF Run!IInv

(* The history grows, and holds every name two calls are about (Races). *)
LEMMA RunHistory ==
  ASSUME Run!IInv, runRaced' = runRaced \cup Run!Races'
  PROVE  /\ runRaced \subseteq runRaced' /\ runRaced' \subseteq Pair
         /\ \A c, d \in Clients : c # d /\ runReq'[c] # Run!NoReq /\ runReq'[d] # Run!NoReq
                /\ runReq'[c].name = runReq'[d].name /\ runReq'[c].name \in Pair => runReq'[c].name \in runRaced'
         /\ \A c, d \in Clients : c # d /\ runReq[c].op # "none" /\ runReq[d].op # "none"
                /\ runReq[c].name = runReq[d].name => runReq[c].name \in runRaced
  <1>1. runRaced \subseteq runRaced' /\ runRaced' \subseteq Pair
    BY DEF Run!IInv, Run!TypeOK, Run!Races
  <1>2. \A c, d \in Clients : c # d /\ runReq'[c] # Run!NoReq /\ runReq'[d] # Run!NoReq
          /\ runReq'[c].name = runReq'[d].name /\ runReq'[c].name \in Pair => runReq'[c].name \in runRaced'
    BY DEF Run!Races, Run!About, Run!Idle
  <1>3. \A c, d \in Clients : c # d /\ runReq[c].op # "none" /\ runReq[d].op # "none"
          /\ runReq[c].name = runReq[d].name => runReq[c].name \in runRaced
    BY RunCallFields DEF Run!IInv, Run!RacesKept, Run!Races, Run!About
  <1>4. QED
    BY <1>1, <1>2, <1>3

(* The steps that belong to no call. *)
LEMMA RunOutside ==
  ASSUME Run!IInv, runRaced' = runRaced \cup Run!Races',
         \/ \E n \in Pair : Run!CreateResource(n)
         \/ \E k \in DOMAIN procs : Run!ChildExits(k)
         \/ Run!StopAll
  PROVE  Run!IInv'
  <1>1. /\ Run!TypeOK /\ runRaced \subseteq runRaced' /\ runRaced' \subseteq Pair /\ runReq' = runReq
        /\ runReq \in [Clients -> Run!Request] /\ resources \subseteq resources' /\ resources' \subseteq Pair
    BY RunHistory DEF Run!IInv, Run!TypeOK, Run!CreateResource, Run!ChildExits, Run!StopAll
  <1>2. /\ procs' \in Seq(Run!Process) /\ Len(procs') = Len(procs) /\ DOMAIN procs' = DOMAIN procs
        /\ \A k \in DOMAIN procs : procs'[k].name = procs[k].name /\ (procs'[k].alive => procs[k].alive)
    <2>1. CASE procs' = procs
      BY <1>1, <2>1 DEF Run!TypeOK
    <2>2. ASSUME NEW K, procs' = Run!Killed(procs, K)
          PROVE  /\ procs' \in Seq(Run!Process) /\ Len(procs') = Len(procs) /\ DOMAIN procs' = DOMAIN procs
                 /\ \A k \in DOMAIN procs : procs'[k].name = procs[k].name /\ (procs'[k].alive => procs[k].alive)
      BY <1>1, <2>2, KilledFields
    <2>3. QED
      BY <2>1, <2>2 DEF Run!CreateResource, Run!ChildExits, Run!StopAll
  <1>3. /\ children' \in [Pair -> 0..Len(procs)] /\ runStopped' \in BOOLEAN
        /\ \A n \in Pair : children'[n] # 0 => children'[n] = children[n]
        /\ \A n \in Pair : \A k \in DOMAIN procs :
              procs'[k].alive /\ children[n] = k => children'[n] = k
    <2>1. CASE UNCHANGED <<children, runStopped>>
      BY <1>1, <2>1 DEF Run!TypeOK
    <2>2. CASE Run!StopAll
      <3>1. children' = [n \in Pair |-> 0] /\ procs' = Run!Killed(procs, {children[n] : n \in Pair})
        BY <2>2 DEF Run!StopAll
      <3>2. \A k \in DOMAIN procs : k \in {children[n] : n \in Pair} => ~procs'[k].alive
        BY <1>1, <3>1, KilledFields
      <3>3. runStopped' \in BOOLEAN
        BY <2>2, Zenon DEF Run!StopAll
      <3>4. Len(procs) \in Nat
        BY <1>1 DEF Run!TypeOK
      <3>5. QED
        BY <3>1, <3>2, <3>3, <3>4
    <2>3. QED
      BY <2>1, <2>2 DEF Run!CreateResource, Run!ChildExits
  <1>4. Run!TypeOK'
    BY <1>1, <1>2, <1>3 DEF Run!TypeOK
  <1>5. Run!CallsAlone'
    BY <1>1, <1>2, <1>3, RunCallFields DEF Run!IInv, Run!CallsAlone
  <1>6. ASSUME NEW k \in DOMAIN procs', procs'[k].alive
        PROVE  procs'[k].name \in runRaced' \/ Run!Cached(k)' \/ Run!Expected(k)'
    <2>1. k \in DOMAIN procs /\ procs[k].alive /\ procs'[k].name = procs[k].name /\ procs[k].name \in Pair
      <3>1. k \in DOMAIN procs /\ procs[k].alive /\ procs'[k].name = procs[k].name
        BY <1>2, <1>6
      <3>2. procs[k].name \in Pair
        BY <1>1, <3>1, ProcessFields
      <3>3. QED
        BY <3>1, <3>2
    <2>2. Run!Cached(k) => Run!Cached(k)'
      BY <1>1, <1>3, <1>6, <2>1 DEF Run!Cached
    <2>3. Run!Expected(k) => Run!Expected(k)'
      BY <1>1, <2>1 DEF Run!Expected
    <2>4. QED
      BY <1>1, <2>1, <2>2, <2>3 DEF Run!IInv, Run!ChildrenOwned
  <1>7. QED
    BY <1>4, <1>5, <1>6, RunStepParts

(* A call that begins: invoke reads the resource, DELETE removes it. *)
LEMMA RunBegins ==
  ASSUME Run!IInv, runRaced' = runRaced \cup Run!Races', NEW c \in Clients, NEW n \in Pair,
         Run!Invoke(c, n) \/ Run!DeleteResource(c, n)
  PROVE  Run!IInv'
  <1>0. PICK r : /\ Run!Hold(c, r) /\ r.name = n /\ r # Run!NoReq /\ r \in Run!Request
                 /\ \/ r.op = "lookup" /\ n \in resources /\ resources' = resources
                    \/ r.op = "stop" /\ resources' = resources \ {n}
    <2>1. CASE Run!Invoke(c, n)
      <3> DEFINE r == [op |-> "lookup", name |-> n]
      <3>1. r.op = "lookup" /\ r.name = n /\ r # Run!NoReq /\ r \in Run!Request
        BY DEF Run!Request, Run!NoReq
      <3>2. Run!Hold(c, r) /\ n \in resources /\ resources' = resources
        BY <2>1 DEF Run!Invoke
      <3> HIDE DEF r
      <3>3. QED
        BY <3>1, <3>2
    <2>2. CASE Run!DeleteResource(c, n)
      <3> DEFINE r == [op |-> "stop", name |-> n]
      <3>1. r.op = "stop" /\ r.name = n /\ r # Run!NoReq /\ r \in Run!Request
        BY DEF Run!Request, Run!NoReq
      <3>2. Run!Hold(c, r) /\ resources' = resources \ {n}
        BY <2>2 DEF Run!DeleteResource
      <3> HIDE DEF r
      <3>3. QED
        BY <3>1, <3>2
    <2>3. QED
      BY <2>1, <2>2
  <1>1. /\ Run!TypeOK /\ UNCHANGED <<children, procs, runStopped>> /\ runReq[c].op = "none"
        /\ runReq'[c] = r /\ (\A d \in Clients : d # c => runReq'[d] = runReq[d])
        /\ runReq' \in [Clients -> Run!Request]
    BY <1>0, RunCallFields DEF Run!IInv, Run!TypeOK, Run!Hold, Run!Invoke, Run!DeleteResource
  <1>2. runRaced \subseteq runRaced' /\ runRaced' \subseteq Pair
    BY RunHistory
  <1>3. Run!TypeOK'
    BY <1>0, <1>1, <1>2 DEF Run!TypeOK
  <1>4. ASSUME NEW d \in Clients, d # c, runReq[d].op # "none", runReq[d].name = n PROVE n \in runRaced'
    <2>1. runReq'[d] # Run!NoReq /\ runReq'[d].name = n
      BY <1>1, <1>4, RunCallFields DEF Run!Idle
    <2>2. QED
      BY <1>0, <1>1, <1>4, <2>1, RunHistory
  <1>5. Run!CallsAlone'
    <2>1. ASSUME NEW d \in Clients, d # c
          PROVE  /\ runReq'[d].op \in {"lookup", "spawn", "listen", "cache"} => runReq'[d].name \in resources' \cup runRaced'
                 /\ runReq'[d].op \in {"spawn", "listen", "cache"} =>
                       runReq'[d].name \in runRaced' \/ children'[runReq'[d].name] = 0
                 /\ runReq'[d].op \in {"listen", "cache"} => runReq'[d].child <= Len(procs')
      BY <1>0, <1>1, <1>2, <1>4, <2>1 DEF Run!IInv, Run!CallsAlone
    <2>2. QED
      BY <1>0, <1>1, <2>1 DEF Run!CallsAlone
  <1>6. ASSUME NEW k \in DOMAIN procs', procs'[k].alive
        PROVE  procs'[k].name \in runRaced' \/ Run!Cached(k)' \/ Run!Expected(k)'
    <2>1. k \in DOMAIN procs /\ procs[k].alive /\ procs' = procs
      BY <1>1, <1>6
    <2>2. Run!Cached(k) => Run!Cached(k)'
      BY <1>0, <1>1, <2>1 DEF Run!Cached
    <2>3. Run!Expected(k) => Run!Expected(k)'
      BY <1>1, <2>1 DEF Run!Expected
    <2>4. QED
      BY <1>2, <2>1, <2>2, <2>3 DEF Run!IInv, Run!ChildrenOwned
  <1>7. QED
    BY <1>3, <1>5, <1>6, RunStepParts

(* The steps of startOrGet that spawn nothing, and stop. *)
LEMMA RunContinues ==
  ASSUME Run!IInv, runRaced' = runRaced \cup Run!Races', NEW c \in Clients,
         \/ Run!Lookup(c) \/ Run!SpawnFails(c) \/ Run!Listening(c) \/ Run!NotListening(c)
         \/ Run!CacheChild(c) \/ Run!StopChild(c)
  PROVE  Run!IInv'
  <1>0. /\ Run!TypeOK /\ runReq[c].op # "none" /\ resources' = resources /\ runStopped' = runStopped
        /\ Run!NoReq.op = "none" /\ Run!NoReq \in Run!Request
        /\ children \in [Pair -> 0..Len(procs)] /\ runReq \in [Clients -> Run!Request]
    BY DEF Run!IInv, Run!TypeOK, Run!Lookup, Run!SpawnFails, Run!Listening, Run!NotListening, Run!CacheChild,
           Run!StopChild, Run!NoReq, Run!Request
  <1>1. PICK n \in Pair : n = runReq[c].name
    BY <1>0, RunCallFields
  <1>2. runRaced \subseteq runRaced' /\ runRaced' \subseteq Pair
    BY RunHistory
  <1>3. \A d \in Clients : d # c /\ runReq[d].op # "none" /\ runReq[d].name = n => n \in runRaced
    BY <1>0, <1>1, RunHistory
  (* The call before and after, the entry of its name and its process. *)
  <1>4. PICK r : /\ Run!Hold(c, r) /\ r \in Run!Request
                 /\ r.op \in {"none", "spawn", "cache"} /\ (r.op # "none" => r.name = n)
                 /\ r.op \in {"spawn", "cache"} => runReq[c].op \in {"lookup", "listen"}
                 /\ r.op = "spawn" => children'[n] = 0
                 /\ r.op = "cache" => runReq[c].op = "listen" /\ r.child = runReq[c].child /\ children' = children
    <2>1. CASE Run!Lookup(c) /\ Run!Hold(c, Run!NoReq)
      BY <1>0, <2>1
    <2>2. CASE Run!Lookup(c) /\ Run!Hold(c, [op |-> "spawn", name |-> runReq[c].name])
                             /\ children' = [children EXCEPT ![runReq[c].name] = 0]
      <3> DEFINE r == [op |-> "spawn", name |-> n]
      <3>1. r \in Run!Request /\ r.op = "spawn" /\ r.name = n
        BY DEF Run!Request
      <3>2. Run!Hold(c, r) /\ children'[n] = 0 /\ runReq[c].op = "lookup"
        BY <1>0, <1>1, <2>2 DEF Run!Lookup
      <3> HIDE DEF r
      <3>3. QED
        BY <3>1, <3>2
    <2>3. CASE Run!Listening(c)
      <3> DEFINE r == [runReq[c] EXCEPT !.op = "cache"]
      <3>0. runReq[c].op = "listen" /\ Run!Hold(c, r) /\ children' = children
        BY <2>3 DEF Run!Listening
      <3>1. r \in Run!Request /\ r.op = "cache" /\ r.name = n /\ r.child = runReq[c].child
        BY <1>0, <1>1, <3>0, RunCallFields
      <3> HIDE DEF r
      <3>2. QED
        BY <3>0, <3>1
    <2>4. CASE Run!SpawnFails(c) \/ Run!NotListening(c) \/ Run!CacheChild(c) \/ Run!StopChild(c)
      <3>1. Run!Hold(c, Run!NoReq)
        BY <2>4 DEF Run!SpawnFails, Run!NotListening, Run!CacheChild, Run!StopChild
      <3>2. QED
        BY <1>0, <3>1
    <2>5. QED
      BY <2>1, <2>2, <2>3, <2>4 DEF Run!Lookup
  <1>5. /\ runReq'[c] = r /\ (\A d \in Clients : d # c => runReq'[d] = runReq[d])
        /\ runReq' \in [Clients -> Run!Request]
    BY <1>0, <1>4 DEF Run!Hold
  <1>6. /\ procs' \in Seq(Run!Process) /\ Len(procs') = Len(procs) /\ DOMAIN procs' = DOMAIN procs
        /\ \A k \in DOMAIN procs : procs'[k].name = procs[k].name /\ (procs'[k].alive => procs[k].alive)
    <2>1. CASE procs' = procs
      BY <1>0, <2>1 DEF Run!TypeOK
    <2>2. ASSUME NEW K, procs' = Run!Killed(procs, K)
          PROVE  /\ procs' \in Seq(Run!Process) /\ Len(procs') = Len(procs) /\ DOMAIN procs' = DOMAIN procs
                 /\ \A k \in DOMAIN procs : procs'[k].name = procs[k].name /\ (procs'[k].alive => procs[k].alive)
      BY <1>0, <2>2, KilledFields
    <2>3. QED
      BY <2>1, <2>2 DEF Run!Lookup, Run!SpawnFails, Run!Listening, Run!NotListening, Run!CacheChild, Run!StopChild
  <1>7. /\ children' \in [Pair -> 0..Len(procs)]
        /\ \A m \in Pair : m # n => children'[m] = children[m]
        /\ children'[n] \in {0, children[n]} \/ (runReq[c].op = "cache" /\ children'[n] = runReq[c].child /\ r.op = "none")
    <2>1. CASE children' = children
      BY <1>0, <2>1
    <2>2. CASE children' = [children EXCEPT ![n] = 0]
      BY <1>0, <2>2, ProcessFields
    <2>3. CASE Run!CacheChild(c)
      <3>1. runReq[c].child \in 0..Len(procs) /\ runReq[c].op = "cache" /\ r = Run!NoReq
            /\ children' = [children EXCEPT ![n] = runReq[c].child]
        <4>1. runReq[c].op = "cache" /\ children' = [children EXCEPT ![n] = runReq[c].child] /\ Run!Hold(c, Run!NoReq)
          BY <1>1, <2>3 DEF Run!CacheChild
        <4>2. r = Run!NoReq
          BY <1>0, <1>5, <4>1 DEF Run!Hold
        <4>3. runReq[c].child \in 1..MaxChildren /\ runReq[c].child <= Len(procs) /\ Len(procs) \in Nat
          BY <1>0, <4>1, RunCallFields, ProcessFields DEF Run!IInv, Run!CallsAlone
        <4>4. QED
          BY <4>1, <4>2, <4>3, ServersAssumption
      <3>2. QED
        BY <1>0, <3>1
    <2>4. QED
      BY <1>1, <2>1, <2>2, <2>3 DEF Run!Lookup, Run!SpawnFails, Run!Listening, Run!NotListening, Run!StopChild
  <1>8. Run!TypeOK'
    BY <1>0, <1>2, <1>5, <1>6, <1>7 DEF Run!TypeOK
  <1>9. Run!CallsAlone'
    <2>1. ASSUME NEW d \in Clients, d # c
          PROVE  /\ runReq'[d].op \in {"lookup", "spawn", "listen", "cache"} => runReq'[d].name \in resources' \cup runRaced'
                 /\ runReq'[d].op \in {"spawn", "listen", "cache"} =>
                       runReq'[d].name \in runRaced' \/ children'[runReq'[d].name] = 0
                 /\ runReq'[d].op \in {"listen", "cache"} => runReq'[d].child <= Len(procs')
      <3>1. runReq'[d] = runReq[d]
        BY <1>5, <2>1
      <3>2. runReq[d].op \in {"spawn", "listen", "cache"} =>
               runReq[d].name \in runRaced \/ (runReq[d].name # n /\ runReq[d].name \in Pair /\ children[runReq[d].name] = 0)
        BY <1>0, <1>3, <2>1, RunCallFields DEF Run!IInv, Run!CallsAlone
      <3>3. QED
        BY <1>0, <1>2, <1>6, <1>7, <3>1, <3>2 DEF Run!IInv, Run!CallsAlone
    <2>2. /\ r.op \in {"lookup", "spawn", "listen", "cache"} => r.name \in resources' \cup runRaced'
          /\ r.op \in {"spawn", "listen", "cache"} => r.name \in runRaced' \/ children'[r.name] = 0
          /\ r.op \in {"listen", "cache"} => r.child <= Len(procs')
      BY <1>0, <1>1, <1>2, <1>4, <1>6 DEF Run!IInv, Run!CallsAlone
    <2>3. QED
      BY <1>5, <2>1, <2>2 DEF Run!CallsAlone
  <1>10. ASSUME NEW k \in DOMAIN procs', procs'[k].alive
         PROVE  procs'[k].name \in runRaced' \/ Run!Cached(k)' \/ Run!Expected(k)'
    <2>1. /\ k \in DOMAIN procs /\ procs[k].alive /\ procs'[k].name = procs[k].name
          /\ procs[k].name \in Pair /\ k # 0
      BY <1>0, <1>6, <1>10, ProcessFields
    <2>2. procs[k].name \in runRaced \/ Run!Cached(k) \/ Run!Expected(k)
      BY <2>1 DEF Run!IInv, Run!ChildrenOwned
    <2>3. CASE procs[k].name # n
      <3>1. Run!Cached(k) => Run!Cached(k)'
        BY <1>0, <1>1, <1>5, <1>7, <2>1, <2>3 DEF Run!Cached
      <3>2. Run!Expected(k) => Run!Expected(k)'
        BY <1>1, <1>5, <2>1, <2>3 DEF Run!Expected
      <3>3. QED
        BY <1>2, <2>1, <2>2, <3>1, <3>2
    <2>4. CASE procs[k].name = n /\ n \notin runRaced
      <3>1. \A d \in Clients : runReq[d].op # "none" /\ runReq[d].name = n => d = c
        BY <1>3, <2>4
      <3>2. CASE Run!Cached(k)
        <4>1. children[n] = k /\ (n \in resources \/ runReq[c].op = "stop")
          BY <2>4, <3>1, <3>2 DEF Run!Cached
        <4>2. runReq[c].op \notin {"spawn", "listen", "cache"}
          BY <1>1, <2>1, <2>4, <4>1 DEF Run!IInv, Run!CallsAlone
        <4>3. CASE Run!Lookup(c)
          <5>1. children'[n] = k /\ n \in resources
            BY <1>0, <1>1, <2>1, <4>1, <4>3 DEF Run!Lookup
          <5>2. QED
            BY <1>0, <2>1, <2>4, <5>1 DEF Run!Cached
        <4>4. CASE Run!StopChild(c)
          <5>1. procs' = Run!Killed(procs, {k})
            BY <1>1, <4>1, <4>4 DEF Run!StopChild
          <5>2. QED
            BY <1>0, <1>10, <2>1, <5>1, KilledFields
        <4>5. QED
          BY <4>2, <4>3, <4>4 DEF Run!SpawnFails, Run!Listening, Run!NotListening, Run!CacheChild
      <3>3. CASE Run!Expected(k)
        <4>1. runReq[c].op \in {"listen", "cache"} /\ runReq[c].child = k
          BY <2>4, <3>1, <3>3 DEF Run!Expected
        <4>2. CASE Run!Listening(c)
          <5>1. runReq'[c].op = "cache" /\ runReq'[c].child = k /\ runReq'[c].name = procs'[k].name
            BY <1>0, <1>1, <2>1, <2>4, <4>1, <4>2, RunCallFields DEF Run!Listening, Run!Hold
          <5>2. QED
            BY <5>1 DEF Run!Expected
        <4>3. CASE Run!NotListening(c)
          <5>1. procs' = Run!Killed(procs, {k})
            BY <4>1, <4>3 DEF Run!NotListening
          <5>2. QED
            BY <1>0, <1>10, <2>1, <5>1, KilledFields
        <4>4. CASE Run!CacheChild(c)
          <5>1. children'[n] = k
            BY <1>0, <1>1, <4>1, <4>4 DEF Run!CacheChild
          <5>2. n \in resources
            BY <1>1, <2>4, <4>1 DEF Run!IInv, Run!CallsAlone
          <5>3. QED
            BY <1>0, <2>1, <2>4, <5>1, <5>2 DEF Run!Cached
        <4>5. QED
          BY <4>1, <4>2, <4>3, <4>4 DEF Run!Lookup, Run!SpawnFails, Run!StopChild
      <3>4. QED
        BY <2>2, <2>4, <3>2, <3>3
    <2>5. QED
      BY <1>2, <2>1, <2>3, <2>4
  <1>11. QED
    BY <1>8, <1>9, <1>10, RunStepParts

(* cmd.Start: the new process is the one its call waits for. *)
LEMMA RunSpawns ==
  ASSUME Run!IInv, runRaced' = runRaced \cup Run!Races', NEW c \in Clients, Run!Spawn(c)
  PROVE  Run!IInv'
  <1>0. /\ Run!TypeOK /\ runReq[c].op = "spawn" /\ UNCHANGED <<resources, children, runStopped>>
        /\ procs \in Seq(Run!Process) /\ Len(procs) \in Nat /\ DOMAIN procs = 1..Len(procs)
        /\ children \in [Pair -> 0..Len(procs)] /\ runReq \in [Clients -> Run!Request]
    BY ProcessFields DEF Run!IInv, Run!TypeOK, Run!Spawn
  <1>1. PICK n \in Pair, j \in Nat : n = runReq[c].name /\ j = Len(procs) + 1
    <2>1. runReq[c].name \in Pair
      BY <1>0, RunCallFields
    <2>2. Len(procs) + 1 \in Nat
      BY <1>0
    <2>3. QED
      BY <2>1, <2>2
  <1> DEFINE p == [name |-> n, alive |-> TRUE]
             r == [op |-> "listen", name |-> n, child |-> j]
  <1>2. procs' = Append(procs, p) /\ runReq' = [runReq EXCEPT ![c] = r] /\ j <= MaxChildren
    BY <1>0, <1>1, ServersAssumption DEF Run!Spawn, Run!Hold
  <1>3. p \in Run!Process /\ p.name = n
    BY DEF Run!Process
  <1>4. r \in Run!Request /\ r.op = "listen" /\ r.name = n /\ r.child = j
    BY <1>0, <1>1, <1>2, ServersAssumption DEF Run!Request
  <1> HIDE DEF p, r
  <1>5. /\ procs' \in Seq(Run!Process) /\ Len(procs') = j /\ procs'[j] = p
        /\ \A k \in 1..Len(procs) : procs'[k] = procs[k]
        /\ DOMAIN procs' = 1..j /\ \A k \in 1..j : k = j \/ k \in 1..Len(procs)
    BY <1>0, <1>1, <1>2, <1>3
  <1>6. /\ runReq'[c] = r /\ (\A d \in Clients : d # c => runReq'[d] = runReq[d])
        /\ runReq' \in [Clients -> Run!Request]
    BY <1>0, <1>2, <1>4
  <1>7. runRaced \subseteq runRaced' /\ runRaced' \subseteq Pair
    BY RunHistory
  <1>8. Run!TypeOK'
    <2>1. children' \in [Pair -> 0..Len(procs')] /\ Len(procs') <= MaxChildren
      BY <1>0, <1>1, <1>2, <1>5
    <2>2. QED
      BY <1>0, <1>5, <1>6, <1>7, <2>1 DEF Run!TypeOK
  <1>9. Run!CallsAlone'
    <2>1. ASSUME NEW d \in Clients, d # c
          PROVE  /\ runReq'[d].op \in {"lookup", "spawn", "listen", "cache"} => runReq'[d].name \in resources' \cup runRaced'
                 /\ runReq'[d].op \in {"spawn", "listen", "cache"} =>
                       runReq'[d].name \in runRaced' \/ children'[runReq'[d].name] = 0
                 /\ runReq'[d].op \in {"listen", "cache"} => runReq'[d].child <= Len(procs')
      <3>1. runReq[d].op \in {"listen", "cache"} => runReq[d].child <= Len(procs')
        <4>1. runReq[d].op \in {"listen", "cache"} => runReq[d].child \in Int /\ runReq[d].child <= Len(procs)
          <5>1. runReq[d].op \in {"listen", "cache"} => runReq[d].child \in 1..MaxChildren
            BY <1>0, RunCallFields
          <5>2. \A i \in 1..MaxChildren : i \in Int
            OBVIOUS
          <5>3. QED
            BY <5>1, <5>2 DEF Run!IInv, Run!CallsAlone
        <4>2. QED
          BY <1>0, <1>1, <1>5, <4>1
      <3>2. QED
        BY <1>0, <1>6, <1>7, <2>1, <3>1 DEF Run!IInv, Run!CallsAlone
    <2>2. /\ n \in resources' \cup runRaced'
          /\ n \in runRaced' \/ children'[n] = 0
          /\ j <= Len(procs')
      BY <1>0, <1>1, <1>5, <1>7 DEF Run!IInv, Run!CallsAlone
    <2>3. QED
      BY <1>4, <1>6, <2>1, <2>2 DEF Run!CallsAlone
  <1>10. ASSUME NEW k \in DOMAIN procs', procs'[k].alive
         PROVE  procs'[k].name \in runRaced' \/ Run!Cached(k)' \/ Run!Expected(k)'
    <2>1. CASE k = j
      BY <1>3, <1>4, <1>5, <1>6, <2>1 DEF Run!Expected
    <2>2. CASE k # j
      <3>1. k \in DOMAIN procs /\ procs'[k] = procs[k] /\ procs[k].alive
        BY <1>0, <1>5, <1>10, <2>2
      <3>2. Run!Cached(k) => Run!Cached(k)'
        BY <1>0, <1>6, <3>1 DEF Run!Cached
      <3>3. Run!Expected(k) => Run!Expected(k)'
        BY <1>0, <1>6, <3>1 DEF Run!Expected
      <3>4. QED
        BY <1>7, <3>1, <3>2, <3>3 DEF Run!IInv, Run!ChildrenOwned
    <2>3. QED
      BY <2>1, <2>2
  <1>11. QED
    BY <1>8, <1>9, <1>10, RunStepParts

LEMMA RunStep == Run!IInv /\ [Run!Next]_run => Run!IInv'
  <1>1. ASSUME Run!IInv, UNCHANGED run PROVE Run!IInv'
    BY <1>1 DEF run, Run!IInv, Run!TypeOK, Run!RacesKept, Run!Races, Run!About, Run!Idle, Run!CallsAlone,
                Run!ChildrenOwned, Run!Cached, Run!Expected
  <1>2. ASSUME Run!IInv, Run!Next PROVE Run!IInv'
    <2>1. runRaced' = runRaced \cup Run!Races'
      BY <1>2 DEF Run!Next
    <2>2. ASSUME NEW c \in Clients, Run!Continue(c) PROVE Run!IInv'
      BY <1>2, <2>1, <2>2, RunContinues, RunSpawns DEF Run!Continue
    <2>3. QED
      BY <1>2, <2>1, <2>2, RunOutside, RunBegins DEF Run!Next
  <1>3. QED
    BY <1>1, <1>2

(* Whatever spawns fail, ports never answer, children die, resources are      *)
(* deleted and Stop comes between the critical sections of startOrGet, a      *)
(* process that runs while no call is in progress is the cached child of a    *)
(* stored resource, but for names two calls were about at once                *)
(* (NoLeakedChild).  It is not said that Stop ends it: a child cached behind  *)
(* stopAll is such a process, and runs on.                                    *)
THEOREM NoChildOutlivesItsUse == ServersSpec => []NoLeakedChild
  <1> DEFINE I == surface = "run" => Run!IInv
  <1>1. ServersInit => I
    BY RunInit DEF ServersInit
  <1>2. I /\ [ServersNext]_serversVars => I'
    <2>1. [ServersNext]_serversVars => surface' = surface /\ (surface = "run" => [Run!Next]_run)
      BY DEF ServersNext, serversVars
    <2>2. QED
      BY <2>1, RunStep
  <1>3. I => NoLeakedChild
    <2> SUFFICES ASSUME Run!IInv PROVE Run!TypeOK /\ Run!NoLeakedChild
      BY DEF NoLeakedChild
    <2>1. Run!TypeOK
      BY DEF Run!IInv
    <2>2. ASSUME Run!Quiet, NEW k \in DOMAIN procs, procs[k].alive
          PROVE  procs[k].name \in runRaced \/ (procs[k].name \in resources /\ children[procs[k].name] = k)
      <3>1. \A c \in Clients : runReq[c].op = "none"
        BY <2>1, <2>2, RunCallFields DEF Run!Quiet
      <3>2. ~Run!Expected(k) /\ (Run!Cached(k) => procs[k].name \in resources /\ children[procs[k].name] = k)
        BY <3>1 DEF Run!Expected, Run!Cached
      <3>3. QED
        BY <2>2, <3>2 DEF Run!IInv, Run!ChildrenOwned
    <2>3. QED
      BY <2>1, <2>2 DEF Run!NoLeakedChild
  <1>4. QED
    BY <1>1, <1>2, <1>3, PTL DEF ServersSpec

-----------------------------------------------------------------------------
(* The command line and the pid file. *)

LEMMA LifeInit == Life!Init => Life!IInv
  <1> SUFFICES ASSUME Life!Init PROVE Life!IInv
    OBVIOUS
  <1>1. Life!Shape
    BY DEF Life!Init, Life!Shape
  <1>2. Life!FileWritten /\ Life!BindersServed
    BY DEF Life!Init, Life!FileWritten, Life!Holding, Life!BindersServed, Life!Binds
  <1>3. Life!StopsWritten /\ Life!StartedHasServed
    BY DEF Life!Init, Life!StopsWritten, Life!StartedHasServed
  <1>4. Life!RacesKept
    BY DEF Life!Init, Life!RacesKept, Life!Races, Life!Alive
  <1>5. QED
    BY <1>1, <1>2, <1>3, <1>4 DEF Life!IInv

(* What a `stop` command holds. *)
LEMMA StopFields ==
  ASSUME Life!Shape, NEW c \in Commands, stop[c] # Life!NoStop
  PROVE  /\ stop[c] \in [op : {"read", "poll", "remove"}, pid : Pair] /\ stop[c].pid \in Pair
         /\ \A o \in {"read", "poll", "remove"} :
               LET r == [stop[c] EXCEPT !.op = o]
               IN /\ r \in [op : {"read", "poll", "remove"}, pid : Pair]
                  /\ r.op = o /\ r.pid = stop[c].pid /\ r # Life!NoStop
  <1>1. stop[c] \in [op : {"read", "poll", "remove"}, pid : Pair]
    BY DEF Life!Shape
  <1>2. QED
    BY <1>1 DEF Life!NoStop

(* The history grows, and holds the daemons that were alive with another one *)
(* or beside a `stop` that was busy with another one.                        *)
LEMMA LifeHistory ==
  ASSUME Life!IInv, raced' = raced \cup Life!Races'
  PROVE  /\ raced \subseteq raced' /\ Life!RacesKept'
         /\ \A d, e \in Pair : d # e /\ Life!Alive(d) /\ Life!Alive(e) => d \in raced
         /\ \A d, e \in Pair : d # e /\ Life!Alive(d)' /\ Life!Alive(e)' => d \in raced'
         /\ \A d \in Pair, c \in Commands :
               Life!Alive(d) /\ stop[c] # Life!NoStop /\ stop[c].pid # d => d \in raced
  BY DEF Life!IInv, Life!RacesKept, Life!Races

(* A daemon that goes from one state to the next without touching the file. *)
LEMMA DaemonMoves ==
  ASSUME Life!IInv, raced' = raced \cup Life!Races', NEW d \in Pair,
         NEW s \in {"new", "written", "serving", "stopping", "ending", "gone"}, Life!Becomes(d, s),
         proc[d] # "gone", s # "gone" => (Life!Alive(d) \/ s = "new"),
         UNCHANGED <<port, stop>>, report' \in [Pair -> {"none", "probing", "started", "failed"}],
         \A e \in Pair : report'[e] = "started" => report[e] = "started",
         served \subseteq served', served' \subseteq Pair, killed \subseteq killed',
         s \in {"serving", "stopping"} => d \in served',
         \/ /\ pidfile' = pidfile
            /\ s \in {"written", "serving", "stopping", "ending"} => Life!Holding(d)
            /\ Life!Holding(d) => s \in {"written", "serving", "stopping", "ending"} \/ killed' # {}
            /\ s = "new" => proc[d] = "none"
         \/ pidfile' = d /\ s = "written"
         \/ pidfile' = Life!NoFile /\ s = "gone" /\ Life!Holding(d)
  PROVE  Life!IInv'
  <1>1. /\ Life!Shape /\ Life!FileWritten /\ Life!StopsWritten /\ Life!BindersServed /\ Life!StartedHasServed
        /\ raced \subseteq raced' /\ Life!RacesKept'
    BY LifeHistory DEF Life!IInv
  <1>2. proc'[d] = s /\ \A e \in Pair : e # d => proc'[e] = proc[e]
    BY <1>1 DEF Life!Becomes, Life!Shape
  <1>3. Life!Shape'
    BY <1>1, <1>2 DEF Life!Shape, Life!Becomes
  <1>4. Life!BindersServed'
    BY <1>1, <1>2 DEF Life!BindersServed, Life!Binds
  <1>5. Life!StartedHasServed'
    BY <1>1 DEF Life!StartedHasServed
  <1>6. Life!StopsWritten'
    <2>1. ASSUME NEW c \in Commands, stop[c] # Life!NoStop
          PROVE  /\ proc'[stop[c].pid] # "none"
                 /\ stop[c].op = "remove" => proc'[stop[c].pid] = "gone"
      <3>1. stop[c].pid \in Pair
        BY <1>1, <2>1, StopFields
      <3>2. QED
        BY <1>1, <1>2, <2>1, <3>1 DEF Life!StopsWritten
    <2>2. QED
      BY <2>1 DEF Life!StopsWritten
  <1>7. Life!FileWritten'
    <2>1. pidfile' # Life!NoFile => pidfile' \in Pair
      BY <1>3 DEF Life!Shape
    <2>2. pidfile' # Life!NoFile => proc'[pidfile'] \notin {"none", "new"}
      BY <1>1, <1>2, <2>1 DEF Life!FileWritten
    <2>3. pidfile' # Life!NoFile /\ killed' = {} => Life!Holding(pidfile)'
      BY <1>1, <1>2, <2>1 DEF Life!FileWritten, Life!Holding
    <2>4. ASSUME NEW e \in Pair \ raced', Life!Holding(e)' PROVE pidfile' = e
      <3>1. CASE e = d
        BY <1>1, <1>2, <2>4, <3>1 DEF Life!FileWritten, Life!Holding
      <3>2. CASE e # d
        <4>1. Life!Holding(e) /\ Life!Alive(e) /\ Life!Alive(e)'
          BY <1>2, <2>4, <3>2 DEF Life!Holding, Life!Alive
        <4>2. ~Life!Alive(d) /\ ~Life!Alive(d)'
          BY <1>1, <2>4, <3>2, <4>1, LifeHistory
        <4>3. s = "gone" /\ ~Life!Holding(d)
          BY <1>2, <4>2 DEF Life!Alive, Life!Holding
        <4>4. QED
          BY <1>1, <2>4, <4>1, <4>3 DEF Life!FileWritten
      <3>3. QED
        BY <3>1, <3>2
    <2>5. QED
      BY <2>2, <2>3, <2>4 DEF Life!FileWritten
  <1>8. QED
    BY <1>1, <1>3, <1>4, <1>5, <1>6, <1>7 DEF Life!IInv

LEMMA DaemonStep ==
  ASSUME Life!IInv, raced' = raced \cup Life!Races', NEW d \in Pair, Life!Run(d)
  PROVE  Life!IInv'
  <1>1. Life!Shape /\ Life!BindersServed /\ Life!StartedHasServed /\ served \subseteq Pair
        /\ report \in [Pair -> {"none", "probing", "started", "failed"}]
    BY DEF Life!IInv, Life!Shape
  <1> USE DEF Life!Alive, Life!Holding
  <1>2. CASE Life!Start(d)
    <2>1. /\ report' \in [Pair -> {"none", "probing", "started", "failed"}]
          /\ \A e \in Pair : report'[e] = "started" => report[e] = "started"
      BY <1>1, <1>2 DEF Life!Start
    <2>2. Life!Becomes(d, "new") /\ proc[d] = "none" /\ UNCHANGED <<port, stop, pidfile, served, killed>>
      BY <1>2 DEF Life!Start
    <2>3. QED
      BY <1>1, <2>1, <2>2, DaemonMoves
  <1>3. CASE Life!NewFails(d)
    BY <1>1, <1>3, DaemonMoves DEF Life!NewFails
  <1>4. CASE Life!WritePid(d)
    BY <1>1, <1>4, DaemonMoves DEF Life!WritePid, Life!Write
  <1>5. CASE Life!Listen(d)
    <2>1. CASE Life!PortFree(d)
      <3>1. /\ Life!Becomes(d, "serving") /\ served' = served \cup {d} /\ proc[d] = "written"
            /\ UNCHANGED <<port, stop, pidfile, report, killed>>
        BY <1>5, <2>1 DEF Life!Listen
      <3>2. QED
        BY <1>1, <3>1, DaemonMoves
    <2>2. CASE ~Life!PortFree(d)
      <3>1. /\ Life!Becomes(d, "ending") /\ served' = served /\ proc[d] = "written"
            /\ UNCHANGED <<port, stop, pidfile, report, killed>>
        BY <1>5, <2>2 DEF Life!Listen
      <3>2. QED
        BY <1>1, <3>1, DaemonMoves
    <2>3. QED
      BY <2>1, <2>2
  <1>6. CASE Life!Signalled(d)
    BY <1>1, <1>6, DaemonMoves DEF Life!Signalled, Life!BindersServed, Life!Binds
  <1>7. CASE Life!Killed(d)
    BY <1>1, <1>7, DaemonMoves DEF Life!Killed
  <1>8. CASE Life!ShutDown(d)
    BY <1>1, <1>8, DaemonMoves DEF Life!ShutDown
  <1>9. CASE Life!RemovePid(d)
    BY <1>1, <1>9, DaemonMoves DEF Life!RemovePid, Life!Remove
  <1>10. CASE Life!ReportStarted(d) \/ Life!ReportFailed(d)
    <2>1. /\ UNCHANGED <<port, proc, pidfile, stop, served, killed>>
          /\ report' \in [Pair -> {"none", "probing", "started", "failed"}]
          /\ \A e \in Pair : report'[e] = "started" => report[e] = "started" \/ (e = d /\ Life!Answers(d))
      BY <1>1, <1>10 DEF Life!ReportStarted, Life!ReportFailed
    <2>2. Life!StartedHasServed'
      BY <1>1, <2>1 DEF Life!StartedHasServed, Life!Answers, Life!BindersServed
    <2>3. Life!Shape' /\ Life!StopsWritten' /\ Life!BindersServed'
      BY <2>1 DEF Life!IInv, Life!Shape, Life!StopsWritten, Life!BindersServed, Life!Binds
    <2>4. Life!FileWritten'
      BY <2>1, LifeHistory DEF Life!IInv, Life!FileWritten
    <2>5. QED
      BY <2>2, <2>3, <2>4, LifeHistory DEF Life!IInv
  <1>11. QED
    BY <1>2, <1>3, <1>4, <1>5, <1>6, <1>7, <1>8, <1>9, <1>10 DEF Life!Run

LEMMA StopStep ==
  ASSUME Life!IInv, raced' = raced \cup Life!Races', NEW c \in Commands, Life!Stop(c)
  PROVE  Life!IInv'
  <1>1. /\ Life!Shape /\ Life!FileWritten /\ Life!StopsWritten /\ Life!BindersServed /\ Life!StartedHasServed
        /\ raced \subseteq raced' /\ Life!RacesKept' /\ UNCHANGED <<port, proc, report, served, killed>>
    BY LifeHistory DEF Life!IInv, Life!Stop, Life!StopReads, Life!StopSignals, Life!StopPolls,
                       Life!StopGivesUp, Life!StopRemoves
  <1>2. Life!BindersServed' /\ Life!StartedHasServed'
    BY <1>1 DEF Life!BindersServed, Life!Binds, Life!StartedHasServed
  (* What the command holds after the step. *)
  <1>3. PICK r \in {Life!NoStop} \cup [op : {"read", "poll", "remove"}, pid : Pair] :
           /\ stop' = [stop EXCEPT ![c] = r]
           /\ r # Life!NoStop => /\ r.pid \in Pair /\ proc[r.pid] # "none"
                                 /\ r.op = "remove" => proc[r.pid] = "gone"
    <2>1. CASE Life!StopReads(c)
      <3> DEFINE r == [op |-> "read", pid |-> pidfile]
      <3>1. pidfile \in Pair /\ proc[pidfile] # "none" /\ stop' = [stop EXCEPT ![c] = r]
        BY <1>1, <2>1 DEF Life!StopReads, Life!Shape, Life!FileWritten
      <3>2. r \in [op : {"read", "poll", "remove"}, pid : Pair] /\ r.pid = pidfile /\ r.op = "read"
        BY <3>1
      <3> HIDE DEF r
      <3>3. QED
        BY <3>1, <3>2
    <2>2. ASSUME stop[c] # Life!NoStop, NEW o \in {"poll", "remove"}, stop' = [stop EXCEPT ![c].op = o],
                 o = "remove" => ~Life!Alive(stop[c].pid)
          PROVE  \E r \in {Life!NoStop} \cup [op : {"read", "poll", "remove"}, pid : Pair] :
                    /\ stop' = [stop EXCEPT ![c] = r]
                    /\ r # Life!NoStop => /\ r.pid \in Pair /\ proc[r.pid] # "none"
                                          /\ r.op = "remove" => proc[r.pid] = "gone"
      <3> DEFINE r == [stop[c] EXCEPT !.op = o]
      <3>1. /\ r \in [op : {"read", "poll", "remove"}, pid : Pair]
            /\ r.op = o /\ r.pid = stop[c].pid /\ stop[c].pid \in Pair
        BY <1>1, <2>2, StopFields
      <3>2. stop' = [stop EXCEPT ![c] = r]
        BY <2>2
      <3>3. proc[stop[c].pid] # "none" /\ (o = "remove" => proc[stop[c].pid] = "gone")
        BY <1>1, <2>2 DEF Life!StopsWritten, Life!Alive
      <3> HIDE DEF r
      <3>4. QED
        BY <3>1, <3>2, <3>3
    <2>3. CASE Life!StopGivesUp(c) \/ Life!StopRemoves(c)
      BY <2>3 DEF Life!StopGivesUp, Life!StopRemoves
    <2>4. QED
      BY <2>1, <2>2, <2>3 DEF Life!Stop, Life!StopSignals, Life!StopPolls
  <1>4. stop'[c] = r /\ \A b \in Commands : b # c => stop'[b] = stop[b]
    BY <1>1, <1>3 DEF Life!Shape
  <1>5. Life!StopsWritten'
    BY <1>1, <1>3, <1>4 DEF Life!StopsWritten
  <1>6. pidfile' = pidfile \/ (Life!StopRemoves(c) /\ pidfile' = Life!NoFile)
    BY DEF Life!Stop, Life!StopReads, Life!StopSignals, Life!StopPolls, Life!StopGivesUp, Life!StopRemoves,
           Life!Remove
  <1>7. Life!Shape'
    BY <1>1, <1>3, <1>6 DEF Life!Shape
  <1>8. Life!FileWritten'
    <2>1. CASE pidfile' = pidfile
      BY <1>1, <2>1 DEF Life!FileWritten, Life!Holding
    <2>2. CASE Life!StopRemoves(c) /\ pidfile' = Life!NoFile
      <3>1. ASSUME NEW d \in Pair \ raced, Life!Holding(d) PROVE FALSE
        <4>1. stop[c] # Life!NoStop /\ stop[c].op = "remove" /\ Life!Alive(d)
          BY <2>2, <3>1 DEF Life!StopRemoves, Life!Holding, Life!Alive
        <4>2. proc[stop[c].pid] = "gone"
          BY <1>1, <4>1 DEF Life!StopsWritten
        <4>3. stop[c].pid # d
          BY <4>1, <4>2 DEF Life!Alive
        <4>4. QED
          BY <3>1, <4>1, <4>3, LifeHistory
      <3>2. QED
        BY <1>1, <2>2, <3>1 DEF Life!FileWritten, Life!Holding
    <2>3. QED
      BY <1>6, <2>1, <2>2
  <1>9. QED
    BY <1>1, <1>2, <1>5, <1>7, <1>8 DEF Life!IInv

LEMMA LifeStep == Life!IInv /\ [Life!Next]_life => Life!IInv'
  <1>1. ASSUME Life!IInv, UNCHANGED life PROVE Life!IInv'
    BY <1>1 DEF life, Life!IInv, Life!Shape, Life!FileWritten, Life!Holding, Life!StopsWritten,
                Life!BindersServed, Life!Binds, Life!RacesKept, Life!Races, Life!Alive, Life!StartedHasServed
  <1>2. ASSUME Life!IInv, Life!Next PROVE Life!IInv'
    BY <1>2, DaemonStep, StopStep DEF Life!Next
  <1>3. QED
    BY <1>1, <1>2

(* The pid file names the daemon that serves unless it was alive together     *)
(* with another one, daemons that end by themselves leave no file, and what   *)
(* `start` reports has served on that port, whatever daemons and `stop`       *)
(* commands start, fail, are killed and overlap (DaemonIsFound).              *)
THEOREM PidFileNamesServer == ServersSpec => []DaemonIsFound
  <1> DEFINE I == surface = "life" => Life!IInv
  <1>1. ServersInit => I
    BY LifeInit DEF ServersInit
  <1>2. I /\ [ServersNext]_serversVars => I'
    <2>1. [ServersNext]_serversVars => surface' = surface /\ (surface = "life" => [Life!Next]_life)
      BY DEF ServersNext, serversVars
    <2>2. QED
      BY <2>1, LifeStep
  <1>3. I => DaemonIsFound
    <2>1. Life!IInv => Life!ServerInPidFile
      BY DEF Life!IInv, Life!FileWritten, Life!Holding, Life!ServerInPidFile
    <2>2. Life!IInv => Life!NoStaleFile
      BY DEF Life!IInv, Life!FileWritten, Life!Holding, Life!NoStaleFile, Life!Shape, Life!Alive
    <2>3. QED
      BY <2>1, <2>2 DEF DaemonIsFound, Life!IInv
  <1>4. QED
    BY <1>1, <1>2, <1>3, PTL DEF ServersSpec

-----------------------------------------------------------------------------
(* Cloud SQL: instances and listeners. *)

(* A request holds the fields of its operation. *)
LEMMA SqlCallFields ==
  ASSUME Sql!TypeOK, NEW c \in Sql!Procs
  PROVE  /\ sqlReq[c] \in Sql!Request
         /\ sqlReq[c].op \in {"none", "start", "unmap", "delete", "register", "put", "close", "wait", "stop"}
         /\ Sql!Idle(c) <=> sqlReq[c].op = "none"
         /\ sqlReq[c].op \notin {"none", "stop"} => sqlReq[c].name \in Instances
         /\ sqlReq[c].op \in {"register", "put", "close", "wait"} =>
               /\ sqlReq[c].port \in 1..MaxListeners
               /\ \A o \in {"put", "wait"} :
                     LET r == [sqlReq[c] EXCEPT !.op = o]
                     IN r \in Sql!Request /\ r.op = o /\ r.name = sqlReq[c].name /\ r.port = sqlReq[c].port
         /\ sqlReq[c].op = "stop" => sqlReq[c].ports \in SUBSET (1..MaxListeners)
  <1>1. sqlReq[c] \in Sql!Request
    BY DEF Sql!TypeOK
  <1>2. Sql!Numbers \ {0} = 1..MaxListeners
    BY InstancesAssumption DEF Sql!Numbers
  <1>3. CASE sqlReq[c] = Sql!NoReq
    BY <1>1, <1>3 DEF Sql!Idle, Sql!NoReq
  <1>4. CASE sqlReq[c] \in [op : {"start", "unmap", "delete"}, name : Instances]
    BY <1>1, <1>4 DEF Sql!Idle, Sql!NoReq
  <1>5. CASE sqlReq[c] \in [op : {"register", "put", "close", "wait"}, name : Instances, port : Sql!Numbers \ {0}]
    BY <1>1, <1>2, <1>5 DEF Sql!Idle, Sql!NoReq, Sql!Request
  <1>6. CASE sqlReq[c] \in [op : {"stop"}, ports : SUBSET (Sql!Numbers \ {0})]
    BY <1>1, <1>2, <1>6 DEF Sql!Idle, Sql!NoReq
  <1>7. QED
    BY <1>1, <1>3, <1>4, <1>5, <1>6 DEF Sql!Request

LEMMA SqlRequests ==
  ASSUME NEW n \in Instances
  PROVE  /\ Sql!NoReq \in Sql!Request /\ Sql!NoReq.op = "none"
         /\ \A o \in {"start", "unmap", "delete"} :
               LET r == [op |-> o, name |-> n] IN r \in Sql!Request /\ r.op = o /\ r.name = n
         /\ \A o \in {"register", "put", "close", "wait"}, p \in 1..MaxListeners :
               LET r == [op |-> o, name |-> n, port |-> p]
               IN r \in Sql!Request /\ r.op = o /\ r.name = n /\ r.port = p
  <1>1. Sql!Numbers \ {0} = 1..MaxListeners
    BY InstancesAssumption DEF Sql!Numbers
  <1>2. QED
    BY <1>1 DEF Sql!Request, Sql!NoReq

LEMMA ListenerFields ==
  ASSUME Sql!TypeOK
  PROVE  /\ lns \in Seq(Sql!Listener) /\ Len(lns) \in Nat /\ DOMAIN lns = 1..Len(lns) /\ Len(lns) <= MaxListeners
         /\ stored \in [Instances -> 0..Len(lns)] /\ listeners \in [Instances -> 0..Len(lns)]
         /\ sqlReq \in [Sql!Procs -> Sql!Request]
         /\ \A l \in DOMAIN lns : lns[l] \in Sql!Listener /\ lns[l].name \in Instances
         /\ \A n \in Instances : listeners[n] # 0 => listeners[n] \in DOMAIN lns
         /\ MaxListeners \in Nat
  <1>1. /\ lns \in Seq(Sql!Listener) /\ Len(lns) \in Nat /\ DOMAIN lns = 1..Len(lns) /\ Len(lns) <= MaxListeners
        /\ stored \in [Instances -> 0..Len(lns)] /\ listeners \in [Instances -> 0..Len(lns)]
        /\ sqlReq \in [Sql!Procs -> Sql!Request] /\ MaxListeners \in Nat
    BY InstancesAssumption DEF Sql!TypeOK
  <1>2. \A l \in DOMAIN lns : lns[l] \in Sql!Listener
    BY <1>1
  <1>3. \A e \in Sql!Listener : e.name \in Instances
    BY DEF Sql!Listener
  <1>4. QED
    BY <1>1, <1>2, <1>3

(* One listener changes. *)
LEMMA ListenerSet ==
  ASSUME Sql!TypeOK, NEW l \in DOMAIN lns, NEW e \in Sql!Listener, lns' = [lns EXCEPT ![l] = e]
  PROVE  /\ lns' \in Seq(Sql!Listener) /\ Len(lns') = Len(lns) /\ DOMAIN lns' = DOMAIN lns
         /\ lns'[l] = e /\ \A k \in DOMAIN lns : k # l => lns'[k] = lns[k]
  BY ListenerFields

(* What the updates of a listener leave alone. *)
LEMMA ListenerUpdates ==
  ASSUME NEW e \in Sql!Listener
  PROVE  /\ LET f == [e EXCEPT !.ln = FALSE]
            IN /\ f \in Sql!Listener /\ ~f.ln /\ f.name = e.name /\ f.loop = e.loop
               /\ f.sessions = e.sessions /\ (f.db <=> e.db)
         /\ LET f == [e EXCEPT !.db = FALSE]
            IN /\ f \in Sql!Listener /\ (f.ln <=> e.ln) /\ f.name = e.name /\ f.loop = e.loop
               /\ f.sessions = e.sessions
         /\ \A p \in {"accept", "got", "top", "done"} :
               LET f == [e EXCEPT !.loop = p]
               IN /\ f \in Sql!Listener /\ (f.ln <=> e.ln) /\ f.name = e.name /\ f.loop = p
                  /\ f.sessions = e.sessions /\ (f.db <=> e.db)
  <1>1. LET f == [e EXCEPT !.ln = FALSE]
        IN /\ f \in Sql!Listener /\ ~f.ln /\ f.name = e.name /\ f.loop = e.loop
           /\ f.sessions = e.sessions /\ (f.db <=> e.db)
    BY DEF Sql!Listener
  <1>2. LET f == [e EXCEPT !.db = FALSE]
        IN /\ f \in Sql!Listener /\ (f.ln <=> e.ln) /\ f.name = e.name /\ f.loop = e.loop
           /\ f.sessions = e.sessions
    BY DEF Sql!Listener
  <1>3. ASSUME NEW p \in {"accept", "got", "top", "done"}
        PROVE  LET f == [e EXCEPT !.loop = p]
               IN /\ f \in Sql!Listener /\ (f.ln <=> e.ln) /\ f.name = e.name /\ f.loop = p
                  /\ f.sessions = e.sessions /\ (f.db <=> e.db)
    BY DEF Sql!Listener
  <1>4. QED
    BY <1>1, <1>2, <1>3

LEMMA SessionsSet ==
  ASSUME NEW e \in Sql!Listener, NEW i \in 0..1, NEW f, f = [e EXCEPT !.sessions = i]
  PROVE  /\ f \in Sql!Listener /\ (f.ln <=> e.ln) /\ f.name = e.name /\ f.loop = e.loop
         /\ f.sessions = i /\ (f.db <=> e.db)
  BY DEF Sql!Listener

LEMMA SqlHistory ==
  ASSUME Sql!IInv, sqlRaced' = sqlRaced \cup Sql!Races'
  PROVE  /\ sqlRaced \subseteq sqlRaced' /\ sqlRaced' \subseteq Instances /\ Sql!RacesKept'
         /\ \A c \in Callers, d \in Sql!Procs, n \in Instances :
               c # d /\ Sql!About(c, n) /\ (Sql!About(d, n) \/ sqlReq[d].op = "stop") => n \in sqlRaced
         /\ \A c \in Callers, d \in Sql!Procs, n \in Instances :
               c # d /\ Sql!About(c, n)' /\ (Sql!About(d, n)' \/ sqlReq'[d].op = "stop") => n \in sqlRaced'
  BY DEF Sql!IInv, Sql!TypeOK, Sql!RacesKept, Sql!Races

(* What the invariant says of a name that only the request of c is about. *)
LEMMA SqlBefore ==
  ASSUME Sql!IInv, NEW c \in Callers, NEW n \in Instances \ sqlRaced,
         \A d \in Callers : Sql!About(d, n) => d = c, sqlReq[Main].op # "stop"
  PROVE  /\ listeners[n] # 0 => /\ lns[listeners[n]].ln /\ lns[listeners[n]].name = n
                                /\ stored[n] = listeners[n] \/ (sqlReq[c].op = "put" /\ sqlReq[c].name = n)
         /\ \A l \in DOMAIN lns : lns[l].ln /\ lns[l].name = n =>
               listeners[n] = l \/ (sqlReq[c].op \in {"register", "close"} /\ sqlReq[c].port = l)
         /\ ~sqlStopped /\ n \notin stale /\ stored[n] # 0 =>
               listeners[n] = stored[n] \/ (sqlReq[c].op \in {"close", "wait", "delete"} /\ sqlReq[c].name = n)
  <1>1. \A d \in Callers : sqlReq[d].op \in {"register", "put", "close", "wait", "delete"} /\ sqlReq[d].name = n => d = c
    BY DEF Sql!About
  <1>2. listeners[n] # 0 => /\ lns[listeners[n]].ln /\ lns[listeners[n]].name = n
                            /\ stored[n] = listeners[n] \/ (sqlReq[c].op = "put" /\ sqlReq[c].name = n)
    BY <1>1 DEF Sql!IInv, Sql!MapOpen, Sql!NamesKept
  <1>3. ASSUME NEW l \in DOMAIN lns, lns[l].ln, lns[l].name = n
        PROVE  listeners[n] = l \/ (sqlReq[c].op \in {"register", "close"} /\ sqlReq[c].port = l)
    BY <1>1, <1>3 DEF Sql!IInv, Sql!ListenersOwned, Sql!NamesKept
  <1>4. ~sqlStopped /\ n \notin stale /\ stored[n] # 0 =>
           listeners[n] = stored[n] \/ (sqlReq[c].op \in {"close", "wait", "delete"} /\ sqlReq[c].name = n)
    BY <1>1 DEF Sql!IInv, Sql!RecordsServed
  <1>5. QED
    BY <1>2, <1>3, <1>4

(* A step of a request about n: what is left to show is what holds of n when *)
(* no other request, and not Stop, is about it.                              *)
Alone(c, n) ==
    /\ n \notin sqlRaced' /\ n \notin sqlRaced /\ sqlReq[Main].op # "stop"
    /\ \A d \in Callers : Sql!About(d, n) => d = c

(* What the step leaves alone, ... *)
OthersKept(n) ==
    /\ sqlStopped' = sqlStopped
    /\ \A m \in Instances : m # n => /\ listeners'[m] = listeners[m] /\ stored'[m] = stored[m]
                                     /\ m \in stale' <=> m \in stale
    /\ \A l \in DOMAIN lns : /\ l \in DOMAIN lns' /\ lns'[l].name = lns[l].name
                             /\ lns[l].name # n => (lns'[l].ln <=> lns[l].ln)
    /\ \A l \in DOMAIN lns' : l \in DOMAIN lns \/ lns'[l].name = n
    /\ Len(lns) <= Len(lns')

(* ... the request it makes, ... *)
Follows(c, n, r) ==
    /\ sqlReq' = [sqlReq EXCEPT ![c] = r]
    /\ r.op # "stop" /\ (sqlReq[c].op # "none" \/ r.op # "none")
    /\ sqlReq[c].op # "none" => sqlReq[c].name = n
    /\ r.op # "none" => r.name = n
    /\ r.op \in {"register", "put", "close", "wait"} => r.port <= Len(lns') /\ lns'[r.port].name = n
    /\ listeners'[n] # 0 => lns'[listeners'[n]].name = n

(* ... and what holds of n afterwards. *)
Kept(n, r) ==
    /\ r.op \in {"start", "register", "close", "wait", "delete"} => listeners'[n] = 0
    /\ r.op = "put" => listeners'[n] = r.port
    /\ r.op = "register" => lns'[r.port].ln
    /\ listeners'[n] # 0 => lns'[listeners'[n]].ln /\ (stored'[n] = listeners'[n] \/ r.op = "put")
    /\ \A l \in DOMAIN lns' : lns'[l].ln /\ lns'[l].name = n =>
          listeners'[n] = l \/ (r.op \in {"register", "close"} /\ r.port = l)
    /\ ~sqlStopped /\ n \notin stale' /\ stored'[n] # 0 =>
          listeners'[n] = stored'[n] \/ r.op \in {"close", "wait", "delete"}

LEMMA SqlCall ==
  ASSUME Sql!IInv, sqlRaced' = sqlRaced \cup Sql!Races', NEW c \in Callers, NEW n \in Instances,
         NEW r \in Sql!Request, Follows(c, n, r), OthersKept(n), Sql!TypeOK', Sql!DatabaseLast',
         Alone(c, n) => Kept(n, r)
  PROVE  Sql!IInv'
  <1> USE DEF Follows, OthersKept, Kept
  <1>0. /\ Sql!TypeOK /\ sqlRaced \subseteq sqlRaced' /\ Sql!RacesKept' /\ Main \notin Callers
        /\ \A d \in Callers : d \in Sql!Procs
        /\ Main \in Sql!Procs
    BY SqlHistory, InstancesAssumption DEF Sql!IInv, Sql!Procs
  <1>1. /\ sqlReq'[c] = r /\ (\A d \in Callers : d # c => sqlReq'[d] = sqlReq[d]) /\ sqlReq'[Main] = sqlReq[Main]
    BY <1>0, ListenerFields
  <1>2. n \in sqlRaced' \/ Alone(c, n)
    <2>1. CASE sqlReq[c].op # "none"
      <3>1. Sql!About(c, n)
        BY <2>1 DEF Sql!About, Sql!IInv, Sql!NamesKept
      <3>2. QED
        BY <1>0, <3>1, SqlHistory DEF Alone
    <2>2. CASE r.op # "none"
      <3>1. Sql!About(c, n)'
        BY <1>1, <2>2 DEF Sql!About
      <3>2. \A d \in Sql!Procs : d # c => (Sql!About(d, n) <=> Sql!About(d, n)')
        <4>1. \A d \in Sql!Procs : d # c => sqlReq'[d] = sqlReq[d]
          BY <1>0, <1>1 DEF Sql!Procs
        <4>2. QED
          BY <4>1 DEF Sql!About
      <3>3. QED
        BY <1>0, <1>1, <3>1, <3>2, SqlHistory DEF Alone
    <2>3. QED
      BY <2>1, <2>2
  <1>3. /\ lns \in Seq(Sql!Listener) /\ Len(lns) \in Nat /\ Len(lns') \in Nat /\ DOMAIN lns = 1..Len(lns)
        /\ DOMAIN lns' = 1..Len(lns')
        /\ \A m \in Instances : listeners[m] # 0 => listeners[m] \in DOMAIN lns
        /\ \A l \in DOMAIN lns : lns[l].name \in Instances
    BY <1>0, ListenerFields DEF Sql!TypeOK
  <1>4. \A d \in Callers : /\ sqlReq[d].op \in {"register", "put", "close", "wait"} =>
                                 /\ sqlReq[d].port \in DOMAIN lns /\ sqlReq[d].port <= Len(lns')
                                 /\ lns[sqlReq[d].port].name = sqlReq[d].name
                           /\ sqlReq[d].op \notin {"none", "stop"} => sqlReq[d].name \in Instances
    <2>1. \A d \in Callers : sqlReq[d].op \in {"register", "put", "close", "wait"} =>
                                 /\ sqlReq[d].port \in 1..MaxListeners /\ sqlReq[d].port <= Len(lns)
                                 /\ lns[sqlReq[d].port].name = sqlReq[d].name
      BY <1>0, SqlCallFields DEF Sql!IInv, Sql!NamesKept
    <2>2. \A p \in 1..MaxListeners : p <= Len(lns) => p \in 1..Len(lns) /\ p <= Len(lns')
      BY <1>3, InstancesAssumption
    <2>3. QED
      BY <1>0, <1>3, <2>1, <2>2, SqlCallFields
  (* Another request about n makes it a raced name. *)
  <1>5. \A d \in Callers : d # c /\ sqlReq[d].op \notin {"none", "stop"} /\ n \notin sqlRaced' => sqlReq[d].name # n
    BY <1>2 DEF Alone, Sql!About
  <1>6. Sql!NamesKept'
    <2>1. \A m \in Instances : listeners'[m] # 0 => lns'[listeners'[m]].name = m
      BY <1>3 DEF Sql!IInv, Sql!NamesKept
    <2>2. \A d \in Callers : /\ sqlReq'[d].op # "stop"
                             /\ sqlReq'[d].op \in {"register", "put", "close", "wait"} =>
                                   sqlReq'[d].port <= Len(lns') /\ lns'[sqlReq'[d].port].name = sqlReq'[d].name
      BY <1>1, <1>4 DEF Sql!IInv, Sql!NamesKept
    <2>3. sqlReq[Main].op = "stop" =>
             /\ sqlStopped /\ sqlReq[Main].ports \subseteq DOMAIN lns'
             /\ \A m \in Instances \ sqlRaced' : listeners'[m] = 0
      <3>1. sqlReq[Main].op = "stop" => n \in sqlRaced'
        BY <1>2 DEF Alone
      <3>2. QED
        BY <1>0, <3>1 DEF Sql!IInv, Sql!NamesKept
    <2>4. QED
      BY <1>1, <2>1, <2>2, <2>3 DEF Sql!NamesKept, Sql!IInv
  <1>7. Sql!CallsAlone'
    <2>1. ASSUME NEW d \in Callers, d # c, sqlReq[d].op \in {"start", "register", "put", "close", "wait", "delete"},
                 sqlReq[d].name \notin sqlRaced'
          PROVE  /\ IF sqlReq[d].op = "put" THEN listeners'[sqlReq[d].name] = sqlReq[d].port
                    ELSE listeners'[sqlReq[d].name] = 0
                 /\ sqlReq[d].op = "register" => lns'[sqlReq[d].port].ln
      <3>1. sqlReq[d].name # n /\ sqlReq[d].name \in Instances
        BY <1>4, <1>5, <2>1
      <3>2. /\ IF sqlReq[d].op = "put" THEN listeners[sqlReq[d].name] = sqlReq[d].port
               ELSE listeners[sqlReq[d].name] = 0
            /\ sqlReq[d].op = "register" => lns[sqlReq[d].port].ln
        BY <1>0, <2>1 DEF Sql!IInv, Sql!CallsAlone
      <3>3. sqlReq[d].op = "register" => sqlReq[d].port \in DOMAIN lns /\ lns[sqlReq[d].port].name # n
        BY <1>4, <3>1
      <3>4. QED
        BY <3>1, <3>2, <3>3
    <2>2. r.op \in {"start", "register", "put", "close", "wait", "delete"} /\ n \notin sqlRaced' =>
             /\ IF r.op = "put" THEN listeners'[n] = r.port ELSE listeners'[n] = 0
             /\ r.op = "register" => lns'[r.port].ln
      BY <1>2
    <2>3. QED
      BY <1>1, <2>1, <2>2 DEF Sql!CallsAlone
  <1>8. Sql!MapOpen'
    <2>1. ASSUME NEW m \in Instances \ sqlRaced', m # n, listeners'[m] # 0
          PROVE  /\ lns'[listeners'[m]].ln
                 /\ stored'[m] = listeners'[m] \/ \E d \in Callers : sqlReq'[d].op = "put" /\ sqlReq'[d].name = m
      <3>1. listeners'[m] = listeners[m] /\ stored'[m] = stored[m] /\ listeners[m] \in DOMAIN lns
        BY <1>3, <2>1
      <3>2. /\ lns[listeners[m]].ln /\ lns[listeners[m]].name = m
            /\ stored[m] = listeners[m] \/ \E d \in Callers : sqlReq[d].op = "put" /\ sqlReq[d].name = m
        BY <1>0, <2>1, <3>1 DEF Sql!IInv, Sql!MapOpen, Sql!NamesKept
      <3>3. \A d \in Callers : sqlReq[d].op = "put" /\ sqlReq[d].name = m => sqlReq'[d] = sqlReq[d]
        BY <1>1, <2>1
      <3>4. QED
        BY <2>1, <3>1, <3>2, <3>3
    <2>2. n \notin sqlRaced' /\ listeners'[n] # 0 =>
             /\ lns'[listeners'[n]].ln
             /\ stored'[n] = listeners'[n] \/ \E d \in Callers : sqlReq'[d].op = "put" /\ sqlReq'[d].name = n
      BY <1>1, <1>2
    <2>3. QED
      BY <2>1, <2>2 DEF Sql!MapOpen
  <1>9. Sql!ListenersOwned'
    <2>1. ASSUME NEW l \in DOMAIN lns', lns'[l].ln, lns'[l].name \notin sqlRaced'
          PROVE  \/ listeners'[lns'[l].name] = l
                 \/ \E d \in Callers : sqlReq'[d].op \in {"register", "close"} /\ sqlReq'[d].port = l
                 \/ sqlReq'[Main].op = "stop" /\ l \in sqlReq'[Main].ports
      <3>1. CASE lns'[l].name = n
        BY <1>1, <1>2, <2>1, <3>1
      <3>2. CASE lns'[l].name # n
        <4>1. l \in DOMAIN lns /\ lns'[l].name = lns[l].name /\ lns[l].ln /\ lns[l].name \in Instances
          BY <1>3, <2>1, <3>2
        <4>2. \/ listeners[lns[l].name] = l
              \/ \E d \in Callers : sqlReq[d].op \in {"register", "close"} /\ sqlReq[d].port = l
              \/ sqlReq[Main].op = "stop" /\ l \in sqlReq[Main].ports
          BY <1>0, <2>1, <4>1 DEF Sql!IInv, Sql!ListenersOwned
        <4>3. \A d \in Callers : sqlReq[d].op \in {"register", "close"} /\ sqlReq[d].port = l => d # c
          BY <1>4, <3>2, <4>1
        <4>4. QED
          BY <1>1, <3>2, <4>1, <4>2, <4>3
      <3>3. QED
        BY <3>1, <3>2
    <2>2. QED
      BY <2>1 DEF Sql!ListenersOwned
  <1>10. Sql!RecordsServed'
    <2>1. ASSUME NEW m \in Instances, m # n, m \notin sqlRaced', m \notin stale', ~sqlStopped, stored'[m] # 0
          PROVE  \/ listeners'[m] = stored'[m]
                 \/ \E d \in Callers : sqlReq'[d].op \in {"close", "wait", "delete"} /\ sqlReq'[d].name = m
      <3>1. \/ listeners[m] = stored[m]
            \/ \E d \in Callers : sqlReq[d].op \in {"close", "wait", "delete"} /\ sqlReq[d].name = m
        BY <1>0, <2>1 DEF Sql!IInv, Sql!RecordsServed
      <3>2. \A d \in Callers : sqlReq[d].op \in {"close", "wait", "delete"} /\ sqlReq[d].name = m => d # c
        BY <2>1
      <3>3. QED
        BY <1>1, <2>1, <3>1, <3>2
    <2>2. n \notin sqlRaced' /\ n \notin stale' /\ ~sqlStopped /\ stored'[n] # 0 =>
             \/ listeners'[n] = stored'[n]
             \/ \E d \in Callers : sqlReq'[d].op \in {"close", "wait", "delete"} /\ sqlReq'[d].name = n
      BY <1>1, <1>2
    <2>3. QED
      BY <2>1, <2>2 DEF Sql!RecordsServed
  <1>11. QED
    BY <1>0, <1>6, <1>7, <1>8, <1>9, <1>10 DEF Sql!IInv

(* The requests that leave the listeners as they are. *)
LEMMA SqlQuiet ==
  ASSUME Sql!IInv, sqlRaced' = sqlRaced \cup Sql!Races', NEW c \in Callers,
         \/ \E n \in Instances : Sql!Create(c, n) \/ Sql!Delete(c, n)
         \/ Sql!StartFails(c) \/ Sql!Register(c) \/ Sql!PutInstance(c) \/ Sql!Unmap(c) \/ Sql!DeleteRecord(c),
         panicked' = panicked
  PROVE  Sql!IInv'
  <1>0. /\ Sql!TypeOK /\ lns' = lns /\ sqlStopped' = sqlStopped /\ restarts' = restarts
        /\ c \in Sql!Procs /\ sqlRaced \subseteq sqlRaced' /\ sqlRaced' \subseteq Instances /\ stale \subseteq Instances
        /\ sqlReq[c].op # "stop"
    BY SqlHistory DEF Sql!IInv, Sql!TypeOK, Sql!NamesKept, Sql!Procs, Sql!Create, Sql!Delete, Sql!StartFails, Sql!Register,
                      Sql!PutInstance, Sql!Unmap, Sql!DeleteRecord
  <1>1. Sql!DatabaseLast'
    BY <1>0 DEF Sql!IInv, Sql!DatabaseLast
  <1>2. /\ Len(lns) \in Nat /\ DOMAIN lns = 1..Len(lns) /\ Len(lns) <= MaxListeners
        /\ stored \in [Instances -> 0..Len(lns)] /\ listeners \in [Instances -> 0..Len(lns)]
        /\ sqlReq \in [Sql!Procs -> Sql!Request] /\ MaxListeners \in Nat
    BY <1>0, ListenerFields
  <1>3. ASSUME NEW r \in Sql!Request, sqlReq' = [sqlReq EXCEPT ![c] = r],
               stored' \in [Instances -> 0..Len(lns)], listeners' \in [Instances -> 0..Len(lns)],
               stale' \subseteq Instances
        PROVE  Sql!TypeOK'
    BY <1>0, <1>2, <1>3 DEF Sql!TypeOK
  <1>4. ASSUME NEW n \in Instances, Alone(c, n)
        PROVE  /\ listeners[n] # 0 => /\ lns[listeners[n]].ln /\ lns[listeners[n]].name = n
                                      /\ stored[n] = listeners[n] \/ (sqlReq[c].op = "put" /\ sqlReq[c].name = n)
               /\ \A l \in DOMAIN lns : lns[l].ln /\ lns[l].name = n =>
                     listeners[n] = l \/ (sqlReq[c].op \in {"register", "close"} /\ sqlReq[c].port = l)
               /\ ~sqlStopped /\ n \notin stale /\ stored[n] # 0 =>
                     listeners[n] = stored[n] \/ (sqlReq[c].op \in {"close", "wait", "delete"} /\ sqlReq[c].name = n)
    BY <1>4, SqlBefore DEF Alone
  <1>5. \A m \in Instances : listeners[m] # 0 => lns[listeners[m]].name = m
    BY DEF Sql!IInv, Sql!NamesKept
  <1>6. sqlReq[c].op \in {"register", "put", "close", "wait"} =>
           /\ sqlReq[c].port \in 1..Len(lns) /\ lns[sqlReq[c].port].name = sqlReq[c].name
    <2>1. sqlReq[c].op \in {"register", "put", "close", "wait"} =>
             /\ sqlReq[c].port \in 1..MaxListeners /\ sqlReq[c].port <= Len(lns)
             /\ lns[sqlReq[c].port].name = sqlReq[c].name
      BY <1>0, SqlCallFields DEF Sql!IInv, Sql!NamesKept
    <2>2. \A p \in 1..MaxListeners : p <= Len(lns) => p \in 1..Len(lns)
      BY <1>2
    <2>3. QED
      BY <2>1, <2>2
  <1>7. \A p \in 1..Len(lns) : p \in 1..MaxListeners /\ p # 0 /\ p \in 0..Len(lns) /\ p <= Len(lns)
    BY <1>2
  <1>8. ASSUME sqlReq[c].op \in {"start", "register", "put", "close", "wait", "delete"}, sqlReq[c].name \notin sqlRaced
        PROVE  /\ sqlReq[c].op = "put" => listeners[sqlReq[c].name] = sqlReq[c].port
               /\ sqlReq[c].op # "put" => listeners[sqlReq[c].name] = 0
               /\ sqlReq[c].op = "register" => lns[sqlReq[c].port].ln
    BY <1>8 DEF Sql!IInv, Sql!CallsAlone
  <1>9. Len(lns) <= Len(lns')
    BY <1>0, <1>2
  <1>10. ASSUME NEW n \in Instances, Sql!Create(c, n) PROVE Sql!IInv'
    <2>1. PICK r \in Sql!Request : r.op = "start" /\ r.name = n /\ sqlReq' = [sqlReq EXCEPT ![c] = r]
      BY <1>10, SqlRequests DEF Sql!Create, Sql!Hold
    <2>2. sqlReq[c].op = "none" /\ stored[n] = 0 /\ UNCHANGED <<stored, listeners, stale>>
      BY <1>0, <1>10, SqlCallFields DEF Sql!Create
    <2>3. Sql!TypeOK'
      BY <1>0, <1>2, <1>3, <2>1, <2>2
    <2>4. Alone(c, n) => listeners[n] = 0 /\ \A l \in DOMAIN lns : ~(lns[l].ln /\ lns[l].name = n)
      <3>1. Alone(c, n) => listeners[n] = 0
        BY <1>4, <2>2
      <3>2. QED
        BY <1>2, <1>4, <2>2, <3>1
    <2>5. OthersKept(n) /\ Follows(c, n, r)
      BY <1>0, <1>5, <1>9, <2>1, <2>2, <2>3, <2>4 DEF OthersKept, Follows
    <2>6. Alone(c, n) => Kept(n, r)
      BY <1>0, <1>5, <1>9, <2>1, <2>2, <2>3, <2>4 DEF Kept
    <2>7. QED
      BY <1>1, <2>5, <2>6, <2>1, <2>2, <2>3, <2>4, SqlCall
  <1>11. ASSUME NEW n \in Instances, Sql!Delete(c, n) PROVE Sql!IInv'
    <2>1. PICK r \in Sql!Request : r.op = "unmap" /\ r.name = n /\ sqlReq' = [sqlReq EXCEPT ![c] = r]
      BY <1>11, SqlRequests DEF Sql!Delete, Sql!Hold
    <2>2. sqlReq[c].op = "none" /\ UNCHANGED <<stored, listeners, stale>>
      BY <1>0, <1>11, SqlCallFields DEF Sql!Delete
    <2>3. Sql!TypeOK'
      BY <1>0, <1>2, <1>3, <2>1, <2>2
    <2>4. OthersKept(n) /\ Follows(c, n, r)
      BY <1>0, <1>4, <1>5, <1>9, <2>1, <2>2, <2>3 DEF OthersKept, Follows
    <2>5. Alone(c, n) => Kept(n, r)
      BY <1>0, <1>4, <1>5, <1>9, <2>1, <2>2, <2>3 DEF Kept
    <2>6. QED
      BY <1>1, <2>4, <2>5, <2>1, <2>2, <2>3, SqlCall
  <1>12. CASE Sql!StartFails(c)
    <2>1. PICK n \in Instances : n = sqlReq[c].name
      BY <1>0, <1>12, SqlCallFields DEF Sql!StartFails
    <2>2. PICK r \in Sql!Request : r.op = "none" /\ sqlReq' = [sqlReq EXCEPT ![c] = r]
      BY <1>12, <2>1, SqlRequests DEF Sql!StartFails, Sql!Hold
    <2>3. sqlReq[c].op = "start" /\ UNCHANGED <<stored, listeners, stale>>
      BY <1>12 DEF Sql!StartFails
    <2>4. Sql!TypeOK'
      BY <1>0, <1>2, <1>3, <2>2, <2>3
    <2>5. OthersKept(n) /\ Follows(c, n, r)
      BY <1>0, <1>4, <1>5, <1>9, <2>1, <2>2, <2>3, <2>4 DEF OthersKept, Follows
    <2>6. Alone(c, n) => Kept(n, r)
      BY <1>0, <1>4, <1>5, <1>9, <2>1, <2>2, <2>3, <2>4 DEF Kept
    <2>7. QED
      BY <1>1, <2>5, <2>6, <2>1, <2>2, <2>3, <2>4, SqlCall
  <1>13. CASE Sql!Register(c)
    <2>0. sqlReq[c].op = "register"
      BY <1>13 DEF Sql!Register
    <2>1. PICK n \in Instances, p \in 1..Len(lns) : n = sqlReq[c].name /\ p = sqlReq[c].port
      BY <1>0, <1>6, <2>0, SqlCallFields
    <2>2. PICK r \in Sql!Request : /\ r.op = "put" /\ r.name = n /\ r.port = p
                                   /\ sqlReq' = [sqlReq EXCEPT ![c] = r]
      BY <1>0, <1>13, <2>0, <2>1, SqlCallFields DEF Sql!Register, Sql!Hold
    <2>3. listeners' = [listeners EXCEPT ![n] = p] /\ UNCHANGED <<stored, stale>>
      BY <1>13, <2>1 DEF Sql!Register
    <2>4. listeners'[n] = p /\ \A m \in Instances : m # n => listeners'[m] = listeners[m]
      BY <1>2, <2>3
    <2>5. Sql!TypeOK'
      BY <1>0, <1>2, <1>3, <1>7, <2>2, <2>3
    <2>6. Alone(c, n) => listeners[n] = 0 /\ lns[p].ln
      BY <1>8, <2>0, <2>1 DEF Alone
    <2>7. Alone(c, n) => \A l \in DOMAIN lns : lns[l].ln /\ lns[l].name = n => l = p
      BY <1>2, <1>4, <1>7, <2>1, <2>6
    <2>8. Alone(c, n) /\ ~sqlStopped /\ n \notin stale => stored[n] = 0
      BY <1>4, <2>0, <2>6
    <2>9. lns[p].name = n /\ p <= Len(lns)
      BY <1>6, <1>7, <2>0, <2>1
    <2>10. OthersKept(n) /\ Follows(c, n, r)
      BY <1>0, <1>5, <1>9, <2>0, <2>1, <2>2, <2>3, <2>4, <2>5, <2>6, <2>7, <2>8, <2>9 DEF OthersKept, Follows
    <2>11. Alone(c, n) => Kept(n, r)
      BY <1>0, <1>5, <1>9, <2>0, <2>1, <2>2, <2>3, <2>4, <2>5, <2>6, <2>7, <2>8, <2>9 DEF Kept
    <2>12. QED
      BY <1>1, <2>10, <2>11, <2>0, <2>1, <2>2, <2>3, <2>4, <2>5, <2>6, <2>7, <2>8, <2>9, SqlCall
  <1>14. CASE Sql!PutInstance(c)
    <2>0. sqlReq[c].op = "put"
      BY <1>14 DEF Sql!PutInstance
    <2>1. PICK n \in Instances, p \in 1..Len(lns) : n = sqlReq[c].name /\ p = sqlReq[c].port
      BY <1>0, <1>6, <2>0, SqlCallFields
    <2>2. PICK r \in Sql!Request : r.op = "none" /\ sqlReq' = [sqlReq EXCEPT ![c] = r]
      BY <1>14, <2>1, SqlRequests DEF Sql!PutInstance, Sql!Hold
    <2>3. stored' = [stored EXCEPT ![n] = p] /\ stale' = stale \ {n} /\ listeners' = listeners
      BY <1>14, <2>1 DEF Sql!PutInstance
    <2>4. stored'[n] = p /\ \A m \in Instances : m # n => stored'[m] = stored[m]
      BY <1>2, <2>3
    <2>5. Sql!TypeOK'
      BY <1>0, <1>2, <1>3, <1>7, <2>2, <2>3
    <2>6. Alone(c, n) => listeners[n] = p
      BY <1>8, <2>0, <2>1 DEF Alone
    <2>7. OthersKept(n) /\ Follows(c, n, r)
      BY <1>0, <1>4, <1>5, <1>9, <2>0, <2>1, <2>2, <2>3, <2>4, <2>5, <2>6 DEF OthersKept, Follows
    <2>8. Alone(c, n) => Kept(n, r)
      BY <1>0, <1>4, <1>5, <1>9, <2>0, <2>1, <2>2, <2>3, <2>4, <2>5, <2>6 DEF Kept
    <2>9. QED
      BY <1>1, <2>7, <2>8, <2>0, <2>1, <2>2, <2>3, <2>4, <2>5, <2>6, SqlCall
  <1>15. CASE Sql!Unmap(c)
    <2>0. sqlReq[c].op = "unmap"
      BY <1>15 DEF Sql!Unmap
    <2>1. PICK n \in Instances : n = sqlReq[c].name
      BY <1>0, <2>0, SqlCallFields
    <2>2. PICK r \in Sql!Request :
             /\ sqlReq' = [sqlReq EXCEPT ![c] = r] /\ r.name = n
             /\ listeners[n] = 0 => r.op = "delete"
             /\ listeners[n] # 0 => r.op = "close" /\ r.port = listeners[n] /\ listeners[n] \in 1..Len(lns)
      <3>1. CASE listeners[n] = 0
        <4> DEFINE r == [op |-> "delete", name |-> n]
        <4>1. sqlReq' = [sqlReq EXCEPT ![c] = r]
          BY <1>15, <2>1, <3>1 DEF Sql!Unmap, Sql!Hold
        <4>2. r \in Sql!Request /\ r.op = "delete" /\ r.name = n
          BY SqlRequests
        <4> HIDE DEF r
        <4>3. QED
          BY <3>1, <4>1, <4>2
      <3>2. CASE listeners[n] # 0
        <4>1. listeners[n] \in 1..Len(lns) /\ listeners[n] \in 1..MaxListeners
          BY <1>2, <1>7, <3>2
        <4>2. PICK p \in 1..MaxListeners : p = listeners[n]
          BY <4>1
        <4> DEFINE r == [op |-> "close", name |-> n, port |-> p]
        <4>3. sqlReq' = [sqlReq EXCEPT ![c] = r]
          BY <1>15, <2>1, <3>2, <4>2 DEF Sql!Unmap, Sql!Hold
        <4>4. r \in Sql!Request /\ r.op = "close" /\ r.name = n /\ r.port = p
          BY SqlRequests
        <4> HIDE DEF r
        <4>5. QED
          BY <3>2, <4>1, <4>2, <4>3, <4>4
      <3>3. QED
        BY <3>1, <3>2
    <2>3. listeners' = [listeners EXCEPT ![n] = 0] /\ UNCHANGED <<stored, stale>>
      BY <1>15, <2>1 DEF Sql!Unmap
    <2>4. listeners'[n] = 0 /\ \A m \in Instances : m # n => listeners'[m] = listeners[m]
      BY <1>2, <2>3
    <2>5. Sql!TypeOK'
      <3>1. listeners' \in [Instances -> 0..Len(lns)]
        BY <1>2, <2>3
      <3>2. QED
        BY <1>0, <1>2, <1>3, <2>2, <2>3, <3>1
    <2>6. r.op \in {"close", "delete"} /\ (r.op = "close" => r.port <= Len(lns) /\ lns[r.port].name = n)
      BY <1>5, <1>7, <2>2
    <2>7. Alone(c, n) => \A l \in DOMAIN lns : lns[l].ln /\ lns[l].name = n => r.op = "close" /\ r.port = l
      BY <1>2, <1>4, <1>7, <2>0, <2>2
    <2>8. OthersKept(n) /\ Follows(c, n, r)
      BY <1>0, <1>5, <1>9, <2>0, <2>1, <2>2, <2>3, <2>4, <2>5, <2>6, <2>7 DEF OthersKept, Follows
    <2>9. Alone(c, n) => Kept(n, r)
      BY <1>0, <1>5, <1>9, <2>0, <2>1, <2>2, <2>3, <2>4, <2>5, <2>6, <2>7 DEF Kept
    <2>10. QED
      BY <1>1, <2>8, <2>9, <2>0, <2>1, <2>2, <2>3, <2>4, <2>5, <2>6, <2>7, SqlCall
  <1>16. CASE Sql!DeleteRecord(c)
    <2>0. sqlReq[c].op = "delete"
      BY <1>16 DEF Sql!DeleteRecord
    <2>1. PICK n \in Instances : n = sqlReq[c].name
      BY <1>0, <2>0, SqlCallFields
    <2>2. PICK r \in Sql!Request : r.op = "none" /\ sqlReq' = [sqlReq EXCEPT ![c] = r]
      BY <1>16, <2>1, SqlRequests DEF Sql!DeleteRecord, Sql!Hold
    <2>3. stored' = [stored EXCEPT ![n] = 0] /\ stale' = stale \ {n} /\ listeners' = listeners
      BY <1>16, <2>1 DEF Sql!DeleteRecord
    <2>4. stored'[n] = 0 /\ \A m \in Instances : m # n => stored'[m] = stored[m]
      BY <1>2, <2>3
    <2>5. Sql!TypeOK'
      <3>1. stored' \in [Instances -> 0..Len(lns)] /\ stale' \subseteq Instances
        BY <1>0, <1>2, <2>3
      <3>2. QED
        BY <1>0, <1>2, <1>3, <2>2, <2>3, <3>1
    <2>6. Alone(c, n) => listeners[n] = 0
      BY <1>8, <2>0, <2>1 DEF Alone
    <2>7. OthersKept(n) /\ Follows(c, n, r)
      BY <1>0, <1>4, <1>5, <1>9, <2>0, <2>1, <2>2, <2>3, <2>4, <2>5, <2>6 DEF OthersKept, Follows
    <2>8. Alone(c, n) => Kept(n, r)
      BY <1>0, <1>4, <1>5, <1>9, <2>0, <2>1, <2>2, <2>3, <2>4, <2>5, <2>6 DEF Kept
    <2>9. QED
      BY <1>1, <2>7, <2>8, <2>0, <2>1, <2>2, <2>3, <2>4, <2>5, <2>6, SqlCall
  <1>17. QED
    BY <1>10, <1>11, <1>12, <1>13, <1>14, <1>15, <1>16

(* The requests that start, close and finish a listener. *)
LEMMA SqlListens ==
  ASSUME Sql!IInv, sqlRaced' = sqlRaced \cup Sql!Races', NEW c \in Callers,
         Sql!StartListener(c) \/ Sql!CloseListener(c) \/ Sql!CloseDatabase(c), panicked' = panicked
  PROVE  Sql!IInv'
  <1>0. /\ Sql!TypeOK /\ UNCHANGED <<stored, listeners, sqlStopped, restarts, stale>> /\ c \in Sql!Procs
        /\ sqlRaced \subseteq sqlRaced' /\ sqlRaced' \subseteq Instances
        /\ sqlReq[c].op \in {"start", "close", "wait"}
    BY SqlHistory DEF Sql!IInv, Sql!Procs, Sql!StartListener, Sql!CloseListener, Sql!CloseDatabase
  <1>1. /\ lns \in Seq(Sql!Listener) /\ Len(lns) \in Nat /\ DOMAIN lns = 1..Len(lns) /\ Len(lns) <= MaxListeners
        /\ stored \in [Instances -> 0..Len(lns)] /\ listeners \in [Instances -> 0..Len(lns)]
        /\ sqlReq \in [Sql!Procs -> Sql!Request] /\ MaxListeners \in Nat
        /\ \A l \in DOMAIN lns : lns[l] \in Sql!Listener
    BY <1>0, ListenerFields
  <1>2. PICK n \in Instances : n = sqlReq[c].name
    BY <1>0, SqlCallFields
  <1>3. Alone(c, n) =>
          /\ listeners[n] = 0
          /\ \A l \in DOMAIN lns : lns[l].ln /\ lns[l].name = n => sqlReq[c].op = "close" /\ sqlReq[c].port = l
          /\ ~sqlStopped /\ n \notin stale /\ stored[n] # 0 => sqlReq[c].op \in {"close", "wait"}
    <2> SUFFICES ASSUME Alone(c, n)
                 PROVE  /\ listeners[n] = 0
                        /\ \A l \in DOMAIN lns : lns[l].ln /\ lns[l].name = n => sqlReq[c].op = "close" /\ sqlReq[c].port = l
                        /\ ~sqlStopped /\ n \notin stale /\ stored[n] # 0 => sqlReq[c].op \in {"close", "wait"}
      OBVIOUS
    <2>1. listeners[n] = 0
      BY <1>0, <1>2 DEF Sql!IInv, Sql!CallsAlone, Alone
    <2>2. /\ \A l \in DOMAIN lns : lns[l].ln /\ lns[l].name = n =>
                listeners[n] = l \/ (sqlReq[c].op \in {"register", "close"} /\ sqlReq[c].port = l)
          /\ ~sqlStopped /\ n \notin stale /\ stored[n] # 0 =>
                listeners[n] = stored[n] \/ (sqlReq[c].op \in {"close", "wait", "delete"} /\ sqlReq[c].name = n)
      BY SqlBefore DEF Alone
    <2>3. \A l \in DOMAIN lns : l # 0
      BY <1>1
    <2>4. QED
      BY <1>0, <2>1, <2>2, <2>3
  <1>4. sqlReq[c].op \in {"close", "wait"} => sqlReq[c].port \in DOMAIN lns /\ lns[sqlReq[c].port].name = n
    <2>1. sqlReq[c].op \in {"close", "wait"} =>
             sqlReq[c].port \in 1..MaxListeners /\ sqlReq[c].port <= Len(lns) /\ lns[sqlReq[c].port].name = n
      BY <1>0, <1>2, SqlCallFields DEF Sql!IInv, Sql!NamesKept
    <2>2. \A p \in 1..MaxListeners : p <= Len(lns) => p \in 1..Len(lns)
      BY <1>1
    <2>3. QED
      BY <1>1, <2>1, <2>2
  <1>5. \A m \in Instances : listeners[m] # 0 => lns[listeners[m]].name = m
    BY DEF Sql!IInv, Sql!NamesKept
  <1>6. CASE Sql!StartListener(c)
    <2> DEFINE e == Sql!Started(n)
    <2>0. PICK j \in 1..MaxListeners : j = Len(lns) + 1
      BY <1>1, <1>6 DEF Sql!StartListener
    <2>1. PICK r \in Sql!Request : /\ r.op = "register" /\ r.name = n /\ r.port = j
                                   /\ sqlReq' = [sqlReq EXCEPT ![c] = r]
      <3> DEFINE r == [op |-> "register", name |-> n, port |-> j]
      <3>1. r \in Sql!Request /\ r.op = "register" /\ r.name = n /\ r.port = j
        BY SqlRequests
      <3>2. sqlReq' = [sqlReq EXCEPT ![c] = r]
        BY <1>2, <1>6, <2>0 DEF Sql!StartListener, Sql!Hold
      <3> HIDE DEF r
      <3>3. QED
        BY <3>1, <3>2
    <2>2. lns' = Append(lns, e) /\ sqlReq[c].op = "start"
      BY <1>2, <1>6 DEF Sql!StartListener
    <2>3. e \in Sql!Listener /\ e.name = n /\ e.ln /\ e.db
      BY DEF Sql!Started, Sql!Listener
    <2> HIDE DEF e
    <2>4. /\ lns' \in Seq(Sql!Listener) /\ Len(lns') = j /\ DOMAIN lns' = 1..j /\ lns'[j] = e
          /\ \A l \in DOMAIN lns : l \in DOMAIN lns' /\ lns'[l] = lns[l]
          /\ \A l \in DOMAIN lns' : l = j \/ l \in DOMAIN lns
          /\ Len(lns) <= Len(lns') /\ Len(lns') <= MaxListeners
      BY <1>1, <2>0, <2>2, <2>3
    <2>5. Sql!TypeOK'
      <3>1. stored' \in [Instances -> 0..Len(lns')] /\ listeners' \in [Instances -> 0..Len(lns')]
        BY <1>0, <1>1, <2>0, <2>4
      <3>2. QED
        BY <1>0, <2>1, <2>4, <3>1 DEF Sql!TypeOK
    <2>6. Sql!DatabaseLast'
      BY <2>3, <2>4 DEF Sql!IInv, Sql!DatabaseLast
    <2>7. OthersKept(n)
      BY <1>0, <2>3, <2>4 DEF OthersKept
    <2>8. Follows(c, n, r)
      <3>1. j <= Len(lns') /\ lns'[j].name = n
        BY <2>0, <2>3, <2>4
      <3>2. listeners'[n] # 0 => lns'[listeners'[n]].name = n
        BY <1>0, <1>1, <1>5, <2>4
      <3>3. QED
        BY <1>2, <2>1, <2>2, <3>1, <3>2 DEF Follows
    <2>9. Alone(c, n) => Kept(n, r)
      BY <1>0, <1>3, <2>1, <2>2, <2>3, <2>4 DEF Kept
    <2>10. QED
      BY <2>5, <2>6, <2>7, <2>8, <2>9, SqlCall
  <1>7. CASE Sql!CloseListener(c)
    <2>0. sqlReq[c].op = "close"
      BY <1>7 DEF Sql!CloseListener
    <2>1. PICK p \in DOMAIN lns : p = sqlReq[c].port /\ lns[p].name = n
      BY <1>4, <2>0
    <2>2. PICK r \in Sql!Request : /\ r.op = "wait" /\ r.name = n /\ r.port = p
                                   /\ sqlReq' = [sqlReq EXCEPT ![c] = r]
      BY <1>0, <1>2, <1>7, <2>0, <2>1, SqlCallFields DEF Sql!CloseListener, Sql!Hold
    <2> DEFINE e == [lns[p] EXCEPT !.ln = FALSE]
    <2>3. lns' = [lns EXCEPT ![p] = e]
      BY <1>7, <2>1 DEF Sql!CloseListener
    <2>4. /\ e \in Sql!Listener /\ ~e.ln /\ e.name = n /\ e.loop = lns[p].loop
          /\ e.sessions = lns[p].sessions /\ (e.db <=> lns[p].db)
      BY <1>1, <2>1, ListenerUpdates
    <2> HIDE DEF e
    <2>5. /\ lns' \in Seq(Sql!Listener) /\ Len(lns') = Len(lns) /\ DOMAIN lns' = DOMAIN lns
          /\ lns'[p] = e /\ \A k \in DOMAIN lns : k # p => lns'[k] = lns[k]
      BY <1>0, <2>3, <2>4, ListenerSet
    <2>6. Sql!TypeOK'
      BY <1>0, <1>1, <2>2, <2>5 DEF Sql!TypeOK
    <2>7. Sql!DatabaseLast'
      BY <2>4, <2>5 DEF Sql!IInv, Sql!DatabaseLast
    <2>8. OthersKept(n)
      BY <1>0, <1>1, <2>1, <2>4, <2>5 DEF OthersKept
    <2>9. Follows(c, n, r)
      <3>1. p <= Len(lns') /\ lns'[p].name = n
        BY <1>1, <2>4, <2>5
      <3>2. listeners'[n] # 0 => lns'[listeners'[n]].name = n
        <4>1. \A k \in DOMAIN lns : lns'[k].name = lns[k].name
          BY <2>1, <2>4, <2>5
        <4>2. listeners'[n] = listeners[n] /\ (listeners[n] # 0 => listeners[n] \in DOMAIN lns)
          BY <1>0, <1>1, <1>5
        <4>3. QED
          BY <1>5, <4>1, <4>2
      <3>3. QED
        BY <1>2, <2>0, <2>2, <3>1, <3>2 DEF Follows
    <2>10. Alone(c, n) => Kept(n, r)
      BY <1>0, <1>3, <2>1, <2>2, <2>4, <2>5 DEF Kept
    <2>11. QED
      BY <2>6, <2>7, <2>8, <2>9, <2>10, SqlCall
  <1>8. CASE Sql!CloseDatabase(c)
    <2>0. sqlReq[c].op = "wait"
      BY <1>8 DEF Sql!CloseDatabase
    <2>1. PICK p \in DOMAIN lns : p = sqlReq[c].port /\ lns[p].name = n
      BY <1>4, <2>0
    <2>2. PICK r \in Sql!Request : r.op = "delete" /\ r.name = n /\ sqlReq' = [sqlReq EXCEPT ![c] = r]
      BY <1>2, <1>8, SqlRequests DEF Sql!CloseDatabase, Sql!Hold
    <2> DEFINE e == [lns[p] EXCEPT !.db = FALSE]
    <2>3. lns' = [lns EXCEPT ![p] = e] /\ lns[p].loop = "done" /\ lns[p].sessions = 0
      BY <1>8, <2>1 DEF Sql!CloseDatabase, Sql!Waited
    <2>4. /\ e \in Sql!Listener /\ (e.ln <=> lns[p].ln) /\ e.name = n /\ e.loop = lns[p].loop
          /\ e.sessions = lns[p].sessions
      BY <1>1, <2>1, ListenerUpdates
    <2> HIDE DEF e
    <2>5. /\ lns' \in Seq(Sql!Listener) /\ Len(lns') = Len(lns) /\ DOMAIN lns' = DOMAIN lns
          /\ lns'[p] = e /\ \A k \in DOMAIN lns : k # p => lns'[k] = lns[k]
      BY <1>0, <2>3, <2>4, ListenerSet
    <2>6. Sql!TypeOK'
      BY <1>0, <1>1, <2>2, <2>5 DEF Sql!TypeOK
    <2>7. Sql!DatabaseLast'
      BY <2>3, <2>4, <2>5 DEF Sql!IInv, Sql!DatabaseLast
    <2>8. OthersKept(n)
      BY <1>0, <1>1, <2>1, <2>4, <2>5 DEF OthersKept
    <2>9. Follows(c, n, r)
      <3>1. listeners'[n] # 0 => lns'[listeners'[n]].name = n
        <4>1. listeners[n] # 0 => listeners[n] \in DOMAIN lns
          BY <1>0, ListenerFields
        <4>2. QED
          BY <1>0, <1>5, <2>4, <2>5, <4>1
      <3>2. QED
        BY <1>2, <2>0, <2>2, <3>1 DEF Follows
    <2>10. Alone(c, n) => Kept(n, r)
      BY <1>0, <1>3, <2>0, <2>1, <2>2, <2>4, <2>5 DEF Kept
    <2>11. QED
      BY <2>6, <2>7, <2>8, <2>9, <2>10, SqlCall
  <1>9. QED
    BY <1>6, <1>7, <1>8

(* A step that changes no entry, record, request or open port. *)
LEMMA SqlFrame ==
  ASSUME Sql!IInv, UNCHANGED <<stored, listeners, sqlReq, sqlStopped, stale>>,
         sqlRaced \subseteq sqlRaced', Sql!RacesKept', Sql!TypeOK', Sql!DatabaseLast',
         Len(lns') = Len(lns), DOMAIN lns' = DOMAIN lns,
         \A k \in DOMAIN lns : lns'[k].name = lns[k].name /\ (lns'[k].ln <=> lns[k].ln)
  PROVE  Sql!IInv'
  <1>0. /\ Sql!TypeOK /\ Len(lns) \in Nat /\ DOMAIN lns = 1..Len(lns) /\ MaxListeners \in Nat
        /\ \A n \in Instances : listeners[n] # 0 => listeners[n] \in DOMAIN lns
        /\ \A c \in Callers : c \in Sql!Procs
    BY ListenerFields DEF Sql!IInv, Sql!Procs
  <1>1. \A c \in Callers : sqlReq[c].op \in {"register", "put", "close", "wait"} =>
           /\ sqlReq[c].port \in DOMAIN lns /\ sqlReq[c].port <= Len(lns)
           /\ lns[sqlReq[c].port].name = sqlReq[c].name
    <2>1. \A c \in Callers : sqlReq[c].op \in {"register", "put", "close", "wait"} =>
             /\ sqlReq[c].port \in 1..MaxListeners /\ sqlReq[c].port <= Len(lns)
             /\ lns[sqlReq[c].port].name = sqlReq[c].name
      BY <1>0, SqlCallFields DEF Sql!IInv, Sql!NamesKept
    <2>2. \A p \in 1..MaxListeners : p <= Len(lns) => p \in 1..Len(lns)
      BY <1>0
    <2>3. QED
      BY <1>0, <2>1, <2>2
  <1>2. Sql!NamesKept'
    BY <1>0, <1>1 DEF Sql!IInv, Sql!NamesKept
  <1>3. Sql!CallsAlone'
    <2>1. ASSUME NEW c \in Callers, sqlReq[c].op \in {"start", "register", "put", "close", "wait", "delete"},
                 sqlReq[c].name \notin sqlRaced'
          PROVE  /\ IF sqlReq[c].op = "put" THEN listeners[sqlReq[c].name] = sqlReq[c].port
                    ELSE listeners[sqlReq[c].name] = 0
                 /\ sqlReq[c].op = "register" => lns'[sqlReq[c].port].ln
      BY <1>1, <2>1 DEF Sql!IInv, Sql!CallsAlone
    <2>2. QED
      BY <2>1 DEF Sql!CallsAlone
  <1>4. Sql!MapOpen'
    BY <1>0 DEF Sql!IInv, Sql!MapOpen
  <1>5. Sql!ListenersOwned'
    BY <1>0 DEF Sql!IInv, Sql!ListenersOwned
  <1>6. Sql!RecordsServed'
    BY DEF Sql!IInv, Sql!RecordsServed
  <1>7. QED
    BY <1>2, <1>3, <1>4, <1>5, <1>6 DEF Sql!IInv

(* The accept loop and its sessions: what the requests rely on stays. *)
LEMMA SqlServes ==
  ASSUME Sql!IInv, sqlRaced' = sqlRaced \cup Sql!Races', NEW l \in DOMAIN lns, Sql!Serve(l)
  PROVE  Sql!IInv'
  <1>0. /\ Sql!TypeOK /\ UNCHANGED <<stored, listeners, sqlReq, sqlStopped, restarts, stale>>
        /\ sqlRaced \subseteq sqlRaced' /\ sqlRaced' \subseteq Instances /\ Sql!RacesKept'
        /\ lns[l] \in Sql!Listener
        /\ (lns[l].loop # "done" \/ lns[l].sessions # 0 => lns[l].db)
    BY SqlHistory, ListenerFields DEF Sql!IInv, Sql!DatabaseLast, Sql!Serve, Sql!Accept, Sql!StartSession,
       Sql!NextAccept, Sql!AcceptFails, Sql!EndSession
  <1>1. panicked' \in BOOLEAN
    BY <1>0 DEF Sql!TypeOK, Sql!Serve, Sql!Accept, Sql!StartSession, Sql!NextAccept, Sql!AcceptFails, Sql!EndSession
  <1>2. PICK e \in Sql!Listener :
           /\ lns' = [lns EXCEPT ![l] = e] /\ e.name = lns[l].name /\ (e.ln <=> lns[l].ln)
           /\ e.db \/ (e.loop = "done" /\ e.sessions = 0)
    <2>1. CASE lns' = lns
      BY <1>0, <2>1, ListenerFields DEF Sql!IInv, Sql!DatabaseLast
    <2>2. CASE Sql!Accept(l)
      <3> DEFINE e == [lns[l] EXCEPT !.loop = "got"]
      <3>1. lns' = [lns EXCEPT ![l] = e] /\ lns[l].db
        BY <1>0, <2>2 DEF Sql!Accept
      <3>2. e \in Sql!Listener /\ e.name = lns[l].name /\ (e.ln <=> lns[l].ln) /\ (e.db <=> lns[l].db)
        BY <1>0, ListenerUpdates
      <3> HIDE DEF e
      <3>3. QED
        BY <3>1, <3>2
    <2>3. CASE Sql!StartSession(l)
      <3> DEFINE f == [lns[l] EXCEPT !.loop = "top"]
                 e == [f EXCEPT !.sessions = 1]
      <3>1. lns' = [lns EXCEPT ![l] = e] /\ lns[l].db
        <4>1. lns' = [lns EXCEPT ![l].loop = "top", ![l].sessions = 1] /\ lns[l].db
          BY <1>0, <2>3 DEF Sql!StartSession
        <4>2. QED
          BY <1>0, <4>1, ListenerFields
      <3>2. f \in Sql!Listener /\ f.name = lns[l].name /\ (f.ln <=> lns[l].ln) /\ (f.db <=> lns[l].db)
        BY <1>0, ListenerUpdates
      <3> HIDE DEF f
      <3>3. e \in Sql!Listener /\ e.name = f.name /\ (e.ln <=> f.ln) /\ (e.db <=> f.db)
        <4>1. 1 \in 0..1
          OBVIOUS
        <4>2. QED
          BY <3>2, <4>1, SessionsSet
      <3> HIDE DEF e
      <3>4. QED
        BY <3>1, <3>2, <3>3
    <2>4. CASE Sql!NextAccept(l) /\ lns[l].ln
      <3> DEFINE e == [lns[l] EXCEPT !.loop = "accept"]
      <3>1. lns' = [lns EXCEPT ![l] = e] /\ lns[l].db
        BY <1>0, <2>4 DEF Sql!NextAccept
      <3>2. e \in Sql!Listener /\ e.name = lns[l].name /\ (e.ln <=> lns[l].ln) /\ (e.db <=> lns[l].db)
        BY <1>0, ListenerUpdates
      <3> HIDE DEF e
      <3>3. QED
        BY <3>1, <3>2
    <2>5. CASE Sql!AcceptFails(l)
      <3> DEFINE e == [lns[l] EXCEPT !.loop = "done"]
      <3>1. lns' = [lns EXCEPT ![l] = e] /\ lns[l].db
        BY <1>0, <2>5 DEF Sql!AcceptFails
      <3>2. e \in Sql!Listener /\ e.name = lns[l].name /\ (e.ln <=> lns[l].ln) /\ (e.db <=> lns[l].db)
        BY <1>0, ListenerUpdates
      <3> HIDE DEF e
      <3>3. QED
        BY <3>1, <3>2
    <2>6. CASE Sql!EndSession(l)
      <3> DEFINE e == [lns[l] EXCEPT !.sessions = 0]
      <3>1. lns' = [lns EXCEPT ![l] = e] /\ lns[l].db
        BY <1>0, <2>6 DEF Sql!EndSession
      <3>2. e \in Sql!Listener /\ e.name = lns[l].name /\ (e.ln <=> lns[l].ln) /\ (e.db <=> lns[l].db)
        <4>1. 0 \in 0..1
          OBVIOUS
        <4>2. QED
          BY <1>0, <4>1, SessionsSet
      <3> HIDE DEF e
      <3>3. QED
        BY <3>1, <3>2
    <2>7. QED
      BY <2>1, <2>2, <2>3, <2>4, <2>5, <2>6 DEF Sql!Serve, Sql!NextAccept
  <1>3. /\ lns' \in Seq(Sql!Listener) /\ Len(lns') = Len(lns) /\ DOMAIN lns' = DOMAIN lns
        /\ lns'[l] = e /\ \A k \in DOMAIN lns : k # l => lns'[k] = lns[k]
    BY <1>0, <1>2, ListenerSet
  <1>4. \A k \in DOMAIN lns : lns'[k].name = lns[k].name /\ (lns'[k].ln <=> lns[k].ln)
    BY <1>2, <1>3
  <1>5. Sql!TypeOK'
    BY <1>0, <1>1, <1>3 DEF Sql!TypeOK
  <1>6. Sql!DatabaseLast'
    BY <1>2, <1>3 DEF Sql!IInv, Sql!DatabaseLast
  <1>7. QED
    BY <1>0, <1>3, <1>4, <1>5, <1>6, SqlFrame

(* Stop takes the map over and stops its listeners one after the other. *)
LEMMA SqlStops ==
  ASSUME Sql!IInv, sqlRaced' = sqlRaced \cup Sql!Races', panicked' = panicked,
         Sql!StopAll \/ \E l \in DOMAIN lns : Sql!StopOne(l)
  PROVE  Sql!IInv'
  <1>0. /\ Sql!TypeOK /\ Main \in Sql!Procs /\ Main \notin Callers /\ UNCHANGED <<stored, restarts, stale>>
        /\ sqlRaced \subseteq sqlRaced' /\ sqlRaced' \subseteq Instances /\ Sql!RacesKept'
        /\ \A c \in Callers : c \in Sql!Procs
    BY SqlHistory, InstancesAssumption DEF Sql!IInv, Sql!Procs, Sql!StopAll, Sql!StopOne
  <1>1. /\ lns \in Seq(Sql!Listener) /\ Len(lns) \in Nat /\ DOMAIN lns = 1..Len(lns) /\ Len(lns) <= MaxListeners
        /\ stored \in [Instances -> 0..Len(lns)] /\ listeners \in [Instances -> 0..Len(lns)]
        /\ sqlReq \in [Sql!Procs -> Sql!Request] /\ MaxListeners \in Nat
        /\ \A l \in DOMAIN lns : lns[l] \in Sql!Listener /\ lns[l].name \in Instances
        /\ \A n \in Instances : listeners[n] # 0 => listeners[n] \in DOMAIN lns
    BY <1>0, ListenerFields
  <1>2. \A c \in Callers : /\ sqlReq[c].op # "stop"
                           /\ sqlReq[c].op # "none" => sqlReq[c].name \in Instances
                           /\ sqlReq[c].op # "none" => Sql!About(c, sqlReq[c].name)
    BY <1>0, SqlCallFields DEF Sql!IInv, Sql!NamesKept, Sql!About
  <1>3. CASE Sql!StopAll
    <2>1. PICK P \in SUBSET (1..Len(lns)) : P = {listeners[n] : n \in Instances} \ {0}
      BY <1>1
    <2> DEFINE r == [op |-> "stop", ports |-> P]
    <2>2. r \in Sql!Request /\ r.op = "stop" /\ r.ports = P
      <3>1. P \in SUBSET (Sql!Numbers \ {0})
        BY <1>1, <2>1 DEF Sql!Numbers
      <3>2. QED
        BY <3>1 DEF Sql!Request
    <2>3. /\ sqlReq' = [sqlReq EXCEPT ![Main] = r] /\ listeners' = [n \in Instances |-> 0]
          /\ sqlStopped' = TRUE /\ lns' = lns
      BY <1>3, <2>1 DEF Sql!StopAll, Sql!Hold
    <2> HIDE DEF r
    <2>4. sqlReq'[Main] = r /\ \A c \in Callers : sqlReq'[c] = sqlReq[c]
      BY <1>0, <1>1, <2>3
    <2>5. \A c \in Callers : sqlReq[c].op # "none" => sqlReq[c].name \in sqlRaced'
      <3>1. \A c \in Callers : sqlReq[c].op # "none" => Sql!About(c, sqlReq[c].name)
        BY <1>2
      <3>2. ASSUME NEW c \in Callers, sqlReq[c].op # "none" PROVE sqlReq[c].name \in sqlRaced'
        <4>1. PICK n \in Instances : n = sqlReq[c].name
          BY <1>2, <3>2
        <4>2. Sql!About(c, n)' /\ sqlReq'[Main].op = "stop" /\ c # Main
          BY <1>0, <1>2, <2>2, <2>4, <3>2, <4>1 DEF Sql!About
        <4>3. QED
          BY <1>0, <4>1, <4>2, SqlHistory
      <3>3. QED
        BY <3>2
    <2>6. Sql!TypeOK'
      <3>1. sqlStopped' \in BOOLEAN
        BY <2>3, Zenon
      <3>2. sqlReq' \in [Sql!Procs -> Sql!Request]
        BY <1>1, <2>2, <2>3
      <3>3. listeners' \in [Instances -> 0..Len(lns)]
        <4>1. 0 \in 0..Len(lns)
          BY <1>1
        <4>2. QED
          BY <2>3, <4>1, Zenon
      <3>4. QED
        BY <1>0, <2>3, <3>1, <3>2, <3>3 DEF Sql!TypeOK
    <2>7. Sql!DatabaseLast'
      BY <2>3 DEF Sql!IInv, Sql!DatabaseLast
    <2>8. Sql!NamesKept'
      BY <1>0, <1>1, <2>2, <2>3, <2>4 DEF Sql!IInv, Sql!NamesKept
    <2>9. Sql!CallsAlone'
      BY <2>4, <2>5 DEF Sql!CallsAlone
    <2>10. Sql!MapOpen' /\ Sql!RecordsServed'
      BY <2>3 DEF Sql!MapOpen, Sql!RecordsServed
    <2>11. Sql!ListenersOwned'
      <3>1. ASSUME NEW l \in DOMAIN lns, lns[l].ln, lns[l].name \notin sqlRaced' PROVE l \in P
        <4>1. sqlReq[Main].op # "stop"
          BY <1>0, <1>3, SqlCallFields DEF Sql!StopAll
        <4>2. \A c \in Callers : ~(sqlReq[c].op \in {"register", "close"} /\ sqlReq[c].port = l)
          BY <2>5, <3>1 DEF Sql!IInv, Sql!NamesKept
        <4>3. listeners[lns[l].name] = l
          BY <1>0, <3>1, <4>1, <4>2 DEF Sql!IInv, Sql!ListenersOwned
        <4>4. QED
          BY <1>1, <2>1, <4>3
      <3>2. QED
        BY <2>2, <2>3, <2>4, <3>1 DEF Sql!ListenersOwned
    <2>12. QED
      BY <1>0, <2>6, <2>7, <2>8, <2>9, <2>10, <2>11 DEF Sql!IInv
  <1>4. ASSUME NEW l \in DOMAIN lns, Sql!StopOne(l) PROVE Sql!IInv'
    <2>1. /\ sqlReq[Main].op = "stop" /\ l \in sqlReq[Main].ports /\ UNCHANGED <<listeners, sqlStopped>>
          /\ sqlStopped /\ \A n \in Instances \ sqlRaced : listeners[n] = 0
      BY <1>4 DEF Sql!StopOne, Sql!IInv, Sql!NamesKept
    <2>2. \A c \in Callers : sqlReq[c].op # "none" => sqlReq[c].name \in sqlRaced
      BY <1>0, <1>2, <2>1, SqlHistory
    <2>3. PICK e \in Sql!Listener :
             /\ lns' = [lns EXCEPT ![l] = e] /\ e.name = lns[l].name /\ ~e.ln
             /\ e.db \/ (e.loop = "done" /\ e.sessions = 0)
      <3>1. CASE lns[l].ln
        <4> DEFINE e == [lns[l] EXCEPT !.ln = FALSE]
        <4>1. lns' = [lns EXCEPT ![l] = e]
          BY <1>4, <3>1 DEF Sql!StopOne
        <4>2. /\ e \in Sql!Listener /\ ~e.ln /\ e.name = lns[l].name /\ e.loop = lns[l].loop
              /\ e.sessions = lns[l].sessions /\ (e.db <=> lns[l].db)
          BY <1>1, ListenerUpdates
        <4> HIDE DEF e
        <4>3. QED
          BY <4>1, <4>2 DEF Sql!IInv, Sql!DatabaseLast
      <3>2. CASE ~lns[l].ln
        <4> DEFINE e == [lns[l] EXCEPT !.db = FALSE]
        <4>1. lns' = [lns EXCEPT ![l] = e] /\ lns[l].loop = "done" /\ lns[l].sessions = 0
          BY <1>4, <3>2 DEF Sql!StopOne, Sql!Waited
        <4>2. /\ e \in Sql!Listener /\ (e.ln <=> lns[l].ln) /\ e.name = lns[l].name /\ e.loop = lns[l].loop
              /\ e.sessions = lns[l].sessions
          BY <1>1, ListenerUpdates
        <4> HIDE DEF e
        <4>3. QED
          BY <3>2, <4>1, <4>2
      <3>3. QED
        BY <3>1, <3>2
    <2>4. /\ lns' \in Seq(Sql!Listener) /\ Len(lns') = Len(lns) /\ DOMAIN lns' = DOMAIN lns
          /\ lns'[l] = e /\ \A k \in DOMAIN lns : k # l => lns'[k] = lns[k]
      BY <1>0, <2>3, ListenerSet
    <2>5. PICK r \in Sql!Request :
             /\ sqlReq' = [sqlReq EXCEPT ![Main] = r] /\ r.op \in {"none", "stop"}
             /\ r.op = "stop" => r.ports \subseteq sqlReq[Main].ports
             /\ \A k \in sqlReq[Main].ports : k # l => r.op = "stop" /\ k \in r.ports
      <3>1. CASE sqlReq' = sqlReq
        BY <1>0, <1>1, <2>1, <3>1
      <3>2. CASE sqlReq[Main].ports = {l} /\ sqlReq' = [sqlReq EXCEPT ![Main] = Sql!NoReq]
        <4>1. Sql!NoReq \in Sql!Request /\ Sql!NoReq.op = "none"
          BY DEF Sql!NoReq, Sql!Request
        <4>2. QED
          BY <3>2, <4>1
      <3>3. CASE sqlReq' = [sqlReq EXCEPT ![Main] = [sqlReq[Main] EXCEPT !.ports = @ \ {l}]]
        <4> DEFINE r == [sqlReq[Main] EXCEPT !.ports = @ \ {l}]
        <4>1. sqlReq[Main] \in [op : {"stop"}, ports : SUBSET (Sql!Numbers \ {0})]
          <5>1. sqlReq[Main] \in Sql!Request
            BY <1>0, <1>1
          <5>2. QED
            BY <2>1, <5>1 DEF Sql!Request, Sql!NoReq
        <4>2. r \in [op : {"stop"}, ports : SUBSET (Sql!Numbers \ {0})] /\ r.op = "stop"
              /\ r.ports = sqlReq[Main].ports \ {l}
          BY <4>1
        <4>3. sqlReq' = [sqlReq EXCEPT ![Main] = r]
          BY <3>3
        <4> HIDE DEF r
        <4>4. r \in Sql!Request
          BY <4>2 DEF Sql!Request
        <4>5. QED
          BY <4>2, <4>3, <4>4
      <3>4. QED
        BY <1>4, <3>1, <3>2, <3>3 DEF Sql!StopOne, Sql!Hold
    <2>6. sqlReq'[Main] = r /\ \A c \in Callers : sqlReq'[c] = sqlReq[c]
      BY <1>0, <1>1, <2>5
    <2>7. Sql!TypeOK'
      BY <1>0, <1>1, <2>1, <2>4, <2>5 DEF Sql!TypeOK
    <2>8. Sql!DatabaseLast'
      BY <2>3, <2>4 DEF Sql!IInv, Sql!DatabaseLast
    <2>9. \A k \in DOMAIN lns : lns'[k].name = lns[k].name
      BY <2>3, <2>4
    <2>10. Sql!NamesKept'
      <3>1. \A c \in Callers : sqlReq[c].op \in {"register", "put", "close", "wait"} =>
               sqlReq[c].port <= Len(lns) /\ lns[sqlReq[c].port].name = sqlReq[c].name /\ sqlReq[c].port \in DOMAIN lns
        <4>1. \A c \in Callers : sqlReq[c].op \in {"register", "put", "close", "wait"} =>
                 /\ sqlReq[c].port <= Len(lns) /\ lns[sqlReq[c].port].name = sqlReq[c].name
                 /\ sqlReq[c].port \in 1..MaxListeners
          BY <1>0, SqlCallFields DEF Sql!IInv, Sql!NamesKept
        <4>2. \A p \in 1..MaxListeners : p <= Len(lns) => p \in DOMAIN lns
          BY <1>1
        <4>3. QED
          BY <4>1, <4>2
      <3>2. sqlReq[Main].ports \subseteq DOMAIN lns
        BY <2>1 DEF Sql!IInv, Sql!NamesKept
      <3>3. \A n \in Instances : listeners[n] # 0 => lns'[listeners[n]].name = n
        BY <1>1, <2>9 DEF Sql!IInv, Sql!NamesKept
      <3>4. QED
        BY <1>0, <1>2, <2>1, <2>4, <2>5, <2>6, <2>9, <3>1, <3>2, <3>3 DEF Sql!NamesKept
    <2>11. Sql!CallsAlone'
      BY <1>0, <2>2, <2>6 DEF Sql!CallsAlone
    <2>12. Sql!MapOpen' /\ Sql!RecordsServed'
      BY <1>0, <2>1 DEF Sql!MapOpen, Sql!RecordsServed
    <2>13. Sql!ListenersOwned'
      <3>1. ASSUME NEW k \in DOMAIN lns', lns'[k].ln, lns'[k].name \notin sqlRaced'
            PROVE  r.op = "stop" /\ k \in r.ports
        <4>1. k # l /\ k \in DOMAIN lns /\ lns[k].ln /\ lns[k].name \notin sqlRaced /\ lns[k].name \in Instances
          BY <1>0, <1>1, <2>3, <2>4, <3>1
        <4>2. listeners[lns[k].name] # k
          BY <1>1, <2>1, <4>1
        <4>3. \A c \in Callers : ~(sqlReq[c].op \in {"register", "close"} /\ sqlReq[c].port = k)
          BY <2>2, <4>1 DEF Sql!IInv, Sql!NamesKept
        <4>4. k \in sqlReq[Main].ports
          BY <4>1, <4>2, <4>3 DEF Sql!IInv, Sql!ListenersOwned
        <4>5. QED
          BY <2>5, <4>1, <4>4
      <3>2. QED
        BY <2>6, <3>1 DEF Sql!ListenersOwned
    <2>14. QED
      BY <1>0, <2>7, <2>8, <2>10, <2>11, <2>12, <2>13 DEF Sql!IInv
  <1>5. QED
    BY <1>3, <1>4

(* New: the listeners it starts and the ports it hands out, a name's own. *)
LEMMA NewFields ==
  /\ Len(Configured) \in Nat /\ DOMAIN Configured = 1..Len(Configured)
  /\ \A i \in DOMAIN Configured : Configured[i] \in Instances
  /\ Sql!NewListeners \in Seq(Sql!Listener) /\ Len(Sql!NewListeners) = Len(Configured)
  /\ \A i \in DOMAIN Configured :
        LET e == Sql!NewListeners[i]
        IN e.name = Configured[i] /\ e.ln /\ e.db
  <1>1. /\ Len(Configured) \in Nat /\ DOMAIN Configured = 1..Len(Configured)
        /\ \A i \in DOMAIN Configured : Configured[i] \in Instances
    BY InstancesAssumption
  <1>2. \A n \in Instances : LET e == Sql!Started(n) IN e \in Sql!Listener /\ e.name = n /\ e.ln /\ e.db
    <2>1. 0 \in 0..1
      OBVIOUS
    <2>2. QED
      BY <2>1 DEF Sql!Started, Sql!Listener
  <1>3. /\ DOMAIN Sql!NewListeners = DOMAIN Configured
        /\ \A i \in DOMAIN Configured : Sql!NewListeners[i] = Sql!Started(Configured[i])
    BY DEF Sql!NewListeners
  <1>4. Sql!NewListeners \in [1..Len(Configured) -> Sql!Listener]
    <2>1. \A i \in DOMAIN Configured : Sql!Started(Configured[i]) \in Sql!Listener
      BY <1>1, <1>2
    <2>2. QED
      BY <1>1, <2>1 DEF Sql!NewListeners
  <1>5. Sql!NewListeners \in Seq(Sql!Listener) /\ Len(Sql!NewListeners) = Len(Configured)
    BY <1>1, <1>4
  <1>6. QED
    BY <1>1, <1>2, <1>3, <1>5

LEMMA NewPortsFields ==
  ASSUME NEW k \in Nat
  PROVE  /\ Sql!NewPorts(k) \in [Instances -> 0..(k + Len(Configured))]
         /\ \A n \in Instances : Sql!NewPorts(k)[n] # 0 =>
               \E i \in DOMAIN Configured : Configured[i] = n /\ Sql!NewPorts(k)[n] = k + i
         /\ \A i \in DOMAIN Configured : Sql!NewPorts(k)[Configured[i]] = k + i
         /\ \A n \in Instances : Sql!NewPorts(k)[n] = 0 <=> \A i \in DOMAIN Configured : Configured[i] # n
  <1>1. /\ Len(Configured) \in Nat /\ DOMAIN Configured = 1..Len(Configured)
        /\ \A i \in DOMAIN Configured : Configured[i] \in Instances
        /\ \A i, j \in DOMAIN Configured : Configured[i] = Configured[j] => i = j
    BY NewFields, InstancesAssumption
  <1>2. ASSUME NEW i \in DOMAIN Configured PROVE Sql!NewPorts(k)[Configured[i]] = k + i
    <2>1. i = CHOOSE j \in DOMAIN Configured : Configured[j] = Configured[i]
      BY <1>1
    <2>2. QED
      BY <1>1, <2>1 DEF Sql!NewPorts
  <1>3. \A n \in Instances : (\A i \in DOMAIN Configured : Configured[i] # n) => Sql!NewPorts(k)[n] = 0
    BY DEF Sql!NewPorts
  <1>4. \A i \in DOMAIN Configured : k + i # 0 /\ k + i \in 0..(k + Len(Configured))
    BY <1>1
  <1>5. \A n \in Instances : Sql!NewPorts(k)[n] \in 0..(k + Len(Configured))
    <2>1. 0 \in 0..(k + Len(Configured))
      BY <1>1
    <2>2. QED
      BY <1>1, <1>2, <1>3, <1>4, <2>1
  <1>6. Sql!NewPorts(k) \in [Instances -> 0..(k + Len(Configured))]
    <2>1. Sql!NewPorts(k) = [n \in Instances |-> Sql!NewPorts(k)[n]]
      BY DEF Sql!NewPorts
    <2>2. QED
      BY <1>5, <2>1, Zenon
  <1>7. QED
    BY <1>2, <1>3, <1>4, <1>6

(* The service as New leaves it, k listeners of earlier processes gone. *)
Fresh(k) ==
    /\ lns \in Seq(Sql!Listener) /\ Len(lns) = k + Len(Configured) /\ Len(lns) <= MaxListeners
    /\ \A l \in 1..k : ~lns[l].ln /\ lns[l].loop = "done" /\ lns[l].sessions = 0
    /\ \A i \in DOMAIN Configured : lns[k + i].name = Configured[i] /\ lns[k + i].ln /\ lns[k + i].db
    /\ listeners = Sql!NewPorts(k) /\ stored \in [Instances -> 0..Len(lns)]
    /\ \A n \in Instances : listeners[n] # 0 => stored[n] = listeners[n]
    /\ \A n \in Instances : stored[n] # 0 => listeners[n] # 0 \/ n \in stale
    /\ sqlReq = [c \in Sql!Procs |-> Sql!NoReq]
    /\ sqlStopped \in BOOLEAN /\ panicked \in BOOLEAN /\ restarts \in 0..MaxRestarts
    /\ sqlRaced \subseteq Instances /\ stale \subseteq Instances

LEMMA FreshInv ==
  ASSUME NEW CONSTANT k \in Nat
  PROVE  Fresh(k) => Sql!IInv
  <1> SUFFICES ASSUME Fresh(k) PROVE Sql!IInv
    OBVIOUS
  <1>1. /\ Len(Configured) \in Nat /\ DOMAIN Configured = 1..Len(Configured)
        /\ \A i \in DOMAIN Configured : Configured[i] \in Instances
    BY NewFields
  <1>2. /\ listeners \in [Instances -> 0..Len(lns)]
        /\ \A n \in Instances : listeners[n] # 0 =>
              \E i \in DOMAIN Configured : Configured[i] = n /\ listeners[n] = k + i
        /\ \A i \in DOMAIN Configured : listeners[Configured[i]] = k + i
    BY NewPortsFields DEF Fresh
  <1>3. /\ Sql!NoReq \in Sql!Request /\ Sql!NoReq.op = "none"
        /\ \A c \in Sql!Procs : sqlReq[c] = Sql!NoReq
        /\ Main \in Sql!Procs /\ \A c \in Callers : c \in Sql!Procs
    BY DEF Fresh, Sql!NoReq, Sql!Request, Sql!Procs
  <1>4. \A c \in Sql!Procs : sqlReq[c].op = "none"
    BY <1>3
  <1>5. \A l \in DOMAIN lns : l \in 1..k \/ \E i \in DOMAIN Configured : l = k + i
    <2>1. ASSUME NEW l \in DOMAIN lns, l \notin 1..k PROVE \E i \in DOMAIN Configured : l = k + i
      <3>1. l - k \in DOMAIN Configured /\ l = k + (l - k)
        BY <1>1, <2>1 DEF Fresh
      <3>2. QED
        BY <3>1
    <2>2. QED
      BY <2>1
  <1>6. Sql!TypeOK
    <2>1. sqlReq \in [Sql!Procs -> Sql!Request]
      BY <1>3 DEF Fresh
    <2>2. QED
      BY <1>2, <2>1 DEF Fresh, Sql!TypeOK
  <1>7. Sql!DatabaseLast
    BY <1>5 DEF Fresh, Sql!DatabaseLast
  <1>8. Sql!RacesKept
    BY <1>3, <1>4 DEF Sql!RacesKept, Sql!Races, Sql!About
  <1>9. Sql!NamesKept
    BY <1>2, <1>3, <1>4 DEF Fresh, Sql!NamesKept
  <1>10. Sql!CallsAlone
    BY <1>3, <1>4 DEF Sql!CallsAlone
  <1>11. Sql!MapOpen
    BY <1>2 DEF Fresh, Sql!MapOpen
  <1>12. Sql!ListenersOwned
    BY <1>2, <1>5 DEF Fresh, Sql!ListenersOwned
  <1>13. Sql!RecordsServed
    BY DEF Fresh, Sql!RecordsServed
  <1>14. QED
    BY <1>6, <1>7, <1>8, <1>9, <1>10, <1>11, <1>12, <1>13 DEF Sql!IInv

LEMMA FreshInvNext ==
  ASSUME NEW CONSTANT k \in Nat
  PROVE  Fresh(k)' => Sql!IInv'
  <1>1. Fresh(k) => Sql!IInv
    BY FreshInv
  <1>2. QED
    BY <1>1, PTL

LEMMA SqlInit == Sql!Init => Sql!IInv
  <1> SUFFICES ASSUME Sql!Init PROVE Fresh(0)
    BY FreshInv
  <1>1. /\ Len(Configured) \in Nat /\ DOMAIN Configured = 1..Len(Configured)
        /\ lns \in Seq(Sql!Listener) /\ Len(lns) = Len(Configured) /\ Len(Configured) <= MaxListeners
        /\ \A i \in DOMAIN Configured : lns[i].name = Configured[i] /\ lns[i].ln /\ lns[i].db
    BY NewFields, InstancesAssumption DEF Sql!Init
  <1>2. /\ listeners = Sql!NewPorts(0) /\ stored = listeners
        /\ Sql!NewPorts(0) \in [Instances -> 0..(0 + Len(Configured))]
    BY NewPortsFields DEF Sql!Init
  <1>3. sqlStopped \in BOOLEAN /\ panicked \in BOOLEAN
    BY Zenon DEF Sql!Init
  <1>4. restarts \in 0..MaxRestarts
    BY InstancesAssumption DEF Sql!Init
  <1>5. QED
    BY <1>1, <1>2, <1>3, <1>4 DEF Sql!Init, Fresh

(* A restart: what New starts over the listeners of the process that ended. *)
LEMMA SqlRestarts ==
  ASSUME Sql!IInv, sqlRaced' = sqlRaced \cup Sql!Races', Sql!Restart
  PROVE  Sql!IInv'
  <1>1. /\ Sql!TypeOK /\ lns \in Seq(Sql!Listener) /\ Len(lns) \in Nat /\ DOMAIN lns = 1..Len(lns)
        /\ stored \in [Instances -> 0..Len(lns)]
        /\ \A l \in DOMAIN lns : lns[l] \in Sql!Listener
    BY ListenerFields DEF Sql!IInv
  <1>2. PICK k \in Nat : k = Len(lns)
    BY <1>1
  <1>3. /\ Len(Configured) \in Nat /\ DOMAIN Configured = 1..Len(Configured)
        /\ Sql!NewListeners \in Seq(Sql!Listener) /\ Len(Sql!NewListeners) = Len(Configured)
        /\ \A i \in DOMAIN Configured :
              /\ Sql!NewListeners[i].name = Configured[i] /\ Sql!NewListeners[i].ln /\ Sql!NewListeners[i].db
    BY NewFields
  <1>4. PICK old \in Seq(Sql!Listener) :
           /\ old = [l \in DOMAIN lns |-> Sql!Dead(l)] /\ Len(old) = k
           /\ \A l \in 1..k : ~old[l].ln /\ old[l].loop = "done" /\ old[l].sessions = 0
    <2> DEFINE old == [l \in DOMAIN lns |-> Sql!Dead(l)]
    <2>1. \A l \in DOMAIN lns : /\ Sql!Dead(l) \in Sql!Listener /\ ~Sql!Dead(l).ln
                                /\ Sql!Dead(l).loop = "done" /\ Sql!Dead(l).sessions = 0
      <3> SUFFICES ASSUME NEW l \in DOMAIN lns
                   PROVE  /\ Sql!Dead(l) \in Sql!Listener /\ ~Sql!Dead(l).ln
                          /\ Sql!Dead(l).loop = "done" /\ Sql!Dead(l).sessions = 0
        OBVIOUS
      <3>1. PICK e \in Sql!Listener : e = lns[l]
        BY <1>1
      <3>2. Sql!Dead(l) = [e EXCEPT !.ln = FALSE, !.loop = "done", !.sessions = 0, !.db = FALSE]
        BY <3>1 DEF Sql!Dead
      <3>3. Sql!Dead(l).loop = "done" /\ Sql!Dead(l).sessions = 0 /\ ~Sql!Dead(l).ln
        BY <3>2 DEF Sql!Listener
      <3>4. Sql!Dead(l) = [name |-> e.name, ln |-> FALSE, loop |-> "done", sessions |-> 0, db |-> FALSE]
        BY <3>2 DEF Sql!Listener
      <3>5. e.name \in Instances /\ 0 \in 0..1
        BY DEF Sql!Listener
      <3>6. Sql!Dead(l) \in Sql!Listener
        BY <3>4, <3>5 DEF Sql!Listener
      <3>7. QED
        BY <3>3, <3>6
    <2>2. old \in [1..k -> Sql!Listener]
      BY <1>1, <1>2, <2>1
    <2>3. old \in Seq(Sql!Listener) /\ Len(old) = k
      BY <1>2, <2>2
    <2>4. QED
      BY <1>1, <1>2, <2>1, <2>3
  <1>5. /\ lns' = old \o Sql!NewListeners /\ listeners' = Sql!NewPorts(k)
        /\ k + Len(Configured) <= MaxListeners
        /\ stored' = [n \in Instances |-> Sql!NewRecord(stored[n], Sql!NewPorts(k)[n])]
        /\ stale' = {n \in Instances : stored[n] # 0 /\ Sql!NewPorts(0)[n] = 0}
        /\ sqlReq' = [c \in Sql!Procs |-> Sql!NoReq]
    BY <1>2, <1>4 DEF Sql!Restart
  <1>6. /\ lns' \in Seq(Sql!Listener) /\ Len(lns') = k + Len(Configured)
        /\ \A l \in 1..k : ~lns'[l].ln /\ lns'[l].loop = "done" /\ lns'[l].sessions = 0
        /\ \A i \in DOMAIN Configured : lns'[k + i].name = Configured[i] /\ lns'[k + i].ln /\ lns'[k + i].db
    <2>1. /\ lns' \in Seq(Sql!Listener) /\ Len(lns') = k + Len(Configured)
          /\ \A i \in 1..(k + Len(Configured)) :
                lns'[i] = IF i <= k THEN old[i] ELSE Sql!NewListeners[i - k]
      <3>1. /\ old \o Sql!NewListeners \in Seq(Sql!Listener)
            /\ Len(old \o Sql!NewListeners) = Len(old) + Len(Sql!NewListeners)
            /\ \A i \in 1..(Len(old) + Len(Sql!NewListeners)) : (old \o Sql!NewListeners)[i] =
                  IF i <= Len(old) THEN old[i] ELSE Sql!NewListeners[i - Len(old)]
        <4>1. old \in Seq(Sql!Listener) /\ Sql!NewListeners \in Seq(Sql!Listener)
          BY <1>3, <1>4
        <4>2. QED
          BY ONLY <4>1, ConcatProperties
      <3>2. QED
        BY <1>3, <1>4, <1>5, <3>1
    <2>2. \A l \in 1..k : l \in 1..(k + Len(Configured)) /\ l <= k
      BY <1>3
    <2>3. \A i \in DOMAIN Configured : k + i \in 1..(k + Len(Configured)) /\ ~(k + i <= k) /\ (k + i) - k = i
      BY <1>3
    <2>4. \A l \in 1..k : lns'[l] = old[l]
      BY <2>1, <2>2
    <2>5. ASSUME NEW i \in DOMAIN Configured PROVE lns'[k + i] = Sql!NewListeners[i]
      <3>1. PICK j : j = k + i /\ j \in 1..(k + Len(Configured)) /\ ~(j <= k) /\ j - k = i
        BY <2>3
      <3>2. lns'[j] = IF j <= k THEN old[j] ELSE Sql!NewListeners[j - k]
        BY <2>1, <3>1, Zenon
      <3>3. lns'[j] = Sql!NewListeners[i]
        BY <3>1, <3>2, Zenon
      <3>4. QED
        BY <3>1, <3>3
    <2>6. \A l \in 1..k : ~lns'[l].ln /\ lns'[l].loop = "done" /\ lns'[l].sessions = 0
      BY <1>4, <2>4, Zenon
    <2>7. \A i \in DOMAIN Configured : lns'[k + i].name = Configured[i] /\ lns'[k + i].ln /\ lns'[k + i].db
      BY <1>3, <2>5, Zenon
    <2>8. QED
      BY <2>1, <2>6, <2>7
  <1>7. /\ Sql!NewPorts(k) \in [Instances -> 0..(k + Len(Configured))]
        /\ \A n \in Instances : Sql!NewPorts(k)[n] = 0 <=> Sql!NewPorts(0)[n] = 0
    BY NewPortsFields
  <1>8. \A n \in Instances : /\ stored'[n] = IF listeners'[n] = 0 THEN stored[n] ELSE listeners'[n]
                             /\ stored'[n] \in 0..Len(lns')
    <2>1. \A n \in Instances : stored'[n] = IF listeners'[n] = 0 THEN stored[n] ELSE listeners'[n]
      BY <1>5 DEF Sql!NewRecord
    <2>2. \A i \in 0..k : i \in 0..(k + Len(Configured))
      BY <1>3
    <2>3. \A n \in Instances : stored[n] \in 0..k /\ listeners'[n] \in 0..(k + Len(Configured))
      BY <1>1, <1>2, <1>5, <1>7
    <2>4. QED
      BY <1>6, <2>1, <2>2, <2>3
  <1>9. stored' \in [Instances -> 0..Len(lns')]
    <2>1. stored' = [n \in Instances |-> stored'[n]]
      BY <1>5
    <2>2. QED
      BY <1>8, <2>1, Zenon
  <1>10. /\ \A n \in Instances : listeners'[n] # 0 => stored'[n] = listeners'[n]
         /\ \A n \in Instances : stored'[n] # 0 => listeners'[n] # 0 \/ n \in stale'
    BY <1>5, <1>7, <1>8
  <1>11. sqlStopped' \in BOOLEAN /\ panicked' \in BOOLEAN
    <2>1. sqlStopped' = FALSE /\ panicked' = FALSE
      BY DEF Sql!Restart
    <2>2. QED
      BY <2>1, Zenon
  <1>12. restarts' \in 0..MaxRestarts
    BY <1>1, InstancesAssumption DEF Sql!Restart, Sql!TypeOK
  <1>13. sqlRaced' \subseteq Instances /\ stale' \subseteq Instances
    BY <1>5, SqlHistory
  <1>14. Fresh(k)'
    BY <1>5, <1>6, <1>9, <1>10, <1>11, <1>12, <1>13 DEF Fresh
  <1>15. QED
    BY <1>14, FreshInvNext

LEMMA SqlStep == Sql!IInv /\ [Sql!Next]_sql => Sql!IInv'
  <1> SUFFICES ASSUME Sql!IInv, [Sql!Next]_sql PROVE Sql!IInv'
    OBVIOUS
  <1>1. CASE UNCHANGED sql
    <2>1. Sql!TypeOK' /\ Sql!DatabaseLast' /\ Sql!RacesKept'
      BY <1>1 DEF sql, Sql!IInv, Sql!TypeOK, Sql!DatabaseLast, Sql!RacesKept, Sql!Races, Sql!About
    <2>2. QED
      BY <1>1, <2>1, SqlFrame DEF sql
  <1>2. CASE Sql!Next
    <2>1. sqlRaced' = sqlRaced \cup Sql!Races'
      BY <1>2 DEF Sql!Next
    <2>2. ASSUME NEW c \in Callers, panicked' = panicked,
                 (\E n \in Instances : Sql!Create(c, n) \/ Sql!Delete(c, n)) \/ Sql!Continue(c)
          PROVE  Sql!IInv'
      <3>1. CASE Sql!StartListener(c) \/ Sql!CloseListener(c) \/ Sql!CloseDatabase(c)
        BY <2>1, <2>2, <3>1, SqlListens
      <3>2. CASE \/ \E n \in Instances : Sql!Create(c, n) \/ Sql!Delete(c, n)
                 \/ Sql!StartFails(c) \/ Sql!Register(c) \/ Sql!PutInstance(c) \/ Sql!Unmap(c) \/ Sql!DeleteRecord(c)
        BY <2>1, <2>2, <3>2, SqlQuiet
      <3>3. QED
        BY <2>2, <3>1, <3>2 DEF Sql!Continue
    <2>3. CASE panicked' = panicked /\ (Sql!StopAll \/ \E l \in DOMAIN lns : Sql!StopOne(l))
      BY <2>1, <2>3, SqlStops
    <2>4. CASE \E l \in DOMAIN lns : Sql!Serve(l)
      BY <2>1, <2>4, SqlServes
    <2>5. CASE Sql!Restart
      BY <2>1, <2>5, SqlRestarts
    <2>6. QED
      BY <1>2, <2>2, <2>3, <2>4, <2>5 DEF Sql!Next
  <1>3. QED
    BY <1>1, <1>2 DEF sql

(* Cloud SQL, for any configuration, any number of calls at once, restarts   *)
(* and a shutdown beside them: no session is served against a database that  *)
(* Listener.Stop has closed, a port that is open belongs to a stored         *)
(* instance where DELETE and Stop find it, and a stored instance is served   *)
(* on the port of its record, unless two calls were about its name at once   *)
(* or, for the last, its record is one a restart found and New did not.      *)
THEOREM InstancesAreServed == ServersSpec => []ListenersServed
  <1> DEFINE I == surface = "sql" => Sql!IInv
  <1>1. ServersInit => I
    BY SqlInit DEF ServersInit
  <1>2. I /\ [ServersNext]_serversVars => I'
    <2>1. [ServersNext]_serversVars => surface' = surface /\ (surface = "sql" => [Sql!Next]_sql)
      BY DEF ServersNext, serversVars
    <2>2. QED
      BY <2>1, SqlStep
  <1>3. I => ListenersServed
    <2> SUFFICES ASSUME Sql!IInv
                 PROVE  Sql!TypeOK /\ Sql!SessionHasDatabase /\ Sql!NoLeakedListener /\ Sql!InstanceServed
      BY DEF ListenersServed
    <2>1. Sql!TypeOK /\ \A c \in Callers : c \in Sql!Procs
      BY DEF Sql!IInv, Sql!Procs
    <2>2. Sql!SessionHasDatabase
      BY DEF Sql!IInv, Sql!DatabaseLast, Sql!SessionHasDatabase
    <2>3. Sql!Quiet => \A c \in Sql!Procs : sqlReq[c].op = "none"
      BY <2>1, SqlCallFields DEF Sql!Quiet
    <2>4. ASSUME Sql!Quiet, NEW l \in DOMAIN lns, lns[l].ln
          PROVE  LET n == lns[l].name IN n \in sqlRaced \/ (listeners[n] = l /\ stored[n] = l)
      <3>1. /\ Main \in Sql!Procs /\ lns[l].name \in Instances /\ l # 0
            /\ \A c \in Sql!Procs : sqlReq[c].op = "none"
        BY <2>1, <2>3, <2>4, ListenerFields DEF Sql!Procs
      <3>2. lns[l].name \in sqlRaced \/ listeners[lns[l].name] = l
        BY <2>1, <2>4, <3>1 DEF Sql!IInv, Sql!ListenersOwned
      <3>3. QED
        BY <2>1, <3>1, <3>2 DEF Sql!IInv, Sql!MapOpen
    <2>5. ASSUME Sql!Quiet, ~sqlStopped, NEW n \in Instances \ (sqlRaced \cup stale), stored[n] # 0
          PROVE  lns[stored[n]].ln
      <3>1. listeners[n] = stored[n]
        BY <2>1, <2>3, <2>5 DEF Sql!IInv, Sql!RecordsServed
      <3>2. QED
        BY <2>5, <3>1 DEF Sql!IInv, Sql!MapOpen
    <2>6. QED
      BY <2>1, <2>2, <2>4, <2>5 DEF Sql!NoLeakedListener, Sql!InstanceServed
  <1>4. QED
    BY <1>1, <1>2, <1>3, PTL DEF ServersSpec

-----------------------------------------------------------------------------
(* Cloud SQL: sessions of the Postgres front end. *)

LEMMA PgInit == Pg!Init => Pg!IInv
  <1> SUFFICES ASSUME Pg!Init PROVE Pg!IInv
    OBVIOUS
  <1>1. querying \in BOOLEAN
    BY Zenon DEF Pg!Init
  <1>2. prepared \in Seq(Queries) /\ batch \in Seq(Queries) /\ Len(prepared) = 0
    BY DEF Pg!Init
  <1>3. stmts \in [Slots -> 0..Len(prepared)]
    BY <1>2 DEF Pg!Init
  <1>4. portals \in [Slots -> [stmt : 0..Len(prepared), args : Nat]] /\ \A p \in Slots : portals[p].stmt = 0
    <2>1. Pg!NoPortal \in [stmt : 0..Len(prepared), args : Nat] /\ Pg!NoPortal.stmt = 0
      BY <1>2 DEF Pg!NoPortal
    <2>2. QED
      BY <2>1 DEF Pg!Init
  <1>5. QED
    BY <1>1, <1>2, <1>3, <1>4 DEF Pg!Init, Pg!IInv, Pg!Shape, Pg!PortalsBound, Pg!Answering

LEMMA PortalWider ==
  ASSUME NEW m \in Nat, NEW n \in Nat, m <= n, NEW x \in [stmt : 0..m, args : Nat]
  PROVE  x \in [stmt : 0..n, args : Nat]
  OBVIOUS

(* The statements and portals: Parse, Bind and Close. *)
LEMMA PgNames ==
  ASSUME Pg!IInv,
         \/ \E s \in Slots, q \in Queries : Pg!HandleParse(s, q)
         \/ \E p, s \in Slots, n \in 0..1 : Pg!HandleBind(p, s, n)
         \/ \E kind \in {"S", "P"}, s \in Slots : Pg!HandleClose(kind, s)
  PROVE  Pg!IInv'
  <1>1. /\ prepared \in Seq(Queries) /\ Len(prepared) \in Nat /\ ~querying
        /\ stmts \in [Slots -> 0..Len(prepared)]
        /\ portals \in [Slots -> [stmt : 0..Len(prepared), args : Nat]]
        /\ batch \in Seq(Queries) /\ querying \in BOOLEAN /\ asked = ready
        /\ asked \in Nat /\ ready \in Nat /\ errors \in 0..1 /\ DOMAIN bound = Slots
        /\ \A p \in Slots : portals[p].stmt # 0 => bound[p] = prepared[portals[p].stmt]
    BY DEF Pg!IInv, Pg!Shape, Pg!Answering, Pg!PortalsBound, Pg!Receive,
       Pg!HandleParse, Pg!HandleBind, Pg!HandleClose
  <1>2. Pg!Answering' /\ batch' \in Seq(Queries) /\ errors' \in 0..1
        /\ UNCHANGED <<asked, ready, querying>>
    BY <1>1 DEF Pg!Answering, Pg!HandleParse, Pg!HandleBind, Pg!HandleClose
  <1>3. CASE \E s \in Slots, q \in Queries : Pg!HandleParse(s, q)
    <2>1. PICK s \in Slots, q \in Queries : Pg!HandleParse(s, q)
      BY <1>3
    <2>2. /\ prepared' = Append(prepared, q) /\ stmts' = [stmts EXCEPT ![s] = Len(prepared) + 1]
          /\ UNCHANGED <<portals, bound>>
      BY <2>1 DEF Pg!HandleParse
    <2>3. /\ prepared' \in Seq(Queries) /\ Len(prepared') = Len(prepared) + 1
          /\ \A i \in 1..Len(prepared) : prepared'[i] = prepared[i]
      BY <1>1, <2>2
    <2>4. stmts' \in [Slots -> 0..Len(prepared')]
      BY <1>1, <2>2, <2>3
    <2>5. \A p \in Slots : /\ portals[p].stmt \in 0..Len(prepared) /\ portals[p].args \in Nat
                           /\ portals[p] = [stmt |-> portals[p].stmt, args |-> portals[p].args]
      BY <1>1
    <2>6. \A i \in 0..Len(prepared) : i \in 0..Len(prepared') /\ (i # 0 => i \in 1..Len(prepared))
      BY <1>1, <2>3
    <2>7. portals' \in [Slots -> [stmt : 0..Len(prepared'), args : Nat]]
      <3>1. \A p \in Slots : portals[p] \in [stmt : 0..Len(prepared'), args : Nat]
        BY <1>1, <2>3, PortalWider
      <3>2. QED
        BY <1>1, <2>2, <3>1
    <2>8. Pg!PortalsBound'
      BY <1>1, <2>2, <2>3, <2>5, <2>6 DEF Pg!PortalsBound
    <2>9. QED
      BY <1>1, <1>2, <2>2, <2>3, <2>4, <2>7, <2>8 DEF Pg!IInv, Pg!Shape
  <1>4. CASE \E p, s \in Slots, n \in 0..1 : Pg!HandleBind(p, s, n)
    <2>1. PICK p \in Slots, s \in Slots, n \in 0..1 : Pg!HandleBind(p, s, n)
      BY <1>4
    <2>2. prepared' = prepared /\ stmts' = stmts
      BY <2>1 DEF Pg!HandleBind
    <2>3. PICK x \in [stmt : 0..Len(prepared), args : Nat] : x = [stmt |-> stmts[s], args |-> n] /\ x.stmt = stmts[s]
      <3>1. stmts[s] \in 0..Len(prepared) /\ n \in Nat
        BY <1>1
      <3>2. [stmt |-> stmts[s], args |-> n] \in [stmt : 0..Len(prepared), args : Nat]
        BY <3>1
      <3>3. QED
        BY <3>2
    <2>4. \/ UNCHANGED <<portals, bound>>
          \/ portals' = [portals EXCEPT ![p] = x] /\ bound' = [bound EXCEPT ![p] = prepared[x.stmt]]
      BY <2>1, <2>3 DEF Pg!HandleBind
    <2>5. portals' \in [Slots -> [stmt : 0..Len(prepared'), args : Nat]]
      BY <1>1, <2>2, <2>4
    <2>6. Pg!PortalsBound'
      <3>1. CASE UNCHANGED <<portals, bound>>
        BY <1>1, <2>2, <3>1 DEF Pg!PortalsBound
      <3>2. CASE portals' = [portals EXCEPT ![p] = x] /\ bound' = [bound EXCEPT ![p] = prepared[x.stmt]]
        <4>1. \A o \in Slots : /\ portals'[o] = IF o = p THEN x ELSE portals[o]
                               /\ bound'[o] = IF o = p THEN prepared[x.stmt] ELSE bound[o]
          BY <1>1, <3>2
        <4>2. QED
          BY <1>1, <2>2, <4>1 DEF Pg!PortalsBound
      <3>3. QED
        BY <2>4, <3>1, <3>2
    <2>7. QED
      BY <1>1, <1>2, <2>2, <2>4, <2>5, <2>6 DEF Pg!IInv, Pg!Shape
  <1>5. CASE \E kind \in {"S", "P"}, s \in Slots : Pg!HandleClose(kind, s)
    <2>1. PICK s \in Slots : \/ stmts' = [stmts EXCEPT ![s] = 0] /\ portals' = portals
                             \/ stmts' = stmts /\ portals' = [portals EXCEPT ![s] = Pg!NoPortal]
      BY <1>5 DEF Pg!HandleClose
    <2>2. prepared' = prepared /\ bound' = bound
      BY <1>5 DEF Pg!HandleClose
    <2>3. Pg!NoPortal \in [stmt : 0..Len(prepared), args : Nat] /\ Pg!NoPortal.stmt = 0
      BY <1>1 DEF Pg!NoPortal
    <2>4. /\ stmts' \in [Slots -> 0..Len(prepared')]
          /\ portals' \in [Slots -> [stmt : 0..Len(prepared'), args : Nat]]
      BY <1>1, <2>1, <2>2, <2>3
    <2>5. Pg!PortalsBound'
      BY <1>1, <2>1, <2>2, <2>3 DEF Pg!PortalsBound
    <2>6. QED
      BY <1>1, <1>2, <2>2, <2>4, <2>5 DEF Pg!IInv, Pg!Shape
  <1>6. QED
    BY <1>3, <1>4, <1>5

(* The other messages leave statements and portals alone, and so does the loop *)
(* of handleQuery.                                                             *)
LEMMA PgStep == Pg!IInv /\ [Pg!Next]_pg => Pg!IInv'
  <1> SUFFICES ASSUME Pg!IInv, [Pg!Next]_pg PROVE Pg!IInv'
    OBVIOUS
  <1>1. /\ batch \in Seq(Queries) /\ querying \in BOOLEAN
        /\ asked \in Nat /\ ready \in Nat /\ errors \in 0..1
        /\ asked = ready + IF querying THEN 1 ELSE 0
        /\ querying /\ batch # <<>> => errors = 0
    BY DEF Pg!IInv, Pg!Shape, Pg!Answering
  <1>2. ASSUME UNCHANGED <<prepared, stmts, portals, bound>>, batch' \in Seq(Queries), querying' \in BOOLEAN,
               asked' \in Nat, ready' \in Nat, errors' \in 0..1,
               asked' = ready' + IF querying' THEN 1 ELSE 0,
               querying' /\ batch' # <<>> => errors' = 0
        PROVE  Pg!IInv'
    BY <1>2 DEF Pg!IInv, Pg!Shape, Pg!PortalsBound, Pg!Answering
  <1>3. CASE UNCHANGED pg
    BY <1>1, <1>2, <1>3 DEF pg
  <1>4. CASE \E s \in Slots : Pg!HandleDescribe(stmts[s] # 0) \/ Pg!HandleDescribe(portals[s] # Pg!NoPortal)
    BY <1>1, <1>2, <1>4 DEF Pg!HandleDescribe, Pg!Receive
  <1>5. CASE \E p \in Slots : Pg!HandleExecute(p) \/ Pg!ExecuteUnpinned(p)
    BY <1>1, <1>2, <1>5 DEF Pg!HandleExecute, Pg!ExecuteUnpinned, Pg!Receive
  <1>6. CASE Pg!HandleSync \/ Pg!Unsupported \/ Pg!QueryUnpinned
    BY <1>1, <1>2, <1>6 DEF Pg!HandleSync, Pg!Unsupported, Pg!QueryUnpinned, Pg!Receive
  <1>7. ASSUME NEW cmds \in Pg!Texts, Pg!HandleQuery(cmds) PROVE Pg!IInv'
    <2>1. cmds \in Seq(Queries)
      <3>1. PICK n \in 0..2 : cmds \in [1..n -> Queries]
        BY DEF Pg!Texts
      <3>2. n \in Nat
        OBVIOUS
      <3>3. QED
        BY <3>1, <3>2
    <2>2. CASE cmds = <<>>
      BY <1>1, <1>2, <1>7, <2>2 DEF Pg!HandleQuery, Pg!Receive
    <2>3. CASE cmds # <<>>
      <3>1. querying' = TRUE /\ batch' = cmds /\ errors' = 0 /\ ready' = ready /\ asked' = asked + 1 /\ ~querying
            /\ UNCHANGED <<prepared, stmts, portals, bound>>
        BY <1>7, <2>3 DEF Pg!HandleQuery, Pg!Receive
      <3>2. querying' \in BOOLEAN
        BY <3>1, Zenon
      <3>3. QED
        BY <1>1, <1>2, <2>1, <3>1, <3>2
    <2>4. QED
      BY <2>2, <2>3
  <1>8. CASE Pg!RunCommand
    <2>1. Pg!CommandsLeft \in Seq(Queries) /\ (Head(batch) \in Rejected => Pg!CommandsLeft = <<>>)
      BY <1>1, <1>8 DEF Pg!CommandsLeft, Pg!RunCommand
    <2>2. QED
      BY <1>1, <1>2, <1>8, <2>1 DEF Pg!RunCommand
  <1>9. CASE Pg!EndQuery
    <2>1. querying' = FALSE /\ ready' = ready + 1 /\ querying
          /\ UNCHANGED <<prepared, stmts, portals, bound, batch, asked, errors>>
      BY <1>9 DEF Pg!EndQuery
    <2>2. querying' \in BOOLEAN
      BY <2>1, Zenon
    <2>3. QED
      BY <1>1, <1>2, <2>1, <2>2
  <1>10. CASE \/ \E s \in Slots, q \in Queries : Pg!HandleParse(s, q)
              \/ \E p, s \in Slots, n \in 0..1 : Pg!HandleBind(p, s, n)
              \/ \E kind \in {"S", "P"}, s \in Slots : Pg!HandleClose(kind, s)
    BY <1>10, PgNames
  <1>11. QED
    BY <1>3, <1>4, <1>5, <1>6, <1>7, <1>8, <1>9, <1>10 DEF Pg!Next

(* An Execute that reaches sqlite runs what its portal was bound to. *)
LEMMA PgRuns ==
  ASSUME Pg!IInv, [Pg!Next]_pg, ran' # ran
  PROVE  /\ ran'.text = bound[ran'.portal]
         /\ Params[ran'.text] <= portals[ran'.portal].args
  <1>1. PICK p \in Slots : Pg!HandleExecute(p)
    BY DEF pg, Pg!Next, Pg!HandleParse, Pg!HandleBind, Pg!HandleDescribe, Pg!ExecuteUnpinned, Pg!HandleSync,
       Pg!Unsupported, Pg!HandleClose, Pg!HandleQuery, Pg!QueryUnpinned, Pg!RunCommand, Pg!EndQuery
  <1>2. PICK text : text = prepared[portals[p].stmt]
    OBVIOUS
  <1>3. /\ portals[p].stmt # 0 /\ ~(Params[text] > portals[p].args)
        /\ ran' = [portal |-> p, text |-> text]
    BY <1>1, <1>2 DEF Pg!HandleExecute
  <1>4. bound[p] = text
    BY <1>2, <1>3 DEF Pg!IInv, Pg!PortalsBound
  <1>5. text \in Queries /\ portals[p].args \in Nat
    <2>1. /\ prepared \in Seq(Queries) /\ portals[p] \in [stmt : 0..Len(prepared), args : Nat]
          /\ portals[p].stmt \in 1..Len(prepared)
      BY <1>3 DEF Pg!IInv, Pg!Shape
    <2>2. QED
      BY <1>2, <2>1
  <1>6. Params[text] \in Nat
    BY <1>5, SessionAssumption
  <1>7. QED
    BY <1>3, <1>4, <1>5, <1>6

(* Postgres sessions, for any statements, portals and texts: an Execute runs *)
(* the text its portal was bound to, with the parameters that text refers    *)
(* to, whatever was parsed or closed since, and every message that asks for  *)
(* it is followed by one ReadyForQuery and a batch by at most one error      *)
(* (SessionAnswers).                                                         *)
THEOREM SessionsAnswer == ServersSpec => SessionAnswers
  <1> DEFINE I == surface = "session" => Pg!IInv
  <1>1. ServersInit => I
    BY PgInit DEF ServersInit
  <1>2. I /\ [ServersNext]_serversVars => I'
    <2>1. [ServersNext]_serversVars => surface' = surface /\ (surface = "session" => [Pg!Next]_pg)
      BY DEF ServersNext, serversVars
    <2>2. QED
      BY <2>1, PgStep
  <1>3. I => (surface = "session" => Pg!OneReadyEach)
    BY DEF Pg!IInv, Pg!Shape, Pg!Answering, Pg!OneReadyEach
  <1>4. I /\ [ServersNext]_serversVars
           => [ran' # ran => /\ ran'.text = bound[ran'.portal]
                             /\ Params[ran'.text] <= portals[ran'.portal].args]_(Pg!vars)
    <2>1. [ServersNext]_serversVars => (surface = "session" /\ [Pg!Next]_pg) \/ UNCHANGED ran
      BY DEF ServersNext, serversVars, pg
    <2>2. QED
      BY <2>1, PgRuns
  <1>5. QED
    BY <1>1, <1>2, <1>3, <1>4, PTL DEF ServersSpec, SessionAnswers, Pg!PortalRunsBoundText

-----------------------------------------------------------------------------
(* SQL text.  A scanner reads a text lexeme by lexeme; what it is in behind  *)
(* each prefix is a function on 0..Len(s), and so is a concatenation.        *)
LEMMA LeastNumber ==
  ASSUME NEW S \in SUBSET Nat, S # {}
  PROVE  \E x \in S : \A y \in S : x <= y
  <1> DEFINE R == {p \in Nat \X Nat : p[1] < p[2]}
  <1>1. IsWellFoundedOn(R, Nat)
    BY NatLessThanWellFounded DEF OpToRel
  <1> HIDE DEF R
  <1>2. PICK m \in S : \A k \in S : <<k, m>> \notin R
    BY <1>1, WFMin, Zenon
  <1>3. \A k \in S : ~(k < m)
    BY <1>2 DEF R
  <1>4. QED
    BY <1>3

(* f is the scan of s that starts at r and moves by step. *)
Scan(f, s, n, r, step) ==
    /\ f[0] = r
    /\ \A i \in 1..n : f[i] = step[<<f[i - 1], s[i]>>]

LEMMA ScanExists ==
  ASSUME NEW R, NEW L, NEW step \in [R \X L -> R], NEW r \in R,
         NEW n \in Nat, NEW s, \A i \in 1..n : s[i] \in L
  PROVE  \E f \in [0..n -> R] : Scan(f, s, n, r, step)
  <1> DEFINE S == {m \in 0..n : ~ \E f \in [0..m -> R] : Scan(f, s, m, r, step)}
  <1>1. SUFFICES ASSUME S # {} PROVE FALSE
    <2>1. n \in S \/ \E f \in [0..n -> R] : Scan(f, s, n, r, step)
      OBVIOUS
    <2>2. QED
      BY <1>1, <2>1
  <1>2. S \in SUBSET Nat
    OBVIOUS
  <1>3. PICK m \in S : \A k \in S : m <= k
    BY <1>1, <1>2, LeastNumber
  <1>4. m # 0
    <2>1. [i \in 0..0 |-> r] \in [0..0 -> R] /\ Scan([i \in 0..0 |-> r], s, 0, r, step)
      BY DEF Scan
    <2>2. QED
      BY <2>1, <1>3
  <1>5. m - 1 \in 0..n /\ m \in 1..n /\ m - 1 \notin S
    BY <1>3, <1>4
  <1>6. PICK f \in [0..(m - 1) -> R] : Scan(f, s, m - 1, r, step)
    BY <1>5
  <1> DEFINE g == [i \in 0..m |-> IF i = m THEN step[<<f[m - 1], s[m]>>] ELSE f[i]]
  <1>7. f[m - 1] \in R /\ s[m] \in L
    <2>1. m - 1 \in 0..(m - 1)
      BY <1>5
    <2>2. f[m - 1] \in R
      BY <2>1
    <2>3. QED
      BY <2>2, <1>5
  <1>8. step[<<f[m - 1], s[m]>>] \in R
    BY <1>7
  <1>9. g \in [0..m -> R]
    BY <1>5, <1>8
  <1>10. Scan(g, s, m, r, step)
    <2>1. g[0] = r
      BY <1>5, <1>6 DEF Scan
    <2>2. ASSUME NEW i \in 1..m PROVE g[i] = step[<<g[i - 1], s[i]>>]
      <3>1. CASE i = m
        <4>1. m \in 0..m /\ m - 1 \in 0..m /\ m - 1 # m
          BY <1>5
        <4>2. g[m] = step[<<f[m - 1], s[m]>>] /\ g[m - 1] = f[m - 1]
          BY <4>1
        <4>3. QED
          BY <3>1, <4>2
      <3>2. CASE i # m
        <4>1. i \in 1..(m - 1) /\ i - 1 \in 0..(m - 1) /\ i - 1 # m /\ i \in 0..m /\ i - 1 \in 0..m
          BY <3>2, <1>5
        <4>2. f[i] = step[<<f[i - 1], s[i]>>]
          BY <4>1, <1>6 DEF Scan
        <4>3. g[i] = f[i] /\ g[i - 1] = f[i - 1]
          BY <3>2, <4>1
        <4>4. QED
          BY <4>2, <4>3
      <3>3. QED
        BY <3>1, <3>2
    <2>3. QED
      BY <2>1, <2>2 DEF Scan
  <1>11. QED
    BY <1>3, <1>9, <1>10

(* Scans of two texts agree as far as the texts do. *)
Alike(f, s, g, t, k, r, step) ==
    (\A i \in 1..k : s[i] = t[i]) /\ Scan(f, s, k, r, step) /\ Scan(g, t, k, r, step)

Equal(f, g, k) == \A i \in 0..k : f[i] = g[i]

LEMMA ScanAgrees ==
  ASSUME NEW r, NEW step, NEW k \in Nat, NEW s, NEW t, NEW f, NEW g, Alike(f, s, g, t, k, r, step)
  PROVE  Equal(f, g, k)
  <1>0. (\A i \in 1..k : s[i] = t[i]) /\ Scan(f, s, k, r, step) /\ Scan(g, t, k, r, step)
    BY DEF Alike
  <1> SUFFICES \A i \in 0..k : f[i] = g[i]
    BY DEF Equal
  <1> DEFINE S == {i \in 0..k : f[i] # g[i]}
  <1>1. SUFFICES ASSUME S # {} PROVE FALSE
    BY <1>1
  <1>2. S \in SUBSET Nat
    OBVIOUS
  <1>3. PICK m \in S : \A i \in S : m <= i
    BY <1>1, <1>2, LeastNumber
  <1>4. m # 0
    BY <1>0, <1>3 DEF Scan
  <1>5. m \in 1..k /\ m - 1 \in 0..k /\ m - 1 \notin S
    BY <1>3, <1>4
  <1>6. f[m - 1] = g[m - 1] /\ s[m] = t[m]
    BY <1>0, <1>5
  <1>7. f[m] = step[<<f[m - 1], s[m]>>] /\ g[m] = step[<<g[m - 1], t[m]>>]
    BY <1>0, <1>5 DEF Scan
  <1>8. QED
    BY <1>3, <1>6, <1>7
-----------------------------------------------------------------------------
(* A function that moves by step wherever it is in R is the scan. *)
LEMMA ScanIs ==
  ASSUME NEW R, NEW L, NEW step \in [R \X L -> R], NEW r \in R,
         NEW n \in Nat, NEW s, \A i \in 1..n : s[i] \in L
  PROVE  \A h : /\ h = [i \in 0..n |-> h[i]]
                /\ h[0] = r
                /\ \A i \in 1..n : h[i - 1] \in R => h[i] = step[<<h[i - 1], s[i]>>]
                => h \in [0..n -> R] /\ Scan(h, s, n, r, step)
  <1>1. PICK g \in [0..n -> R] : Scan(g, s, n, r, step)
    BY ScanExists, Zenon
  <1>0. SUFFICES ASSUME NEW h, h = [i \in 0..n |-> h[i]], h[0] = r,
                        \A i \in 1..n : h[i - 1] \in R => h[i] = step[<<h[i - 1], s[i]>>]
                 PROVE  h \in [0..n -> R] /\ Scan(h, s, n, r, step)
    OBVIOUS
  <1>2. \A i \in 0..n : h[i] = g[i]
    <2> DEFINE S == {i \in 0..n : h[i] # g[i]}
    <2>1. SUFFICES ASSUME S # {} PROVE FALSE
      BY <2>1
    <2>2. S \in SUBSET Nat
      OBVIOUS
    <2>3. PICK m \in S : \A i \in S : m <= i
      BY <2>1, <2>2, LeastNumber
    <2>4. m # 0
      BY <1>0, <1>1, <2>3 DEF Scan
    <2>5. m \in 1..n /\ m - 1 \in 0..n /\ m - 1 \notin S
      BY <2>3, <2>4
    <2>6. h[m - 1] = g[m - 1] /\ g[m - 1] \in R
      BY <2>5
    <2>7. g[m] = step[<<g[m - 1], s[m]>>]
      BY <1>1, <2>5 DEF Scan
    <2>8. h[m] = g[m]
      BY <1>0, <2>5, <2>6, <2>7
    <2>9. QED
      BY <2>3, <2>8
  <1>3. g = [i \in 0..n |-> g[i]]
    OBVIOUS
  <1>4. h = g
    BY <1>0, <1>2, <1>3
  <1>5. QED
    BY <1>1, <1>4

(* What Postgres reads (Opened of PgText) is a scan. *)
PgRegions == {"code", "'", "\"", "$$", "--", "/*"}

PgMove(r, l) ==
    CASE r = "code" /\ l \in {"'", "\"", "$$", "--", "/*"} -> l
      [] r \notin {"code", "--", "/*"} /\ l = r -> "code"
      [] r = "--" /\ l = "newline" -> "code"
      [] r = "/*" /\ l = "*/" -> "code"
      [] OTHER -> r

PgAfter == [p \in PgRegions \X PgSQL!Lexeme |-> PgMove(p[1], p[2])]

LEMMA PgAfterIs ==
  /\ PgAfter \in [PgRegions \X PgSQL!Lexeme -> PgRegions]
  /\ \A r \in PgRegions, l \in PgSQL!Lexeme : PgAfter[<<r, l>>] = PgMove(r, l)
  /\ "code" \in PgRegions
  <1>1. \A r \in PgRegions, l \in PgSQL!Lexeme : PgMove(r, l) \in PgRegions
    BY DEF PgMove, PgRegions
  <1>2. QED
    BY <1>1 DEF PgAfter, PgRegions

LEMMA PgOpened ==
  ASSUME NEW s \in Seq(PgSQL!Lexeme)
  PROVE  /\ PgSQL!Opened(s) \in [0..Len(s) -> PgRegions]
         /\ Scan(PgSQL!Opened(s), s, Len(s), "code", PgAfter)
  <1> DEFINE F(f) == [i \in 0..Len(s) |->
                        IF i = 0 THEN "code"
                        ELSE PgMove(f[i - 1], s[i])]
             h == CHOOSE f : f = F(f)
  <1>1. Len(s) \in Nat /\ \A i \in 1..Len(s) : s[i] \in PgSQL!Lexeme
    OBVIOUS
  <1>2. PICK g \in [0..Len(s) -> PgRegions] : Scan(g, s, Len(s), "code", PgAfter)
    BY <1>1, PgAfterIs, ScanExists, Zenon
  <1>3. ASSUME NEW f, NEW i \in 1..Len(s)
        PROVE  F(f)[i] = PgMove(f[i - 1], s[i])
    BY <1>1
  <1>4. \A f : F(f)[0] = "code" /\ F(f) = [i \in 0..Len(s) |-> F(f)[i]]
    BY <1>1
  <1> HIDE DEF F
  <1>5. g = F(g)
    <2>1. \A i \in 0..Len(s) : g[i] = F(g)[i]
      <3>1. g[0] = F(g)[0]
        BY <1>1, <1>2, <1>4 DEF Scan
      <3>2. ASSUME NEW i \in 1..Len(s) PROVE g[i] = F(g)[i]
        <4>1. i - 1 \in 0..Len(s)
          BY <1>1
        <4>2. g[i - 1] \in PgRegions
          BY <4>1
        <4>3. g[i] = PgAfter[<<g[i - 1], s[i]>>]
          BY <1>2 DEF Scan
        <4>4. QED
          BY <4>2, <4>3, <1>1, <1>3, PgAfterIs
      <3>3. QED
        BY <1>1, <3>1, <3>2
    <2>2. g = [i \in 0..Len(s) |-> g[i]]
      OBVIOUS
    <2>3. QED
      BY <1>4, <2>1, <2>2
  <1>6. h = F(h)
    BY <1>5
  <1> HIDE DEF h
  <1>7. h[0] = "code" /\ h = [i \in 0..Len(s) |-> h[i]]
    BY <1>4, <1>6
  <1>8. \A i \in 1..Len(s) : h[i - 1] \in PgRegions => h[i] = PgAfter[<<h[i - 1], s[i]>>]
    <2>1. \A i \in 1..Len(s) : h[i] = F(h)[i]
      BY <1>6
    <2>2. QED
      BY <2>1, <1>1, <1>3, PgAfterIs
  <1>9. h \in [0..Len(s) -> PgRegions] /\ Scan(h, s, Len(s), "code", PgAfter)
    BY <1>1, <1>7, <1>8, PgAfterIs, ScanIs, Zenon
  <1>10. PgSQL!Opened(s) = h
    BY DEF PgSQL!Opened, h, F, PgMove
  <1>11. QED
    BY <1>9, <1>10
-----------------------------------------------------------------------------
(* FlattenSeq puts sequences behind each other. *)
LEMMA FlattenIs ==
  ASSUME NEW V, NEW q \in Seq(Seq(V)), Len(q) # 0
  PROVE  \E h \in [0..Len(q) -> Seq(V)] :
           /\ Scan(h, q, Len(q), <<>>, [p \in Seq(V) \X Seq(V) |-> p[1] \o p[2]])
           /\ PgSQL!FlattenSeq(q) = h[Len(q)]
           /\ MySQL!FlattenSeq(q) = h[Len(q)]
  <1> DEFINE step == [p \in Seq(V) \X Seq(V) |-> p[1] \o p[2]]
             F(f) == [i \in 1..Len(q) |-> IF i = 1 THEN q[i] ELSE f[i - 1] \o q[i]]
             h == CHOOSE f : f = F(f)
  <1>1. Len(q) \in Nat /\ \A i \in 1..Len(q) : q[i] \in Seq(V)
    OBVIOUS
  <1>2. /\ step \in [Seq(V) \X Seq(V) -> Seq(V)]
        /\ \A x, y \in Seq(V) : step[<<x, y>>] = x \o y
        /\ <<>> \in Seq(V)
    <2>1. \A x, y \in Seq(V) : x \o y \in Seq(V)
      OBVIOUS
    <2>2. \A p \in Seq(V) \X Seq(V) : p[1] \in Seq(V) /\ p[2] \in Seq(V)
      OBVIOUS
    <2>3. step \in [Seq(V) \X Seq(V) -> Seq(V)]
      BY <2>1, <2>2, Zenon
    <2>4. \A x, y \in Seq(V) : <<x, y>> \in Seq(V) \X Seq(V) /\ <<x, y>>[1] = x /\ <<x, y>>[2] = y
      OBVIOUS
    <2>5. \A x, y \in Seq(V) : step[<<x, y>>] = x \o y
      BY <2>4
    <2>6. <<>> \in Seq(V)
      OBVIOUS
    <2>7. QED
      BY <2>3, <2>5, <2>6, Zenon
  <1> HIDE DEF step
  <1>3. PICK g \in [0..Len(q) -> Seq(V)] : Scan(g, q, Len(q), <<>>, step)
    BY <1>1, <1>2, ScanExists, Zenon
  <1> DEFINE k == [i \in 1..Len(q) |-> g[i]]
  <1>4. \A f : \A i \in 1..Len(q) : F(f)[i] = IF i = 1 THEN q[i] ELSE f[i - 1] \o q[i]
    OBVIOUS
  <1>5. \A f : F(f) = [i \in 1..Len(q) |-> F(f)[i]]
    OBVIOUS
  <1>6. \A i \in 1..Len(q) : k[i] = g[i] /\ g[i] \in Seq(V)
    <2>1. \A i \in 1..Len(q) : i \in 0..Len(q)
      BY <1>1
    <2>2. \A i \in 0..Len(q) : g[i] \in Seq(V)
      OBVIOUS
    <2>3. QED
      BY <2>1, <2>2
  <1>7. k = [i \in 1..Len(q) |-> k[i]]
    OBVIOUS
  <1>8. \A i \in 1..Len(q) : g[i] = g[i - 1] \o q[i] /\ g[i - 1] \in Seq(V)
    <2>1. ASSUME NEW i \in 1..Len(q) PROVE g[i] = g[i - 1] \o q[i] /\ g[i - 1] \in Seq(V)
      <3>1. i - 1 \in 0..Len(q)
        BY <1>1
      <3>2. g[i - 1] \in Seq(V) /\ q[i] \in Seq(V)
        BY <1>1, <3>1
      <3>3. g[i] = step[<<g[i - 1], q[i]>>]
        BY <1>3 DEF Scan
      <3>4. QED
        BY <1>2, <3>2, <3>3
    <2>2. QED
      BY <2>1
  <1> HIDE DEF F, k
  <1>9. k = F(k)
    <2>1. ASSUME NEW i \in 1..Len(q) PROVE k[i] = F(k)[i]
      <3>1. CASE i = 1
        <4>1. g[0] = <<>> /\ g[1] = g[0] \o q[1] /\ q[1] \in Seq(V)
          BY <1>1, <1>3, <1>8, <3>1 DEF Scan
        <4>2. g[1] = q[1]
          BY <4>1
        <4>3. QED
          BY <3>1, <4>2, <1>4, <1>6
      <3>2. CASE i # 1
        <4>1. i - 1 \in 1..Len(q)
          BY <1>1, <3>2
        <4>2. F(k)[i] = k[i - 1] \o q[i]
          BY <1>4, <3>2
        <4>3. k[i - 1] = g[i - 1] /\ k[i] = g[i] /\ g[i] = g[i - 1] \o q[i]
          BY <4>1, <1>6, <1>8
        <4>4. QED
          BY <4>2, <4>3
      <3>3. QED
        BY <3>1, <3>2
    <2>2. QED
      BY <2>1, <1>5, <1>7
  <1>10. h = F(h)
    BY <1>9
  <1> HIDE DEF h
  <1>11. \A i \in 1..Len(q) : h[i] = g[i]
    <2> DEFINE S == {i \in 1..Len(q) : h[i] # g[i]}
    <2>1. SUFFICES ASSUME S # {} PROVE FALSE
      BY <2>1
    <2>2. S \in SUBSET Nat
      OBVIOUS
    <2>3. PICK m \in S : \A i \in S : m <= i
      BY <2>1, <2>2, LeastNumber
    <2>4. h[m] = IF m = 1 THEN q[m] ELSE h[m - 1] \o q[m]
      BY <1>4, <1>10, <2>3
    <2>5. k[m] = IF m = 1 THEN q[m] ELSE k[m - 1] \o q[m]
      BY <1>4, <1>9, <2>3
    <2>6. m # 1 => m - 1 \in 1..Len(q) /\ m - 1 \notin S
      <3>1. m \in 1..Len(q) /\ ~(m <= m - 1)
        BY <1>1, <2>3
      <3>2. m - 1 \notin S
        BY <2>3, <3>1
      <3>3. QED
        BY <1>1, <3>1, <3>2
    <2>7. m # 1 => h[m - 1] = k[m - 1]
      BY <2>6, <1>6
    <2>8. h[m] = k[m]
      BY <2>4, <2>5, <2>7
    <2>9. QED
      BY <2>3, <2>8, <1>6
  <1>12. PgSQL!FlattenSeq(q) = h[Len(q)] /\ MySQL!FlattenSeq(q) = h[Len(q)]
    BY DEF PgSQL!FlattenSeq, MySQL!FlattenSeq, h, F
  <1>13. Len(q) \in 1..Len(q)
    BY <1>1
  <1>14. QED
    BY <1>3, <1>11, <1>12, <1>13 DEF step

(* The same of both modules, and one more sequence goes behind the others. *)
LEMMA FlattenAppend ==
  ASSUME NEW V, NEW q \in Seq(Seq(V)), NEW x \in Seq(V)
  PROVE  /\ PgSQL!FlattenSeq(q) \in Seq(V)
         /\ PgSQL!FlattenSeq(Append(q, x)) = PgSQL!FlattenSeq(q) \o x
         /\ MySQL!FlattenSeq(q) = PgSQL!FlattenSeq(q)
         /\ PgSQL!FlattenSeq(<<>>) = <<>>
  <1> DEFINE step == [p \in Seq(V) \X Seq(V) |-> p[1] \o p[2]]
             t == Append(q, x)
  <1>1. /\ t \in Seq(Seq(V)) /\ Len(t) = Len(q) + 1 /\ Len(q) \in Nat
        /\ \A i \in 1..Len(q) : t[i] = q[i]
        /\ t[Len(q) + 1] = x
    OBVIOUS
  <1>2. \A a, b \in Seq(V) : step[<<a, b>>] = a \o b
    OBVIOUS
  <1> HIDE DEF step, t
  <1>3. PICK f \in [0..Len(t) -> Seq(V)] :
          Scan(f, t, Len(t), <<>>, step) /\ PgSQL!FlattenSeq(t) = f[Len(t)]
    <2>1. Len(t) # 0
      BY <1>1
    <2>2. QED
      BY <1>1, <2>1, FlattenIs, Zenon DEF step
  <1>4. Len(q) \in 0..Len(t) /\ Len(t) \in 1..Len(t) /\ Len(t) - 1 = Len(q)
    BY <1>1
  <1>5. f[Len(q)] \in Seq(V)
    BY <1>4
  <1>6. PgSQL!FlattenSeq(t) = f[Len(q)] \o x
    <2>1. f[Len(t)] = step[<<f[Len(t) - 1], t[Len(t)]>>]
      BY <1>3, <1>4 DEF Scan
    <2>2. QED
      BY <1>1, <1>2, <1>3, <1>4, <1>5, <2>1
  <1>7. CASE Len(q) = 0
    <2>1. q = <<>>
      BY <1>7
    <2>2. PgSQL!FlattenSeq(q) = <<>> /\ MySQL!FlattenSeq(q) = <<>>
      BY <2>1, <1>7 DEF PgSQL!FlattenSeq, MySQL!FlattenSeq
    <2>3. f[0] = <<>>
      BY <1>3 DEF Scan
    <2>4. QED
      BY <1>6, <1>7, <2>1, <2>2, <2>3 DEF t
  <1>8. CASE Len(q) # 0
    <2>1. PICK h \in [0..Len(q) -> Seq(V)] :
             /\ Scan(h, q, Len(q), <<>>, step)
             /\ PgSQL!FlattenSeq(q) = h[Len(q)] /\ MySQL!FlattenSeq(q) = h[Len(q)]
      BY <1>8, FlattenIs, Zenon DEF step
    <2>2. Scan(f, t, Len(q), <<>>, step)
      <3>1. \A i \in 1..Len(q) : i \in 1..Len(t)
        BY <1>1
      <3>2. QED
        BY <1>3, <3>1 DEF Scan
    <2>3. \A i \in 0..Len(q) : h[i] = f[i]
      <3>1. \A i \in 1..Len(q) : q[i] = t[i]
        BY <1>1
      <3>2. Scan(h, q, Len(q), <<>>, step) /\ Len(q) \in Nat
        BY <1>1, <2>1
      <3>3. Alike(h, q, f, t, Len(q), <<>>, step)
        BY <3>1, <3>2, <2>2 DEF Alike
      <3>4. Equal(h, f, Len(q))
        BY <3>2, <3>3, ScanAgrees, Zenon
      <3>5. QED
        BY <3>4 DEF Equal
    <2>4. h[Len(q)] = f[Len(q)]
      <3>1. Len(q) \in 0..Len(q)
        BY <1>1
      <3>2. QED
        BY <2>3, <3>1
    <2>5. PgSQL!FlattenSeq(<<>>) = <<>>
      BY DEF PgSQL!FlattenSeq
    <2>6. QED
      BY <1>5, <1>6, <2>1, <2>4, <2>5 DEF t
  <1>9. QED
    BY <1>7, <1>8
-----------------------------------------------------------------------------
(* PostgreSQL text: what one lexeme more changes of the reading. *)
PgEnd(s) == PgSQL!Opened(s)[Len(s)]

LEMMA AppendIs ==
  ASSUME NEW L, NEW s \in Seq(L), NEW l \in L, NEW t, t = Append(s, l)
  PROVE  /\ t \in Seq(L) /\ Len(s) \in Nat /\ Len(t) = Len(s) + 1 /\ t[Len(t)] = l
         /\ \A i \in 1..Len(s) : t[i] = s[i] /\ s[i] \in L
  OBVIOUS

LEMMA PgReadsOn ==
  ASSUME NEW s \in Seq(PgSQL!Lexeme), NEW l \in PgSQL!Lexeme, NEW t, t = Append(s, l)
  PROVE  /\ PgEnd(s) \in PgRegions
         /\ PgEnd(t) = PgMove(PgEnd(s), l)
         /\ \A i \in 0..Len(s) : PgSQL!Opened(t)[i] = PgSQL!Opened(s)[i]
  <1>1. /\ t \in Seq(PgSQL!Lexeme) /\ Len(s) \in Nat /\ Len(t) = Len(s) + 1 /\ t[Len(t)] = l
        /\ \A i \in 1..Len(s) : t[i] = s[i]
    BY AppendIs
  <1>2. PICK f : f = PgSQL!Opened(s)
    OBVIOUS
  <1>3. PICK g : g = PgSQL!Opened(t)
    OBVIOUS
  <1>4. f \in [0..Len(s) -> PgRegions] /\ Scan(f, s, Len(s), "code", PgAfter)
    BY <1>2, PgOpened
  <1>5. g \in [0..Len(t) -> PgRegions] /\ Scan(g, t, Len(t), "code", PgAfter)
    BY <1>1, <1>3, PgOpened
  <1>6. Scan(g, t, Len(s), "code", PgAfter)
    <2>1. \A i \in 1..Len(s) : i \in 1..Len(t)
      BY <1>1
    <2>2. QED
      BY <1>5, <2>1 DEF Scan
  <1>7. Alike(f, s, g, t, Len(s), "code", PgAfter)
    BY <1>1, <1>4, <1>6 DEF Alike
  <1>8. Equal(f, g, Len(s))
    BY <1>1, <1>7, ScanAgrees, Zenon
  <1>9. Len(s) \in 0..Len(s) /\ Len(t) \in 1..Len(t) /\ Len(t) - 1 = Len(s)
    BY <1>1
  <1>10. f[Len(s)] \in PgRegions /\ g[Len(s)] = f[Len(s)]
    BY <1>4, <1>8, <1>9 DEF Equal
  <1>11. g[Len(t)] = PgAfter[<<g[Len(t) - 1], t[Len(t)]>>]
    BY <1>5, <1>9 DEF Scan
  <1>12. g[Len(t)] = PgAfter[<<f[Len(s)], l>>]
    BY <1>1, <1>9, <1>10, <1>11
  <1>13. PgAfter[<<f[Len(s)], l>>] = PgMove(f[Len(s)], l)
    BY <1>10, PgAfterIs
  <1>14. QED
    BY <1>2, <1>3, <1>8, <1>10, <1>12, <1>13 DEF PgEnd, Equal

LEMMA PgEmpty == PgEnd(<<>>) = "code"
  <1>1. <<>> \in Seq(PgSQL!Lexeme) /\ Len(<<>>) = 0
    OBVIOUS
  <1>2. QED
    BY <1>1, PgOpened DEF PgEnd, Scan

LEMMA PgInCode ==
  ASSUME NEW s \in Seq(PgSQL!Lexeme), NEW l \in PgSQL!Lexeme, NEW t, t = Append(s, l)
  PROVE  /\ \A i \in 1..Len(s) : PgSQL!InCode(t, i) <=> PgSQL!InCode(s, i)
         /\ PgSQL!InCode(t, Len(t)) <=> PgEnd(s) = "code"
         /\ \A i \in 1..Len(s) : PgSQL!IsCast(t, i) <=> PgSQL!IsCast(s, i)
         /\ PgSQL!IsCast(t, Len(t)) <=> PgEnd(s) = "code" /\ l = "::"
         /\ ~PgSQL!IsCast(s, 0) /\ ~PgSQL!IsCast(t, 0)
  <1>1. /\ t \in Seq(PgSQL!Lexeme) /\ Len(s) \in Nat /\ Len(t) = Len(s) + 1 /\ t[Len(t)] = l
        /\ \A i \in 1..Len(s) : t[i] = s[i]
    BY AppendIs
  <1>2. \A i \in 1..Len(s) : PgSQL!InCode(t, i) <=> PgSQL!InCode(s, i)
    <2>1. \A i \in 1..Len(s) : i - 1 \in 0..Len(s)
      BY <1>1
    <2>2. QED
      BY <2>1, PgReadsOn DEF PgSQL!InCode
  <1>3. PgSQL!InCode(t, Len(t)) <=> PgEnd(s) = "code"
    <2>1. Len(t) - 1 = Len(s) /\ Len(s) \in 0..Len(s)
      BY <1>1
    <2>2. PgSQL!Opened(t)[Len(t) - 1] = PgSQL!Opened(s)[Len(s)]
      BY <2>1, PgReadsOn
    <2>3. QED
      BY <2>2 DEF PgSQL!InCode, PgEnd
  <1>4. \A i \in 1..Len(s) : PgSQL!IsCast(t, i) <=> PgSQL!IsCast(s, i)
    BY <1>1, <1>2 DEF PgSQL!IsCast
  <1>5. PgSQL!IsCast(t, Len(t)) <=> PgEnd(s) = "code" /\ l = "::"
    BY <1>1, <1>3 DEF PgSQL!IsCast
  <1>6. ~PgSQL!IsCast(s, 0) /\ ~PgSQL!IsCast(t, 0)
    BY <1>1 DEF PgSQL!IsCast
  <1>7. QED
    BY <1>2, <1>3, <1>4, <1>5, <1>6

LEMMA PgOpensGrows ==
  ASSUME NEW s \in Seq(PgSQL!Lexeme), NEW l \in PgSQL!Lexeme, NEW t, t = Append(s, l), NEW x
  PROVE  PgSQL!Opens(t, x) <=> PgSQL!Opens(s, x) \/ (PgEnd(s) = "code" /\ x = l)
  <1>1. /\ Len(s) \in Nat /\ Len(t) = Len(s) + 1 /\ t[Len(t)] = l
        /\ \A i \in 1..Len(s) : t[i] = s[i]
    BY AppendIs
  <1>2. \A i : i \in 1..Len(t) <=> i = Len(t) \/ i \in 1..Len(s)
    BY <1>1
  <1>3. /\ \A i \in 1..Len(s) : PgSQL!InCode(t, i) <=> PgSQL!InCode(s, i)
        /\ PgSQL!InCode(t, Len(t)) <=> PgEnd(s) = "code"
    BY PgInCode
  <1>4. QED
    BY <1>1, <1>2, <1>3 DEF PgSQL!Opens

(* A function of positions grows by the value at the new one. *)
LEMMA ListGrows ==
  ASSUME NEW n \in Nat, NEW W, NEW a, a \in [1..n -> W], NEW b, b \in [1..(n + 1) -> W],
         \A i \in 1..n : b[i] = a[i]
  PROVE  a \in Seq(W) /\ b[n + 1] \in W /\ b = Append(a, b[n + 1])
  <1>1. a \in Seq(W) /\ Len(a) = n /\ b \in Seq(W) /\ Len(b) = n + 1 /\ n + 1 \in 1..(n + 1)
    OBVIOUS
  <1>2. b[n + 1] \in W
    BY <1>1
  <1>3. PICK c : c = Append(a, b[n + 1])
    OBVIOUS
  <1>4. c \in Seq(W) /\ Len(c) = n + 1 /\ c[n + 1] = b[n + 1] /\ \A i \in 1..n : c[i] = a[i]
    BY <1>1, <1>2, <1>3
  <1>5. \A i \in 1..(n + 1) : b[i] = c[i]
    <2>1. \A i \in 1..(n + 1) : i = n + 1 \/ i \in 1..n
      OBVIOUS
    <2>2. QED
      BY <2>1, <1>4
  <1>6. b = c
    <2>1. b = [i \in 1..(n + 1) |-> b[i]] /\ c = [i \in 1..(n + 1) |-> c[i]]
      BY <1>1, <1>4
    <2>2. QED
      BY <1>5, <2>1
  <1>7. QED
    BY <1>1, <1>2, <1>3, <1>6

(* The parameters a text binds, in order (ParamOrder). *)
PgOrder(s) == PgSQL!FlattenSeq([i \in 1..Len(s) |-> PgSQL!Binds(s, i)])

(* The output wanted of a text (TranslatesCode). *)
PgOutput(s) == PgSQL!FlattenSeq([i \in 1..Len(s) |-> PgSQL!Wanted(s, i)])

PgOut == PgSQL!Lexeme \cup {"?", "AUTOINCREMENT"}

LEMMA PgOrderGrows ==
  ASSUME NEW s \in Seq(PgSQL!Lexeme), NEW l \in PgSQL!Lexeme, NEW t, t = Append(s, l)
  PROVE  PgOrder(t) = PgOrder(s) \o PgSQL!Binds(t, Len(t))
  <1>1. /\ t \in Seq(PgSQL!Lexeme) /\ Len(s) \in Nat /\ Len(t) = Len(s) + 1 /\ t[Len(t)] = l
        /\ \A i \in 1..Len(s) : t[i] = s[i]
    BY AppendIs
  <1>2. PICK n \in Nat : n = Len(s)
    BY <1>1
  <1>3. PICK a : a = [i \in 1..n |-> PgSQL!Binds(s, i)]
    OBVIOUS
  <1>4. PICK b : b = [i \in 1..(n + 1) |-> PgSQL!Binds(t, i)]
    OBVIOUS
  <1>5. \A u, i : PgSQL!Binds(u, i) \in Seq({1, 2})
    <2>1. <<>> \in Seq({1, 2}) /\ <<1>> \in Seq({1, 2}) /\ <<2>> \in Seq({1, 2})
      OBVIOUS
    <2>2. QED
      BY <2>1 DEF PgSQL!Binds
  <1>6. \A i \in 1..n : b[i] = a[i]
    <2>1. \A i \in 1..n : PgSQL!Binds(t, i) = PgSQL!Binds(s, i)
      BY <1>1, <1>2, PgInCode DEF PgSQL!Binds
    <2>2. QED
      BY <2>1, <1>2, <1>3, <1>4
  <1>7. PICK W : W = Seq({1, 2})
    OBVIOUS
  <1>8. a \in [1..n -> W] /\ b \in [1..(n + 1) -> W]
    BY <1>3, <1>4, <1>5, <1>7
  <1>9. a \in Seq(W) /\ b[n + 1] \in W /\ b = Append(a, b[n + 1])
    BY <1>6, <1>8, ListGrows
  <1>10. PgSQL!FlattenSeq(b) = PgSQL!FlattenSeq(a) \o b[n + 1]
    <2>1. PICK x : x = b[n + 1]
      OBVIOUS
    <2>2. a \in Seq(Seq({1, 2})) /\ x \in Seq({1, 2})
      BY <1>7, <1>9, <2>1
    <2>3. PgSQL!FlattenSeq(Append(a, x)) = PgSQL!FlattenSeq(a) \o x
      BY <2>2, FlattenAppend, Zenon
    <2>4. QED
      BY <1>9, <2>1, <2>3
  <1>11. b[n + 1] = PgSQL!Binds(t, Len(t))
    BY <1>1, <1>2, <1>4
  <1>12. PgOrder(s) = PgSQL!FlattenSeq(a) /\ PgOrder(t) = PgSQL!FlattenSeq(b)
    BY <1>1, <1>2, <1>3, <1>4 DEF PgOrder
  <1>13. QED
    BY <1>10, <1>11, <1>12

LEMMA PgOutputGrows ==
  ASSUME NEW s \in Seq(PgSQL!Lexeme), NEW l \in PgSQL!Lexeme, NEW t, t = Append(s, l)
  PROVE  PgOutput(t) = PgOutput(s) \o PgSQL!Wanted(t, Len(t))
  <1>1. /\ t \in Seq(PgSQL!Lexeme) /\ Len(s) \in Nat /\ Len(t) = Len(s) + 1 /\ t[Len(t)] = l
        /\ \A i \in 1..Len(s) : t[i] = s[i] /\ s[i] \in PgSQL!Lexeme
    BY AppendIs
  <1>2. PICK n \in Nat : n = Len(s)
    BY <1>1
  <1>3. PICK a : a = [i \in 1..n |-> PgSQL!Wanted(s, i)]
    OBVIOUS
  <1>4. PICK b : b = [i \in 1..(n + 1) |-> PgSQL!Wanted(t, i)]
    OBVIOUS
  <1>5. PICK W : W = Seq(PgOut)
    OBVIOUS
  <1>6. \A u, i : u[i] \in PgSQL!Lexeme => PgSQL!Wanted(u, i) \in W
    <2>1. /\ <<>> \in Seq(PgOut) /\ <<"?">> \in Seq(PgOut) /\ <<"AUTOINCREMENT">> \in Seq(PgOut)
          /\ \A x \in PgSQL!Lexeme : <<x>> \in Seq(PgOut)
      BY DEF PgOut
    <2>2. QED
      BY <1>5, <2>1 DEF PgSQL!Wanted
  <1>7. \A i \in 1..n : b[i] = a[i]
    <2>1. \A i \in 1..n : PgSQL!IsCast(t, i - 1) <=> PgSQL!IsCast(s, i - 1)
      <3>1. \A i \in 1..n : i - 1 = 0 \/ i - 1 \in 1..n
        OBVIOUS
      <3>2. QED
        BY <3>1, <1>2, PgInCode
    <2>2. \A i \in 1..n : PgSQL!InCode(t, i) <=> PgSQL!InCode(s, i)
      BY <1>2, PgInCode
    <2>3. \A i \in 1..n : PgSQL!Wanted(t, i) = PgSQL!Wanted(s, i)
      BY <1>1, <1>2, <2>1, <2>2 DEF PgSQL!Wanted
    <2>4. QED
      BY <2>3, <1>2, <1>3, <1>4
  <1>8. a \in [1..n -> W] /\ b \in [1..(n + 1) -> W]
    <2>1. \A i \in 1..n : PgSQL!Wanted(s, i) \in W
      BY <1>1, <1>2, <1>6
    <2>2. \A i \in 1..(n + 1) : t[i] \in PgSQL!Lexeme
      BY <1>1, <1>2
    <2>3. \A i \in 1..(n + 1) : PgSQL!Wanted(t, i) \in W
      BY <2>2, <1>6
    <2>4. QED
      BY <1>3, <1>4, <2>1, <2>3
  <1>9. a \in Seq(W) /\ b[n + 1] \in W /\ b = Append(a, b[n + 1])
    BY <1>7, <1>8, ListGrows
  <1>10. PgSQL!FlattenSeq(b) = PgSQL!FlattenSeq(a) \o b[n + 1]
    <2>1. PICK x : x = b[n + 1]
      OBVIOUS
    <2>2. a \in Seq(Seq(PgOut)) /\ x \in Seq(PgOut)
      BY <1>5, <1>9, <2>1
    <2>3. PgSQL!FlattenSeq(Append(a, x)) = PgSQL!FlattenSeq(a) \o x
      BY <2>2, FlattenAppend, Zenon
    <2>4. QED
      BY <1>9, <2>1, <2>3
  <1>11. b[n + 1] = PgSQL!Wanted(t, Len(t))
    BY <1>1, <1>2, <1>4
  <1>12. PgOutput(s) = PgSQL!FlattenSeq(a) /\ PgOutput(t) = PgSQL!FlattenSeq(b)
    BY <1>1, <1>2, <1>3, <1>4 DEF PgOutput
  <1>13. QED
    BY <1>10, <1>11, <1>12

LEMMA PgNothing == PgOrder(<<>>) = <<>> /\ PgOutput(<<>>) = <<>>
  <1>1. PgSQL!FlattenSeq(<<>>) = <<>>
    BY DEF PgSQL!FlattenSeq
  <1>2. Len(<<>>) = 0 /\ [i \in 1..0 |-> PgSQL!Binds(<<>>, i)] = <<>>
           /\ [i \in 1..0 |-> PgSQL!Wanted(<<>>, i)] = <<>>
    OBVIOUS
  <1>3. QED
    BY <1>1, <1>2 DEF PgOrder, PgOutput

-----------------------------------------------------------------------------
(* The invariant of translate.go: where the passes stand agrees with what    *)
(* Postgres reads, each within what it knows of.                             *)
PgCommand == [in : Seq(PgSQL!Lexeme), out : Seq(PgOut), order : Seq({1, 2})]

(* Texts without a comment, as far as rewriteSQL reads them, and without a  *)
(* dollar quote too, as far as the other passes do.                         *)
PgUncommented(s) == ~PgSQL!Opens(s, "--") /\ ~PgSQL!Opens(s, "/*")

PgPlain(s) == PgUncommented(s) /\ ~PgSQL!Opens(s, "$$")

(* The text ends with a cast, or with a word behind one. *)
PgCastEnds(s) ==
    \/ PgSQL!IsCast(s, Len(s))
    \/ PgSQL!IsCast(s, Len(s) - 1) /\ s[Len(s)] \in PgSQL!Words

PgKnown == {"code", "'", "\""}

PgTypes ==
    /\ pgInput \in Seq(PgSQL!Lexeme)
    /\ commands \in Seq(PgCommand) /\ Len(commands) # 0
    /\ splits \in PgKnown \cup {"$$", "--"}
    /\ rewrites \in PgKnown \cup {"$$"}
    /\ replaces \in PgKnown
    /\ strips \in PgKnown \cup {"cast"}

(* The passes stand where the reading of s ends. *)
PgStand(s) ==
    /\ ~PgSQL!Opens(s, "/*") => splits = PgEnd(s)
    /\ PgUncommented(s) => rewrites = PgEnd(s)
    /\ PgPlain(s) =>
          /\ replaces = PgEnd(s)
          /\ PgEnd(s) = IF strips = "cast" THEN "code" ELSE strips
          /\ ~PgSQL!TwoWordsBehindCast(s) => (strips = "cast" <=> PgCastEnds(s))

(* A command is translated as Postgres would read it. *)
PgRight(c) ==
    /\ PgUncommented(c.in) => c.order = PgOrder(c.in)
    /\ PgPlain(c.in) /\ ~PgSQL!TwoWordsBehindCast(c.in) => c.out = PgOutput(c.in)

PgIInv ==
    /\ PgTypes
    /\ ~PgSQL!Opens(pgInput, "/*") => splits = PgEnd(pgInput)
    /\ PgStand(commands[Len(commands)].in)
    /\ \A k \in 1..Len(commands) : PgRight(commands[k])
    /\ PgSQL!SplitsCode

LEMMA PgIInvImplies ==
  ASSUME PgIInv
  PROVE  PgSQL!ParamOrder /\ PgSQL!TranslatesCode /\ PgSQL!SplitsCode
  <1>1. PgSQL!ParamOrder
    BY DEF PgIInv, PgRight, PgUncommented, PgOrder, PgSQL!ParamOrder
  <1>2. PgSQL!TranslatesCode
    BY DEF PgIInv, PgRight, PgUncommented, PgPlain, PgOutput, PgSQL!TranslatesCode
  <1>3. QED
    BY <1>1, <1>2 DEF PgIInv

(* What each pass makes of a lexeme. *)
LEMMA PgLexemes ==
  /\ "?" \notin PgSQL!Lexeme /\ "AUTOINCREMENT" \notin PgSQL!Lexeme
  /\ PgSQL!Words \subseteq PgSQL!Lexeme
  BY DEF PgSQL!Lexeme, PgSQL!Words

(* A pass moves as the reading does, but for the regions it does not know. *)
LEMMA PgRegionMoves ==
  ASSUME NEW r \in PgRegions, NEW l \in PgSQL!Lexeme
  PROVE  /\ r # "/*" /\ ~(r = "code" /\ l = "/*") =>
               PgSQL!Region(r, l, PgSQL!Quotes \cup {"$$", "--"}) = PgMove(r, l)
         /\ r \in PgKnown \cup {"$$"} /\ ~(r = "code" /\ l \in {"--", "/*"}) =>
               PgSQL!Region(r, l, PgSQL!Quotes \cup {"$$"}) = PgMove(r, l)
         /\ r \in PgKnown /\ ~(r = "code" /\ l \in {"--", "/*", "$$"}) =>
               PgSQL!Region(r, l, PgSQL!Quotes) = PgMove(r, l)
         /\ r # "/*" => PgSQL!Region(r, l, PgSQL!Quotes \cup {"$$", "--"}) \in PgKnown \cup {"$$", "--"}
         /\ r \in PgKnown \cup {"$$"} => PgSQL!Region(r, l, PgSQL!Quotes \cup {"$$"}) \in PgKnown \cup {"$$"}
         /\ r \in PgKnown => PgSQL!Region(r, l, PgSQL!Quotes) \in PgKnown
  <1>1. /\ r # "/*" /\ ~(r = "code" /\ l = "/*") =>
               PgSQL!Region(r, l, PgSQL!Quotes \cup {"$$", "--"}) = PgMove(r, l)
        /\ r \in PgKnown \cup {"$$"} /\ ~(r = "code" /\ l \in {"--", "/*"}) =>
               PgSQL!Region(r, l, PgSQL!Quotes \cup {"$$"}) = PgMove(r, l)
        /\ r \in PgKnown /\ ~(r = "code" /\ l \in {"--", "/*", "$$"}) =>
               PgSQL!Region(r, l, PgSQL!Quotes) = PgMove(r, l)
    BY DEF PgSQL!Region, PgMove, PgRegions, PgKnown, PgSQL!Quotes
  <1>2. /\ r # "/*" => PgSQL!Region(r, l, PgSQL!Quotes \cup {"$$", "--"}) \in PgKnown \cup {"$$", "--"}
        /\ r \in PgKnown \cup {"$$"} => PgSQL!Region(r, l, PgSQL!Quotes \cup {"$$"}) \in PgKnown \cup {"$$"}
        /\ r \in PgKnown => PgSQL!Region(r, l, PgSQL!Quotes) \in PgKnown
    BY DEF PgSQL!Region, PgRegions, PgKnown, PgSQL!Quotes
  <1>3. QED
    BY <1>1, <1>2

LEMMA PgRewritten ==
  ASSUME PgTypes, NEW l \in PgSQL!Lexeme
  PROVE  /\ PgSQL!Rewrite(l) = IF rewrites = "code" /\ l \in {"$1", "$2"} THEN "?" ELSE l
         /\ PgSQL!Param(l) = IF rewrites = "code" /\ l \in {"$1", "$2"}
                               THEN <<IF l = "$1" THEN 1 ELSE 2>> ELSE <<>>
         /\ PgSQL!Param(l) \in Seq({1, 2})
  <1>1. PgSQL!Rewrite(l) = IF rewrites = "code" /\ l \in {"$1", "$2"} THEN "?" ELSE l
    BY DEF PgSQL!Rewrite
  <1>2. PgSQL!Rewrite(l) = "?" <=> rewrites = "code" /\ l \in {"$1", "$2"}
    BY <1>1, PgLexemes
  <1>3. <<>> \in Seq({1, 2}) /\ <<1>> \in Seq({1, 2}) /\ <<2>> \in Seq({1, 2})
    OBVIOUS
  <1>4. QED
    BY <1>1, <1>2, <1>3 DEF PgSQL!Param

(* Whether stripCasts drops lexeme x. *)
PgDrops(x) ==
    \/ strips \in {"code", "cast"} /\ x = "::"
    \/ strips = "cast" /\ x \in PgSQL!Words

LEMMA PgStrips ==
  ASSUME NEW x
  PROVE  PgSQL!Strip(x) = IF PgDrops(x) THEN <<>> ELSE <<x>>
  <1>1. CASE PgDrops(x)
    BY <1>1, Zenon DEF PgDrops, PgSQL!Strip
  <1>2. CASE ~PgDrops(x)
    BY <1>2, Zenon DEF PgDrops, PgSQL!Strip
  <1>3. QED
    BY <1>1, <1>2

LEMMA PgStripped ==
  ASSUME PgTypes, NEW x \in PgSQL!Lexeme \cup {"?"}, NEW q, q = PgSQL!Strip(x)
  PROVE  /\ PgDrops(x) => q = <<>> /\ [i \in 1..Len(q) |-> PgSQL!Replace(q[i])] = <<>>
         /\ ~PgDrops(x) => /\ q = <<x>> /\ q # <<>> /\ q[1] = x
                           /\ [i \in 1..Len(q) |-> PgSQL!Replace(q[i])] = <<PgSQL!Replace(x)>>
         /\ [i \in 1..Len(q) |-> PgSQL!Replace(q[i])] \in Seq(PgOut)
  <1>1. CASE PgDrops(x)
    <2>1. q = <<>>
      BY <1>1, PgStrips
    <2>2. [i \in 1..Len(q) |-> PgSQL!Replace(q[i])] = <<>>
      BY <2>1
    <2>3. <<>> \in Seq(PgOut)
      OBVIOUS
    <2>4. QED
      BY <1>1, <2>1, <2>2, <2>3
  <1>2. CASE ~PgDrops(x)
    <2>1. q = <<x>>
      BY <1>2, PgStrips
    <2>2. q[1] = x /\ Len(q) = 1 /\ q # <<>>
      BY <2>1
    <2>3. PICK y : y = PgSQL!Replace(x)
      OBVIOUS
    <2>4. [i \in 1..Len(q) |-> PgSQL!Replace(q[i])] = [i \in 1..1 |-> y]
      BY <2>2, <2>3
    <2>5. [i \in 1..1 |-> y] = <<y>>
      OBVIOUS
    <2>6. y \in PgOut
      BY <2>3 DEF PgSQL!Replace, PgOut
    <2>7. <<y>> \in Seq(PgOut)
      BY <2>6
    <2>8. QED
      BY <1>2, <2>1, <2>2, <2>3, <2>4, <2>5, <2>7
  <1>3. QED
    BY <1>1, <1>2

LEMMA PgCastGrows ==
  ASSUME NEW s \in Seq(PgSQL!Lexeme), NEW l \in PgSQL!Lexeme, NEW t, t = Append(s, l)
  PROVE  /\ PgSQL!TwoWordsBehindCast(s) => PgSQL!TwoWordsBehindCast(t)
         /\ PgCastEnds(t) <=> \/ PgEnd(s) = "code" /\ l = "::"
                              \/ PgSQL!IsCast(s, Len(s)) /\ l \in PgSQL!Words
         /\ PgCastEnds(s) /\ ~PgSQL!IsCast(s, Len(s)) /\ l \in PgSQL!Words => PgSQL!TwoWordsBehindCast(t)
         /\ PgSQL!IsCast(t, Len(t) - 1) <=> PgSQL!IsCast(s, Len(s))
         /\ PgSQL!IsCast(s, Len(s)) => s[Len(s)] = "::"
  <1>1. /\ t \in Seq(PgSQL!Lexeme) /\ Len(s) \in Nat /\ Len(t) = Len(s) + 1 /\ t[Len(t)] = l
        /\ \A i \in 1..Len(s) : t[i] = s[i]
    BY AppendIs
  <1>0. /\ \A i \in 1..Len(s) : PgSQL!IsCast(t, i) <=> PgSQL!IsCast(s, i)
        /\ ~PgSQL!IsCast(s, 0) /\ ~PgSQL!IsCast(t, 0)
    BY PgInCode
  <1>2. PgSQL!TwoWordsBehindCast(s) => PgSQL!TwoWordsBehindCast(t)
    <2>1. SUFFICES ASSUME PgSQL!TwoWordsBehindCast(s) PROVE PgSQL!TwoWordsBehindCast(t)
      OBVIOUS
    <2>2. PICK i \in 1..Len(s) : /\ PgSQL!IsCast(s, i) /\ i + 2 <= Len(s)
                                 /\ s[i + 1] \in PgSQL!Words /\ s[i + 2] \in PgSQL!Words
      BY <2>1 DEF PgSQL!TwoWordsBehindCast
    <2>3. PgSQL!IsCast(t, i)
      BY <2>2, <1>0
    <2>4. i \in 1..Len(t) /\ i + 2 <= Len(t) /\ t[i + 1] = s[i + 1] /\ t[i + 2] = s[i + 2]
      BY <1>1, <2>2
    <2>5. QED
      BY <2>2, <2>3, <2>4 DEF PgSQL!TwoWordsBehindCast
  <1>3. PgSQL!IsCast(t, Len(t) - 1) <=> PgSQL!IsCast(s, Len(s))
    <2>1. Len(t) - 1 = Len(s) /\ (Len(s) = 0 \/ Len(s) \in 1..Len(s))
      BY <1>1
    <2>2. CASE Len(s) = 0
      BY <1>0, <2>1, <2>2
    <2>3. CASE Len(s) \in 1..Len(s)
      BY <1>0, <2>1, <2>3
    <2>4. QED
      BY <2>1, <2>2, <2>3
  <1>4. PgCastEnds(t) <=> \/ PgEnd(s) = "code" /\ l = "::"
                          \/ PgSQL!IsCast(s, Len(s)) /\ l \in PgSQL!Words
    BY <1>1, <1>3, PgInCode DEF PgCastEnds
  <1>5. PgCastEnds(s) /\ ~PgSQL!IsCast(s, Len(s)) /\ l \in PgSQL!Words => PgSQL!TwoWordsBehindCast(t)
    <2>1. SUFFICES ASSUME PgSQL!IsCast(s, Len(s) - 1), s[Len(s)] \in PgSQL!Words, l \in PgSQL!Words
                   PROVE  PgSQL!TwoWordsBehindCast(t)
      BY DEF PgCastEnds
    <2>2. PICK i \in 1..Len(s) : i = Len(s) - 1
      BY <2>1 DEF PgSQL!IsCast
    <2>3. PgSQL!IsCast(t, i)
      BY <1>0, <2>1, <2>2
    <2>4. /\ i \in 1..Len(t) /\ i + 2 <= Len(t) /\ i + 1 = Len(s) /\ i + 2 = Len(t)
          /\ Len(s) \in 1..Len(s)
      BY <1>1, <2>2
    <2>5. t[i + 1] \in PgSQL!Words /\ t[i + 2] \in PgSQL!Words
      BY <1>1, <2>1, <2>4
    <2>6. QED
      BY <2>3, <2>4, <2>5 DEF PgSQL!TwoWordsBehindCast
  <1>6. QED
    BY <1>2, <1>3, <1>4, <1>5 DEF PgSQL!IsCast

(* One lexeme more of a command: the passes stand where the reading stands. *)
LEMMA PgStandsOn ==
  ASSUME PgTypes, NEW l \in PgSQL!Lexeme, PgSQL!Translate(l),
         NEW s \in Seq(PgSQL!Lexeme), PgStand(s), NEW t, t = Append(s, l)
  PROVE  PgStand(t)'
  <1>1. /\ rewrites' = PgSQL!Region(rewrites, l, PgSQL!Quotes \cup {"$$"})
        /\ strips' = PgSQL!StripRegion(PgSQL!Rewrite(l))
        /\ replaces' = IF PgSQL!Strip(PgSQL!Rewrite(l)) = <<>> THEN replaces
                       ELSE PgSQL!Region(replaces, PgSQL!Strip(PgSQL!Rewrite(l))[1], PgSQL!Quotes)
        /\ splits' = PgSQL!Region(splits, l, PgSQL!Quotes \cup {"$$", "--"})
    BY DEF PgSQL!Translate
  <1>2. PgEnd(s) \in PgRegions /\ PgEnd(t) = PgMove(PgEnd(s), l)
    BY PgReadsOn
  <1>3. \A x : PgSQL!Opens(t, x) <=> PgSQL!Opens(s, x) \/ (PgEnd(s) = "code" /\ x = l)
    BY PgOpensGrows
  <1>4. ~PgSQL!Opens(t, "/*") => splits' = PgEnd(t)
    <2>1. SUFFICES ASSUME ~PgSQL!Opens(t, "/*") PROVE splits' = PgEnd(t)
      OBVIOUS
    <2>2. splits = PgEnd(s) /\ ~(PgEnd(s) = "code" /\ l = "/*")
      BY <1>3, <2>1 DEF PgStand
    <2>3. PgEnd(s) # "/*"
      BY <2>2 DEF PgTypes, PgKnown
    <2>4. QED
      BY <1>1, <1>2, <2>2, <2>3, PgRegionMoves
  <1>6. PgUncommented(t) => rewrites' = PgEnd(t)
    <2>1. SUFFICES ASSUME PgUncommented(t) PROVE rewrites' = PgEnd(t)
      OBVIOUS
    <2>2. rewrites = PgEnd(s) /\ ~(PgEnd(s) = "code" /\ l \in {"--", "/*"})
      BY <1>3, <2>1 DEF PgStand, PgUncommented
    <2>3. PgEnd(s) \in PgKnown \cup {"$$"}
      BY <2>2 DEF PgTypes
    <2>4. QED
      BY <1>1, <1>2, <2>2, <2>3, PgRegionMoves
  <1>7. ASSUME PgPlain(t)
        PROVE  /\ replaces' = PgEnd(t)
               /\ PgEnd(t) = IF strips' = "cast" THEN "code" ELSE strips'
               /\ ~PgSQL!TwoWordsBehindCast(t) => (strips' = "cast" <=> PgCastEnds(t))
    <2>1. PgPlain(s) /\ PgUncommented(s) /\ ~(PgEnd(s) = "code" /\ l \in {"--", "/*", "$$"})
      BY <1>3, <1>7 DEF PgPlain, PgUncommented
    <2>2. /\ rewrites = PgEnd(s) /\ replaces = PgEnd(s)
          /\ PgEnd(s) = IF strips = "cast" THEN "code" ELSE strips
          /\ ~PgSQL!TwoWordsBehindCast(s) => (strips = "cast" <=> PgCastEnds(s))
      BY <2>1 DEF PgStand
    <2>3. PICK x \in PgSQL!Lexeme \cup {"?"} : x = PgSQL!Rewrite(l)
      BY PgRewritten
    <2>4. x = IF PgEnd(s) = "code" /\ l \in {"$1", "$2"} THEN "?" ELSE l
      BY <2>2, <2>3, PgRewritten
    <2>5. PgEnd(s) \in PgKnown
      BY <2>2 DEF PgTypes
    <2>6. x # l => PgEnd(s) = "code" /\ x = "?" /\ PgMove(PgEnd(s), l) = "code"
      BY <2>4 DEF PgMove
    <2>7. PgSQL!Region(PgEnd(s), x, PgSQL!Quotes) = PgEnd(t)
      <3>1. CASE x = l
        BY <1>2, <2>1, <2>5, <3>1, PgRegionMoves
      <3>2. CASE x # l
        BY <1>2, <2>6, <3>2 DEF PgSQL!Region, PgSQL!Quotes
      <3>3. QED
        BY <3>1, <3>2
    <2>8. PgDrops(x) => PgEnd(s) = "code" /\ x = l /\ PgEnd(t) = "code"
      <3>1. SUFFICES ASSUME PgDrops(x) PROVE PgEnd(s) = "code" /\ x = l /\ PgEnd(t) = "code"
        OBVIOUS
      <3>2. PgEnd(s) = "code" /\ x \in {"::", "word", "SERIAL"}
        BY <3>1, <2>2 DEF PgDrops, PgSQL!Words
      <3>3. x = l
        BY <2>6, <3>2
      <3>4. QED
        BY <3>2, <3>3, <1>2 DEF PgMove
    <2>9. PICK q : q = PgSQL!Strip(x)
      OBVIOUS
    <2>10. (PgDrops(x) => q = <<>>) /\ (~PgDrops(x) => q # <<>> /\ q[1] = x)
      <3>1. q = IF PgDrops(x) THEN <<>> ELSE <<x>>
        BY <2>9, PgStrips
      <3>2. <<x>> # <<>> /\ <<x>>[1] = x
        OBVIOUS
      <3>3. QED
        BY <3>1, <3>2, Zenon
    <2>11. replaces' = PgEnd(t)
      BY <1>1, <2>2, <2>3, <2>7, <2>8, <2>9, <2>10
    <2>12. strips' = IF PgDrops(x) THEN "cast" ELSE PgEnd(t)
      <3>1. strips' = PgSQL!StripRegion(x)
        BY <1>1, <2>3
      <3>2. PgSQL!StripRegion(x) = IF PgDrops(x) THEN "cast"
                                   ELSE PgSQL!Region(IF strips = "cast" THEN "code" ELSE strips, x, PgSQL!Quotes)
        BY DEF PgSQL!StripRegion, PgDrops
      <3>3. QED
        BY <3>1, <3>2, <2>2, <2>7
    <2>13. PgEnd(t) # "cast"
      BY <1>2, <2>5 DEF PgMove, PgKnown
    <2>14. PgEnd(t) = IF strips' = "cast" THEN "code" ELSE strips'
      BY <2>8, <2>12, <2>13
    <2>15. ASSUME ~PgSQL!TwoWordsBehindCast(t) PROVE strips' = "cast" <=> PgCastEnds(t)
      <3>1. ~PgSQL!TwoWordsBehindCast(s)
        BY <2>15, PgCastGrows
      <3>2. strips = "cast" <=> PgCastEnds(s)
        BY <2>2, <3>1
      <3>3. PgCastEnds(t) <=> \/ PgEnd(s) = "code" /\ l = "::"
                              \/ PgSQL!IsCast(s, Len(s)) /\ l \in PgSQL!Words
        BY PgCastGrows
      <3>4. PgCastEnds(s) /\ l \in PgSQL!Words => PgSQL!IsCast(s, Len(s))
        BY <2>15, PgCastGrows
      <3>5. PgSQL!IsCast(s, Len(s)) => PgCastEnds(s)
        BY DEF PgCastEnds
      <3>6. PgDrops(x) <=> PgDrops(l)
        <4>1. x # l => x = "?" /\ l \in {"$1", "$2"}
          BY <2>4
        <4>2. QED
          BY <4>1 DEF PgDrops, PgSQL!Words
      <3>7. PgDrops(l) <=> PgCastEnds(t)
        BY <2>2, <3>2, <3>3, <3>4, <3>5 DEF PgDrops
      <3>8. QED
        BY <2>12, <2>13, <3>6, <3>7
    <2>16. QED
      BY <2>11, <2>14, <2>15
  <1>8. QED
    BY <1>4, <1>6, <1>7 DEF PgStand

(* One lexeme more of a command: its output and its order stay right. *)
LEMMA PgRightOn ==
  ASSUME PgTypes, NEW l \in PgSQL!Lexeme,
         NEW c \in PgCommand, PgStand(c.in), PgRight(c),
         NEW q, q = PgSQL!Strip(PgSQL!Rewrite(l)),
         NEW m, m = [i \in 1..Len(q) |-> PgSQL!Replace(q[i])],
         NEW d, d = [in |-> Append(c.in, l), out |-> c.out \o m, order |-> c.order \o PgSQL!Param(l)]
  PROVE  d \in PgCommand /\ PgRight(d)
  <1>1. PICK s \in Seq(PgSQL!Lexeme) : s = c.in
    BY DEF PgCommand
  <1>2. PICK t : t = Append(s, l)
    OBVIOUS
  <1>3. /\ t \in Seq(PgSQL!Lexeme) /\ Len(s) \in Nat /\ Len(t) = Len(s) + 1 /\ t[Len(t)] = l
    BY <1>2, AppendIs
  <1>4. PICK x \in PgSQL!Lexeme \cup {"?"} : x = PgSQL!Rewrite(l)
    BY PgRewritten
  <1>5. /\ m \in Seq(PgOut)
        /\ PgDrops(x) => m = <<>>
        /\ ~PgDrops(x) => m = <<PgSQL!Replace(x)>>
    BY <1>4, PgStripped
  <1>6. PICK p \in Seq({1, 2}) : p = PgSQL!Param(l)
    BY PgRewritten
  <1>7. d.in = t /\ d.out = c.out \o m /\ d.order = c.order \o p
    BY <1>1, <1>2, <1>6
  <1>8. d \in PgCommand
    <2>1. c.out \o m \in Seq(PgOut) /\ c.order \o p \in Seq({1, 2})
      <3>1. c.out \in Seq(PgOut) /\ c.order \in Seq({1, 2})
        BY DEF PgCommand
      <3>2. QED
        BY <1>5, <1>6, <3>1
    <2>2. QED
      BY <1>1, <1>2, <1>3, <1>6, <2>1 DEF PgCommand
  <1>9. \A y : PgSQL!Opens(t, y) <=> PgSQL!Opens(s, y) \/ (PgEnd(s) = "code" /\ y = l)
    BY <1>2, PgOpensGrows
  <1>10. (PgUncommented(t) => PgUncommented(s)) /\ (PgPlain(t) => PgPlain(s) /\ PgUncommented(s))
    BY <1>9 DEF PgPlain, PgUncommented
  <1>11. PgSQL!InCode(t, Len(t)) <=> PgEnd(s) = "code"
    BY <1>2, PgInCode
  <1>12. ASSUME PgUncommented(t) PROVE d.order = PgOrder(t)
    <2>1. c.order = PgOrder(s) /\ rewrites = PgEnd(s)
      BY <1>1, <1>10, <1>12 DEF PgRight, PgStand
    <2>2. p = PgSQL!Binds(t, Len(t))
      BY <1>3, <1>6, <1>11, <2>1, PgRewritten DEF PgSQL!Binds
    <2>3. QED
      BY <1>2, <1>7, <2>1, <2>2, PgOrderGrows
  <1>13. ASSUME PgPlain(t), ~PgSQL!TwoWordsBehindCast(t) PROVE d.out = PgOutput(t)
    <2>1. PgPlain(s) /\ PgUncommented(s)
      BY <1>10, <1>13
    <2>2. ~PgSQL!TwoWordsBehindCast(s)
      BY <1>2, <1>13, PgCastGrows
    <2>3. /\ c.out = PgOutput(s) /\ rewrites = PgEnd(s) /\ replaces = PgEnd(s)
          /\ PgEnd(s) = IF strips = "cast" THEN "code" ELSE strips
          /\ strips = "cast" <=> PgCastEnds(s)
      BY <1>1, <2>1, <2>2 DEF PgRight, PgStand
    <2>4. /\ PgCastEnds(s) /\ l \in PgSQL!Words => PgSQL!IsCast(s, Len(s))
          /\ PgSQL!IsCast(t, Len(t) - 1) <=> PgSQL!IsCast(s, Len(s))
      BY <1>2, <1>13, PgCastGrows
    <2>5. PgSQL!IsCast(s, Len(s)) => PgCastEnds(s)
      BY DEF PgCastEnds
    <2>6. x = IF PgEnd(s) = "code" /\ l \in {"$1", "$2"} THEN "?" ELSE l
      BY <1>4, <2>3, PgRewritten
    <2>7. PgDrops(x) <=> PgEnd(s) = "code" /\ (l = "::" \/ (l \in PgSQL!Words /\ PgSQL!IsCast(s, Len(s))))
      <3>1. x # l => x = "?" /\ l \in {"$1", "$2"}
        BY <2>6
      <3>2. PgDrops(x) <=> PgDrops(l)
        BY <3>1 DEF PgDrops, PgSQL!Words
      <3>3. PgEnd(s) = "code" <=> strips \in {"code", "cast"}
        BY <2>3
      <3>4. QED
        BY <2>3, <2>4, <2>5, <3>2, <3>3 DEF PgDrops
    <2>8. m = PgSQL!Wanted(t, Len(t))
      <3>1. CASE PgDrops(x)
        <4>1. PgSQL!Wanted(t, Len(t)) = <<>>
          BY <1>3, <1>11, <2>4, <2>7, <3>1, Zenon DEF PgSQL!Wanted
        <4>2. QED
          BY <1>5, <3>1, <4>1
      <3>2. CASE ~PgDrops(x)
        <4>1. CASE PgEnd(s) # "code"
          <5>1. x = l /\ PgSQL!Replace(x) = l
            BY <2>3, <2>6, <4>1 DEF PgSQL!Replace
          <5>2. PgSQL!Wanted(t, Len(t)) = <<l>>
            BY <1>3, <1>11, <4>1, Zenon DEF PgSQL!Wanted
          <5>3. QED
            BY <1>5, <3>2, <5>1, <5>2
        <4>2. CASE PgEnd(s) = "code"
          <5>1. ~(t[Len(t)] = "::" \/ (t[Len(t)] \in PgSQL!Words /\ PgSQL!IsCast(t, Len(t) - 1)))
            BY <1>3, <2>4, <2>7, <3>2, <4>2
          <5>2. PgSQL!Replace(x) = IF l \in {"$1", "$2"} THEN "?"
                                   ELSE IF l = "SERIAL" THEN "AUTOINCREMENT" ELSE l
            BY <2>3, <2>6, <4>2 DEF PgSQL!Replace
          <5>3. PgSQL!Wanted(t, Len(t)) = IF l \in {"$1", "$2"} THEN <<"?">>
                                          ELSE IF l = "SERIAL" THEN <<"AUTOINCREMENT">> ELSE <<l>>
            BY <1>3, <1>11, <4>2, <5>1, Zenon DEF PgSQL!Wanted
          <5>4. QED
            BY <1>5, <3>2, <5>2, <5>3
        <4>3. QED
          BY <4>1, <4>2
      <3>3. QED
        BY <3>1, <3>2
    <2>9. QED
      BY <1>2, <1>7, <2>3, <2>8, PgOutputGrows
  <1>14. QED
    BY <1>7, <1>8, <1>12, <1>13 DEF PgRight

(* The semicolons where Postgres would cut (SplitsCode). *)
LEMMA PgCutsGrow ==
  ASSUME NEW s \in Seq(PgSQL!Lexeme), NEW l \in PgSQL!Lexeme, NEW t, t = Append(s, l)
  PROVE  /\ PgSQL!Cardinality(PgSQL!Cuts(s)) \in Nat
         /\ PgEnd(s) = "code" /\ l = ";" =>
               PgSQL!Cardinality(PgSQL!Cuts(t)) = PgSQL!Cardinality(PgSQL!Cuts(s)) + 1
         /\ ~(PgEnd(s) = "code" /\ l = ";") =>
               PgSQL!Cardinality(PgSQL!Cuts(t)) = PgSQL!Cardinality(PgSQL!Cuts(s))
  <1>1. /\ Len(s) \in Nat /\ Len(t) = Len(s) + 1 /\ t[Len(t)] = l
        /\ \A i \in 1..Len(s) : t[i] = s[i]
    BY AppendIs
  <1>2. \A S : PgSQL!Cardinality(S) = Cardinality(S)
    BY DEF PgSQL!Cardinality, Cardinality
  <1>3. /\ \A i \in 1..Len(s) : PgSQL!InCode(t, i) <=> PgSQL!InCode(s, i)
        /\ PgSQL!InCode(t, Len(t)) <=> PgEnd(s) = "code"
    BY PgInCode
  <1>4. \A i : i \in 1..Len(t) <=> i = Len(t) \/ i \in 1..Len(s)
    BY <1>1
  <1>5. PgSQL!Cuts(t) = IF PgEnd(s) = "code" /\ l = ";" THEN PgSQL!Cuts(s) \cup {Len(t)} ELSE PgSQL!Cuts(s)
    BY <1>1, <1>3, <1>4 DEF PgSQL!Cuts
  <1>6. IsFiniteSet(PgSQL!Cuts(s)) /\ Len(t) \notin PgSQL!Cuts(s)
    <2>1. IsFiniteSet(1..Len(s))
      BY <1>1, FS_Interval
    <2>2. PgSQL!Cuts(s) \subseteq 1..Len(s)
      BY DEF PgSQL!Cuts
    <2>3. IsFiniteSet(PgSQL!Cuts(s))
      BY <2>1, <2>2, FS_Subset
    <2>4. QED
      BY <1>1, <2>2, <2>3
  <1>7. Cardinality(PgSQL!Cuts(s)) \in Nat /\ Cardinality(PgSQL!Cuts(s) \cup {Len(t)}) = Cardinality(PgSQL!Cuts(s)) + 1
    BY <1>6, FS_CardinalityType, FS_AddElement
  <1>8. CASE PgEnd(s) = "code" /\ l = ";"
    <2>1. PgSQL!Cuts(t) = PgSQL!Cuts(s) \cup {Len(t)}
      BY <1>5, <1>8
    <2>2. QED
      BY <1>2, <1>7, <1>8, <2>1
  <1>9. CASE ~(PgEnd(s) = "code" /\ l = ";")
    <2>1. PgSQL!Cuts(t) = PgSQL!Cuts(s)
      BY <1>5, <1>9
    <2>2. QED
      BY <1>2, <1>7, <1>9, <2>1
  <1>10. QED
    BY <1>8, <1>9

LEMMA PgCutsEmpty == PgSQL!Cardinality(PgSQL!Cuts(<<>>)) = 0
  <1>1. PgSQL!Cuts(<<>>) = {}
    BY DEF PgSQL!Cuts
  <1>2. \A S : PgSQL!Cardinality(S) = Cardinality(S)
    BY DEF PgSQL!Cardinality, Cardinality
  <1>3. QED
    BY <1>1, <1>2, FS_EmptySet

LEMMA PgNewCommand ==
  /\ PgSQL!NoCommand \in PgCommand /\ PgSQL!NoCommand.in = <<>>
  /\ PgRight(PgSQL!NoCommand)
  <1>1. PgSQL!NoCommand.in = <<>> /\ PgSQL!NoCommand.out = <<>> /\ PgSQL!NoCommand.order = <<>>
    BY DEF PgSQL!NoCommand
  <1>2. PgSQL!NoCommand \in PgCommand
    BY DEF PgSQL!NoCommand, PgCommand
  <1>3. QED
    BY <1>1, <1>2, PgNothing DEF PgRight

(* All passes start in code, and no cast is behind them. *)
LEMMA PgFreshStand ==
  ASSUME splits = "code", rewrites = "code", strips = "code", replaces = "code"
  PROVE  PgStand(<<>>)
  <1>1. ~PgCastEnds(<<>>)
    BY DEF PgCastEnds, PgSQL!IsCast
  <1>2. QED
    BY <1>1, PgEmpty DEF PgStand

LEMMA PgInitIInv ==
  ASSUME PgSQL!Init
  PROVE  PgIInv
  <1>1. /\ pgInput = <<>> /\ commands = <<PgSQL!NoCommand>>
        /\ splits = "code" /\ rewrites = "code" /\ strips = "code" /\ replaces = "code"
    BY DEF PgSQL!Init
  <1>2. Len(commands) = 1 /\ commands[1] = PgSQL!NoCommand /\ commands \in Seq(PgCommand)
    BY <1>1, PgNewCommand
  <1>3. PgTypes
    BY <1>1, <1>2 DEF PgTypes, PgKnown
  <1>4. PgStand(commands[Len(commands)].in)
    BY <1>1, <1>2, PgNewCommand, PgFreshStand
  <1>5. \A k \in 1..Len(commands) : PgRight(commands[k])
    BY <1>2, PgNewCommand
  <1>6. PgSQL!SplitsCode
    BY <1>1, <1>2, PgCutsEmpty DEF PgSQL!SplitsCode
  <1>7. QED
    BY <1>1, <1>3, <1>4, <1>5, <1>6, PgEmpty DEF PgIInv

LEMMA PgTranslateStep ==
  ASSUME PgIInv, NEW l \in PgSQL!Lexeme, pgInput' = Append(pgInput, l),
         ~PgSQL!Splits(l), PgSQL!Translate(l)
  PROVE  PgIInv'
  <1> USE DEF PgIInv
  <1>1. PICK n \in Nat : n = Len(commands)
    BY DEF PgTypes
  <1>2. n \in 1..n /\ commands \in Seq(PgCommand) /\ DOMAIN commands = 1..n
    BY <1>1 DEF PgTypes
  <1>3. PICK c \in PgCommand : c = commands[n]
    BY <1>1, <1>2
  <1>4. PICK q : q = PgSQL!Strip(PgSQL!Rewrite(l))
    OBVIOUS
  <1>5. PICK m : m = [i \in 1..Len(q) |-> PgSQL!Replace(q[i])]
    OBVIOUS
  <1>6. PICK d : d = [in |-> Append(c.in, l), out |-> c.out \o m, order |-> c.order \o PgSQL!Param(l)]
    OBVIOUS
  <1>7. commands' = [commands EXCEPT ![n] = d]
    BY <1>1, <1>3, <1>4, <1>5, <1>6 DEF PgSQL!Translate
  <1>8. PgTypes /\ PgStand(c.in) /\ PgRight(c)
    BY <1>1, <1>2, <1>3
  <1>9. d \in PgCommand /\ PgRight(d)
    BY <1>4, <1>5, <1>6, <1>8, PgRightOn
  <1>10. /\ commands' \in Seq(PgCommand) /\ Len(commands') = n /\ commands'[n] = d
         /\ \A k \in 1..n : k # n => commands'[k] = commands[k]
    BY <1>1, <1>2, <1>7, <1>9
  <1>11. c.in \in Seq(PgSQL!Lexeme)
    BY DEF PgCommand
  <1>12. PgStand(d.in)'
    <2>1. PICK t : t = Append(c.in, l)
      OBVIOUS
    <2>2. PgStand(t)'
      BY <1>8, <1>11, <2>1, PgStandsOn
    <2>3. d.in = t
      BY <1>6, <2>1
    <2>4. QED
      BY <2>2, <2>3
  <1>13. PgStand(commands[Len(commands)].in)'
    BY <1>10, <1>12
  <1>14. \A k \in 1..Len(commands') : PgRight(commands'[k])
    BY <1>1, <1>9, <1>10
  <1>15. PICK s \in Seq(PgSQL!Lexeme) : s = pgInput
    BY DEF PgTypes
  <1>16. PICK t \in Seq(PgSQL!Lexeme) : t = Append(s, l)
    BY AppendIs
  <1>17. PgEnd(s) \in PgRegions /\ PgEnd(t) = PgMove(PgEnd(s), l)
    BY <1>16, PgReadsOn
  <1>18. ASSUME ~PgSQL!Opens(t, "/*")
         PROVE  splits = PgEnd(s) /\ splits' = PgEnd(t) /\ ~PgSQL!Opens(s, "/*")
    <2>1. ~PgSQL!Opens(s, "/*") /\ ~(PgEnd(s) = "code" /\ l = "/*")
      BY <1>16, <1>18, PgOpensGrows
    <2>2. splits = PgEnd(s)
      BY <1>15, <2>1
    <2>3. PgEnd(s) # "/*"
      BY <2>2 DEF PgTypes, PgKnown
    <2>4. splits' = PgMove(PgEnd(s), l)
      BY <1>17, <2>1, <2>2, <2>3, PgRegionMoves DEF PgSQL!Translate
    <2>5. QED
      BY <1>17, <2>1, <2>2, <2>4
  <1>19. PgTypes'
    <2>1. PICK x \in PgSQL!Lexeme \cup {"?"} : x = PgSQL!Rewrite(l)
      BY <1>8, PgRewritten
    <2>2. \A r \in PgKnown : PgSQL!Region(r, x, PgSQL!Quotes) \in PgKnown
      <3>1. CASE x \in PgSQL!Lexeme
        BY <3>1, PgRegionMoves DEF PgRegions, PgKnown
      <3>2. CASE x = "?"
        BY <3>2 DEF PgSQL!Region, PgSQL!Quotes, PgKnown
      <3>3. QED
        BY <3>1, <3>2
    <2>3. q = IF PgDrops(x) THEN <<>> ELSE <<x>>
      BY <1>4, <2>1, PgStrips
    <2>4. q = <<>> \/ q[1] = x
      BY <2>3
    <2>5. replaces' = (IF q = <<>> THEN replaces ELSE PgSQL!Region(replaces, q[1], PgSQL!Quotes))
      BY <1>4 DEF PgSQL!Translate
    <2>6. replaces' \in PgKnown
      <3>1. replaces \in PgKnown
        BY DEF PgTypes
      <3>2. QED
        BY <2>2, <2>4, <2>5, <3>1, Zenon
    <2>7. strips' \in PgKnown \cup {"cast"}
      <3>1. strips' = PgSQL!StripRegion(x)
        BY <2>1 DEF PgSQL!Translate
      <3>2. (IF strips = "cast" THEN "code" ELSE strips) \in PgKnown
        BY DEF PgTypes, PgKnown
      <3>3. QED
        BY <2>2, <3>1, <3>2 DEF PgSQL!StripRegion
    <2>8. /\ rewrites' \in PgKnown \cup {"$$"}
          /\ splits' \in PgKnown \cup {"$$", "--"}
      <3>1. rewrites \in PgRegions /\ splits \in PgRegions /\ splits # "/*"
        BY DEF PgTypes, PgKnown, PgRegions
      <3>2. QED
        BY <3>1, PgRegionMoves DEF PgTypes, PgSQL!Translate
    <2>9. QED
      BY <1>2, <1>10, <1>15, <1>16, <2>6, <2>7, <2>8 DEF PgTypes
  <1>20. ASSUME ~PgSQL!Opens(t, "/*") PROVE Len(commands') = 1 + PgSQL!Cardinality(PgSQL!Cuts(t))
    <2>0. splits = PgEnd(s) /\ ~PgSQL!Opens(s, "/*")
      BY <1>18, <1>20
    <2>1. ~(PgEnd(s) = "code" /\ l = ";")
      BY <2>0 DEF PgSQL!Splits
    <2>2. PgSQL!Cardinality(PgSQL!Cuts(t)) = PgSQL!Cardinality(PgSQL!Cuts(s))
      BY <1>16, <2>1, PgCutsGrow
    <2>3. n = 1 + PgSQL!Cardinality(PgSQL!Cuts(s))
      BY <1>1, <1>15, <2>0 DEF PgSQL!SplitsCode
    <2>4. QED
      BY <1>10, <2>2, <2>3
  <1>21. pgInput' = t
    BY <1>15, <1>16
  <1>22. PgSQL!SplitsCode'
    BY <1>20, <1>21 DEF PgSQL!SplitsCode
  <1>23. QED
    BY <1>13, <1>14, <1>18, <1>19, <1>21, <1>22

LEMMA PgFlushStep ==
  ASSUME PgIInv, NEW l \in PgSQL!Lexeme, pgInput' = Append(pgInput, l),
         PgSQL!Splits(l), PgSQL!Flush
  PROVE  PgIInv'
  <1> USE DEF PgIInv
  <1>1. PICK n \in Nat : n = Len(commands)
    BY DEF PgTypes
  <1>2. /\ commands' = Append(commands, PgSQL!NoCommand)
        /\ splits' = "code" /\ rewrites' = "code" /\ strips' = "code" /\ replaces' = "code"
    BY DEF PgSQL!Flush
  <1>3. /\ commands' \in Seq(PgCommand) /\ Len(commands') = n + 1 /\ commands'[n + 1] = PgSQL!NoCommand
        /\ \A k \in 1..n : commands'[k] = commands[k]
    BY <1>1, <1>2, PgNewCommand DEF PgTypes
  <1>4. PgStand(<<>>)'
    <2>1. ~PgCastEnds(<<>>)
      BY DEF PgCastEnds, PgSQL!IsCast
    <2>2. QED
      BY <1>2, <2>1, PgEmpty DEF PgStand
  <1>5. PgStand(commands[Len(commands)].in)'
    BY <1>3, <1>4, PgNewCommand
  <1>6. \A k \in 1..Len(commands') : PgRight(commands'[k])
    BY <1>1, <1>3, PgNewCommand
  <1>7. PICK s \in Seq(PgSQL!Lexeme) : s = pgInput
    BY DEF PgTypes
  <1>8. PICK t \in Seq(PgSQL!Lexeme) : t = Append(s, l)
    BY AppendIs
  <1>9. ASSUME ~PgSQL!Opens(t, "/*")
        PROVE  ~PgSQL!Opens(s, "/*") /\ PgEnd(s) = "code" /\ l = ";"
    <2>1. ~PgSQL!Opens(s, "/*")
      BY <1>8, <1>9, PgOpensGrows
    <2>2. splits = PgEnd(s)
      BY <1>7, <2>1
    <2>3. QED
      BY <2>1, <2>2 DEF PgSQL!Splits
  <1>10. ASSUME ~PgSQL!Opens(t, "/*") PROVE PgEnd(t) = "code"
    <2>1. PgEnd(t) = PgMove(PgEnd(s), l)
      BY <1>8, PgReadsOn
    <2>2. PgMove("code", ";") = "code"
      BY DEF PgMove
    <2>3. QED
      BY <1>9, <1>10, <2>1, <2>2
  <1>11. PgTypes'
    <2>1. "code" \in PgKnown
      BY DEF PgKnown
    <2>2. pgInput' \in Seq(PgSQL!Lexeme) /\ Len(commands') # 0
      BY <1>1, <1>3, <1>7, <1>8
    <2>3. QED
      BY <1>2, <1>3, <2>1, <2>2 DEF PgTypes
  <1>12. ASSUME ~PgSQL!Opens(t, "/*") PROVE Len(commands') = 1 + PgSQL!Cardinality(PgSQL!Cuts(t))
    <2>1. PgSQL!Cardinality(PgSQL!Cuts(t)) = PgSQL!Cardinality(PgSQL!Cuts(s)) + 1 /\ PgSQL!Cardinality(PgSQL!Cuts(s)) \in Nat
      BY <1>8, <1>9, <1>12, PgCutsGrow
    <2>2. n = 1 + PgSQL!Cardinality(PgSQL!Cuts(s))
      BY <1>1, <1>7, <1>9, <1>12 DEF PgSQL!SplitsCode
    <2>3. QED
      BY <1>3, <2>1, <2>2
  <1>13. pgInput' = t
    BY <1>7, <1>8
  <1>14. PgSQL!SplitsCode'
    BY <1>12, <1>13 DEF PgSQL!SplitsCode
  <1>15. QED
    BY <1>2, <1>5, <1>6, <1>10, <1>11, <1>13, <1>14

-----------------------------------------------------------------------------
(* MySQL text.  The input and the output are texts over one alphabet.        *)
MyOut == MySQL!Lexeme \cup {"AUTOINCREMENT", "INTEGER"}

MyRegions == {"code", "'", "backtick", "--"}

MyMove(r, l) ==
    CASE r = "code" /\ l \in MySQL!Opens -> l
      [] r = "code" /\ l = "escaped" -> "'"
      [] r # "code" /\ l = MySQL!Closer(r) -> "code"
      [] OTHER -> r

MyAfter == [p \in MyRegions \X MyOut |-> MyMove(p[1], p[2])]

LEMMA MyAfterIs ==
  /\ MyAfter \in [MyRegions \X MyOut -> MyRegions]
  /\ \A r \in MyRegions, l \in MyOut : MyAfter[<<r, l>>] = MyMove(r, l)
  /\ "code" \in MyRegions
  <1>1. \A r \in MyRegions, l \in MyOut : MyMove(r, l) \in MyRegions
    BY DEF MyMove, MyRegions, MySQL!Opens
  <1>2. QED
    BY <1>1 DEF MyAfter, MyRegions

LEMMA MyOpened ==
  ASSUME NEW s \in Seq(MyOut)
  PROVE  /\ MySQL!Opened(s) \in [0..Len(s) -> MyRegions]
         /\ Scan(MySQL!Opened(s), s, Len(s), "code", MyAfter)
  <1> DEFINE F(f) == [i \in 0..Len(s) |->
                        IF i = 0 THEN "code"
                        ELSE MyMove(f[i - 1], s[i])]
             h == CHOOSE f : f = F(f)
  <1>1. Len(s) \in Nat /\ \A i \in 1..Len(s) : s[i] \in MyOut
    OBVIOUS
  <1>2. PICK g \in [0..Len(s) -> MyRegions] : Scan(g, s, Len(s), "code", MyAfter)
    BY <1>1, MyAfterIs, ScanExists, Zenon
  <1>3. ASSUME NEW f, NEW i \in 1..Len(s)
        PROVE  F(f)[i] = MyMove(f[i - 1], s[i])
    BY <1>1
  <1>4. \A f : F(f)[0] = "code" /\ F(f) = [i \in 0..Len(s) |-> F(f)[i]]
    BY <1>1
  <1> HIDE DEF F
  <1>5. g = F(g)
    <2>1. \A i \in 0..Len(s) : g[i] = F(g)[i]
      <3>1. g[0] = F(g)[0]
        BY <1>1, <1>2, <1>4 DEF Scan
      <3>2. ASSUME NEW i \in 1..Len(s) PROVE g[i] = F(g)[i]
        <4>1. i - 1 \in 0..Len(s)
          BY <1>1
        <4>2. g[i - 1] \in MyRegions
          BY <4>1
        <4>3. g[i] = MyAfter[<<g[i - 1], s[i]>>]
          BY <1>2 DEF Scan
        <4>4. QED
          BY <4>2, <4>3, <1>1, <1>3, MyAfterIs
      <3>3. QED
        BY <1>1, <3>1, <3>2
    <2>2. g = [i \in 0..Len(s) |-> g[i]]
      OBVIOUS
    <2>3. QED
      BY <1>4, <2>1, <2>2
  <1>6. h = F(h)
    BY <1>5
  <1> HIDE DEF h
  <1>7. h[0] = "code" /\ h = [i \in 0..Len(s) |-> h[i]]
    BY <1>4, <1>6
  <1>8. \A i \in 1..Len(s) : h[i - 1] \in MyRegions => h[i] = MyAfter[<<h[i - 1], s[i]>>]
    <2>1. \A i \in 1..Len(s) : h[i] = F(h)[i]
      BY <1>6
    <2>2. QED
      BY <2>1, <1>1, <1>3, MyAfterIs
  <1>9. h \in [0..Len(s) -> MyRegions] /\ Scan(h, s, Len(s), "code", MyAfter)
    BY <1>1, <1>7, <1>8, MyAfterIs, ScanIs, Zenon
  <1>10. MySQL!Opened(s) = h
    BY DEF MySQL!Opened, h, F, MyMove
  <1>11. QED
    BY <1>9, <1>10

(* Where the reading of a text ends. *)
MyEnd(s) == MySQL!Opened(s)[Len(s)]

LEMMA MyReadsOn ==
  ASSUME NEW s \in Seq(MyOut), NEW l \in MyOut, NEW t, t = Append(s, l)
  PROVE  /\ MyEnd(s) \in MyRegions
         /\ MyEnd(t) = MyMove(MyEnd(s), l)
         /\ \A i \in 0..Len(s) : MySQL!Opened(t)[i] = MySQL!Opened(s)[i]
  <1>1. /\ t \in Seq(MyOut) /\ Len(s) \in Nat /\ Len(t) = Len(s) + 1 /\ t[Len(t)] = l
        /\ \A i \in 1..Len(s) : t[i] = s[i]
    BY AppendIs
  <1>2. PICK f : f = MySQL!Opened(s)
    OBVIOUS
  <1>3. PICK g : g = MySQL!Opened(t)
    OBVIOUS
  <1>4. f \in [0..Len(s) -> MyRegions] /\ Scan(f, s, Len(s), "code", MyAfter)
    BY <1>2, MyOpened
  <1>5. g \in [0..Len(t) -> MyRegions] /\ Scan(g, t, Len(t), "code", MyAfter)
    BY <1>1, <1>3, MyOpened
  <1>6. Scan(g, t, Len(s), "code", MyAfter)
    <2>1. \A i \in 1..Len(s) : i \in 1..Len(t)
      BY <1>1
    <2>2. QED
      BY <1>5, <2>1 DEF Scan
  <1>7. Alike(f, s, g, t, Len(s), "code", MyAfter)
    BY <1>1, <1>4, <1>6 DEF Alike
  <1>8. Equal(f, g, Len(s))
    BY <1>1, <1>7, ScanAgrees, Zenon
  <1>9. Len(s) \in 0..Len(s) /\ Len(t) \in 1..Len(t) /\ Len(t) - 1 = Len(s)
    BY <1>1
  <1>10. f[Len(s)] \in MyRegions /\ g[Len(s)] = f[Len(s)]
    BY <1>4, <1>8, <1>9 DEF Equal
  <1>11. g[Len(t)] = MyAfter[<<g[Len(t) - 1], t[Len(t)]>>]
    BY <1>5, <1>9 DEF Scan
  <1>12. g[Len(t)] = MyAfter[<<f[Len(s)], l>>]
    BY <1>1, <1>9, <1>10, <1>11
  <1>13. MyAfter[<<f[Len(s)], l>>] = MyMove(f[Len(s)], l)
    BY <1>10, MyAfterIs
  <1>14. QED
    BY <1>2, <1>3, <1>8, <1>10, <1>12, <1>13 DEF MyEnd, Equal

LEMMA MyEmpty == MyEnd(<<>>) = "code"
  <1>1. <<>> \in Seq(MyOut) /\ Len(<<>>) = 0
    OBVIOUS
  <1>2. QED
    BY <1>1, MyOpened DEF MyEnd, Scan

LEMMA MyCode ==
  ASSUME NEW s \in Seq(MyOut), NEW l \in MyOut, NEW t, t = Append(s, l)
  PROVE  /\ Len(s) \in Nat /\ Len(t) = Len(s) + 1 /\ t[Len(t)] = l
         /\ \A i \in 1..Len(s) : t[i] = s[i] /\ s[i] \in MyOut
         /\ MySQL!Code(s) \subseteq 1..Len(s)
         /\ MyEnd(s) = "code" => MySQL!Code(t) = MySQL!Code(s) \cup {Len(t)}
         /\ MyEnd(s) # "code" => MySQL!Code(t) = MySQL!Code(s)
  <1>1. /\ t \in Seq(MyOut) /\ Len(s) \in Nat /\ Len(t) = Len(s) + 1 /\ t[Len(t)] = l
        /\ \A i \in 1..Len(s) : t[i] = s[i] /\ s[i] \in MyOut
    BY AppendIs
  <1>2. \A i : i \in 1..Len(t) <=> i = Len(t) \/ i \in 1..Len(s)
    BY <1>1
  <1>3. \A i \in 1..Len(s) : MySQL!Opened(t)[i - 1] = MySQL!Opened(s)[i - 1]
    <2>1. \A i \in 1..Len(s) : i - 1 \in 0..Len(s)
      BY <1>1
    <2>2. QED
      BY <2>1, MyReadsOn
  <1>4. MySQL!Opened(t)[Len(t) - 1] = MyEnd(s)
    <2>1. Len(t) - 1 = Len(s) /\ Len(s) \in 0..Len(s)
      BY <1>1
    <2>2. MySQL!Opened(t)[Len(s)] = MySQL!Opened(s)[Len(s)]
      BY <2>1, MyReadsOn
    <2>3. QED
      BY <2>1, <2>2 DEF MyEnd
  <1>5. MySQL!Code(s) \subseteq 1..Len(s)
    BY DEF MySQL!Code
  <1>6. MySQL!Code(t) = IF MyEnd(s) = "code" THEN MySQL!Code(s) \cup {Len(t)} ELSE MySQL!Code(s)
    BY <1>2, <1>3, <1>4 DEF MySQL!Code
  <1>7. QED
    BY <1>1, <1>5, <1>6

(* One lexeme more. *)
MyGrows(s, l, t) == s \in Seq(MyOut) /\ l \in MyOut /\ t = Append(s, l)

LEMMA MyGrowsIs ==
  ASSUME NEW s, NEW l, NEW t, MyGrows(s, l, t)
  PROVE  /\ s \in Seq(MyOut) /\ t \in Seq(MyOut)
         /\ Len(s) \in Nat /\ Len(t) = Len(s) + 1 /\ t[Len(t)] = l
         /\ \A i \in 1..Len(s) : t[i] = s[i]
         /\ MyEnd(s) \in MyRegions /\ MyEnd(t) = MyMove(MyEnd(s), l)
  <1>1. s \in Seq(MyOut) /\ l \in MyOut /\ t = Append(s, l)
    BY DEF MyGrows
  <1>2. /\ t \in Seq(MyOut) /\ Len(s) \in Nat /\ Len(t) = Len(s) + 1 /\ t[Len(t)] = l
        /\ \A i \in 1..Len(s) : t[i] = s[i]
    BY <1>1, AppendIs
  <1>3. MyEnd(s) \in MyRegions /\ MyEnd(t) = MyMove(MyEnd(s), l)
    BY <1>1, MyReadsOn
  <1>4. QED
    BY <1>1, <1>2, <1>3

(* Where a lexeme stands in code, with one lexeme more. *)
LEMMA MyAt ==
  ASSUME NEW s, NEW l, NEW t, MyGrows(s, l, t)
  PROVE  \A x : /\ MySQL!At(s, x) \subseteq 1..Len(s)
                /\ MyEnd(s) = "code" /\ l = x => MySQL!At(t, x) = MySQL!At(s, x) \cup {Len(t)}
                /\ ~(MyEnd(s) = "code" /\ l = x) => MySQL!At(t, x) = MySQL!At(s, x)
  <1>9. s \in Seq(MyOut) /\ l \in MyOut /\ t = Append(s, l)
    BY DEF MyGrows
  <1> TAKE x
  <1>1. /\ Len(s) \in Nat /\ Len(t) = Len(s) + 1 /\ t[Len(t)] = l
        /\ \A i \in 1..Len(s) : t[i] = s[i]
    BY <1>9, AppendIs
  <1>0. /\ MySQL!Code(s) \subseteq 1..Len(s)
        /\ MyEnd(s) = "code" => MySQL!Code(t) = MySQL!Code(s) \cup {Len(t)}
        /\ MyEnd(s) # "code" => MySQL!Code(t) = MySQL!Code(s)
    BY <1>9, MyCode
  <1>2. MySQL!At(s, x) \subseteq 1..Len(s)
    BY <1>0, <1>1 DEF MySQL!At
  <1>3. ASSUME MyEnd(s) = "code", l = x PROVE MySQL!At(t, x) = MySQL!At(s, x) \cup {Len(t)}
    BY <1>0, <1>1, <1>3 DEF MySQL!At
  <1>4. ASSUME ~(MyEnd(s) = "code" /\ l = x) PROVE MySQL!At(t, x) = MySQL!At(s, x)
    BY <1>0, <1>1, <1>4 DEF MySQL!At
  <1>5. QED
    BY <1>2, <1>3, <1>4

(* How many x stand in code. *)
MyCount(s, x) == Cardinality(MySQL!At(s, x))

LEMMA MyCardinality == \A S : MySQL!Cardinality(S) = Cardinality(S)
  BY DEF MySQL!Cardinality, Cardinality

LEMMA MyCountGrows ==
  ASSUME NEW s, NEW l, NEW t, MyGrows(s, l, t)
  PROVE  \A x : /\ MyCount(s, x) \in Nat
                /\ MyEnd(s) = "code" /\ l = x => MyCount(t, x) = MyCount(s, x) + 1
                /\ ~(MyEnd(s) = "code" /\ l = x) => MyCount(t, x) = MyCount(s, x)
  <1> TAKE x
  <1>1. Len(s) \in Nat /\ Len(t) = Len(s) + 1
    BY MyGrowsIs
  <1>2. PICK S : S = MySQL!At(s, x)
    OBVIOUS
  <1>3. S \subseteq 1..Len(s)
    BY <1>2, MyAt
  <1>4. IsFiniteSet(1..Len(s))
    BY <1>1, FS_Interval
  <1>5. IsFiniteSet(S) /\ Len(t) \notin S
    <2>1. IsFiniteSet(S)
      BY <1>3, <1>4, FS_Subset
    <2>2. QED
      BY <1>1, <1>3, <2>1
  <1>6. Cardinality(S) \in Nat /\ Cardinality(S \cup {Len(t)}) = Cardinality(S) + 1
    BY <1>5, FS_CardinalityType, FS_AddElement
  <1>7. /\ MyEnd(s) = "code" /\ l = x => MySQL!At(t, x) = S \cup {Len(t)}
        /\ ~(MyEnd(s) = "code" /\ l = x) => MySQL!At(t, x) = S
    BY <1>2, MyAt
  <1>8. QED
    BY <1>2, <1>6, <1>7 DEF MyCount

(* How deep a text ends, and how deep each lexeme of it stands. *)
MyDepth(s) == MyCount(s, "(") - MyCount(s, ")")

LEMMA MyBefore ==
  ASSUME NEW s, NEW l, NEW t, MyGrows(s, l, t)
  PROVE  \A x : /\ \A i \in 1..Len(s) : MySQL!Before(MySQL!At(t, x), i) = MySQL!Before(MySQL!At(s, x), i)
                /\ MySQL!Before(MySQL!At(t, x), Len(t)) = MySQL!At(s, x)
  <1> TAKE x
  <1>1. Len(s) \in Nat /\ Len(t) = Len(s) + 1
    BY MyGrowsIs
  <1>2. PICK S : S = MySQL!At(s, x)
    OBVIOUS
  <1>3. PICK T : T = MySQL!At(t, x)
    OBVIOUS
  <1>4. S \subseteq 1..Len(s) /\ (T = S \/ T = S \cup {Len(t)})
    BY <1>2, <1>3, MyAt
  <1>5. \A i \in 1..Len(s) : {j \in T : j < i} = {j \in S : j < i}
    BY <1>1, <1>4
  <1>6. {j \in T : j < Len(t)} = S
    <2>1. \A j \in S : j < Len(t)
      BY <1>1, <1>4
    <2>2. ~(Len(t) < Len(t))
      BY <1>1
    <2>3. QED
      BY <1>4, <2>1, <2>2, Zenon
  <1>7. QED
    BY <1>2, <1>3, <1>5, <1>6 DEF MySQL!Before

LEMMA MyDepthGrows ==
  ASSUME NEW s, NEW l, NEW t, MyGrows(s, l, t)
  PROVE  /\ \A i \in 1..Len(s) : /\ MySQL!DepthAt(t, i) = MySQL!DepthAt(s, i)
                                 /\ MySQL!Commas(t, i) = MySQL!Commas(s, i)
         /\ MySQL!DepthAt(t, Len(t)) = MyDepth(s)
         /\ MySQL!Commas(t, Len(t)) = MyCount(s, ",")
         /\ MyDepth(s) \in Int /\ MyDepth(t) \in Int
         /\ MyEnd(s) = "code" /\ l = "(" => MyDepth(t) = MyDepth(s) + 1
         /\ MyEnd(s) = "code" /\ l = ")" => MyDepth(t) = MyDepth(s) - 1
         /\ ~(MyEnd(s) = "code" /\ l \in {"(", ")"}) => MyDepth(t) = MyDepth(s)
  <1>1. \A x : /\ \A i \in 1..Len(s) : MySQL!Before(MySQL!At(t, x), i) = MySQL!Before(MySQL!At(s, x), i)
               /\ MySQL!Before(MySQL!At(t, x), Len(t)) = MySQL!At(s, x)
    BY MyBefore
  <1>2. \A i \in 1..Len(s) : /\ MySQL!DepthAt(t, i) = MySQL!DepthAt(s, i)
                             /\ MySQL!Commas(t, i) = MySQL!Commas(s, i)
    BY <1>1 DEF MySQL!DepthAt, MySQL!Commas
  <1>3. /\ MySQL!DepthAt(t, Len(t)) = MyDepth(s)
        /\ MySQL!Commas(t, Len(t)) = MyCount(s, ",")
    BY <1>1, MyCardinality DEF MySQL!DepthAt, MySQL!Commas, MyDepth, MyCount
  <1>4. \A x : /\ MyCount(s, x) \in Nat
               /\ MyEnd(s) = "code" /\ l = x => MyCount(t, x) = MyCount(s, x) + 1
               /\ ~(MyEnd(s) = "code" /\ l = x) => MyCount(t, x) = MyCount(s, x)
    BY MyCountGrows
  <1>5. PICK a \in Nat : a = MyCount(s, "(")
    BY <1>4
  <1>6. PICK b \in Nat : b = MyCount(s, ")")
    BY <1>4
  <1>7. MyDepth(s) = a - b /\ MyDepth(t) = MyCount(t, "(") - MyCount(t, ")")
    BY <1>5, <1>6 DEF MyDepth
  <1>8. MyDepth(s) \in Int
    BY <1>7
  <1>9. ASSUME MyEnd(s) = "code", l = "(" PROVE MyDepth(t) = MyDepth(s) + 1
    <2>1. MyCount(t, "(") = a + 1 /\ MyCount(t, ")") = b
      BY <1>4, <1>5, <1>6, <1>9
    <2>2. QED
      BY <1>7, <2>1
  <1>10. ASSUME MyEnd(s) = "code", l = ")" PROVE MyDepth(t) = MyDepth(s) - 1
    <2>1. MyCount(t, "(") = a /\ MyCount(t, ")") = b + 1
      BY <1>4, <1>5, <1>6, <1>10
    <2>2. QED
      BY <1>7, <2>1
  <1>11. ASSUME ~(MyEnd(s) = "code" /\ l \in {"(", ")"}) PROVE MyDepth(t) = MyDepth(s)
    <2>1. MyCount(t, "(") = a /\ MyCount(t, ")") = b
      BY <1>4, <1>5, <1>6, <1>11
    <2>2. QED
      BY <1>7, <2>1
  <1>12. MyDepth(t) \in Int
    <2>1. MyDepth(t) \in {MyDepth(s) + 1, MyDepth(s) - 1, MyDepth(s)}
      BY <1>9, <1>10, <1>11
    <2>2. QED
      BY <1>8, <2>1
  <1>13. QED
    BY <1>2, <1>3, <1>8, <1>9, <1>10, <1>11, <1>12, Zenon

(* A text's view: what another text must share to be copied in step. *)
MyView(s) == <<MyEnd(s), MyDepth(s), MyCount(s, ","), MyCount(s, "?")>>

LEMMA MyViewCopied ==
  ASSUME NEW s, NEW u, NEW l, NEW t, NEW v, MyGrows(s, l, t), MyGrows(u, l, v), MyView(s) = MyView(u)
  PROVE  MyView(t) = MyView(v)
  <1>1. MyEnd(s) = MyEnd(u) /\ MyDepth(s) = MyDepth(u) /\ MyCount(s, ",") = MyCount(u, ",")
           /\ MyCount(s, "?") = MyCount(u, "?")
    BY DEF MyView
  <1>2. MyEnd(t) = MyEnd(v)
    <2>1. MyEnd(t) = MyMove(MyEnd(s), l)
      BY MyGrowsIs
    <2>2. MyEnd(v) = MyMove(MyEnd(u), l)
      BY MyGrowsIs
    <2>3. QED
      BY <1>1, <2>1, <2>2
  <1>3. MyDepth(t) = MyDepth(v)
    <2>1. /\ MyEnd(s) = "code" /\ l = "(" => MyDepth(t) = MyDepth(s) + 1
          /\ MyEnd(s) = "code" /\ l = ")" => MyDepth(t) = MyDepth(s) - 1
          /\ ~(MyEnd(s) = "code" /\ l \in {"(", ")"}) => MyDepth(t) = MyDepth(s)
      BY MyDepthGrows
    <2>2. /\ MyEnd(u) = "code" /\ l = "(" => MyDepth(v) = MyDepth(u) + 1
          /\ MyEnd(u) = "code" /\ l = ")" => MyDepth(v) = MyDepth(u) - 1
          /\ ~(MyEnd(u) = "code" /\ l \in {"(", ")"}) => MyDepth(v) = MyDepth(u)
      BY MyDepthGrows
    <2>3. QED
      BY <1>1, <2>1, <2>2
  <1>4. ASSUME NEW x, MyCount(s, x) = MyCount(u, x) PROVE MyCount(t, x) = MyCount(v, x)
    <2>1. /\ MyEnd(s) = "code" /\ l = x => MyCount(t, x) = MyCount(s, x) + 1
          /\ ~(MyEnd(s) = "code" /\ l = x) => MyCount(t, x) = MyCount(s, x)
      BY MyCountGrows
    <2>2. /\ MyEnd(u) = "code" /\ l = x => MyCount(v, x) = MyCount(u, x) + 1
          /\ ~(MyEnd(u) = "code" /\ l = x) => MyCount(v, x) = MyCount(u, x)
      BY MyCountGrows
    <2>3. QED
      BY <1>1, <1>4, <2>1, <2>2
  <1>5. QED
    BY <1>1, <1>2, <1>3, <1>4 DEF MyView

(* A lexeme that opens, closes and counts nothing. *)
MyQuiet == {"AUTO_INCREMENT", "PRIMARY KEY", "ENGINE=InnoDB", "INT", "INTEGER", "AUTOINCREMENT"}

LEMMA MyViewQuiet ==
  ASSUME NEW s, NEW l, NEW t, MyGrows(s, l, t), l \in MyQuiet, MyEnd(s) = "code"
  PROVE  MyView(t) = MyView(s)
  <1>1. l \notin {"(", ")", ",", "?", "escaped"} /\ l \notin MySQL!Opens
    BY DEF MyQuiet, MySQL!Opens
  <1>2. MyEnd(t) = MyEnd(s)
    <2>1. MyEnd(t) = MyMove(MyEnd(s), l)
      BY <1>1, MyGrowsIs
    <2>2. QED
      BY <1>1, <2>1 DEF MyMove
  <1>3. MyDepth(t) = MyDepth(s)
    BY <1>1, MyDepthGrows
  <1>4. MyCount(t, ",") = MyCount(s, ",") /\ MyCount(t, "?") = MyCount(s, "?")
    <2>1. \A x : ~(MyEnd(s) = "code" /\ l = x) => MyCount(t, x) = MyCount(s, x)
      BY MyCountGrows
    <2>2. QED
      BY <1>1, <2>1
  <1>5. QED
    BY <1>1, <1>2, <1>3, <1>4 DEF MyView

(* What ends a column, and the lexemes whose column has not ended. *)
MyEnds(s) == MySQL!At(s, ",") \cup MySQL!At(s, ")")

MyOpen(s, i) == \A k \in MyEnds(s) : i < k => MySQL!DepthAt(s, k) > MySQL!DepthAt(s, i)

(* Lexeme l ends the columns of depth d and above. *)
MyCloses(s, l, d) == MyEnd(s) = "code" /\ l \in {",", ")"} /\ ~(MyDepth(s) > d)

LEMMA MyEndsGrow ==
  ASSUME NEW s, NEW l, NEW t, MyGrows(s, l, t)
  PROVE  /\ MyEnds(s) \subseteq 1..Len(s)
         /\ MyEnd(s) = "code" /\ l \in {",", ")"} => MyEnds(t) = MyEnds(s) \cup {Len(t)}
         /\ ~(MyEnd(s) = "code" /\ l \in {",", ")"}) => MyEnds(t) = MyEnds(s)
  <1>1. \A x : /\ MySQL!At(s, x) \subseteq 1..Len(s)
               /\ MyEnd(s) = "code" /\ l = x => MySQL!At(t, x) = MySQL!At(s, x) \cup {Len(t)}
               /\ ~(MyEnd(s) = "code" /\ l = x) => MySQL!At(t, x) = MySQL!At(s, x)
    BY MyAt
  <1>2. MyEnds(s) \subseteq 1..Len(s)
    BY <1>1 DEF MyEnds
  <1>3. CASE MyEnd(s) = "code" /\ l = ","
    <2>1. MySQL!At(t, ",") = MySQL!At(s, ",") \cup {Len(t)} /\ MySQL!At(t, ")") = MySQL!At(s, ")")
      BY <1>1, <1>3
    <2>2. MyEnds(t) = MyEnds(s) \cup {Len(t)}
      BY <2>1 DEF MyEnds
    <2>3. QED
      BY <1>2, <1>3, <2>2
  <1>4. CASE MyEnd(s) = "code" /\ l = ")"
    <2>1. MySQL!At(t, ",") = MySQL!At(s, ",") /\ MySQL!At(t, ")") = MySQL!At(s, ")") \cup {Len(t)}
      BY <1>1, <1>4
    <2>2. MyEnds(t) = MyEnds(s) \cup {Len(t)}
      BY <2>1 DEF MyEnds
    <2>3. QED
      BY <1>2, <1>4, <2>2
  <1>5. CASE ~(MyEnd(s) = "code" /\ l \in {",", ")"})
    <2>1. MySQL!At(t, ",") = MySQL!At(s, ",") /\ MySQL!At(t, ")") = MySQL!At(s, ")")
      BY <1>1, <1>5
    <2>2. MyEnds(t) = MyEnds(s)
      BY <2>1 DEF MyEnds
    <2>3. QED
      BY <1>2, <1>5, <2>2
  <1>6. QED
    BY <1>3, <1>4, <1>5

LEMMA MyColumns ==
  ASSUME NEW s, NEW l, NEW t, MyGrows(s, l, t)
  PROVE  /\ \A i \in 1..Len(s) : MyOpen(t, i) <=> MyOpen(s, i) /\ ~MyCloses(s, l, MySQL!DepthAt(s, i))
         /\ MyOpen(t, Len(t))
         /\ \A i, j \in 1..Len(s) : MySQL!SameColumn(t, i, j) <=> MySQL!SameColumn(s, i, j)
         /\ \A i \in 1..Len(s) :
               /\ MySQL!SameColumn(t, i, Len(t)) <=> MySQL!DepthAt(s, i) = MyDepth(s) /\ MyOpen(s, i)
               /\ MySQL!SameColumn(t, Len(t), i) <=> MySQL!DepthAt(s, i) = MyDepth(s)
  <1>1. Len(s) \in Nat /\ Len(t) = Len(s) + 1
    BY MyGrowsIs
  <1>2. /\ \A i \in 1..Len(s) : MySQL!DepthAt(t, i) = MySQL!DepthAt(s, i)
        /\ MySQL!DepthAt(t, Len(t)) = MyDepth(s)
    BY MyDepthGrows
  <1>3. /\ MyEnds(s) \subseteq 1..Len(s)
        /\ MyEnd(s) = "code" /\ l \in {",", ")"} => MyEnds(t) = MyEnds(s) \cup {Len(t)}
        /\ ~(MyEnd(s) = "code" /\ l \in {",", ")"}) => MyEnds(t) = MyEnds(s)
    BY MyEndsGrow
  <1>4. \A k \in MyEnds(t) : k \in MyEnds(s) \/ k = Len(t)
    BY <1>3
  <1>5. \A k \in MyEnds(s) : k \in MyEnds(t) /\ k \in 1..Len(s)
    BY <1>3
  <1>6. \A i \in 1..Len(s) : i < Len(t) /\ ~(Len(t) < i) /\ i # Len(t)
    BY <1>1
  <1>7. ~(Len(t) < Len(t))
    BY <1>1
  <1>8. ASSUME NEW i \in 1..Len(s)
        PROVE  MyOpen(t, i) <=> MyOpen(s, i) /\ ~MyCloses(s, l, MySQL!DepthAt(s, i))
    <2>1. CASE MyEnd(s) = "code" /\ l \in {",", ")"}
      <3>1. MyEnds(t) = MyEnds(s) \cup {Len(t)}
        BY <1>3, <2>1
      <3>2. MyOpen(t, i) <=> /\ \A k \in MyEnds(s) : i < k => MySQL!DepthAt(s, k) > MySQL!DepthAt(s, i)
                             /\ MyDepth(s) > MySQL!DepthAt(s, i)
        BY <1>2, <1>5, <1>6, <3>1 DEF MyOpen
      <3>3. QED
        BY <2>1, <3>2 DEF MyOpen, MyCloses
    <2>2. CASE ~(MyEnd(s) = "code" /\ l \in {",", ")"})
      <3>1. MyEnds(t) = MyEnds(s)
        BY <1>3, <2>2
      <3>2. MyOpen(t, i) <=> \A k \in MyEnds(s) : i < k => MySQL!DepthAt(s, k) > MySQL!DepthAt(s, i)
        BY <1>2, <1>5, <3>1 DEF MyOpen
      <3>3. QED
        BY <2>2, <3>2 DEF MyOpen, MyCloses
    <2>3. QED
      BY <2>1, <2>2
  <1>9. MyOpen(t, Len(t))
    BY <1>4, <1>5, <1>6, <1>7 DEF MyOpen
  <1>10. ASSUME NEW i \in 1..Len(s), NEW j \in 1..Len(s)
         PROVE  MySQL!SameColumn(t, i, j) <=> MySQL!SameColumn(s, i, j)
    <2>1. \A k : k \in MyEnds(t) /\ k < j <=> k \in MyEnds(s) /\ k < j
      BY <1>4, <1>5, <1>6
    <2>2. (\A k \in MyEnds(t) : i < k /\ k < j => MySQL!DepthAt(t, k) > MySQL!DepthAt(t, i))
             <=> (\A k \in MyEnds(s) : i < k /\ k < j => MySQL!DepthAt(s, k) > MySQL!DepthAt(s, i))
      BY <1>2, <1>5, <2>1
    <2>3. QED
      BY <1>2, <2>2 DEF MySQL!SameColumn, MyEnds
  <1>11. ASSUME NEW i \in 1..Len(s)
         PROVE  /\ MySQL!SameColumn(t, i, Len(t)) <=> MySQL!DepthAt(s, i) = MyDepth(s) /\ MyOpen(s, i)
                /\ MySQL!SameColumn(t, Len(t), i) <=> MySQL!DepthAt(s, i) = MyDepth(s)
    <2>1. (\A k \in MyEnds(t) : i < k /\ k < Len(t) => MySQL!DepthAt(t, k) > MySQL!DepthAt(t, i))
             <=> MyOpen(s, i)
      BY <1>2, <1>4, <1>5, <1>6, <1>7 DEF MyOpen
    <2>2. \A k \in MyEnds(t) : ~(Len(t) < k)
      BY <1>4, <1>5, <1>6, <1>7
    <2>3. MySQL!SameColumn(t, i, Len(t)) <=> MySQL!DepthAt(s, i) = MyDepth(s) /\ MyOpen(s, i)
      BY <1>2, <2>1 DEF MySQL!SameColumn, MyEnds
    <2>4. MySQL!SameColumn(t, Len(t), i) <=> MySQL!DepthAt(s, i) = MyDepth(s)
      BY <1>2, <2>2 DEF MySQL!SameColumn, MyEnds
    <2>5. QED
      BY <2>3, <2>4
  <1>12. QED
    BY <1>8, <1>9, <1>10, <1>11

(* A lexeme in code stays where it is, and the last may be one. *)
LEMMA MyAtStays ==
  ASSUME NEW s, NEW l, NEW t, MyGrows(s, l, t)
  PROVE  \A x : /\ MySQL!At(s, x) \subseteq 1..Len(s)
                /\ MySQL!At(s, x) \subseteq MySQL!At(t, x)
                /\ MyEnd(s) = "code" /\ l = x => Len(t) \in MySQL!At(t, x)
                /\ \A k \in MySQL!At(t, x) : \/ k \in MySQL!At(s, x)
                                             \/ k = Len(t) /\ MyEnd(s) = "code" /\ l = x
  <1> TAKE x
  <1>1. \A y : /\ MySQL!At(s, y) \subseteq 1..Len(s)
               /\ MyEnd(s) = "code" /\ l = y => MySQL!At(t, y) = MySQL!At(s, y) \cup {Len(t)}
               /\ ~(MyEnd(s) = "code" /\ l = y) => MySQL!At(t, y) = MySQL!At(s, y)
    BY MyAt
  <1>2. CASE MyEnd(s) = "code" /\ l = x
    BY <1>1, <1>2
  <1>3. CASE ~(MyEnd(s) = "code" /\ l = x)
    BY <1>1, <1>3
  <1>4. QED
    BY <1>2, <1>3

(* A PRIMARY KEY of depth d whose column has not ended. *)
MyHasKey(s, d) == \E j \in MySQL!At(s, "PRIMARY KEY") : MySQL!DepthAt(s, j) = d /\ MyOpen(s, j)

LEMMA MyKeyStays ==
  ASSUME NEW s, NEW l, NEW t, MyGrows(s, l, t), NEW d, MyHasKey(s, d), ~MyCloses(s, l, d)
  PROVE  MyHasKey(t, d)
  <1>1. PICK j \in MySQL!At(s, "PRIMARY KEY") : MySQL!DepthAt(s, j) = d /\ MyOpen(s, j)
    BY DEF MyHasKey
  <1>2. j \in 1..Len(s) /\ j \in MySQL!At(t, "PRIMARY KEY")
    <2>1. /\ MySQL!At(s, "PRIMARY KEY") \subseteq 1..Len(s)
          /\ MySQL!At(s, "PRIMARY KEY") \subseteq MySQL!At(t, "PRIMARY KEY")
      BY MyAtStays
    <2>2. QED
      BY <1>1, <2>1
  <1>3. MyOpen(t, j)
    <2>1. MyOpen(t, j) <=> MyOpen(s, j) /\ ~MyCloses(s, l, MySQL!DepthAt(s, j))
      BY <1>2, MyColumns
    <2>2. QED
      BY <1>1, <2>1
  <1>4. MySQL!DepthAt(t, j) = d
    <2>1. MySQL!DepthAt(t, j) = MySQL!DepthAt(s, j)
      BY <1>2, MyDepthGrows
    <2>2. QED
      BY <1>1, <2>1
  <1>5. QED
    BY <1>2, <1>3, <1>4 DEF MyHasKey

LEMMA MyNewKey ==
  ASSUME NEW s, NEW l, NEW t, MyGrows(s, l, t), l = "PRIMARY KEY", MyEnd(s) = "code"
  PROVE  MyHasKey(t, MyDepth(s))
  <1>1. Len(t) \in MySQL!At(t, "PRIMARY KEY")
    BY MyAtStays
  <1>2. MyOpen(t, Len(t)) /\ MySQL!DepthAt(t, Len(t)) = MyDepth(s)
    BY MyColumns, MyDepthGrows
  <1>3. QED
    BY <1>1, <1>2 DEF MyHasKey

LEMMA FlattenGrows ==
  ASSUME NEW V, NEW n \in Nat, NEW a \in [1..n -> Seq(V)], NEW b \in [1..(n + 1) -> Seq(V)],
         \A i \in 1..n : b[i] = a[i]
  PROVE  /\ MySQL!FlattenSeq(a) \in Seq(V)
         /\ b[n + 1] \in Seq(V)
         /\ MySQL!FlattenSeq(b) = MySQL!FlattenSeq(a) \o b[n + 1]
  <1>1. PICK W : W = Seq(V)
    OBVIOUS
  <1>2. a \in Seq(W) /\ b[n + 1] \in W /\ b = Append(a, b[n + 1])
    BY <1>1, ListGrows
  <1>3. PICK x : x = b[n + 1]
    OBVIOUS
  <1>4. a \in Seq(Seq(V)) /\ x \in Seq(V) /\ b = Append(a, x) /\ b \in Seq(Seq(V))
    BY <1>1, <1>2, <1>3
  <1>5. /\ PgSQL!FlattenSeq(a) \in Seq(V)
        /\ PgSQL!FlattenSeq(Append(a, x)) = PgSQL!FlattenSeq(a) \o x
        /\ MySQL!FlattenSeq(a) = PgSQL!FlattenSeq(a)
    BY <1>4, FlattenAppend, Zenon
  <1>6. MySQL!FlattenSeq(b) = PgSQL!FlattenSeq(b)
    BY <1>4, FlattenAppend, Zenon
  <1>7. QED
    BY <1>3, <1>4, <1>5, <1>6

(* A translation without what was moved, and the one wanted (QuotedKept). *)
MyKeptAt(x) == IF x = "AUTOINCREMENT" THEN <<>> ELSE <<x>>

MyKept(u) == MySQL!FlattenSeq([i \in 1..Len(u) |-> MyKeptAt(u[i])])

MyWanted(s) == MySQL!FlattenSeq([i \in 1..Len(s) |-> MySQL!Wanted(s, i)])

(* What is wanted of one more lexeme of a text. *)
MyWantedAt(s, l) ==
    IF MyEnd(s) # "code" THEN <<l>>
    ELSE CASE l = "INT" -> <<"INTEGER">>
           [] l \in {"AUTO_INCREMENT", "ENGINE=InnoDB"} -> <<>>
           [] OTHER -> <<l>>

LEMMA MyKeptGrows ==
  ASSUME NEW u, NEW l, NEW v, MyGrows(u, l, v)
  PROVE  MyKept(v) = MyKept(u) \o MyKeptAt(l) /\ MyKept(u) \in Seq(MyOut)
  <1>1. /\ u \in Seq(MyOut) /\ Len(u) \in Nat /\ Len(v) = Len(u) + 1 /\ v[Len(v)] = l
        /\ v \in Seq(MyOut) /\ \A i \in 1..Len(u) : v[i] = u[i]
    BY MyGrowsIs
  <1>2. PICK n \in Nat : n = Len(u)
    BY <1>1
  <1>3. PICK a : a = [i \in 1..n |-> MyKeptAt(u[i])]
    OBVIOUS
  <1>4. PICK b : b = [i \in 1..(n + 1) |-> MyKeptAt(v[i])]
    OBVIOUS
  <1>5. \A x \in MyOut : MyKeptAt(x) \in Seq(MyOut)
    <2>1. <<>> \in Seq(MyOut) /\ \A x \in MyOut : <<x>> \in Seq(MyOut)
      OBVIOUS
    <2>2. QED
      BY <2>1 DEF MyKeptAt
  <1>6. /\ \A i \in 1..n : u[i] \in MyOut
        /\ \A i \in 1..(n + 1) : v[i] \in MyOut
    BY <1>1, <1>2
  <1>7. a \in [1..n -> Seq(MyOut)] /\ b \in [1..(n + 1) -> Seq(MyOut)]
    BY <1>3, <1>4, <1>5, <1>6
  <1>8. \A i \in 1..n : b[i] = a[i]
    BY <1>1, <1>2, <1>3, <1>4
  <1>9. MySQL!FlattenSeq(a) \in Seq(MyOut) /\ MySQL!FlattenSeq(b) = MySQL!FlattenSeq(a) \o b[n + 1]
    BY <1>7, <1>8, FlattenGrows, Zenon
  <1>10. b[n + 1] = MyKeptAt(l)
    BY <1>1, <1>2, <1>4
  <1>11. MyKept(u) = MySQL!FlattenSeq(a) /\ MyKept(v) = MySQL!FlattenSeq(b)
    BY <1>1, <1>2, <1>3, <1>4 DEF MyKept
  <1>12. QED
    BY <1>9, <1>10, <1>11

LEMMA MyWantedGrows ==
  ASSUME NEW s, NEW l, NEW t, MyGrows(s, l, t)
  PROVE  MyWanted(t) = MyWanted(s) \o MyWantedAt(s, l) /\ MyWanted(s) \in Seq(MyOut)
  <1>0. s \in Seq(MyOut) /\ l \in MyOut /\ t = Append(s, l)
    BY DEF MyGrows
  <1>1. /\ Len(s) \in Nat /\ Len(t) = Len(s) + 1 /\ t[Len(t)] = l
        /\ t \in Seq(MyOut) /\ \A i \in 1..Len(s) : t[i] = s[i]
    BY MyGrowsIs
  <1>2. PICK n \in Nat : n = Len(s)
    BY <1>1
  <1>3. PICK a : a = [i \in 1..n |-> MySQL!Wanted(s, i)]
    OBVIOUS
  <1>4. PICK b : b = [i \in 1..(n + 1) |-> MySQL!Wanted(t, i)]
    OBVIOUS
  <1>5. \A w, i : w[i] \in MyOut => MySQL!Wanted(w, i) \in Seq(MyOut)
    <2>1. <<>> \in Seq(MyOut) /\ "INTEGER" \in MyOut /\ \A x \in MyOut : <<x>> \in Seq(MyOut)
      BY DEF MyOut
    <2>2. QED
      BY <2>1 DEF MySQL!Wanted
  <1>6. /\ \A i \in 1..n : s[i] \in MyOut
        /\ \A i \in 1..(n + 1) : t[i] \in MyOut
    BY <1>0, <1>1, <1>2
  <1>7. a \in [1..n -> Seq(MyOut)] /\ b \in [1..(n + 1) -> Seq(MyOut)]
    BY <1>3, <1>4, <1>5, <1>6
  <1>8. /\ MySQL!Code(s) \subseteq 1..Len(s)
        /\ MyEnd(s) = "code" => MySQL!Code(t) = MySQL!Code(s) \cup {Len(t)}
        /\ MyEnd(s) # "code" => MySQL!Code(t) = MySQL!Code(s)
    BY <1>0, MyCode
  <1>9. \A i \in 1..n : i \in MySQL!Code(t) <=> i \in MySQL!Code(s)
    <2>1. \A i \in 1..n : i # Len(t)
      BY <1>1, <1>2
    <2>2. QED
      BY <2>1, <1>8
  <1>10. \A i \in 1..n : b[i] = a[i]
    BY <1>1, <1>2, <1>3, <1>4, <1>9 DEF MySQL!Wanted
  <1>11. MySQL!FlattenSeq(a) \in Seq(MyOut) /\ MySQL!FlattenSeq(b) = MySQL!FlattenSeq(a) \o b[n + 1]
    BY <1>7, <1>10, FlattenGrows, Zenon
  <1>12. Len(t) \in MySQL!Code(t) <=> MyEnd(s) = "code"
    <2>1. Len(t) \notin 1..Len(s)
      BY <1>1
    <2>2. QED
      BY <2>1, <1>8
  <1>13. b[n + 1] = MyWantedAt(s, l)
    <2>1. b[n + 1] = MySQL!Wanted(t, Len(t))
      BY <1>1, <1>2, <1>4
    <2>2. QED
      BY <2>1, <1>1, <1>12 DEF MySQL!Wanted, MyWantedAt
  <1>14. MyWanted(s) = MySQL!FlattenSeq(a) /\ MyWanted(t) = MySQL!FlattenSeq(b)
    BY <1>1, <1>2, <1>3, <1>4 DEF MyWanted
  <1>15. QED
    BY <1>11, <1>13, <1>14

LEMMA MyNothing == MyKept(<<>>) = <<>> /\ MyWanted(<<>>) = <<>>
  <1>1. MySQL!FlattenSeq(<<>>) = <<>>
    BY DEF MySQL!FlattenSeq
  <1>2. Len(<<>>) = 0 /\ [i \in 1..0 |-> MyKeptAt(<<>>[i])] = <<>>
           /\ [i \in 1..0 |-> MySQL!Wanted(<<>>, i)] = <<>>
    OBVIOUS
  <1>3. QED
    BY <1>1, <1>2 DEF MyKept, MyWanted

(* The first half of AutoIncrementPlaced, of a text. *)
MyPlaced(o) ==
    \A i \in MySQL!At(o, "AUTOINCREMENT") :
        \E j \in MySQL!At(o, "PRIMARY KEY") : j < i /\ MySQL!SameColumn(o, j, i)

(* Lexeme l is no AUTOINCREMENT without a PRIMARY KEY for it. *)
MyFounded(o, l) == MyEnd(o) = "code" /\ l = "AUTOINCREMENT" => MyHasKey(o, MyDepth(o))

LEMMA MyPlacedGrows ==
  ASSUME NEW o, NEW l, NEW q, MyGrows(o, l, q), MyPlaced(o), MyFounded(o, l)
  PROVE  MyPlaced(q)
  <1>0. Len(o) \in Nat /\ Len(q) = Len(o) + 1
    BY MyGrowsIs
  <1>8. \A n \in 1..Len(o) : n < Len(q)
    BY <1>0
  <1>9. MySQL!At(o, "PRIMARY KEY") \subseteq 1..Len(o)
    BY MyAt, Zenon
  <1>10. MySQL!At(o, "PRIMARY KEY") \subseteq MySQL!At(q, "PRIMARY KEY")
    BY MyAtStays
  <1>1. /\ MySQL!At(o, "PRIMARY KEY") \subseteq 1..Len(o)
        /\ MySQL!At(o, "PRIMARY KEY") \subseteq MySQL!At(q, "PRIMARY KEY")
    BY <1>9, <1>10
  <1>2. \A k \in MySQL!At(q, "AUTOINCREMENT") :
           \/ k \in MySQL!At(o, "AUTOINCREMENT")
           \/ k = Len(q) /\ MyEnd(o) = "code" /\ l = "AUTOINCREMENT"
    BY MyAtStays
  <1>3. MySQL!At(o, "AUTOINCREMENT") \subseteq 1..Len(o)
    BY MyAtStays
  <1>4. SUFFICES ASSUME NEW i \in MySQL!At(q, "AUTOINCREMENT")
                 PROVE  \E j \in MySQL!At(q, "PRIMARY KEY") : j < i /\ MySQL!SameColumn(q, j, i)
    BY DEF MyPlaced
  <1>5. CASE i \in MySQL!At(o, "AUTOINCREMENT")
    <2>1. PICK j \in MySQL!At(o, "PRIMARY KEY") : j < i /\ MySQL!SameColumn(o, j, i)
      BY <1>5 DEF MyPlaced
    <2>2. i \in 1..Len(o) /\ j \in 1..Len(o)
      BY <1>1, <1>3, <1>5, <2>1
    <2>3. MySQL!SameColumn(q, j, i) <=> MySQL!SameColumn(o, j, i)
      BY <2>2, MyColumns
    <2>4. QED
      BY <1>1, <2>1, <2>3
  <1>6. CASE i = Len(q) /\ MyEnd(o) = "code" /\ l = "AUTOINCREMENT"
    <2>1. PICK j \in MySQL!At(o, "PRIMARY KEY") : MySQL!DepthAt(o, j) = MyDepth(o) /\ MyOpen(o, j)
      BY <1>6 DEF MyFounded, MyHasKey
    <2>2. j \in 1..Len(o)
      BY <1>1, <2>1
    <2>3. MySQL!SameColumn(q, j, Len(q)) <=> MySQL!DepthAt(o, j) = MyDepth(o) /\ MyOpen(o, j)
      BY <2>2, MyColumns
    <2>4. j < Len(q)
      BY <2>2, <1>8
    <2>5. QED
      BY <1>1, <1>6, <2>1, <2>3, <2>4
  <1>7. QED
    BY <1>2, <1>5, <1>6

(* An AUTOINCREMENT of o stands in the column, counted by commas, of the     *)
(* AUTO_INCREMENT at i of s, or of its PRIMARY KEY behind it.                *)
MyBehind(i, j) == IF i < j THEN j ELSE i

MyDone(s, o, i) ==
    \E j \in MySQL!KeysOf(s, i), k \in MySQL!At(o, "AUTOINCREMENT") :
        MySQL!Commas(o, k) = MySQL!Commas(s, MyBehind(i, j))

(* A text that is another, or goes on where it ends. *)
MyOn(o, q) == o \in Seq(MyOut) /\ (q = o \/ \E l : MyGrows(o, l, q))

LEMMA MyOnKeeps ==
  ASSUME NEW o, NEW q, MyOn(o, q)
  PROVE  \A k \in MySQL!At(o, "AUTOINCREMENT") :
           k \in MySQL!At(q, "AUTOINCREMENT") /\ MySQL!Commas(q, k) = MySQL!Commas(o, k)
  <1>1. CASE q = o
    BY <1>1
  <1>2. CASE \E l : MyGrows(o, l, q)
    <2>1. PICK l : MyGrows(o, l, q)
      BY <1>2
    <2>2. /\ MySQL!At(o, "AUTOINCREMENT") \subseteq 1..Len(o)
          /\ MySQL!At(o, "AUTOINCREMENT") \subseteq MySQL!At(q, "AUTOINCREMENT")
      BY <2>1, MyAtStays
    <2>3. \A k \in 1..Len(o) : MySQL!Commas(q, k) = MySQL!Commas(o, k)
      BY <2>1, MyDepthGrows
    <2>4. QED
      BY <2>2, <2>3
  <1>3. QED
    BY <1>1, <1>2 DEF MyOn

(* The PRIMARY KEYs of a column, with one lexeme more. *)
LEMMA MyKeysGrow ==
  ASSUME NEW s, NEW l, NEW t, MyGrows(s, l, t)
  PROVE  /\ \A i \in 1..Len(s) :
               /\ MySQL!KeysOf(s, i) \subseteq 1..Len(s)
               /\ MySQL!KeysOf(s, i) \subseteq MySQL!KeysOf(t, i)
               /\ \A j \in MySQL!KeysOf(t, i) :
                     \/ j \in MySQL!KeysOf(s, i)
                     \/ /\ MyEnd(s) = "code" /\ l = "PRIMARY KEY"
                        /\ MySQL!DepthAt(s, i) = MyDepth(s) /\ MyOpen(s, i)
               /\ MyEnd(s) = "code" /\ l = "PRIMARY KEY"
                     /\ MySQL!DepthAt(s, i) = MyDepth(s) /\ MyOpen(s, i)
                     => Len(t) \in MySQL!KeysOf(t, i)
         /\ MyEnd(s) = "code" /\ l = "AUTO_INCREMENT" =>
               \A j : j \in MySQL!KeysOf(t, Len(t)) <=> /\ j \in MySQL!At(s, "PRIMARY KEY")
                                                       /\ MySQL!DepthAt(s, j) = MyDepth(s)
                                                       /\ MyOpen(s, j)
  <1>1. /\ MySQL!At(s, "PRIMARY KEY") \subseteq 1..Len(s)
        /\ MySQL!At(s, "PRIMARY KEY") \subseteq MySQL!At(t, "PRIMARY KEY")
        /\ MyEnd(s) = "code" /\ l = "PRIMARY KEY" => Len(t) \in MySQL!At(t, "PRIMARY KEY")
        /\ \A k \in MySQL!At(t, "PRIMARY KEY") : \/ k \in MySQL!At(s, "PRIMARY KEY")
                                                 \/ k = Len(t) /\ MyEnd(s) = "code" /\ l = "PRIMARY KEY"
    BY MyAtStays
  <1>2. /\ \A i, j \in 1..Len(s) : MySQL!SameColumn(t, i, j) <=> MySQL!SameColumn(s, i, j)
        /\ \A i \in 1..Len(s) :
               /\ MySQL!SameColumn(t, i, Len(t)) <=> MySQL!DepthAt(s, i) = MyDepth(s) /\ MyOpen(s, i)
               /\ MySQL!SameColumn(t, Len(t), i) <=> MySQL!DepthAt(s, i) = MyDepth(s)
    BY MyColumns
  <1>3. ASSUME NEW i \in 1..Len(s)
        PROVE  /\ MySQL!KeysOf(s, i) \subseteq 1..Len(s)
               /\ MySQL!KeysOf(s, i) \subseteq MySQL!KeysOf(t, i)
               /\ \A j \in MySQL!KeysOf(t, i) :
                     \/ j \in MySQL!KeysOf(s, i)
                     \/ /\ MyEnd(s) = "code" /\ l = "PRIMARY KEY"
                        /\ MySQL!DepthAt(s, i) = MyDepth(s) /\ MyOpen(s, i)
               /\ MyEnd(s) = "code" /\ l = "PRIMARY KEY"
                     /\ MySQL!DepthAt(s, i) = MyDepth(s) /\ MyOpen(s, i)
                     => Len(t) \in MySQL!KeysOf(t, i)
    <2>1. MySQL!KeysOf(s, i) \subseteq 1..Len(s)
      BY <1>1 DEF MySQL!KeysOf
    <2>2. MySQL!KeysOf(s, i) \subseteq MySQL!KeysOf(t, i)
      BY <1>1, <1>2 DEF MySQL!KeysOf
    <2>3. ASSUME NEW j \in MySQL!KeysOf(t, i)
          PROVE  \/ j \in MySQL!KeysOf(s, i)
                 \/ /\ MyEnd(s) = "code" /\ l = "PRIMARY KEY"
                    /\ MySQL!DepthAt(s, i) = MyDepth(s) /\ MyOpen(s, i)
      <3>1. /\ j \in MySQL!At(t, "PRIMARY KEY")
            /\ MySQL!SameColumn(t, i, j) /\ MySQL!SameColumn(t, j, i)
        BY <2>3 DEF MySQL!KeysOf
      <3>2. CASE j \in MySQL!At(s, "PRIMARY KEY")
        BY <1>1, <1>2, <3>1, <3>2 DEF MySQL!KeysOf
      <3>3. CASE j = Len(t) /\ MyEnd(s) = "code" /\ l = "PRIMARY KEY"
        BY <1>2, <3>1, <3>3
      <3>4. QED
        BY <1>1, <3>1, <3>2, <3>3
    <2>4. ASSUME MyEnd(s) = "code", l = "PRIMARY KEY",
                 MySQL!DepthAt(s, i) = MyDepth(s), MyOpen(s, i)
          PROVE  Len(t) \in MySQL!KeysOf(t, i)
      BY <1>1, <1>2, <2>4 DEF MySQL!KeysOf
    <2>5. QED
      BY <2>1, <2>2, <2>3, <2>4
  <1>4. ASSUME MyEnd(s) = "code", l = "AUTO_INCREMENT", NEW j
        PROVE  j \in MySQL!KeysOf(t, Len(t)) <=> /\ j \in MySQL!At(s, "PRIMARY KEY")
                                                /\ MySQL!DepthAt(s, j) = MyDepth(s)
                                                /\ MyOpen(s, j)
    <2>1. j \in MySQL!At(t, "PRIMARY KEY") <=> j \in MySQL!At(s, "PRIMARY KEY")
      BY <1>1, <1>4
    <2>2. j \in MySQL!At(s, "PRIMARY KEY") => j \in 1..Len(s)
      BY <1>1
    <2>3. QED
      BY <1>2, <2>1, <2>2 DEF MySQL!KeysOf
  <1>5. QED
    BY <1>3, <1>4

(* What is done stays done. *)
LEMMA MyDoneStays ==
  ASSUME NEW s, NEW l, NEW t, MyGrows(s, l, t), NEW o, NEW q, MyOn(o, q)
  PROVE  \A i \in 1..Len(s) : MyDone(s, o, i) => MyDone(t, q, i)
  <1>1. SUFFICES ASSUME NEW i \in 1..Len(s), MyDone(s, o, i) PROVE MyDone(t, q, i)
    OBVIOUS
  <1>2. PICK j \in MySQL!KeysOf(s, i), k \in MySQL!At(o, "AUTOINCREMENT") :
           MySQL!Commas(o, k) = MySQL!Commas(s, MyBehind(i, j))
    BY <1>1 DEF MyDone
  <1>3. MySQL!KeysOf(s, i) \subseteq 1..Len(s) /\ MySQL!KeysOf(s, i) \subseteq MySQL!KeysOf(t, i)
    BY MyKeysGrow
  <1>4. MyBehind(i, j) \in 1..Len(s)
    BY <1>2, <1>3 DEF MyBehind
  <1>5. MySQL!Commas(t, MyBehind(i, j)) = MySQL!Commas(s, MyBehind(i, j))
    BY <1>4, MyDepthGrows
  <1>6. k \in MySQL!At(q, "AUTOINCREMENT") /\ MySQL!Commas(q, k) = MySQL!Commas(o, k)
    BY <1>2, MyOnKeeps
  <1>7. QED
    BY <1>2, <1>3, <1>5, <1>6 DEF MyDone

(* The PRIMARY KEYs the pass knows of are those whose column has not ended.  *)
MyKnown(s, P) == \A j \in MySQL!At(s, "PRIMARY KEY") : MySQL!DepthAt(s, j) \in P \/ ~MyOpen(s, j)

(* An AUTO_INCREMENT is placed, or waits for its PRIMARY KEY, or has none.   *)
MyWaits(s, A, i) == MySQL!KeysOf(s, i) = {} /\ (MySQL!DepthAt(s, i) \in A \/ ~MyOpen(s, i))

MyMoved(s, o, A) == \A i \in MySQL!At(s, "AUTO_INCREMENT") : MyDone(s, o, i) \/ MyWaits(s, A, i)

(* What the end of a column takes from the depths the pass remembers. *)
MyForgets(s, l, P, Q) == \A d \in P : d \in Q \/ MyCloses(s, l, d)

LEMMA MyKnownGrows ==
  ASSUME NEW s, NEW l, NEW t, MyGrows(s, l, t), NEW P, NEW Q,
         MyKnown(s, P), MyForgets(s, l, P, Q),
         MyEnd(s) = "code" /\ l = "PRIMARY KEY" => MyDepth(s) \in Q
  PROVE  MyKnown(t, Q)
  <1>1. SUFFICES ASSUME NEW j \in MySQL!At(t, "PRIMARY KEY")
                 PROVE  MySQL!DepthAt(t, j) \in Q \/ ~MyOpen(t, j)
    BY DEF MyKnown
  <1>2. MySQL!At(s, "PRIMARY KEY") \subseteq 1..Len(s)
    BY MyAt, Zenon
  <1>3. \/ j \in MySQL!At(s, "PRIMARY KEY")
        \/ j = Len(t) /\ MyEnd(s) = "code" /\ l = "PRIMARY KEY"
    BY <1>1, MyAtStays
  <1>4. CASE j \in MySQL!At(s, "PRIMARY KEY")
    <2>1. j \in 1..Len(s)
      BY <1>2, <1>4
    <2>2. MySQL!DepthAt(t, j) = MySQL!DepthAt(s, j)
      BY <2>1, MyDepthGrows
    <2>3. MyOpen(t, j) <=> MyOpen(s, j) /\ ~MyCloses(s, l, MySQL!DepthAt(s, j))
      BY <2>1, MyColumns
    <2>4. QED
      BY <1>4, <2>2, <2>3 DEF MyKnown, MyForgets
  <1>5. CASE j = Len(t) /\ MyEnd(s) = "code" /\ l = "PRIMARY KEY"
    <2>1. MySQL!DepthAt(t, Len(t)) = MyDepth(s)
      BY MyDepthGrows
    <2>2. QED
      BY <1>5, <2>1
  <1>6. QED
    BY <1>3, <1>4, <1>5

(* All that are there stand at the same depth as what comes. *)
LEMMA MyOneDepth ==
  ASSUME NEW s, NEW l, NEW t, MyGrows(s, l, t), MySQL!OneDepth(t)
  PROVE  /\ MySQL!OneDepth(s)
         /\ MyEnd(s) = "code" /\ l \in {"AUTO_INCREMENT", "PRIMARY KEY"} =>
               \A i \in MySQL!At(s, "AUTO_INCREMENT") \cup MySQL!At(s, "PRIMARY KEY") :
                   MySQL!DepthAt(s, i) = MyDepth(s)
  <1> DEFINE S == MySQL!At(s, "AUTO_INCREMENT") \cup MySQL!At(s, "PRIMARY KEY")
             T == MySQL!At(t, "AUTO_INCREMENT") \cup MySQL!At(t, "PRIMARY KEY")
  <1>1. S \subseteq 1..Len(s)
    <2>1. MySQL!At(s, "AUTO_INCREMENT") \subseteq 1..Len(s)
      BY MyAt, Zenon
    <2>2. MySQL!At(s, "PRIMARY KEY") \subseteq 1..Len(s)
      BY MyAt, Zenon
    <2>3. QED
      BY <2>1, <2>2
  <1>2. S \subseteq T
    <2>1. MySQL!At(s, "AUTO_INCREMENT") \subseteq MySQL!At(t, "AUTO_INCREMENT")
      BY MyAtStays
    <2>2. MySQL!At(s, "PRIMARY KEY") \subseteq MySQL!At(t, "PRIMARY KEY")
      BY MyAtStays
    <2>3. QED
      BY <2>1, <2>2
  <1>3. ASSUME MyEnd(s) = "code", l \in {"AUTO_INCREMENT", "PRIMARY KEY"}
        PROVE  Len(t) \in T
    <2>1. l = "AUTO_INCREMENT" => Len(t) \in MySQL!At(t, "AUTO_INCREMENT")
      BY <1>3, MyAtStays
    <2>2. l = "PRIMARY KEY" => Len(t) \in MySQL!At(t, "PRIMARY KEY")
      BY <1>3, MyAtStays
    <2>3. QED
      BY <1>3, <2>1, <2>2
  <1>4. /\ \A i \in 1..Len(s) : MySQL!DepthAt(t, i) = MySQL!DepthAt(s, i)
        /\ MySQL!DepthAt(t, Len(t)) = MyDepth(s)
    BY MyDepthGrows
  <1>5. \A i, j \in T : MySQL!DepthAt(t, i) = MySQL!DepthAt(t, j)
    BY DEF MySQL!OneDepth
  <1> HIDE DEF S, T
  <1>6. \A i, j \in S : MySQL!DepthAt(s, i) = MySQL!DepthAt(s, j)
    BY <1>1, <1>2, <1>4, <1>5
  <1>7. ASSUME MyEnd(s) = "code", l \in {"AUTO_INCREMENT", "PRIMARY KEY"}
        PROVE  \A i \in S : MySQL!DepthAt(s, i) = MyDepth(s)
    BY <1>1, <1>2, <1>3, <1>4, <1>5, <1>7
  <1>8. MySQL!OneDepth(s)
    BY <1>6 DEF MySQL!OneDepth, S
  <1>9. QED
    BY <1>7, <1>8 DEF S

(* Another lexeme than a PRIMARY KEY leaves what waits waiting. *)
LEMMA MyWaitsOn ==
  ASSUME NEW s, NEW l, NEW t, MyGrows(s, l, t), NEW A, NEW B, MyForgets(s, l, A, B),
         ~(MyEnd(s) = "code" /\ l = "PRIMARY KEY")
  PROVE  \A i \in 1..Len(s) : MyWaits(s, A, i) => MyWaits(t, B, i)
  <1>1. SUFFICES ASSUME NEW i \in 1..Len(s), MyWaits(s, A, i) PROVE MyWaits(t, B, i)
    OBVIOUS
  <1>2. \A j \in MySQL!KeysOf(t, i) :
           \/ j \in MySQL!KeysOf(s, i)
           \/ /\ MyEnd(s) = "code" /\ l = "PRIMARY KEY"
              /\ MySQL!DepthAt(s, i) = MyDepth(s) /\ MyOpen(s, i)
    BY MyKeysGrow
  <1>3. MySQL!KeysOf(s, i) = {}
    BY <1>1 DEF MyWaits
  <1>4. MySQL!KeysOf(t, i) = {}
    BY <1>2, <1>3
  <1>5. MySQL!DepthAt(t, i) = MySQL!DepthAt(s, i)
    BY MyDepthGrows
  <1>6. MyOpen(t, i) <=> MyOpen(s, i) /\ ~MyCloses(s, l, MySQL!DepthAt(s, i))
    BY MyColumns
  <1>7. QED
    BY <1>1, <1>4, <1>5, <1>6 DEF MyWaits, MyForgets

LEMMA MyEarlier ==
  ASSUME NEW s, NEW l, NEW t, MyGrows(s, l, t)
  PROVE  \A i \in 1..Len(s) : i < Len(t) /\ ~(Len(t) < i)
  <1>1. Len(s) \in Nat /\ Len(t) = Len(s) + 1
    BY MyGrowsIs
  <1>2. QED
    BY <1>1

LEMMA MyDoneOn ==
  ASSUME NEW o, NEW q, MyOn(o, q), NEW s, NEW i, MyDone(s, o, i)
  PROVE  MyDone(s, q, i)
  <1>1. \A k \in MySQL!At(o, "AUTOINCREMENT") :
           k \in MySQL!At(q, "AUTOINCREMENT") /\ MySQL!Commas(q, k) = MySQL!Commas(o, k)
    BY MyOnKeeps
  <1>2. QED
    BY <1>1 DEF MyDone

(* The AUTOINCREMENT that ends a text, and its commas. *)
LEMMA MyLastPlaced ==
  ASSUME NEW o, NEW q, MyGrows(o, "AUTOINCREMENT", q), MyEnd(o) = "code"
  PROVE  Len(q) \in MySQL!At(q, "AUTOINCREMENT") /\ MySQL!Commas(q, Len(q)) = MyCount(o, ",")
  <1>1. Len(q) \in MySQL!At(q, "AUTOINCREMENT")
    BY MyAtStays
  <1>2. MySQL!Commas(q, Len(q)) = MyCount(o, ",")
    BY MyDepthGrows
  <1>3. QED
    BY <1>1, <1>2

LEMMA MyMovedOther ==
  ASSUME NEW s, NEW l, NEW t, MyGrows(s, l, t), NEW o, NEW q, MyOn(o, q), NEW A, NEW B,
         MyMoved(s, o, A), MyForgets(s, l, A, B),
         ~(MyEnd(s) = "code" /\ l \in {"AUTO_INCREMENT", "PRIMARY KEY"})
  PROVE  MyMoved(t, q, B)
  <1>1. SUFFICES ASSUME NEW i \in MySQL!At(t, "AUTO_INCREMENT")
                 PROVE  MyDone(t, q, i) \/ MyWaits(t, B, i)
    BY DEF MyMoved
  <1>2. i \in MySQL!At(s, "AUTO_INCREMENT")
    BY MyAtStays
  <1>3. MySQL!At(s, "AUTO_INCREMENT") \subseteq 1..Len(s)
    BY MyAt, Zenon
  <1>4. i \in 1..Len(s)
    BY <1>2, <1>3
  <1>5. MyDone(s, o, i) => MyDone(t, q, i)
    BY <1>4, MyDoneStays
  <1>6. MyWaits(s, A, i) => MyWaits(t, B, i)
    BY <1>4, MyWaitsOn
  <1>7. QED
    BY <1>2, <1>5, <1>6 DEF MyMoved

(* AUTO_INCREMENT behind its PRIMARY KEY, or before it, or without one. *)
LEMMA MyMovedIncrement ==
  ASSUME NEW s, NEW t, MyGrows(s, "AUTO_INCREMENT", t), MyEnd(s) = "code", MySQL!OneDepth(t),
         NEW o, NEW q, NEW P, NEW A, NEW B, MyKnown(s, P), MyMoved(s, o, A),
         \/ MyDepth(s) \notin P /\ MyOn(o, q) /\ B = {MyDepth(s)}
         \/ /\ MyHasKey(s, MyDepth(s)) /\ MyGrows(o, "AUTOINCREMENT", q) /\ B = A
            /\ MyEnd(o) = "code" /\ MyCount(o, ",") = MyCount(s, ",")
  PROVE  MyMoved(t, q, B)
  <1>1. SUFFICES ASSUME NEW i \in MySQL!At(t, "AUTO_INCREMENT")
                 PROVE  MyDone(t, q, i) \/ MyWaits(t, B, i)
    BY DEF MyMoved
  <1>2. i \in MySQL!At(s, "AUTO_INCREMENT") \/ i = Len(t)
    BY MyAtStays
  <1>3. MySQL!At(s, "AUTO_INCREMENT") \subseteq 1..Len(s)
    BY MyAt, Zenon
  <1>4. MyOn(o, q)
    BY DEF MyOn, MyGrows
  <1>5. MySQL!KeysOf(t, Len(t)) = {j \in MySQL!At(s, "PRIMARY KEY") :
                                     MySQL!DepthAt(s, j) = MyDepth(s) /\ MyOpen(s, j)}
    <2>1. \A j : j \in MySQL!KeysOf(t, Len(t)) <=> /\ j \in MySQL!At(s, "PRIMARY KEY")
                                                  /\ MySQL!DepthAt(s, j) = MyDepth(s)
                                                  /\ MyOpen(s, j)
      BY MyKeysGrow
    <2>2. QED
      BY <2>1
  <1>6. MySQL!DepthAt(t, Len(t)) = MyDepth(s) /\ MySQL!Commas(t, Len(t)) = MyCount(s, ",")
    BY MyDepthGrows
  <1>7. CASE i \in MySQL!At(s, "AUTO_INCREMENT")
    <2>1. i \in 1..Len(s)
      BY <1>3, <1>7
    <2>2. MyDone(s, o, i) => MyDone(t, q, i)
      BY <1>4, <2>1, MyDoneStays
    <2>3. MySQL!DepthAt(s, i) = MyDepth(s)
      <3>1. \A k \in MySQL!At(s, "AUTO_INCREMENT") \cup MySQL!At(s, "PRIMARY KEY") :
               MySQL!DepthAt(s, k) = MyDepth(s)
        BY MyOneDepth
      <3>2. QED
        BY <1>7, <3>1
    <2>4. \A C : MyForgets(s, "AUTO_INCREMENT", C, C)
      BY DEF MyForgets
    <2>5. \A C : \A k \in 1..Len(s) : MyWaits(s, C, k) => MyWaits(t, C, k)
      BY <2>4, MyWaitsOn
    <2>6. MyWaits(s, A, i) => MyWaits(s, {MyDepth(s)}, i)
      BY <2>3 DEF MyWaits
    <2>7. MyWaits(s, {MyDepth(s)}, i) => MyWaits(t, {MyDepth(s)}, i)
      BY <2>1, <2>5
    <2>8. MyWaits(s, A, i) => MyWaits(t, A, i)
      BY <2>1, <2>5
    <2>9. QED
      BY <1>7, <2>2, <2>6, <2>7, <2>8 DEF MyMoved
  <1>8. CASE i = Len(t) /\ MyDepth(s) \notin P /\ MyOn(o, q) /\ B = {MyDepth(s)}
    <2>1. MySQL!KeysOf(t, Len(t)) = {}
      BY <1>5, <1>8 DEF MyKnown
    <2>2. QED
      BY <1>6, <1>8, <2>1 DEF MyWaits
  <1>9. CASE /\ i = Len(t)
             /\ MyHasKey(s, MyDepth(s)) /\ MyGrows(o, "AUTOINCREMENT", q) /\ B = A
             /\ MyEnd(o) = "code" /\ MyCount(o, ",") = MyCount(s, ",")
    <2>1. Len(q) \in MySQL!At(q, "AUTOINCREMENT") /\ MySQL!Commas(q, Len(q)) = MyCount(o, ",")
      BY <1>9, MyLastPlaced
    <2>2. PICK j \in MySQL!At(s, "PRIMARY KEY") : MySQL!DepthAt(s, j) = MyDepth(s) /\ MyOpen(s, j)
      BY <1>9 DEF MyHasKey
    <2>3. j \in MySQL!KeysOf(t, Len(t))
      BY <1>5, <2>2
    <2>4. MySQL!At(s, "PRIMARY KEY") \subseteq 1..Len(s)
      BY MyAt, Zenon
    <2>5. \A n \in 1..Len(s) : ~(Len(t) < n)
      BY MyEarlier
    <2>6. MyBehind(Len(t), j) = Len(t)
      <3>1. j \in 1..Len(s)
        BY <2>2, <2>4
      <3>2. QED
        BY <2>5, <3>1 DEF MyBehind
    <2>7. MySQL!Commas(q, Len(q)) = MySQL!Commas(t, MyBehind(Len(t), j))
      BY <1>6, <1>9, <2>1, <2>6
    <2>8. MyDone(t, q, Len(t))
      BY <2>1, <2>3, <2>7 DEF MyDone
    <2>9. QED
      BY <1>9, <2>8
  <1>10. QED
    BY <1>2, <1>7, <1>8, <1>9

LEMMA MyMovedKey ==
  ASSUME NEW s, NEW t, MyGrows(s, "PRIMARY KEY", t), MyEnd(s) = "code", MySQL!OneDepth(t),
         NEW o, NEW p, NEW q, NEW A, MyMoved(s, o, A), MyGrows(o, "PRIMARY KEY", p),
         MyEnd(o) = "code", MyView(o) = MyView(s),
         \/ MyDepth(s) \notin A /\ q = p
         \/ MyGrows(p, "AUTOINCREMENT", q)
  PROVE  MyMoved(t, q, A \ {MyDepth(s)})
  <1>1. SUFFICES ASSUME NEW i \in MySQL!At(t, "AUTO_INCREMENT")
                 PROVE  MyDone(t, q, i) \/ MyWaits(t, A \ {MyDepth(s)}, i)
    BY DEF MyMoved
  <1>2. i \in MySQL!At(s, "AUTO_INCREMENT")
    BY MyAtStays
  <1>3. MySQL!At(s, "AUTO_INCREMENT") \subseteq 1..Len(s)
    BY MyAt, Zenon
  <1>4. i \in 1..Len(s)
    BY <1>2, <1>3
  <1>5. MyOn(o, p)
    BY DEF MyOn, MyGrows
  <1>6. MyOn(p, q)
    <2>1. p \in Seq(MyOut)
      BY MyGrowsIs
    <2>2. QED
      BY <2>1 DEF MyOn
  <1>7. CASE MyDone(s, o, i)
    <2>1. MyDone(t, p, i)
      BY <1>4, <1>5, <1>7, MyDoneStays
    <2>2. QED
      BY <1>6, <2>1, MyDoneOn
  <1>8. MySQL!DepthAt(s, i) = MyDepth(s)
    <2>1. \A k \in MySQL!At(s, "AUTO_INCREMENT") \cup MySQL!At(s, "PRIMARY KEY") :
             MySQL!DepthAt(s, k) = MyDepth(s)
      BY MyOneDepth
    <2>2. QED
      BY <1>2, <2>1
  <1>10. CASE MyWaits(s, A, i) /\ ~MyOpen(s, i)
    <2>1. \A j \in MySQL!KeysOf(t, i) : j \in MySQL!KeysOf(s, i) \/ MyOpen(s, i)
      BY <1>4, MyKeysGrow
    <2>2. MySQL!KeysOf(t, i) = {}
      BY <1>10, <2>1 DEF MyWaits
    <2>3. MyOpen(t, i) => MyOpen(s, i)
      BY <1>4, MyColumns
    <2>4. QED
      BY <1>10, <2>2, <2>3 DEF MyWaits
  <1>11. CASE MyWaits(s, A, i) /\ MyOpen(s, i)
    <2>1. MyDepth(s) \in A
      BY <1>8, <1>11 DEF MyWaits
    <2>2. MyGrows(p, "AUTOINCREMENT", q)
      BY <2>1
    <2>3. MyView(p) = MyView(o)
      BY MyViewQuiet DEF MyQuiet
    <2>4. MyEnd(p) = "code" /\ MyCount(p, ",") = MyCount(s, ",")
      BY <2>3 DEF MyView
    <2>5. Len(q) \in MySQL!At(q, "AUTOINCREMENT") /\ MySQL!Commas(q, Len(q)) = MyCount(s, ",")
      BY <2>2, <2>4, MyLastPlaced
    <2>6. Len(t) \in MySQL!KeysOf(t, i)
      BY <1>4, <1>8, <1>11, MyKeysGrow
    <2>7. MyBehind(i, Len(t)) = Len(t)
      <3>1. \A n \in 1..Len(s) : n < Len(t)
        BY MyEarlier
      <3>2. QED
        BY <1>4, <3>1 DEF MyBehind
    <2>8. MySQL!Commas(t, Len(t)) = MyCount(s, ",")
      BY MyDepthGrows
    <2>9. MySQL!Commas(q, Len(q)) = MySQL!Commas(t, MyBehind(i, Len(t)))
      BY <2>5, <2>7, <2>8
    <2>10. MyDone(t, q, i)
      BY <2>5, <2>6, <2>9 DEF MyDone
    <2>11. QED
      BY <2>10
  <1>12. QED
    BY <1>2, <1>7, <1>10, <1>11 DEF MyMoved

(* The depths in P are those of PRIMARY KEYs whose column has not ended. *)
MyHeld(s, P) == P \subseteq Int /\ \A d \in P : ~(d > MyDepth(s)) /\ MyHasKey(s, d)

(* Lexeme l ends a column of s. *)
MyEndsColumn(s, l) == MyEnd(s) = "code" /\ l \in {",", ")"}

LEMMA MyDepthMoves ==
  ASSUME NEW s, NEW l, NEW t, MyGrows(s, l, t)
  PROVE  /\ MyDepth(s) \in Int
         /\ ~(MyDepth(s) > MyDepth(s))
         /\ \/ MyDepth(t) = MyDepth(s) \/ MyDepth(t) = MyDepth(s) + 1
            \/ MyDepth(t) = MyDepth(s) - 1 /\ MyEndsColumn(s, l)
         /\ \A d : MyCloses(s, l, d) <=> MyEndsColumn(s, l) /\ ~(MyDepth(s) > d)
  <1>1. /\ MyDepth(s) \in Int
        /\ MyEnd(s) = "code" /\ l = "(" => MyDepth(t) = MyDepth(s) + 1
        /\ MyEnd(s) = "code" /\ l = ")" => MyDepth(t) = MyDepth(s) - 1
        /\ ~(MyEnd(s) = "code" /\ l \in {"(", ")"}) => MyDepth(t) = MyDepth(s)
    BY MyDepthGrows, Zenon
  <1>2. \/ MyDepth(t) = MyDepth(s) \/ MyDepth(t) = MyDepth(s) + 1
        \/ MyDepth(t) = MyDepth(s) - 1 /\ MyEndsColumn(s, l)
    BY <1>1, Zenon DEF MyEndsColumn
  <1>3. \A d : MyCloses(s, l, d) <=> MyEndsColumn(s, l) /\ ~(MyDepth(s) > d)
    BY Zenon DEF MyEndsColumn, MyCloses
  <1>4. MyDepth(s) \in Int
    BY <1>1, Zenon
  <1>5. ~(MyDepth(s) > MyDepth(s))
    BY <1>4
  <1>6. QED
    BY <1>2, <1>3, <1>4, <1>5, Zenon

LEMMA MyHeldGrows ==
  ASSUME NEW s, NEW l, NEW t, MyGrows(s, l, t), NEW P, MyHeld(s, P), NEW Q, Q \subseteq P,
         MyEndsColumn(s, l) => MyDepth(s) \notin Q
  PROVE  MyHeld(t, Q)
  <1>1. SUFFICES ASSUME NEW d \in Q PROVE ~(d > MyDepth(t)) /\ MyHasKey(t, d)
    BY DEF MyHeld
  <1>2. d \in Int /\ ~(d > MyDepth(s)) /\ MyHasKey(s, d)
    BY DEF MyHeld
  <1>3. /\ MyDepth(s) \in Int
        /\ \/ MyDepth(t) = MyDepth(s) \/ MyDepth(t) = MyDepth(s) + 1
           \/ MyDepth(t) = MyDepth(s) - 1 /\ MyEndsColumn(s, l)
    BY MyDepthMoves
  <1>4. PICK n \in Int : n = MyDepth(s)
    BY <1>3
  <1>5. MyEndsColumn(s, l) => d # n
    BY <1>4
  <1>6. ~(d > n)
    BY <1>2, <1>4
  <1>7. ~(d > MyDepth(t))
    <2>1. CASE MyDepth(t) = n
      BY <1>6, <2>1
    <2>2. CASE MyDepth(t) = n + 1
      BY <1>2, <1>6, <2>2
    <2>3. CASE MyDepth(t) = n - 1 /\ MyEndsColumn(s, l)
      BY <1>2, <1>5, <1>6, <2>3
    <2>4. QED
      BY <1>3, <1>4, <2>1, <2>2, <2>3
  <1>8. ~MyCloses(s, l, d)
    <2>1. MyCloses(s, l, d) <=> MyEndsColumn(s, l) /\ ~(MyDepth(s) > d)
      BY MyDepthMoves
    <2>2. d # n => n > d
      BY <1>2, <1>6
    <2>3. QED
      BY <1>4, <1>5, <2>1, <2>2
  <1>9. MyHasKey(t, d)
    BY <1>2, <1>8, MyKeyStays
  <1>10. QED
    BY <1>7, <1>9

LEMMA MyHeldKey ==
  ASSUME NEW s, NEW t, MyGrows(s, "PRIMARY KEY", t), MyEnd(s) = "code"
  PROVE  MyHeld(t, {MyDepth(s)})
  <1>1. MyHasKey(t, MyDepth(s))
    BY MyNewKey
  <1>2. MyDepth(s) \in Int
    BY MyDepthGrows
  <1>3. MyView(t) = MyView(s)
    BY MyViewQuiet DEF MyQuiet
  <1>4. MyDepth(t) = MyDepth(s)
    BY <1>3 DEF MyView
  <1>5. ~(MyDepth(s) > MyDepth(s))
    BY MyDepthMoves, Zenon
  <1>6. QED
    BY <1>1, <1>2, <1>4, <1>5 DEF MyHeld

(* Text s is translated to o, with the depths P and A remembered.            *)
MyGood(s, o, P, A) ==
    /\ MyView(s) = MyView(o)
    /\ MyHeld(s, P) /\ MyHeld(o, P)
    /\ MyPlaced(o)
    /\ MySQL!OneDepth(s) => MyKnown(s, P) /\ MyMoved(s, o, A)
    /\ MyKept(o) = MyWanted(s)

(* A lexeme that is copied, and what it leaves of the depths remembered. *)
MyCopied(s, l) ==
    /\ l # "AUTOINCREMENT"
    /\ MyEnd(s) = "code" => l \notin {"AUTO_INCREMENT", "PRIMARY KEY", "ENGINE=InnoDB", "INT"}

MyRemembers(s, l, P, Q) == Q = IF MyEndsColumn(s, l) THEN P \ {MyDepth(s)} ELSE P

LEMMA MyCopiedIs ==
  ASSUME NEW s, NEW l, MyCopied(s, l)
  PROVE  /\ \A o : MyFounded(o, l)
         /\ MyKeptAt(l) = MyWantedAt(s, l)
         /\ ~(MyEnd(s) = "code" /\ l = "PRIMARY KEY")
         /\ ~(MyEnd(s) = "code" /\ l \in {"AUTO_INCREMENT", "PRIMARY KEY"})
  BY Zenon DEF MyCopied, MyFounded, MyKeptAt, MyWantedAt

LEMMA MyRemembersIs ==
  ASSUME NEW s, NEW l, NEW t, MyGrows(s, l, t), NEW P, NEW Q, MyRemembers(s, l, P, Q)
  PROVE  /\ Q \subseteq P
         /\ MyEndsColumn(s, l) => MyDepth(s) \notin Q
         /\ MyForgets(s, l, P, Q)
  <1>1. ~(MyDepth(s) > MyDepth(s)) /\ \A d : MyCloses(s, l, d) <=> MyEndsColumn(s, l) /\ ~(MyDepth(s) > d)
    BY MyDepthMoves
  <1>2. QED
    BY <1>1 DEF MyRemembers, MyForgets

LEMMA MyGoodCopy ==
  ASSUME NEW s, NEW l, NEW t, MyGrows(s, l, t), NEW o, NEW q, MyGrows(o, l, q),
         NEW P, NEW A, MyGood(s, o, P, A), MyCopied(s, l),
         NEW Q, NEW B, MyRemembers(s, l, P, Q), MyRemembers(s, l, A, B)
  PROVE  MyGood(t, q, Q, B)
  <1>1. /\ MyView(s) = MyView(o)
        /\ MyHeld(s, P) /\ MyHeld(o, P)
        /\ MyPlaced(o)
        /\ MyKept(o) = MyWanted(s)
    BY DEF MyGood
  <1>2. MyView(t) = MyView(q)
    BY <1>1, MyViewCopied
  <1>3. MyEnd(s) = MyEnd(o) /\ MyDepth(s) = MyDepth(o)
    BY <1>1 DEF MyView
  <1>4. Q \subseteq P /\ (MyEndsColumn(s, l) => MyDepth(s) \notin Q)
    BY MyRemembersIs
  <1>5. MyHeld(t, Q)
    BY <1>1, <1>4, MyHeldGrows
  <1>6. MyHeld(q, Q)
    <2>1. MyEndsColumn(o, l) => MyDepth(o) \notin Q
      BY <1>3, <1>4 DEF MyEndsColumn
    <2>2. QED
      BY <1>1, <1>4, <2>1, MyHeldGrows
  <1>7. MyPlaced(q)
    <2>1. MyFounded(o, l)
      BY MyCopiedIs
    <2>2. QED
      BY <1>1, <2>1, MyPlacedGrows
  <1>8. MyForgets(s, l, P, Q) /\ MyForgets(s, l, A, B)
    BY MyRemembersIs
  <1>9. ASSUME MySQL!OneDepth(t) PROVE MyKnown(t, Q) /\ MyMoved(t, q, B)
    <2>1. MySQL!OneDepth(s)
      BY <1>9, MyOneDepth
    <2>2. MyKnown(s, P) /\ MyMoved(s, o, A)
      BY <2>1 DEF MyGood
    <2>3. ~(MyEnd(s) = "code" /\ l = "PRIMARY KEY")
      BY MyCopiedIs
    <2>4. MyKnown(t, Q)
      BY <1>8, <2>2, <2>3, MyKnownGrows
    <2>5. MyOn(o, q)
      BY DEF MyOn, MyGrows
    <2>6. ~(MyEnd(s) = "code" /\ l \in {"AUTO_INCREMENT", "PRIMARY KEY"})
      BY MyCopiedIs
    <2>7. MyMoved(t, q, B)
      BY <1>8, <2>2, <2>5, <2>6, MyMovedOther
    <2>8. QED
      BY <2>4, <2>7
  <1>10. MyKept(q) = MyWanted(t)
    <2>1. MyKept(q) = MyKept(o) \o MyKeptAt(l)
      BY MyKeptGrows
    <2>2. MyWanted(t) = MyWanted(s) \o MyWantedAt(s, l)
      BY MyWantedGrows
    <2>3. MyKeptAt(l) = MyWantedAt(s, l)
      BY MyCopiedIs
    <2>4. QED
      BY <1>1, <2>1, <2>2, <2>3
  <1>11. QED
    BY <1>2, <1>5, <1>6, <1>7, <1>9, <1>10 DEF MyGood

(* A type that is renamed, or an option that is dropped. *)
LEMMA MyGoodRewritten ==
  ASSUME NEW s, NEW l, NEW t, MyGrows(s, l, t), MyEnd(s) = "code",
         NEW o, NEW q, NEW P, NEW A, MyGood(s, o, P, A),
         \/ l = "INT" /\ MyGrows(o, "INTEGER", q)
         \/ l = "ENGINE=InnoDB" /\ q = o /\ o \in Seq(MyOut)
  PROVE  MyGood(t, q, P, A)
  <1>1. /\ MyView(s) = MyView(o)
        /\ MyHeld(s, P) /\ MyHeld(o, P)
        /\ MyPlaced(o)
        /\ MyKept(o) = MyWanted(s)
    BY DEF MyGood
  <1>2. MyEnd(o) = "code"
    BY <1>1 DEF MyView
  <1>3. l \in MyQuiet /\ l \notin {",", ")"} /\ l \notin {"AUTO_INCREMENT", "PRIMARY KEY"}
    BY Zenon DEF MyQuiet
  <1>12. ~MyEndsColumn(s, l) /\ ~MyEndsColumn(o, "INTEGER")
    BY <1>3, Zenon DEF MyEndsColumn
  <1>4. MyView(t) = MyView(s)
    BY <1>3, MyViewQuiet
  <1>5. MyView(q) = MyView(o)
    BY <1>2, MyViewQuiet DEF MyQuiet
  <1>6. MyHeld(t, P)
    BY <1>1, <1>12, MyHeldGrows
  <1>7. MyHeld(q, P)
    <2>1. ASSUME MyGrows(o, "INTEGER", q) PROVE MyHeld(q, P)
      BY <1>1, <1>12, <2>1, MyHeldGrows
    <2>2. QED
      BY <1>1, <2>1
  <1>8. MyPlaced(q)
    <2>1. MyFounded(o, "INTEGER")
      BY DEF MyFounded
    <2>2. ASSUME MyGrows(o, "INTEGER", q) PROVE MyPlaced(q)
      BY <1>1, <2>1, <2>2, MyPlacedGrows
    <2>3. QED
      BY <1>1, <2>2
  <1>9. ASSUME MySQL!OneDepth(t) PROVE MyKnown(t, P) /\ MyMoved(t, q, A)
    <2>1. MySQL!OneDepth(s)
      BY <1>9, MyOneDepth
    <2>2. MyKnown(s, P) /\ MyMoved(s, o, A)
      BY <2>1 DEF MyGood
    <2>3. MyForgets(s, l, P, P) /\ MyForgets(s, l, A, A)
      BY DEF MyForgets
    <2>4. MyKnown(t, P)
      BY <1>3, <2>2, <2>3, MyKnownGrows
    <2>5. MyOn(o, q)
      BY DEF MyOn, MyGrows
    <2>6. MyMoved(t, q, A)
      BY <1>3, <2>2, <2>3, <2>5, MyMovedOther
    <2>7. QED
      BY <2>4, <2>6
  <1>10. MyKept(q) = MyWanted(t)
    <2>1. MyWanted(t) = MyWanted(s) \o MyWantedAt(s, l) /\ MyWanted(s) \in Seq(MyOut)
      BY MyWantedGrows
    <2>2. CASE l = "INT" /\ MyGrows(o, "INTEGER", q)
      <3>1. MyKept(q) = MyKept(o) \o MyKeptAt("INTEGER")
        BY <2>2, MyKeptGrows
      <3>2. MyKeptAt("INTEGER") = MyWantedAt(s, l)
        BY <2>2 DEF MyKeptAt, MyWantedAt
      <3>3. QED
        BY <1>1, <2>1, <3>1, <3>2
    <2>3. CASE l = "ENGINE=InnoDB" /\ q = o
      <3>1. MyWantedAt(s, l) = <<>>
        BY <2>3 DEF MyWantedAt
      <3>2. MyWanted(t) = MyWanted(s)
        BY <2>1, <3>1
      <3>3. QED
        BY <1>1, <2>3, <3>2
    <2>4. QED
      BY <2>2, <2>3
  <1>11. QED
    BY <1>1, <1>4, <1>5, <1>6, <1>7, <1>8, <1>9, <1>10 DEF MyGood

(* AUTO_INCREMENT: emitted behind a PRIMARY KEY, otherwise remembered. *)
LEMMA MyGoodIncrement ==
  ASSUME NEW s, NEW t, MyGrows(s, "AUTO_INCREMENT", t), MyEnd(s) = "code",
         NEW o, NEW q, NEW P, NEW A, NEW B, MyGood(s, o, P, A),
         \/ MyDepth(s) \in P /\ MyGrows(o, "AUTOINCREMENT", q) /\ B = A
         \/ MyDepth(s) \notin P /\ q = o /\ o \in Seq(MyOut) /\ B = {MyDepth(s)}
  PROVE  MyGood(t, q, P, B)
  <1>1. /\ MyView(s) = MyView(o)
        /\ MyHeld(s, P) /\ MyHeld(o, P)
        /\ MyPlaced(o)
        /\ MyKept(o) = MyWanted(s)
    BY DEF MyGood
  <1>2. MyEnd(o) = "code" /\ MyDepth(o) = MyDepth(s) /\ MyCount(o, ",") = MyCount(s, ",")
    BY <1>1, Zenon DEF MyView
  <1>3. ~MyEndsColumn(s, "AUTO_INCREMENT") /\ ~MyEndsColumn(o, "AUTOINCREMENT")
    BY Zenon DEF MyEndsColumn
  <1>4. MyView(t) = MyView(s)
    BY MyViewQuiet DEF MyQuiet
  <1>5. MyGrows(o, "AUTOINCREMENT", q) => MyView(q) = MyView(o)
    BY <1>2, MyViewQuiet DEF MyQuiet
  <1>6. MyHeld(t, P)
    BY <1>1, <1>3, MyHeldGrows
  <1>7. MyGrows(o, "AUTOINCREMENT", q) => MyHeld(q, P)
    BY <1>1, <1>3, MyHeldGrows
  <1>8. MyDepth(s) \in P => MyHasKey(s, MyDepth(s)) /\ MyHasKey(o, MyDepth(o))
    BY <1>1, <1>2 DEF MyHeld
  <1>9. MyPlaced(q)
    <2>1. CASE MyDepth(s) \in P /\ MyGrows(o, "AUTOINCREMENT", q)
      <3>1. MyFounded(o, "AUTOINCREMENT")
        BY <1>8, <2>1 DEF MyFounded
      <3>2. QED
        BY <1>1, <2>1, <3>1, MyPlacedGrows
    <2>2. CASE q = o
      BY <1>1, <2>2
    <2>3. QED
      BY <2>1, <2>2
  <1>10. ASSUME MySQL!OneDepth(t) PROVE MyKnown(t, P) /\ MyMoved(t, q, B)
    <2>1. MySQL!OneDepth(s)
      BY <1>10, MyOneDepth
    <2>2. MyKnown(s, P) /\ MyMoved(s, o, A)
      BY <2>1 DEF MyGood
    <2>3. MyForgets(s, "AUTO_INCREMENT", P, P)
      BY DEF MyForgets
    <2>4. MyKnown(t, P)
      <3>1. ~(MyEnd(s) = "code" /\ "AUTO_INCREMENT" = "PRIMARY KEY")
        BY Zenon
      <3>2. QED
        BY <2>2, <2>3, <3>1, MyKnownGrows, Zenon
    <2>5. o \in Seq(MyOut)
      BY DEF MyGrows
    <2>6. MyOn(o, o)
      BY <2>5 DEF MyOn
    <2>7. \/ MyDepth(s) \notin P /\ MyOn(o, q) /\ B = {MyDepth(s)}
          \/ /\ MyHasKey(s, MyDepth(s)) /\ MyGrows(o, "AUTOINCREMENT", q) /\ B = A
             /\ MyEnd(o) = "code" /\ MyCount(o, ",") = MyCount(s, ",")
      BY <1>2, <1>8, <2>6, Zenon
    <2>8. MyMoved(t, q, B)
      BY <1>10, <2>2, <2>7, MyMovedIncrement, Zenon
    <2>9. QED
      BY <2>4, <2>8
  <1>11. MyKept(q) = MyWanted(t)
    <2>1. MyWanted(t) = MyWanted(s) \o MyWantedAt(s, "AUTO_INCREMENT") /\ MyWanted(s) \in Seq(MyOut)
      BY MyWantedGrows
    <2>2. MyWantedAt(s, "AUTO_INCREMENT") = <<>>
      BY DEF MyWantedAt
    <2>3. MyWanted(t) = MyWanted(s)
      BY <2>1, <2>2
    <2>4. MyGrows(o, "AUTOINCREMENT", q) =>
             MyKept(q) = MyKept(o) \o MyKeptAt("AUTOINCREMENT") /\ MyKept(o) \in Seq(MyOut)
      BY MyKeptGrows
    <2>5. MyKeptAt("AUTOINCREMENT") = <<>>
      BY DEF MyKeptAt
    <2>6. MyGrows(o, "AUTOINCREMENT", q) => MyKept(q) = MyKept(o)
      BY <2>4, <2>5
    <2>7. QED
      BY <1>1, <2>3, <2>6
  <1>12. MyView(t) = MyView(q) /\ MyHeld(q, P)
    BY <1>1, <1>4, <1>5, <1>7
  <1>13. QED
    BY <1>6, <1>9, <1>10, <1>11, <1>12 DEF MyGood

(* PRIMARY KEY, in both texts. *)
MyGrowsKey(s, t) == MyGrows(s, "PRIMARY KEY", t)

LEMMA MyKeyIs ==
  ASSUME NEW s, NEW t, MyGrowsKey(s, t), MyEnd(s) = "code"
  PROVE  /\ MyView(t) = MyView(s)
         /\ MyHeld(t, {MyDepth(s)})
         /\ MyPlaced(s) => MyPlaced(t)
         /\ MyWanted(t) = MyWanted(s) \o <<"PRIMARY KEY">>
         /\ MyKept(t) = MyKept(s) \o <<"PRIMARY KEY">>
         /\ MySQL!OneDepth(t) => MySQL!OneDepth(s) /\ MyKnown(t, {MyDepth(s)})
         /\ t \in Seq(MyOut)
  <1>0. MyGrows(s, "PRIMARY KEY", t)
    BY Zenon DEF MyGrowsKey
  <1>1. MyView(t) = MyView(s)
    BY <1>0, MyViewQuiet, Zenon DEF MyQuiet
  <1>2. MyHeld(t, {MyDepth(s)})
    BY <1>0, MyHeldKey, Zenon
  <1>3. MyPlaced(s) => MyPlaced(t)
    <2>1. MyFounded(s, "PRIMARY KEY")
      BY Zenon DEF MyFounded
    <2>2. QED
      BY <1>0, <2>1, MyPlacedGrows, Zenon
  <1>4. MyWanted(t) = MyWanted(s) \o <<"PRIMARY KEY">>
    <2>1. MyWanted(t) = MyWanted(s) \o MyWantedAt(s, "PRIMARY KEY")
      BY <1>0, MyWantedGrows, Zenon
    <2>2. MyWantedAt(s, "PRIMARY KEY") = <<"PRIMARY KEY">>
      BY Zenon DEF MyWantedAt
    <2>3. QED
      BY <2>1, <2>2, Zenon
  <1>5. MyKept(t) = MyKept(s) \o <<"PRIMARY KEY">>
    <2>1. MyKept(t) = MyKept(s) \o MyKeptAt("PRIMARY KEY")
      BY <1>0, MyKeptGrows, Zenon
    <2>2. MyKeptAt("PRIMARY KEY") = <<"PRIMARY KEY">>
      BY Zenon DEF MyKeptAt
    <2>3. QED
      BY <2>1, <2>2, Zenon
  <1>6. ASSUME MySQL!OneDepth(t) PROVE MySQL!OneDepth(s) /\ MyKnown(t, {MyDepth(s)})
    <2>1. /\ MySQL!OneDepth(s)
          /\ MyEnd(s) = "code" /\ "PRIMARY KEY" \in {"AUTO_INCREMENT", "PRIMARY KEY"} =>
               \A i \in MySQL!At(s, "AUTO_INCREMENT") \cup MySQL!At(s, "PRIMARY KEY") :
                   MySQL!DepthAt(s, i) = MyDepth(s)
      BY <1>0, <1>6, MyOneDepth, Zenon
    <2>2. MyKnown(s, {MyDepth(s)})
      BY <2>1, Zenon DEF MyKnown
    <2>3. MyForgets(s, "PRIMARY KEY", {MyDepth(s)}, {MyDepth(s)})
      BY Zenon DEF MyForgets
    <2>4. MyKnown(t, {MyDepth(s)})
      BY <1>0, <2>2, <2>3, MyKnownGrows, Zenon
    <2>5. QED
      BY <2>1, <2>4, Zenon
  <1>7. t \in Seq(MyOut)
    BY <1>0, MyGrowsIs, Zenon
  <1>8. QED
    BY <1>1, <1>2, <1>3, <1>4, <1>5, <1>6, <1>7, Zenon

LEMMA MyGoodKey ==
  ASSUME NEW s, NEW t, MyGrowsKey(s, t), MyEnd(s) = "code", NEW o, NEW p, NEW q, MyGrowsKey(o, p),
         NEW P, NEW A, MyGood(s, o, P, A),
         \/ MyDepth(s) \in A /\ MyGrows(p, "AUTOINCREMENT", q)
         \/ MyDepth(s) \notin A /\ q = p
  PROVE  MyGood(t, q, {MyDepth(s)}, A \ {MyDepth(s)})
  <1>1. /\ MyView(s) = MyView(o)
        /\ MyPlaced(o)
        /\ MyKept(o) = MyWanted(s)
    BY DEF MyGood
  <1>2. MyEnd(o) = "code" /\ MyDepth(o) = MyDepth(s)
    BY <1>1 DEF MyView
  <1>3. MyView(t) = MyView(s) /\ MyView(p) = MyView(o)
    BY <1>2, MyKeyIs
  <1>4. MyEnd(p) = "code" /\ MyDepth(p) = MyDepth(s)
    BY <1>2, <1>3 DEF MyView
  <1>5. MyHeld(t, {MyDepth(s)})
    BY MyKeyIs
  <1>6. MyHeld(p, {MyDepth(s)})
    BY <1>2, MyKeyIs
  <1>7. MyPlaced(p)
    BY <1>1, <1>2, MyKeyIs
  <1>8. ASSUME MyGrows(p, "AUTOINCREMENT", q)
        PROVE  MyView(q) = MyView(p) /\ MyHeld(q, {MyDepth(s)}) /\ MyPlaced(q) /\ MyKept(q) = MyKept(p)
    <2>1. MyView(q) = MyView(p)
      BY <1>4, <1>8, MyViewQuiet DEF MyQuiet
    <2>2. ~MyEndsColumn(p, "AUTOINCREMENT")
      BY Zenon DEF MyEndsColumn
    <2>3. MyHeld(q, {MyDepth(s)})
      BY <1>6, <1>8, <2>2, MyHeldGrows
    <2>4. MyFounded(p, "AUTOINCREMENT")
      BY <1>4, <1>6 DEF MyHeld, MyFounded
    <2>5. MyPlaced(q)
      BY <1>7, <1>8, <2>4, MyPlacedGrows
    <2>6. MyKept(q) = MyKept(p) \o MyKeptAt("AUTOINCREMENT") /\ MyKept(p) \in Seq(MyOut)
      BY <1>8, MyKeptGrows
    <2>7. MyKeptAt("AUTOINCREMENT") = <<>>
      BY DEF MyKeptAt
    <2>8. MyKept(q) = MyKept(p)
      BY <2>6, <2>7
    <2>9. QED
      BY <2>1, <2>3, <2>5, <2>8
  <1>9. MyKept(p) = MyWanted(t)
    <2>1. MyWanted(t) = MyWanted(s) \o <<"PRIMARY KEY">>
      BY MyKeyIs, Zenon
    <2>2. MyKept(p) = MyKept(o) \o <<"PRIMARY KEY">>
      BY <1>2, MyKeyIs, Zenon
    <2>3. QED
      BY <1>1, <2>1, <2>2, Zenon
  <1>10. /\ MyView(t) = MyView(q) /\ MyHeld(q, {MyDepth(s)}) /\ MyPlaced(q) /\ MyKept(q) = MyWanted(t)
    BY <1>1, <1>3, <1>6, <1>7, <1>8, <1>9
  <1>11. ASSUME MySQL!OneDepth(t)
         PROVE  MyKnown(t, {MyDepth(s)}) /\ MyMoved(t, q, A \ {MyDepth(s)})
    <2>1. MySQL!OneDepth(s) /\ MyKnown(t, {MyDepth(s)})
      BY <1>11, MyKeyIs
    <2>2. MyMoved(s, o, A)
      BY <2>1 DEF MyGood
    <2>3. MyGrows(s, "PRIMARY KEY", t) /\ MyGrows(o, "PRIMARY KEY", p)
      BY Zenon DEF MyGrowsKey
    <2>4. MyMoved(t, q, A \ {MyDepth(s)})
      BY <1>1, <1>2, <1>11, <2>2, <2>3, MyMovedKey, Zenon
    <2>5. QED
      BY <2>1, <2>4
  <1>12. QED
    BY <1>5, <1>10, <1>11 DEF MyGood

-----------------------------------------------------------------------------
(* The invariant of mysqlwire/translate.go: the pass stands where MySQL does *)
(* and what it has translated is right.                                      *)
MyIInv ==
    /\ myInput \in Seq(MySQL!Lexeme) /\ out \in Seq(MyOut)
    /\ region = MyEnd(myInput) /\ parenDepth = MyDepth(myInput)
    /\ params = MyCount(myInput, "?")
    /\ MyGood(myInput, out, primaryKey, autoInc)

LEMMA MyIInvImplies ==
  ASSUME MyIInv
  PROVE  MySQL!AutoIncrementPlaced /\ MySQL!QuotedKept /\ MySQL!ParamsCounted
  <1>1. MyGood(myInput, out, primaryKey, autoInc) /\ params = MyCount(myInput, "?")
    BY Zenon DEF MyIInv
  <1>2. MyPlaced(out) /\ MyView(myInput) = MyView(out) /\ MyKept(out) = MyWanted(myInput)
    BY <1>1 DEF MyGood
  <1>3. MySQL!OneDepth(myInput) => MyMoved(myInput, out, autoInc)
    BY <1>1 DEF MyGood
  <1>4. ASSUME MySQL!OneDepth(myInput), NEW i \in MySQL!At(myInput, "AUTO_INCREMENT"),
               MySQL!KeysOf(myInput, i) # {}
        PROVE  \E j \in MySQL!KeysOf(myInput, i), k \in MySQL!At(out, "AUTOINCREMENT") :
                   MySQL!Commas(out, k) = MySQL!Commas(myInput, IF i < j THEN j ELSE i)
    <2>1. MyDone(myInput, out, i)
      BY <1>3, <1>4 DEF MyMoved, MyWaits
    <2>2. QED
      BY <2>1 DEF MyDone, MyBehind
  <1>5. MySQL!AutoIncrementPlaced
    BY <1>2, <1>4, Zenon DEF MyPlaced, MySQL!AutoIncrementPlaced
  <1>6. MySQL!QuotedKept
    BY <1>2, Zenon DEF MyKept, MyKeptAt, MyWanted, MySQL!QuotedKept
  <1>7. MySQL!ParamsCounted
    <2>1. params = MyCount(out, "?")
      BY <1>1, <1>2, Zenon DEF MyView
    <2>2. QED
      BY <2>1, MyCardinality, Zenon DEF MyCount, MySQL!ParamsCounted
  <1>8. QED
    BY <1>5, <1>6, <1>7

LEMMA MyInitIInv ==
  ASSUME MySQL!Init
  PROVE  MyIInv
  <1>1. /\ myInput = <<>> /\ out = <<>> /\ region = "code" /\ parenDepth = 0
        /\ autoInc = {} /\ primaryKey = {} /\ params = 0
    BY DEF MySQL!Init
  <1>2. PICK s : s = <<>>
    OBVIOUS
  <1>3. s \in Seq(MyOut) /\ s \in Seq(MySQL!Lexeme)
    BY <1>2
  <1>4. MySQL!Code(s) = {}
    BY <1>2 DEF MySQL!Code
  <1>5. \A x : MySQL!At(s, x) = {}
    BY <1>4 DEF MySQL!At
  <1>6. \A x : MyCount(s, x) = 0
    <2>1. Cardinality({}) = 0
      BY FS_EmptySet
    <2>2. QED
      BY <1>5, <2>1 DEF MyCount
  <1>7. MyDepth(s) = 0
    BY <1>6 DEF MyDepth
  <1>8. MyHeld(s, {})
    BY DEF MyHeld
  <1>9. MyPlaced(s) /\ MyKnown(s, {}) /\ MyMoved(s, s, {})
    BY <1>5, Zenon DEF MyPlaced, MyKnown, MyMoved
  <1>10. MyKept(s) = MyWanted(s)
    BY <1>2, MyNothing
  <1>11. MyGood(s, s, {}, {})
    BY <1>8, <1>9, <1>10 DEF MyGood
  <1>12. MyEnd(s) = "code"
    BY <1>2, MyEmpty
  <1>13. QED
    BY <1>1, <1>2, <1>3, <1>6, <1>7, <1>11, <1>12, Zenon DEF MyIInv

LEMMA AppendTwo ==
  ASSUME NEW V, NEW o \in Seq(V), NEW a \in V, NEW b \in V
  PROVE  /\ o \o <<a>> = Append(o, a)
         /\ o \o <<a, b>> = Append(Append(o, a), b)
         /\ Append(o, a) \in Seq(V)
  OBVIOUS


LEMMA MyCopyStep ==
  ASSUME MyIInv, NEW l \in MySQL!Lexeme, NEW t, MyGrows(myInput, l, t), MySQL!Copy(l)
  PROVE  out' \in Seq(MyOut) /\ parenDepth' = MyDepth(t) /\ MyGood(t, out', primaryKey', autoInc')
  <1>1. PICK s : s = myInput
    OBVIOUS
  <1>2. PICK o : o = out
    OBVIOUS
  <1>3. PICK P : P = primaryKey
    OBVIOUS
  <1>4. PICK A : A = autoInc
    OBVIOUS
  <1>5. /\ region = MyEnd(s) /\ parenDepth = MyDepth(s) /\ o \in Seq(MyOut)
        /\ MyGood(s, o, P, A) /\ MyGrows(s, l, t)
    BY <1>1, <1>2, <1>3, <1>4, Zenon DEF MyIInv
  <1>6. l \in MyOut /\ l # "AUTOINCREMENT"
    BY DEF MySQL!Lexeme, MyOut
  <1>7. PICK q : q = Append(o, l)
    OBVIOUS
  <1>8. MyGrows(o, l, q) /\ q \in Seq(MyOut)
    BY <1>5, <1>6, <1>7, AppendIs DEF MyGrows
  <1>9. out' = q
    BY <1>2, <1>7, Zenon DEF MySQL!Copy
  <1>10. MyCopied(s, l)
    BY <1>5, <1>6, Zenon DEF MyCopied, MySQL!Copy
  <1>11. MyRemembers(s, l, P, primaryKey')
    <2>1. CASE region = "code"
      BY <1>3, <1>5, <2>1, Zenon DEF MyRemembers, MyEndsColumn, MySQL!Copy, MySQL!ColumnState
    <2>2. CASE region # "code"
      BY <1>3, <1>5, <2>2, Zenon DEF MyRemembers, MyEndsColumn, MySQL!Copy
    <2>3. QED
      BY <2>1, <2>2
  <1>12. MyRemembers(s, l, A, autoInc')
    <2>1. CASE region = "code"
      BY <1>4, <1>5, <2>1, Zenon DEF MyRemembers, MyEndsColumn, MySQL!Copy, MySQL!ColumnState
    <2>2. CASE region # "code"
      BY <1>4, <1>5, <2>2, Zenon DEF MyRemembers, MyEndsColumn, MySQL!Copy
    <2>3. QED
      BY <2>1, <2>2
  <1>13. MyGood(t, q, primaryKey', autoInc')
    BY <1>5, <1>8, <1>10, <1>11, <1>12, MyGoodCopy, Zenon
  <1>14. parenDepth' = MyDepth(t)
    <2>1. /\ MyDepth(s) \in Int
          /\ MyEnd(s) = "code" /\ l = "(" => MyDepth(t) = MyDepth(s) + 1
          /\ MyEnd(s) = "code" /\ l = ")" => MyDepth(t) = MyDepth(s) - 1
          /\ ~(MyEnd(s) = "code" /\ l \in {"(", ")"}) => MyDepth(t) = MyDepth(s)
      BY <1>5, MyDepthGrows, Zenon
    <2>2. CASE region = "code" /\ l = "("
      <3>1. parenDepth' = parenDepth + 1
        BY <2>2, Zenon DEF MySQL!Copy
      <3>2. QED
        BY <1>5, <2>1, <2>2, <3>1, Zenon
    <2>3. CASE region = "code" /\ l = ")"
      <3>1. parenDepth' = parenDepth - 1
        <4>1. parenDepth' = parenDepth + -1
          BY <2>3, Zenon DEF MySQL!Copy
        <4>2. PICK n \in Int : n = parenDepth
          BY <1>5, <2>1, Zenon
        <4>3. n + -1 = n - 1
          BY <4>2
        <4>4. QED
          BY <4>1, <4>2, <4>3, Zenon
      <3>2. QED
        BY <1>5, <2>1, <2>3, <3>1, Zenon
    <2>4. CASE ~(region = "code" /\ l \in {"(", ")"})
      <3>1. parenDepth' = parenDepth
        <4>1. CASE region # "code"
          BY <4>1, Zenon DEF MySQL!Copy
        <4>2. CASE region = "code" /\ l \notin {"(", ")"}
          <5>1. parenDepth' = parenDepth + 0
            BY <4>2, Zenon DEF MySQL!Copy
          <5>2. PICK n \in Int : n = parenDepth
            BY <1>5, <2>1, Zenon
          <5>3. n + 0 = n
            BY <5>2
          <5>4. QED
            BY <5>1, <5>2, <5>3, Zenon
        <4>3. QED
          BY <2>4, <4>1, <4>2, Zenon
      <3>2. QED
        BY <1>5, <2>1, <2>4, <3>1, Zenon
    <2>5. QED
      BY <2>2, <2>3, <2>4, Zenon
  <1>15. QED
    BY <1>8, <1>9, <1>13, <1>14

LEMMA MyIncrementStep ==
  ASSUME MyIInv, NEW l, NEW t, MyGrows(myInput, l, t), MySQL!AutoIncrement(l)
  PROVE  out' \in Seq(MyOut) /\ parenDepth' = MyDepth(t) /\ MyGood(t, out', primaryKey', autoInc')
  <1>1. PICK s : s = myInput
    OBVIOUS
  <1>2. PICK o : o = out
    OBVIOUS
  <1>3. PICK P : P = primaryKey
    OBVIOUS
  <1>4. PICK A : A = autoInc
    OBVIOUS
  <1>5. /\ region = MyEnd(s) /\ parenDepth = MyDepth(s) /\ o \in Seq(MyOut)
        /\ MyGood(s, o, P, A)
    BY <1>1, <1>2, <1>3, <1>4, Zenon DEF MyIInv
  <1>6. /\ region = "code" /\ l = "AUTO_INCREMENT" /\ parenDepth' = parenDepth /\ primaryKey' = P
        /\ parenDepth \in P => out' = Append(o, "AUTOINCREMENT") /\ autoInc' = A
        /\ parenDepth \notin P => autoInc' = {parenDepth} /\ out' = o
    BY <1>2, <1>3, <1>4, Zenon DEF MySQL!AutoIncrement
  <1>7. MyGrows(s, "AUTO_INCREMENT", t) /\ MyEnd(s) = "code"
    BY <1>1, <1>5, <1>6, Zenon
  <1>8. MyDepth(t) = MyDepth(s)
    <2>1. MyView(t) = MyView(s)
      BY <1>7, MyViewQuiet DEF MyQuiet
    <2>2. QED
      BY <2>1 DEF MyView
  <1>9. PICK q : q = Append(o, "AUTOINCREMENT")
    OBVIOUS
  <1>10. MyGrows(o, "AUTOINCREMENT", q) /\ q \in Seq(MyOut)
    <2>1. "AUTOINCREMENT" \in MyOut
      BY DEF MyOut
    <2>2. QED
      BY <1>5, <1>9, <2>1, AppendIs DEF MyGrows
  <1>11. CASE MyDepth(s) \in P
    <2>1. out' = q /\ autoInc' = A
      BY <1>5, <1>6, <1>9, <1>11
    <2>2. MyGood(t, q, P, A)
      BY <1>5, <1>7, <1>10, <1>11, MyGoodIncrement
    <2>3. QED
      BY <1>5, <1>6, <1>8, <1>10, <2>1, <2>2
  <1>12. CASE MyDepth(s) \notin P
    <2>1. out' = o /\ autoInc' = {MyDepth(s)}
      BY <1>5, <1>6, <1>12
    <2>2. MyGood(t, o, P, {MyDepth(s)})
      BY <1>5, <1>7, <1>12, MyGoodIncrement
    <2>3. QED
      BY <1>5, <1>6, <1>8, <2>1, <2>2
  <1>13. QED
    BY <1>11, <1>12

LEMMA MyKeyStep ==
  ASSUME MyIInv, NEW l, NEW t, MyGrows(myInput, l, t), MySQL!PrimaryKey(l)
  PROVE  out' \in Seq(MyOut) /\ parenDepth' = MyDepth(t) /\ MyGood(t, out', primaryKey', autoInc')
  <1>1. PICK s : s = myInput
    OBVIOUS
  <1>2. PICK o : o = out
    OBVIOUS
  <1>3. PICK P : P = primaryKey
    OBVIOUS
  <1>4. PICK A : A = autoInc
    OBVIOUS
  <1>5. /\ region = MyEnd(s) /\ parenDepth = MyDepth(s) /\ o \in Seq(MyOut)
        /\ MyGood(s, o, P, A)
    BY <1>1, <1>2, <1>3, <1>4, Zenon DEF MyIInv
  <1>6. l \in MyOut /\ "AUTOINCREMENT" \in MyOut
    BY Zenon DEF MyGrows, MyOut
  <1>7. PICK p : p = Append(o, l)
    OBVIOUS
  <1>8. PICK q : q = Append(p, "AUTOINCREMENT")
    OBVIOUS
  <1>9. /\ region = "code" /\ l = "PRIMARY KEY" /\ parenDepth' = parenDepth
        /\ primaryKey' = {parenDepth} /\ autoInc' = A \ {parenDepth}
        /\ parenDepth \in A => out' = o \o <<l, "AUTOINCREMENT">>
        /\ parenDepth \notin A => out' = o \o <<l>>
    BY <1>2, <1>4, Zenon DEF MySQL!PrimaryKey
  <1>10. MyGrowsKey(s, t) /\ MyEnd(s) = "code"
    BY <1>1, <1>5, <1>9, Zenon DEF MyGrowsKey
  <1>11. p \in Seq(MyOut) /\ o \o <<l>> = p /\ o \o <<l, "AUTOINCREMENT">> = q
    <2>1. /\ o \o <<l>> = Append(o, l)
          /\ o \o <<l, "AUTOINCREMENT">> = Append(Append(o, l), "AUTOINCREMENT")
          /\ Append(o, l) \in Seq(MyOut)
      <3>1. \A r \in Seq(MyOut), a, b \in MyOut :
               /\ r \o <<a>> = Append(r, a)
               /\ r \o <<a, b>> = Append(Append(r, a), b)
               /\ Append(r, a) \in Seq(MyOut)
        BY AppendTwo
      <3>2. QED
        BY <1>5, <1>6, <3>1, Zenon
    <2>2. QED
      BY <1>7, <1>8, <2>1, Zenon
  <1>12. MyGrowsKey(o, p)
    BY <1>5, <1>6, <1>7, <1>9, Zenon DEF MyGrows, MyGrowsKey
  <1>13. MyGrows(p, "AUTOINCREMENT", q)
    BY <1>6, <1>8, <1>11, Zenon DEF MyGrows
  <1>14. q \in Seq(MyOut)
    BY <1>13, MyGrowsIs, Zenon
  <1>15. MyDepth(t) = MyDepth(s)
    <2>1. MyView(t) = MyView(s)
      BY <1>10, MyKeyIs, Zenon
    <2>2. QED
      BY <2>1, Zenon DEF MyView
  <1>16. parenDepth' = MyDepth(t) /\ primaryKey' = {MyDepth(s)} /\ autoInc' = A \ {MyDepth(s)}
    BY <1>5, <1>9, <1>15, Zenon
  <1>17. CASE MyDepth(s) \in A
    <2>1. out' = q
      BY <1>5, <1>9, <1>11, <1>17, Zenon
    <2>2. MyGood(t, q, {MyDepth(s)}, A \ {MyDepth(s)})
      BY <1>5, <1>10, <1>12, <1>13, <1>17, MyGoodKey, Zenon
    <2>3. QED
      BY <1>14, <1>16, <2>1, <2>2, Zenon
  <1>18. CASE MyDepth(s) \notin A
    <2>1. out' = p
      BY <1>5, <1>9, <1>11, <1>18, Zenon
    <2>2. MyGood(t, p, {MyDepth(s)}, A \ {MyDepth(s)})
      BY <1>5, <1>10, <1>12, <1>18, MyGoodKey, Zenon
    <2>3. QED
      BY <1>11, <1>16, <2>1, <2>2, Zenon
  <1>19. QED
    BY <1>17, <1>18, Zenon

LEMMA MyRewriteStep ==
  ASSUME MyIInv, NEW l, NEW t, MyGrows(myInput, l, t), MySQL!TypeName(l) \/ MySQL!Drop(l)
  PROVE  out' \in Seq(MyOut) /\ parenDepth' = MyDepth(t) /\ MyGood(t, out', primaryKey', autoInc')
  <1>1. PICK s : s = myInput
    OBVIOUS
  <1>2. PICK o : o = out
    OBVIOUS
  <1>3. PICK P : P = primaryKey
    OBVIOUS
  <1>4. PICK A : A = autoInc
    OBVIOUS
  <1>5. /\ region = MyEnd(s) /\ parenDepth = MyDepth(s) /\ o \in Seq(MyOut)
        /\ MyGood(s, o, P, A) /\ MyGrows(s, l, t)
    BY <1>1, <1>2, <1>3, <1>4, Zenon DEF MyIInv
  <1>6. /\ region = "code" /\ parenDepth' = parenDepth /\ primaryKey' = P /\ autoInc' = A
        /\ \/ l = "INT" /\ out' = Append(o, "INTEGER")
           \/ l = "ENGINE=InnoDB" /\ out' = o
    BY <1>2, <1>3, <1>4, Zenon DEF MySQL!TypeName, MySQL!Drop
  <1>7. MyDepth(t) = MyDepth(s)
    <2>1. l \in MyQuiet
      BY <1>6, Zenon DEF MyQuiet
    <2>2. MyView(t) = MyView(s)
      BY <1>5, <1>6, <2>1, MyViewQuiet, Zenon
    <2>3. QED
      BY <2>2, Zenon DEF MyView
  <1>8. PICK q : q = IF l = "INT" THEN Append(o, "INTEGER") ELSE o
    OBVIOUS
  <1>9. q \in Seq(MyOut) /\ (l = "INT" => MyGrows(o, "INTEGER", q))
    <2>1. "INTEGER" \in MyOut
      BY Zenon DEF MyOut
    <2>2. Append(o, "INTEGER") \in Seq(MyOut)
      BY <1>5, <2>1, AppendTwo, Zenon
    <2>3. QED
      BY <1>5, <1>8, <2>1, <2>2, Zenon DEF MyGrows
  <1>10. out' = q
    BY <1>6, <1>8, Zenon
  <1>11. \/ l = "INT" /\ MyGrows(o, "INTEGER", q)
         \/ l = "ENGINE=InnoDB" /\ q = o /\ o \in Seq(MyOut)
    BY <1>5, <1>6, <1>8, <1>9, Zenon
  <1>12. MyGood(t, q, P, A)
    BY <1>5, <1>6, <1>11, MyGoodRewritten, Zenon
  <1>13. QED
    BY <1>5, <1>6, <1>7, <1>9, <1>10, <1>12, Zenon

LEMMA MyRegionIs == \A l : MySQL!Region(l) = MyMove(region, l)
  <1> TAKE l
  <1>1. CASE region = "code" /\ l \in MySQL!Opens
    <2>1. l # "escaped"
      BY <1>1, Zenon DEF MySQL!Opens
    <2>2. QED
      BY <1>1, <2>1 DEF MySQL!Region, MyMove
  <1>2. CASE region = "code" /\ l \notin MySQL!Opens /\ l = "escaped"
    BY <1>2, Zenon DEF MySQL!Region, MyMove
  <1>3. CASE region = "code" /\ l \notin MySQL!Opens /\ l # "escaped"
    BY <1>3 DEF MySQL!Region, MyMove
  <1>4. CASE region # "code" /\ l = MySQL!Closer(region)
    BY <1>4 DEF MySQL!Region, MyMove
  <1>5. CASE region # "code" /\ l # MySQL!Closer(region)
    BY <1>5 DEF MySQL!Region, MyMove
  <1>6. QED
    BY <1>1, <1>2, <1>3, <1>4, <1>5, Zenon

LEMMA MyStep ==
  ASSUME MyIInv, [MySQL!Next]_mysql
  PROVE  MyIInv'
  <1>1. CASE UNCHANGED mysql
    BY <1>1, Zenon DEF mysql, MyIInv
  <1>2. CASE MySQL!Next
    <2>1. PICK l \in MySQL!Lexeme :
             /\ myInput' = Append(myInput, l)
             /\ region' = MySQL!Region(l)
             /\ params' = params + MySQL!CountParams(l)
             /\ \/ MySQL!Copy(l) \/ MySQL!AutoIncrement(l) \/ MySQL!PrimaryKey(l)
                \/ MySQL!TypeName(l) \/ MySQL!Drop(l)
      BY <1>2, Zenon DEF MySQL!Next
    <2>2. PICK s : s = myInput
      OBVIOUS
    <2>3. PICK t : t = Append(s, l)
      OBVIOUS
    <2>4. /\ s \in Seq(MySQL!Lexeme) /\ region = MyEnd(s) /\ params = MyCount(s, "?")
      BY <2>2, Zenon DEF MyIInv
    <2>5. \A x \in MySQL!Lexeme : x \in MyOut
      BY Zenon DEF MyOut
    <2>6. t \in Seq(MySQL!Lexeme) /\ s \in Seq(MyOut) /\ l \in MyOut
      <3>1. \A V, W : (\A x \in V : x \in W) => \A r \in Seq(V) : r \in Seq(W)
        OBVIOUS
      <3>2. s \in Seq(MyOut)
        BY <2>4, <2>5, <3>1, Zenon
      <3>3. t \in Seq(MySQL!Lexeme)
        BY <2>3, <2>4, AppendTwo, Zenon
      <3>4. QED
        BY <2>5, <3>2, <3>3, Zenon
    <2>7. MyGrows(s, l, t)
      BY <2>3, <2>6, Zenon DEF MyGrows
    <2>8. MyGrows(myInput, l, t) /\ myInput' = t
      BY <2>1, <2>2, <2>3, <2>7, Zenon
    <2>9. out' \in Seq(MyOut) /\ parenDepth' = MyDepth(t) /\ MyGood(t, out', primaryKey', autoInc')
      <3>1. CASE MySQL!Copy(l)
        BY <2>8, <3>1, MyCopyStep, Zenon
      <3>2. CASE MySQL!AutoIncrement(l)
        BY <2>8, <3>2, MyIncrementStep, Zenon
      <3>3. CASE MySQL!PrimaryKey(l)
        BY <2>8, <3>3, MyKeyStep, Zenon
      <3>4. CASE MySQL!TypeName(l) \/ MySQL!Drop(l)
        BY <2>8, <3>4, MyRewriteStep, Zenon
      <3>5. QED
        BY <2>1, <3>1, <3>2, <3>3, <3>4, Zenon
    <2>10. region' = MyEnd(t)
      <3>1. MyEnd(t) = MyMove(MyEnd(s), l)
        BY <2>7, MyGrowsIs, Zenon
      <3>2. MySQL!Region(l) = MyMove(region, l)
        BY MyRegionIs, Zenon
      <3>3. QED
        BY <2>1, <2>4, <3>1, <3>2, Zenon
    <2>11. params' = MyCount(t, "?")
      <3>1. /\ MyCount(s, "?") \in Nat
            /\ MyEnd(s) = "code" /\ l = "?" => MyCount(t, "?") = MyCount(s, "?") + 1
            /\ ~(MyEnd(s) = "code" /\ l = "?") => MyCount(t, "?") = MyCount(s, "?")
        <4>1. \A x : /\ MyCount(s, x) \in Nat
                     /\ MyEnd(s) = "code" /\ l = x => MyCount(t, x) = MyCount(s, x) + 1
                     /\ ~(MyEnd(s) = "code" /\ l = x) => MyCount(t, x) = MyCount(s, x)
          BY <2>7, MyCountGrows, Zenon
        <4>2. QED
          BY <4>1, Zenon
      <3>2. PICK n \in Nat : n = MyCount(s, "?")
        BY <3>1, Zenon
      <3>3. n + 0 = n
        BY <3>2
      <3>4. MySQL!CountParams(l) = IF MyEnd(s) = "code" /\ l = "?" THEN 1 ELSE 0
        BY <2>4, Zenon DEF MySQL!CountParams
      <3>5. CASE MyEnd(s) = "code" /\ l = "?"
        BY <2>1, <2>4, <3>1, <3>4, <3>5, Zenon
      <3>6. CASE ~(MyEnd(s) = "code" /\ l = "?")
        BY <2>1, <2>4, <3>1, <3>2, <3>3, <3>4, <3>6, Zenon
      <3>7. QED
        BY <3>5, <3>6, Zenon
    <2>12. QED
      BY <2>6, <2>8, <2>9, <2>10, <2>11, Zenon DEF MyIInv
  <1>3. QED
    BY <1>1, <1>2

LEMMA PgSqlStep ==
  ASSUME PgIInv, [PgSQL!Next]_pgsql
  PROVE  PgIInv'
  <1>1. CASE UNCHANGED pgsql
    BY <1>1 DEF pgsql, PgIInv, PgTypes, PgStand, PgSQL!SplitsCode
  <1>2. CASE PgSQL!Next
    <2>1. PICK l \in PgSQL!Lexeme :
             /\ pgInput' = Append(pgInput, l)
             /\ \/ PgSQL!Splits(l) /\ PgSQL!Flush
                \/ ~PgSQL!Splits(l) /\ PgSQL!Translate(l)
      BY <1>2 DEF PgSQL!Next
    <2>2. QED
      BY <2>1, PgFlushStep, PgTranslateStep
  <1>3. QED
    BY <1>1, <1>2

(* MCServers' SQLTextKept: what the passes of pgwire and mysqlwire/translate.go *)
(* make of a text over the lexemes of PgText and MySQLText, however long.  It *)
(* holds of the texts its parts name: cuts, where no block comment begins;    *)
(* parameters, where no comment of either kind does; the three rewrites, where *)
(* no comment and no dollar quote does and no two words stand behind a cast;  *)
(* AUTOINCREMENT, where the parentheses of a column have one depth.  Of what   *)
(* the passes do to the other texts it says nothing.                          *)
THEOREM SQLTextStaysKept == ServersSpec => []SQLTextKept
  <1> DEFINE J == /\ surface = "pgsql" => PgIInv
                  /\ surface = "mysql" => MyIInv
  <1>1. ServersInit => J
    BY PgInitIInv, MyInitIInv DEF ServersInit
  <1>2. J /\ [ServersNext]_serversVars => J'
    <2>1. [ServersNext]_serversVars =>
             /\ surface' = surface
             /\ surface = "pgsql" => [PgSQL!Next]_pgsql
             /\ surface = "mysql" => [MySQL!Next]_mysql
      BY DEF ServersNext, serversVars
    <2>2. QED
      BY <2>1, PgSqlStep, MyStep
  <1>3. J => SQLTextKept
    BY PgIInvImplies, MyIInvImplies DEF SQLTextKept
  <1>4. QED
    BY <1>1, <1>2, <1>3, PTL DEF ServersSpec
=============================================================================
