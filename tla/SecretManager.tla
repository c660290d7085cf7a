--------------------------- MODULE SecretManager ----------------------------
(***************************************************************************)
(* Secret Manager: secrets and versions in two namespaces of the state     *)
(* store and the version counters verSeq under Service.mu.  addVersion     *)
(* looks the secret up, draws a number and stores the version in three     *)
(* steps; the cascade of DELETE removes the secret, lists the versions,    *)
(* removes them one by one and drops the counter.                          *)
(*                                                                         *)
(* A stored version is [secret, num, payload]; secret and num are its key. *)
(* Every addVersion brings a payload of its own.                           *)
(***************************************************************************)
EXTENDS Integers, FiniteSets, FiniteSetsExt

CONSTANTS Secrets,      \* secret names
          Clients,      \* goroutines that serve an API call
          MaxVersions,  \* bound on the addVersion calls
          MaxRestarts   \* bound on restarts over the same database

VARIABLES secrets,   \* secretmanager/secrets
          versions,  \* secretmanager/versions
          verSeq,    \* Service.verSeq; an absent key is 0
          req,       \* what the API goroutines hold between two steps
          calls,     \* addVersion calls so far: the next payload
          restarts,  \* restarts so far
          granted,   \* history: versions answered with 200 and not deleted since
          raced      \* history: secrets the calls on which got in each other's way

vars == <<secrets, versions, verSeq, req, calls, restarts, granted, raced>>

NoReq == [op |-> "none"]

Version == [secret : Secrets, num : Nat, payload : 1..MaxVersions]

Request ==
    {NoReq}
    \cup [op : {"draw"}, secret : Secrets, payload : 1..MaxVersions]
    \cup [op : {"put"}, ver : Version]
    \cup [op : {"list", "forget"}, secret : Secrets]
    \cup [op : {"cascade"}, secret : Secrets, keys : SUBSET Nat]
    \cup [op : {"wipe"}, secrets : SUBSET Secrets]
    \cup [op : {"wipe versions"}, left : SUBSET Version]

Idle(c) == req[c] = NoReq

Hold(c, r) == req' = [req EXCEPT ![c] = r]

Of(s, vs) == {v \in vs : v.secret = s}

-----------------------------------------------------------------------------
(* The check for an existing secret only decides the answer: labels aside, *)
(* the record has no content.                                              *)
CreateSecret(s) ==
    /\ secrets' = secrets \cup {s}
    /\ UNCHANGED <<versions, verSeq, req, calls, restarts, granted>>

AddVersion(c, s) ==
    /\ Idle(c)
    /\ s \in secrets
    /\ calls < MaxVersions
    /\ calls' = calls + 1
    /\ Hold(c, [op |-> "draw", secret |-> s, payload |-> calls + 1])
    /\ UNCHANGED <<secrets, versions, verSeq, restarts, granted>>

(* Mutant: the number is taken from the versions stored, not from the counter. *)
NextVersionCounts(s) == Cardinality(Of(s, versions)) + 1

NextVersion(s) == verSeq[s] + 1

DrawVersion(c) ==
    /\ req[c].op = "draw"
    /\ LET s == req[c].secret
       IN /\ verSeq' = [verSeq EXCEPT ![s] = @ + 1]
          /\ Hold(c, [op |-> "put", ver |-> [secret |-> s, num |-> NextVersion(s),
                                             payload |-> req[c].payload]])
    /\ UNCHANGED <<secrets, versions, calls, restarts, granted>>

SameName(v, w) == v.secret = w.secret /\ v.num = w.num

PutVersion(c) ==
    /\ req[c].op = "put"
    /\ versions' = {w \in versions : ~SameName(w, req[c].ver)} \cup {req[c].ver}
    /\ granted' = granted \cup {req[c].ver}
    /\ Hold(c, NoReq)
    /\ UNCHANGED <<secrets, verSeq, calls, restarts>>

(* DELETE and its cascade. *)
DeleteSecret(c, s) ==
    /\ Idle(c)
    /\ s \in secrets
    /\ secrets' = secrets \ {s}
    /\ granted' = granted \ Of(s, granted)
    /\ Hold(c, [op |-> "list", secret |-> s])
    /\ UNCHANGED <<versions, verSeq, calls, restarts>>

ListVersions(c) ==
    /\ req[c].op = "list"
    /\ Hold(c, [op |-> "cascade", secret |-> req[c].secret,
                keys |-> {v.num : v \in Of(req[c].secret, versions)}])
    /\ UNCHANGED <<secrets, versions, verSeq, calls, restarts, granted>>

(* Mutant: the cascade stops after the first version. *)
DeleteOneVersion(c) ==
    /\ req[c].op = "cascade"
    /\ LET s == req[c].secret IN
       \/ /\ req[c].keys = {}
          /\ Hold(c, [op |-> "forget", secret |-> s])
          /\ UNCHANGED versions
       \/ \E n \in req[c].keys :
             /\ versions' = {v \in versions : v.secret # s \/ v.num # n}
             /\ Hold(c, [op |-> "forget", secret |-> s])
    /\ UNCHANGED <<secrets, verSeq, calls, restarts, granted>>

(* The keys of the listing, in any order; a failing Delete is ignored. *)
DeleteVersions(c) ==
    /\ req[c].op = "cascade"
    /\ LET s == req[c].secret IN
       \/ /\ req[c].keys = {}
          /\ Hold(c, [op |-> "forget", secret |-> s])
          /\ UNCHANGED versions
       \/ \E n \in req[c].keys :
             /\ versions' = {v \in versions : v.secret # s \/ v.num # n}
             /\ Hold(c, [req[c] EXCEPT !.keys = @ \ {n}])
    /\ UNCHANGED <<secrets, verSeq, calls, restarts, granted>>

(* Mutant: the counter is decremented instead of dropped. *)
ForgetCounterSteps(c) ==
    /\ req[c].op = "forget"
    /\ verSeq' = [verSeq EXCEPT ![req[c].secret] = @ - 1]
    /\ Hold(c, NoReq)
    /\ UNCHANGED <<secrets, versions, calls, restarts, granted>>

(* Mutant: every counter is dropped. *)
ForgetCounterAll(c) ==
    /\ req[c].op = "forget"
    /\ verSeq' = [s \in Secrets |-> 0]
    /\ Hold(c, NoReq)
    /\ UNCHANGED <<secrets, versions, calls, restarts, granted>>

ForgetCounter(c) ==
    /\ req[c].op = "forget"
    /\ verSeq' = [verSeq EXCEPT ![req[c].secret] = 0]
    /\ Hold(c, NoReq)
    /\ UNCHANGED <<secrets, versions, calls, restarts, granted>>

(* /admin/reset lists and deletes the secrets, then the versions, and leaves *)
(* the counters; a key somebody else deleted meanwhile ends it with an error. *)
Reset(c) ==
    /\ Idle(c)
    /\ Hold(c, [op |-> "wipe", secrets |-> secrets])
    /\ UNCHANGED <<secrets, versions, verSeq, calls, restarts, granted>>

WipeSecrets(c) ==
    /\ req[c].op = "wipe"
    /\ \/ /\ req[c].secrets = {}
          /\ Hold(c, [op |-> "wipe versions", left |-> versions])
          /\ UNCHANGED <<secrets, granted>>
       \/ \E s \in req[c].secrets :
             /\ secrets' = secrets \ {s}
             /\ granted' = granted \ Of(s, granted)
             /\ Hold(c, IF s \in secrets THEN [req[c] EXCEPT !.secrets = @ \ {s}] ELSE NoReq)
    /\ UNCHANGED <<versions, verSeq, calls, restarts>>

WipeVersions(c) ==
    /\ req[c].op = "wipe versions"
    /\ \/ /\ req[c].left = {}
          /\ Hold(c, NoReq)
          /\ UNCHANGED <<versions, granted>>
       \/ \E v \in req[c].left :
             /\ versions' = {w \in versions : ~SameName(v, w)}
             /\ granted' = {w \in granted : ~SameName(v, w)}
             /\ Hold(c, IF \E w \in versions : SameName(v, w)
                        THEN [req[c] EXCEPT !.left = @ \ {v}] ELSE NoReq)
    /\ UNCHANGED <<secrets, verSeq, calls, restarts>>

(* A new process over the old database, after a shutdown that let the calls *)
(* in progress finish: New makes an empty verSeq.                           *)
Restart ==
    /\ restarts < MaxRestarts
    /\ \A c \in Clients : Idle(c)
    /\ restarts' = restarts + 1
    /\ verSeq' = [s \in Secrets |-> 0]
    /\ UNCHANGED <<secrets, versions, req, calls, granted>>

-----------------------------------------------------------------------------
(* versionItem: what `latest` stands for, 0 for 404, and what access returns. *)
Latest(s) == Max({v.num : v \in Of(s, versions)} \cup {0})

Access(s, n) == {v \in versions : v.secret = s /\ v.num = n}

-----------------------------------------------------------------------------
Init ==
    /\ secrets = {} /\ versions = {}
    /\ verSeq = [s \in Secrets |-> 0]
    /\ req = [c \in Clients |-> NoReq]
    /\ calls = 0 /\ restarts = 0
    /\ granted = {} /\ raced = {}

Call(c) ==
    \/ \E s \in Secrets : AddVersion(c, s) \/ DeleteSecret(c, s)
    \/ DrawVersion(c) \/ PutVersion(c)
    \/ ListVersions(c) \/ DeleteVersions(c) \/ ForgetCounter(c)
    \/ Reset(c) \/ WipeSecrets(c) \/ WipeVersions(c)

Adding(c, s) ==
    \/ req[c].op = "draw" /\ req[c].secret = s
    \/ req[c].op = "put" /\ req[c].ver.secret = s

Deleting(c, s) == req[c].op \in {"list", "cascade", "forget"} /\ req[c].secret = s

Wiping(c) == req[c].op \in {"wipe", "wipe versions"}

(* The secrets to which a version is being added while they are being deleted, *)
(* and all of them when /admin/reset runs beside a deletion or another reset:  *)
(* the code has no lock over the steps of a call.                              *)
Races ==
    {s \in Secrets : \E c, d \in Clients :
        \/ Adding(c, s) /\ (Deleting(d, s) \/ Wiping(d))
        \/ c # d /\ Wiping(c) /\ (Wiping(d) \/ \E t \in Secrets : Deleting(d, t))}

(* A restart forgets the counters of the secrets that have versions. *)
Next ==
    /\ \/ \E s \in Secrets : CreateSecret(s)
       \/ \E c \in Clients : Call(c)
       \/ Restart
    /\ raced' = raced \cup Races'
                      \cup {s \in Secrets : restarts' # restarts /\ Of(s, versions) # {}}

Spec == Init /\ [][Next]_vars

-----------------------------------------------------------------------------
(* Properties. *)

TypeOK ==
    /\ secrets \subseteq Secrets
    /\ versions \subseteq Version /\ granted \subseteq Version
    /\ verSeq \in [Secrets -> Nat]
    /\ req \in [Clients -> Request]
    /\ calls \in 0..MaxVersions /\ restarts \in 0..MaxRestarts
    /\ raced \subseteq Secrets

(* A version that addVersion answered with 200 is what access returns under *)
(* its name until its secret is deleted.  Overlapping addVersion calls never *)
(* give two payloads the same number (the number is drawn under mu, the      *)
(* version stored outside it), and deleting, recreating or resetting other   *)
(* secrets, or this one when no version is being added, loses none either.   *)
VersionKept == \A v \in granted : v.secret \in raced \/ Access(v.secret, v.num) = {v}

(* `latest` is the newest version: addVersion draws a number above that of   *)
(* every version stored by then, also when the secret was deleted and        *)
(* created again, or when others were, so that a rotated secret is read      *)
(* instead of the one it replaces.                                           *)
LatestIsNewest ==
    [][\A c \in Clients : DrawVersion(c) /\ req[c].secret \notin raced'
            => req'[c].ver.num > Latest(req[c].secret)]_vars

(* The cascade is complete: when no call is in progress every stored version *)
(* belongs to a stored secret, unless it was added during the deletion.      *)
NoOrphanVersion ==
    (\A c \in Clients : Idle(c)) =>
        \A v \in versions : v.secret \in raced \/ v.secret \in secrets

-----------------------------------------------------------------------------
(* The inductive invariant behind the three. *)

RacesKept == Races \subseteq raced

(* A key of the namespace holds one version. *)
NamesUnique == \A v, w \in versions : SameName(v, w) => v = w

(* The counter of a secret is ahead of its versions, those still to be put   *)
(* included, and a number is drawn once.                                     *)
CountersAhead ==
    /\ \A v \in versions : v.secret \in raced \/ v.num <= verSeq[v.secret]
    /\ \A c \in Clients : req[c].op = "put" =>
          req[c].ver.secret \in raced \/ req[c].ver.num <= verSeq[req[c].ver.secret]

DrawnOnce ==
    \A c \in Clients : req[c].op = "put" => req[c].ver.secret \in raced \/
        /\ \A v \in versions : ~SameName(v, req[c].ver)
        /\ \A d \in Clients \ {c} : req[d].op = "put" => ~SameName(req[c].ver, req[d].ver)

(* A version that is being added has its secret. *)
AddsToStored == \A s \in Secrets \ raced : (\E c \in Clients : Adding(c, s)) => s \in secrets

GrantedStored == \A v \in granted : v.secret \in raced \/ v \in versions

(* A deletion that is alone has everything on its list, and nothing is      *)
(* promised any more.                                                       *)
CascadesAll ==
    \A c \in Clients, s \in Secrets \ raced : Deleting(c, s) =>
        /\ Of(s, granted) = {}
        /\ req[c].op = "cascade" => \A v \in Of(s, versions) : v.num \in req[c].keys
        /\ req[c].op = "forget" => Of(s, versions) = {}

(* A reset that is alone finds what it has listed, each name once. *)
WipesFind ==
    \A c \in Clients : Secrets \subseteq raced \/
        /\ req[c].op = "wipe" => req[c].secrets \subseteq secrets
        /\ req[c].op = "wipe versions" => \A v \in req[c].left :
              /\ \E w \in versions : SameName(v, w)
              /\ \A w \in req[c].left : SameName(v, w) => v = w

(* A version without its secret is about to be deleted. *)
Doomed(v) ==
    \E c \in Clients : \/ Deleting(c, v.secret) \/ req[c].op = "wipe"
                       \/ req[c].op = "wipe versions" /\ v \in req[c].left

OrphansDoomed == \A v \in versions : v.secret \in raced \/ v.secret \in secrets \/ Doomed(v)

IInv ==
    /\ TypeOK /\ RacesKept /\ NamesUnique /\ CountersAhead /\ DrawnOnce /\ AddsToStored
    /\ GrantedStored /\ CascadesAll /\ WipesFind /\ OrphansDoomed
=============================================================================
