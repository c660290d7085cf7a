------------------------------ MODULE IAMAdmin ------------------------------
(***************************************************************************)
(* Service accounts, their keys, and the IAM policies of resources, of     *)
(* which the accounts are one kind.  An account is checked and put in two  *)
(* steps, a PATCH gets and puts, a DELETE removes the account and then the *)
(* keys it lists.  A policy is replaced as a whole by setIamPolicy: its    *)
(* clients read, edit and write it, and Set does not look at the etag they *)
(* send back.                                                              *)
(*                                                                         *)
(* Unique ids, display names and key ids are fresh numbers.                *)
(***************************************************************************)
EXTENDS Integers, FiniteSets

CONSTANTS Accounts,   \* service account emails
          Members,    \* bindings of a policy, a role and a member each
          Clients,    \* goroutines that serve a call, or clients editing a policy
          MaxSerial   \* bound on the fresh numbers

VARIABLES accounts,  \* iamadmin accounts: [uid, display], None where there is none
          keys,      \* iamadmin keys: [account, id]
          policies,  \* iam/policies: a missing policy is the empty one
          req,       \* what the goroutines and clients hold between two steps
          serial,    \* fresh numbers so far
          shown,     \* history: the display name last answered to a PATCH, 0 for none
          edited,    \* history: what the answered edits of a policy amount to
          raced      \* history: accounts the calls on which overlapped

vars == <<accounts, keys, policies, req, serial, shown, edited, raced>>

Serial == 1..MaxSerial
None == [uid |-> 0, display |-> 0]
NoReq == [op |-> "none"]

Account == [uid : Serial, display : Serial \cup {0}]

Request ==
    {NoReq}
    \cup [op : {"create", "patch"}, account : Accounts, rec : Account]
    \cup [op : {"list", "key"}, account : Accounts]
    \cup [op : {"cascade"}, account : Accounts, left : SUBSET Serial]
    \cup [op : {"edit"}, account : Accounts, read : SUBSET Members]
    \cup [op : {"wipe policies", "wipe accounts"}, left : SUBSET Accounts]
    \cup [op : {"wipe keys"}, left : SUBSET [account : Accounts, id : Serial]]

Idle(c) == req[c] = NoReq

Hold(c, r) == req' = [req EXCEPT ![c] = r]

Exists == {a \in Accounts : accounts[a] # None}

Fresh == serial < MaxSerial /\ serial' = serial + 1

-----------------------------------------------------------------------------
CreateAccount(c, a) ==
    /\ Idle(c)
    /\ a \notin Exists
    /\ Fresh
    /\ Hold(c, [op |-> "create", account |-> a, rec |-> [uid |-> serial + 1, display |-> 0]])
    /\ UNCHANGED <<accounts, keys, policies, shown, edited>>

(* Mutant: a PATCH writes the account of its body. *)
PatchAccountReplaces(c, a) ==
    /\ Idle(c)
    /\ a \in Exists
    /\ Fresh
    /\ Hold(c, [op |-> "patch", account |-> a, rec |-> [uid |-> serial + 1, display |-> serial + 1]])
    /\ UNCHANGED <<accounts, keys, policies, shown, edited>>

(* item, PATCH: the fields that are set replace those of the record read. *)
PatchAccount(c, a) ==
    /\ Idle(c)
    /\ a \in Exists
    /\ Fresh
    /\ Hold(c, [op |-> "patch", account |-> a, rec |-> [accounts[a] EXCEPT !.display = serial + 1]])
    /\ UNCHANGED <<accounts, keys, policies, shown, edited>>

PutAccount(c) ==
    /\ req[c].op \in {"create", "patch"}
    /\ accounts' = [accounts EXCEPT ![req[c].account] = req[c].rec]
    /\ shown' = [shown EXCEPT ![req[c].account] = req[c].rec.display]
    /\ Hold(c, NoReq)
    /\ UNCHANGED <<keys, policies, serial, edited>>

DeleteAccount(c, a) ==
    /\ Idle(c)
    /\ a \in Exists
    /\ accounts' = [accounts EXCEPT ![a] = None]
    /\ shown' = [shown EXCEPT ![a] = 0]
    /\ Hold(c, [op |-> "list", account |-> a])
    /\ UNCHANGED <<keys, policies, serial, edited>>

ListKeys(c) ==
    /\ req[c].op = "list"
    /\ Hold(c, [op |-> "cascade", account |-> req[c].account,
                left |-> {k.id : k \in {k \in keys : k.account = req[c].account}}])
    /\ UNCHANGED <<accounts, keys, policies, serial, shown, edited>>

(* Mutant: the cascade ends at the first key. *)
CascadeOne(c) ==
    /\ req[c].op = "cascade"
    /\ \/ /\ req[c].left = {}
          /\ UNCHANGED keys
       \/ \E i \in req[c].left : keys' = keys \ {[account |-> req[c].account, id |-> i]}
    /\ Hold(c, NoReq)
    /\ UNCHANGED <<accounts, policies, serial, shown, edited>>

(* The keys of the listing; a failing Delete is ignored. *)
Cascade(c) ==
    /\ req[c].op = "cascade"
    /\ \/ /\ req[c].left = {}
          /\ Hold(c, NoReq)
          /\ UNCHANGED keys
       \/ \E i \in req[c].left :
             /\ keys' = keys \ {[account |-> req[c].account, id |-> i]}
             /\ Hold(c, [req[c] EXCEPT !.left = @ \ {i}])
    /\ UNCHANGED <<accounts, policies, serial, shown, edited>>

CreateKey(c, a) ==
    /\ Idle(c)
    /\ a \in Exists
    /\ Hold(c, [op |-> "key", account |-> a])
    /\ UNCHANGED <<accounts, keys, policies, serial, shown, edited>>

PutKey(c) ==
    /\ req[c].op = "key"
    /\ Fresh
    /\ keys' = keys \cup {[account |-> req[c].account, id |-> serial + 1]}
    /\ Hold(c, NoReq)
    /\ UNCHANGED <<accounts, policies, shown, edited>>

DeleteKey(k) ==
    /\ k \in keys
    /\ keys' = keys \ {k}
    /\ UNCHANGED <<accounts, policies, req, serial, shown, edited>>

(* getIamPolicy: the client now holds a copy.  The resource need not exist. *)
GetPolicy(c, a) ==
    /\ Idle(c)
    /\ Hold(c, [op |-> "edit", account |-> a, read |-> policies[a]])
    /\ UNCHANGED <<accounts, keys, policies, serial, shown, edited>>

(* Mutant: the new bindings alone are stored. *)
BindingsReplaced(read, m) == {m}

(* Store.Set: what the client sends, with m added or removed from what it read. *)
Bindings(read, m) == IF m \in read THEN read \ {m} ELSE read \cup {m}

SetPolicy(c, m) ==
    /\ req[c].op = "edit"
    /\ LET a == req[c].account
       IN /\ policies' = [policies EXCEPT ![a] = Bindings(req[c].read, m)]
          /\ edited' = [edited EXCEPT ![a] = IF m \in req[c].read THEN @ \ {m} ELSE @ \cup {m}]
    /\ Hold(c, NoReq)
    /\ UNCHANGED <<accounts, keys, serial, shown>>

(* /admin/reset: policies, accounts, keys; a missing key ends it. *)
Reset(c) ==
    /\ Idle(c)
    /\ Hold(c, [op |-> "wipe policies", left |-> {a \in Accounts : policies[a] # {}}])
    /\ UNCHANGED <<accounts, keys, policies, serial, shown, edited>>

WipePolicies(c) ==
    /\ req[c].op = "wipe policies"
    /\ \/ /\ req[c].left = {}
          /\ Hold(c, [op |-> "wipe accounts", left |-> Exists])
          /\ UNCHANGED <<policies, edited>>
       \/ \E a \in req[c].left :
             /\ policies' = [policies EXCEPT ![a] = {}]
             /\ edited' = [edited EXCEPT ![a] = {}]
             /\ Hold(c, [req[c] EXCEPT !.left = @ \ {a}])
    /\ UNCHANGED <<accounts, keys, serial, shown>>

WipeAccounts(c) ==
    /\ req[c].op = "wipe accounts"
    /\ \/ /\ req[c].left = {}
          /\ Hold(c, [op |-> "wipe keys", left |-> keys])
          /\ UNCHANGED <<accounts, shown>>
       \/ \E a \in req[c].left :
             /\ accounts' = [accounts EXCEPT ![a] = None]
             /\ shown' = [shown EXCEPT ![a] = 0]
             /\ Hold(c, IF a \in Exists THEN [req[c] EXCEPT !.left = @ \ {a}] ELSE NoReq)
    /\ UNCHANGED <<keys, policies, serial, edited>>

WipeKeys(c) ==
    /\ req[c].op = "wipe keys"
    /\ \/ /\ req[c].left = {}
          /\ Hold(c, NoReq)
          /\ UNCHANGED keys
       \/ \E k \in req[c].left :
             /\ keys' = keys \ {k}
             /\ Hold(c, IF k \in keys THEN [req[c] EXCEPT !.left = @ \ {k}] ELSE NoReq)
    /\ UNCHANGED <<accounts, policies, serial, shown, edited>>

-----------------------------------------------------------------------------
Init ==
    /\ accounts = [a \in Accounts |-> None]
    /\ keys = {}
    /\ policies = [a \in Accounts |-> {}]
    /\ req = [c \in Clients |-> NoReq]
    /\ serial = 0
    /\ shown = [a \in Accounts |-> 0]
    /\ edited = [a \in Accounts |-> {}]
    /\ raced = {}

Call(c) ==
    \/ \E a \in Accounts : \/ CreateAccount(c, a) \/ PatchAccount(c, a) \/ DeleteAccount(c, a)
                           \/ CreateKey(c, a) \/ GetPolicy(c, a)
    \/ PutAccount(c) \/ ListKeys(c) \/ Cascade(c) \/ PutKey(c)
    \/ \E m \in Members : SetPolicy(c, m)
    \/ Reset(c) \/ WipePolicies(c) \/ WipeAccounts(c) \/ WipeKeys(c)

Wiping(c) == req[c].op \in {"wipe policies", "wipe accounts", "wipe keys"}

About(c, a) == Wiping(c) \/ (~Idle(c) /\ req[c].account = a)

(* Nothing locks a name, and nothing compares etags.  An account or a key    *)
(* deleted beside a reset ends the reset half-way.                           *)
Races ==
    {a \in Accounts : \E c, d \in Clients :
        /\ c # d
        /\ \/ About(c, a) /\ About(d, a)
           \/ Wiping(c) /\ req[d].op \in {"list", "cascade"}}

Next ==
    \/ /\ \E c \in Clients : Call(c)
       /\ raced' = raced \cup Races'
    \/ \E k \in keys :
          /\ DeleteKey(k)
          /\ raced' = raced \cup {a \in Accounts : \E c \in Clients : Wiping(c)}

Spec == Init /\ [][Next]_vars

-----------------------------------------------------------------------------
(* Properties. *)

TypeOK ==
    /\ accounts \in [Accounts -> Account \cup {None}]
    /\ keys \subseteq [account : Accounts, id : Serial]
    /\ policies \in [Accounts -> SUBSET Members] /\ edited \in [Accounts -> SUBSET Members]
    /\ req \in [Clients -> Request]
    /\ serial \in 0..MaxSerial
    /\ shown \in [Accounts -> 0..MaxSerial]
    /\ raced \subseteq Accounts

Quiet == \A c \in Clients : Idle(c)

(* A key dies with its account: when no call is in progress every stored key *)
(* has its account, so that an account created again starts without keys,    *)
(* unless calls on the account overlapped (item DELETE, keysCollection).     *)
NoOrphanKey == Quiet => \A k \in keys : k.account \in raced \/ k.account \in Exists

(* A PATCH keeps what it does not name: the unique id of an account never    *)
(* changes while the account exists, and the display name last answered is   *)
(* the one stored, unless calls on it overlapped.                            *)
PatchKept ==
    [][\A a \in Accounts \ raced' :
          /\ a \in Exists /\ a \in Exists' => accounts'[a].uid = accounts[a].uid
          /\ a \in Exists' => accounts'[a].display = shown'[a]]_vars

(* Clients that edit a policy one after the other lose no edit; two that     *)
(* read it before either wrote do, since Set ignores the etag.               *)
EditsAddUp == \A a \in Accounts : a \in raced \/ policies[a] = edited[a]

-----------------------------------------------------------------------------
(* The inductive invariant behind the three. *)

RacesKept == Races \subseteq raced

(* What a call has checked or read is still so when it acts on it. *)
StillSo(c) ==
    req[c].op \in {"create", "patch", "key", "edit"} => req[c].account \in raced \/
        /\ req[c].op = "create" => req[c].account \notin Exists
        /\ req[c].op = "patch" =>
              req[c].account \in Exists /\ accounts[req[c].account].uid = req[c].rec.uid
        /\ req[c].op = "key" => req[c].account \in Exists
        /\ req[c].op = "edit" => policies[req[c].account] = req[c].read

(* A reset that is alone finds what it has listed. *)
Finds(c) ==
    Accounts \subseteq raced \/
        /\ req[c].op = "wipe accounts" => req[c].left \subseteq Exists
        /\ req[c].op = "wipe keys" => req[c].left \subseteq keys

(* A key without its account is about to be deleted. *)
Dooms(c, k) ==
    \/ req[c].op = "list" /\ req[c].account = k.account
    \/ req[c].op = "cascade" /\ req[c].account = k.account /\ k.id \in req[c].left
    \/ req[c].op = "wipe accounts"
    \/ req[c].op = "wipe keys" /\ k \in req[c].left

KeysDoomed ==
    \A k \in keys : \/ k.account \in raced \/ k.account \in Exists
                    \/ \E c \in Clients : Dooms(c, k)

ShownStored == \A a \in Exists : a \in raced \/ accounts[a].display = shown[a]

IInv ==
    /\ TypeOK /\ RacesKept
    /\ \A c \in Clients : StillSo(c) /\ Finds(c)
    /\ KeysDoomed /\ ShownStored /\ EditsAddUp
=============================================================================
