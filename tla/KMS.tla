-------------------------------- MODULE KMS ---------------------------------
(***************************************************************************)
(* Cloud KMS: key rings and the AES keys in them.  The creation of a key   *)
(* looks up its ring, then the key, draws random bytes and puts the key;   *)
(* encrypt and decrypt load the key once and work on what they loaded.     *)
(*                                                                         *)
(* The material of a key is the number of the creation that drew it; a     *)
(* ciphertext is the key named by the caller and the material it was       *)
(* sealed with, and gcm.Open fails under any other material.               *)
(***************************************************************************)
EXTENDS Integers, FiniteSets

CONSTANTS Rings,     \* key ring names
          KeyIds,    \* names of keys within a ring
          Clients,   \* goroutines that serve an API call
          MaxKeys    \* bound on the key materials drawn

VARIABLES keyrings,    \* kms/keyrings
          cryptokeys,  \* kms/cryptokeys: the material, 0 for none
          req,         \* what the API goroutines hold between two steps
          drawn,       \* materials drawn so far
          issued,      \* history: ciphertexts answered while nobody was putting their
                       \* key, and whose key was not wiped since
          raced        \* history: keys created twice at once, or beside a reset

vars == <<keyrings, cryptokeys, req, drawn, issued, raced>>

Key == Rings \X KeyIds
NoReq == [op |-> "none"]

CreateReq == [op : {"get", "put"}, key : Key]
WipeRingsReq == [op : {"wipeRings"}, left : SUBSET Rings]
WipeKeysReq == [op : {"wipeKeys"}, left : SUBSET Key]

Request == {NoReq} \cup CreateReq \cup WipeRingsReq \cup WipeKeysReq

Idle(c) == req[c] = NoReq

Hold(c, r) == req' = [req EXCEPT ![c] = r]

Stored == {k \in Key : cryptokeys[k] # 0}

(* c has found no key k and is about to put one. *)
Putting(c, k) == req[c].op = "put" /\ req[c].key = k

-----------------------------------------------------------------------------
CreateKeyRing(r) ==
    /\ keyrings' = keyrings \cup {r}
    /\ UNCHANGED <<cryptokeys, req, drawn, issued>>

CreateCryptoKey(c, k) ==
    /\ Idle(c)
    /\ k[1] \in keyrings
    /\ Hold(c, [op |-> "get", key |-> k])
    /\ UNCHANGED <<keyrings, cryptokeys, drawn, issued>>

(* Mutant: an existing key is drawn again. *)
GetCryptoKeyIgnored(c) ==
    /\ req[c].op = "get"
    /\ Hold(c, [req[c] EXCEPT !.op = "put"])
    /\ UNCHANGED <<keyrings, cryptokeys, drawn, issued>>

GetCryptoKey(c) ==
    /\ req[c].op = "get"
    /\ Hold(c, IF req[c].key \in Stored THEN NoReq ELSE [req[c] EXCEPT !.op = "put"])
    /\ UNCHANGED <<keyrings, cryptokeys, drawn, issued>>

PutCryptoKey(c) ==
    /\ req[c].op = "put"
    /\ drawn < MaxKeys
    /\ drawn' = drawn + 1
    /\ cryptokeys' = [cryptokeys EXCEPT ![req[c].key] = drawn + 1]
    /\ Hold(c, NoReq)
    /\ UNCHANGED <<keyrings, issued>>

(* encrypt reads the store once, in loadKey. *)
Encrypt(k) ==
    /\ k \in Stored
    /\ issued' = IF \E c \in Clients : Putting(c, k) THEN issued
                 ELSE issued \cup {[key |-> k, material |-> cryptokeys[k]]}
    /\ UNCHANGED <<keyrings, cryptokeys, req, drawn>>

(* loadKey and gcm.Open: whether decrypt returns the plaintext. *)
Decrypts(k, ct) == k \in Stored /\ cryptokeys[k] = ct.material

(* /admin/reset: the rings, then the keys; one deleted meanwhile ends it. *)
Reset(c) ==
    /\ Idle(c)
    /\ Hold(c, [op |-> "wipeRings", left |-> keyrings])
    /\ UNCHANGED <<keyrings, cryptokeys, drawn, issued>>

WipeRings(c) ==
    /\ req[c].op = "wipeRings"
    /\ \/ /\ req[c].left = {}
          /\ Hold(c, [op |-> "wipeKeys", left |-> Stored])
          /\ UNCHANGED keyrings
       \/ \E r \in req[c].left :
             /\ keyrings' = keyrings \ {r}
             /\ Hold(c, IF r \in keyrings THEN [req[c] EXCEPT !.left = @ \ {r}] ELSE NoReq)
    /\ UNCHANGED <<cryptokeys, drawn, issued>>

(* Mutant: the keys stay. *)
WipeKeysForgotten(c) ==
    /\ req[c].op = "wipeKeys"
    /\ Hold(c, NoReq)
    /\ UNCHANGED <<keyrings, cryptokeys, drawn, issued>>

WipeKeys(c) ==
    /\ req[c].op = "wipeKeys"
    /\ \/ /\ req[c].left = {}
          /\ Hold(c, NoReq)
          /\ UNCHANGED <<cryptokeys, issued>>
       \/ \E k \in req[c].left :
             /\ cryptokeys' = [cryptokeys EXCEPT ![k] = 0]
             /\ issued' = {ct \in issued : ct.key # k}
             /\ Hold(c, IF k \in Stored THEN [req[c] EXCEPT !.left = @ \ {k}] ELSE NoReq)
    /\ UNCHANGED <<keyrings, drawn>>

-----------------------------------------------------------------------------
Init ==
    /\ keyrings = {} /\ cryptokeys = [k \in Key |-> 0]
    /\ req = [c \in Clients |-> NoReq]
    /\ drawn = 0
    /\ issued = {} /\ raced = {}

Wiping(c) == req[c].op \in {"wipeRings", "wipeKeys"}

Creating(c, k) == req[c].op \in {"get", "put"} /\ req[c].key = k

(* Nothing locks a name between the two Gets and the Put of its creation. *)
Races ==
    {k \in Key : \E c, d \in Clients :
        c # d /\ (Creating(c, k) \/ Wiping(c)) /\ (Creating(d, k) \/ Wiping(d))}

Next ==
    /\ \/ \E r \in Rings : CreateKeyRing(r)
       \/ \E k \in Key : Encrypt(k) \/ \E c \in Clients : CreateCryptoKey(c, k)
       \/ \E c \in Clients : \/ GetCryptoKey(c) \/ PutCryptoKey(c)
                             \/ Reset(c) \/ WipeRings(c) \/ WipeKeys(c)
    /\ raced' = raced \cup Races'

Spec == Init /\ [][Next]_vars

-----------------------------------------------------------------------------
(* Properties. *)

TypeOK ==
    /\ keyrings \subseteq Rings /\ raced \subseteq Key
    /\ cryptokeys \in [Key -> 0..drawn]
    /\ req \in [Clients -> Request]
    /\ drawn \in Nat
    /\ issued \subseteq [key : Key, material : 1..drawn]

(* Every ciphertext that encrypt answered is decrypted under its key until   *)
(* /admin/reset wipes the key: no later creation of the key, and nothing     *)
(* done to other keys, replaces the material it was sealed with.  The one    *)
(* exception is a ciphertext of a key of which a second creation was then    *)
(* about to put its own material (cryptoKeyCollection).                      *)
CiphertextOpens == \A ct \in issued : Decrypts(ct.key, ct)

(* After a reset a key ring that is created again is empty: a key that is    *)
(* stored has its ring, unless its creation ran beside the reset.            *)
KeyHasRing ==
    (\A c \in Clients : Idle(c)) => \A k \in Stored : k \in raced \/ k[1] \in keyrings

-----------------------------------------------------------------------------
(* The inductive invariant behind the properties. *)

(* No creation is about to replace the key of a ciphertext. *)
SealedKeyStays ==
    \A ct \in issued : /\ cryptokeys[ct.key] = ct.material
                       /\ \A c \in Clients : ~Putting(c, ct.key)

RacesKnown == Races \subseteq raced

(* Only a reset takes a ring away, and a creation beside it is a race. *)
CreatesInRing ==
    \A c \in Clients : \A k \in Key \ raced : Creating(c, k) => k[1] \in keyrings

(* A reset that is alone finds what it listed, and so does not end early. *)
WipesWhatIsThere ==
    \A c \in Clients : raced # Key =>
        /\ req[c].op = "wipeRings" => req[c].left \subseteq keyrings
        /\ req[c].op = "wipeKeys" => req[c].left \subseteq Stored

(* A key without its ring is still to be wiped. *)
OrphanIsDoomed ==
    \A k \in Stored \ raced : k[1] \notin keyrings =>
        \E c \in Clients : \/ req[c].op = "wipeRings"
                           \/ req[c].op = "wipeKeys" /\ k \in req[c].left

IInv ==
    TypeOK /\ SealedKeyStays /\ RacesKnown /\ CreatesInRing /\ WipesWhatIsThere /\ OrphanIsDoomed
=============================================================================
