--------------------------- MODULE ServicesProofs ---------------------------
(* Proofs about KMS and the parts that MCServices puts beside it, for all    *)
(* values of their constants.                                                *)
EXTENDS MCServices, Sequences, FiniteSetTheorems, WellFoundedInduction, NaturalsInduction, TLAPS

-----------------------------------------------------------------------------
(* Cloud KMS. *)

(* The fields of a request are those of its operation (req in KMS). *)
LEMMA RequestFields ==
  ASSUME NEW r \in Request
  PROVE  /\ r.op \in {"get", "put"} => r \in CreateReq
         /\ r.op = "wipeRings" => r \in WipeRingsReq
         /\ r.op = "wipeKeys" => r \in WipeKeysReq
  BY DEF Request, NoReq, CreateReq, WipeRingsReq, WipeKeysReq

(* The disjuncts of Next as one step of the service, without its history. *)
Step ==
    \/ \E r \in Rings : CreateKeyRing(r)
    \/ \E k \in Key : Encrypt(k) \/ \E c \in Clients : CreateCryptoKey(c, k)
    \/ \E c \in Clients : \/ GetCryptoKey(c) \/ PutCryptoKey(c)
                          \/ Reset(c) \/ WipeRings(c) \/ WipeKeys(c)

LEMMA NextIsStep == Next => Step /\ raced' = raced \cup Races'
  BY DEF Next, Step

(* Every handler keeps the shape of what it stores (TypeOK). *)
LEMMA TypeStep == TypeOK /\ [Next]_vars => TypeOK'
  <1> SUFFICES ASSUME TypeOK, [Next]_vars PROVE TypeOK'
    OBVIOUS
  <1>1. CASE UNCHANGED vars
    BY <1>1 DEF vars, TypeOK
  <1>2. CASE Next
    <2> USE RequestFields DEF TypeOK, Hold, CreateReq, WipeRingsReq, WipeKeysReq
    <2>1. raced' \subseteq Key
      BY <1>2, NextIsStep DEF Races
    <2>2. ASSUME NEW r \in Rings, CreateKeyRing(r) PROVE TypeOK'
      BY <2>1, <2>2 DEF CreateKeyRing
    <2>3. ASSUME NEW k \in Key, Encrypt(k) PROVE TypeOK'
      <3>1. cryptokeys[k] \in 1..drawn
        BY <2>3 DEF Encrypt, Stored
      <3>2. QED
        BY <2>1, <2>3, <3>1 DEF Encrypt
    <2>4. ASSUME NEW k \in Key, NEW c \in Clients, CreateCryptoKey(c, k) PROVE TypeOK'
      BY <2>1, <2>4 DEF CreateCryptoKey, Request
    <2>5. ASSUME NEW c \in Clients, GetCryptoKey(c) PROVE TypeOK'
      BY <2>1, <2>5 DEF GetCryptoKey, Request
    <2>6. ASSUME NEW c \in Clients, PutCryptoKey(c) PROVE TypeOK'
      BY <2>1, <2>6 DEF PutCryptoKey, Request
    <2>7. ASSUME NEW c \in Clients, Reset(c) PROVE TypeOK'
      BY <2>1, <2>7 DEF Reset, Request
    <2>8. ASSUME NEW c \in Clients, WipeRings(c) PROVE TypeOK'
      BY <2>1, <2>8 DEF WipeRings, Request, Stored
    <2>9. ASSUME NEW c \in Clients, WipeKeys(c) PROVE TypeOK'
      BY <2>1, <2>9 DEF WipeKeys, Request
    <2>10. QED
      BY <1>2, <2>2, <2>3, <2>4, <2>5, <2>6, <2>7, <2>8, <2>9, NextIsStep DEF Step
  <1>3. QED
    BY <1>1, <1>2

(* A second creation finds the key and puts nothing, and what a wipe takes   *)
(* away is no longer promised (GetCryptoKey, Encrypt, WipeKeys).             *)
LEMMA SealedStep == TypeOK /\ SealedKeyStays /\ [Next]_vars => SealedKeyStays'
  <1> SUFFICES ASSUME TypeOK, SealedKeyStays, [Next]_vars PROVE SealedKeyStays'
    OBVIOUS
  <1>1. CASE UNCHANGED vars
    BY <1>1 DEF vars, SealedKeyStays, Putting
  <1>2. CASE Next
    <2> USE RequestFields DEF TypeOK, CreateReq, WipeRingsReq, WipeKeysReq, SealedKeyStays, Putting, Hold
    <2>0. \A ct \in issued : ct.key \in Key /\ ct.material \in 1..drawn
      OBVIOUS
    <2>1. ASSUME NEW r \in Rings, CreateKeyRing(r) PROVE SealedKeyStays'
      BY <2>1 DEF CreateKeyRing
    <2>2. ASSUME NEW k \in Key, Encrypt(k) PROVE SealedKeyStays'
      BY <2>2 DEF Encrypt
    <2>3. ASSUME NEW k \in Key, NEW c \in Clients, CreateCryptoKey(c, k) PROVE SealedKeyStays'
      BY <2>3 DEF CreateCryptoKey
    <2>4. ASSUME NEW c \in Clients, GetCryptoKey(c) PROVE SealedKeyStays'
      BY <2>0, <2>4 DEF GetCryptoKey, Stored, NoReq
    <2>5. ASSUME NEW c \in Clients, PutCryptoKey(c) PROVE SealedKeyStays'
      BY <2>0, <2>5 DEF PutCryptoKey, NoReq
    <2>6. ASSUME NEW c \in Clients, Reset(c) PROVE SealedKeyStays'
      BY <2>6 DEF Reset
    <2>7. ASSUME NEW c \in Clients, WipeRings(c) PROVE SealedKeyStays'
      BY <2>7 DEF WipeRings, NoReq
    <2>8. ASSUME NEW c \in Clients, WipeKeys(c) PROVE SealedKeyStays'
      BY <2>0, <2>8 DEF WipeKeys, NoReq
    <2>9. QED
      BY <1>2, <2>1, <2>2, <2>3, <2>4, <2>5, <2>6, <2>7, <2>8, NextIsStep DEF Step
  <1>3. QED
    BY <1>1, <1>2

(* Two resets, or a reset and a creation, that are in progress together are   *)
(* recorded (Races).                                                         *)
LEMMA TogetherIsRaced ==
  ASSUME RacesKnown, NEW c \in Clients, NEW d \in Clients, c # d, Wiping(d), NEW k \in Key,
         Wiping(c) \/ Creating(c, k)
  PROVE  k \in raced
  BY DEF RacesKnown, Races

LEMMA RacesStep == RacesKnown /\ [Next]_vars => RacesKnown'
  <1> SUFFICES ASSUME RacesKnown, [Next]_vars PROVE RacesKnown'
    OBVIOUS
  <1>1. CASE UNCHANGED vars
    BY <1>1 DEF vars, RacesKnown, Races, Creating, Wiping
  <1>2. CASE Next
    BY <1>2, NextIsStep DEF RacesKnown
  <1>3. QED
    BY <1>1, <1>2

(* A ring is looked up before its key is, and only WipeRings takes it away.  *)
LEMMA CreatesStep ==
  TypeOK /\ RacesKnown /\ CreatesInRing /\ [Next]_vars => CreatesInRing'
  <1> SUFFICES ASSUME TypeOK, RacesKnown, CreatesInRing, [Next]_vars PROVE CreatesInRing'
    OBVIOUS
  <1>1. CASE UNCHANGED vars
    BY <1>1 DEF vars, CreatesInRing, Creating
  <1>2. CASE Next
    <2> SUFFICES ASSUME NEW e \in Clients, NEW j \in Key, j \notin raced', Creating(e, j)'
                 PROVE  j[1] \in keyrings'
      BY DEF CreatesInRing
    <2> USE RequestFields DEF TypeOK, CreateReq, WipeRingsReq, WipeKeysReq, CreatesInRing, Creating, Hold
    <2>0. j \notin raced
      BY <1>2, NextIsStep
    <2>1. ASSUME NEW r \in Rings, CreateKeyRing(r) PROVE j[1] \in keyrings'
      BY <2>0, <2>1 DEF CreateKeyRing
    <2>2. ASSUME NEW k \in Key, Encrypt(k) PROVE j[1] \in keyrings'
      BY <2>0, <2>2 DEF Encrypt
    <2>3. ASSUME NEW k \in Key, NEW c \in Clients, CreateCryptoKey(c, k) PROVE j[1] \in keyrings'
      BY <2>0, <2>3 DEF CreateCryptoKey
    <2>4. ASSUME NEW c \in Clients, GetCryptoKey(c) PROVE j[1] \in keyrings'
      BY <2>0, <2>4 DEF GetCryptoKey, NoReq
    <2>5. ASSUME NEW c \in Clients, PutCryptoKey(c) PROVE j[1] \in keyrings'
      BY <2>0, <2>5 DEF PutCryptoKey, NoReq
    <2>6. ASSUME NEW c \in Clients, Reset(c) PROVE j[1] \in keyrings'
      BY <2>0, <2>6 DEF Reset
    <2>7. ASSUME NEW c \in Clients, WipeRings(c) PROVE j[1] \in keyrings'
      <3>1. c # e /\ Creating(e, j) /\ Wiping(c)
        BY <2>7 DEF WipeRings, NoReq, Wiping
      <3>2. QED
        BY <2>0, <3>1, TogetherIsRaced
    <2>8. ASSUME NEW c \in Clients, WipeKeys(c) PROVE j[1] \in keyrings'
      BY <2>0, <2>8 DEF WipeKeys, NoReq
    <2>9. QED
      BY <1>2, <2>1, <2>2, <2>3, <2>4, <2>5, <2>6, <2>7, <2>8, NextIsStep DEF Step
  <1>3. QED
    BY <1>1, <1>2

(* A reset that is alone is the only one to delete what it has listed.       *)
LEMMA WipesStep ==
  TypeOK /\ RacesKnown /\ WipesWhatIsThere /\ [Next]_vars => WipesWhatIsThere'
  <1> SUFFICES ASSUME TypeOK, RacesKnown, WipesWhatIsThere, [Next]_vars PROVE WipesWhatIsThere'
    OBVIOUS
  <1>1. CASE UNCHANGED vars
    BY <1>1 DEF vars, WipesWhatIsThere, Stored
  <1>2. CASE Next
    <2> DEFINE Found(e) == /\ req[e].op = "wipeRings" => req[e].left \subseteq keyrings
                           /\ req[e].op = "wipeKeys" => req[e].left \subseteq Stored
    <2> SUFFICES ASSUME NEW e \in Clients, raced' # Key PROVE Found(e)'
      BY DEF WipesWhatIsThere
    <2>0. Found(e) /\ raced # Key
      <3>1. raced' \subseteq Key
        BY <1>2, NextIsStep DEF TypeOK, Races
      <3>2. QED
        BY <1>2, <3>1, NextIsStep DEF WipesWhatIsThere
    <2>1. ASSUME NEW c \in Clients, c # e, Wiping(c) PROVE ~Wiping(e)
      BY <2>0, <2>1, TogetherIsRaced DEF TypeOK
    <2> USE RequestFields DEF TypeOK, CreateReq, WipeRingsReq, WipeKeysReq, Hold, Stored
    <2>2. ASSUME NEW r \in Rings, CreateKeyRing(r) PROVE Found(e)'
      BY <2>0, <2>2 DEF CreateKeyRing
    <2>3. ASSUME NEW k \in Key, Encrypt(k) PROVE Found(e)'
      BY <2>0, <2>3 DEF Encrypt
    <2>4. ASSUME NEW k \in Key, NEW c \in Clients, CreateCryptoKey(c, k) PROVE Found(e)'
      BY <2>0, <2>4 DEF CreateCryptoKey
    <2>5. ASSUME NEW c \in Clients, GetCryptoKey(c) PROVE Found(e)'
      BY <2>0, <2>5 DEF GetCryptoKey, NoReq
    <2>6. ASSUME NEW c \in Clients, PutCryptoKey(c) PROVE Found(e)'
      BY <2>0, <2>6 DEF PutCryptoKey, NoReq
    <2>7. ASSUME NEW c \in Clients, Reset(c) PROVE Found(e)'
      BY <2>0, <2>7 DEF Reset
    <2>8. ASSUME NEW c \in Clients, WipeRings(c) PROVE Found(e)'
      <3>1. CASE c = e
        BY <2>0, <2>8, <3>1 DEF WipeRings, NoReq
      <3>2. CASE c # e
        BY <2>1, <2>8, <3>2 DEF WipeRings, Wiping
      <3>3. QED
        BY <3>1, <3>2
    <2>9. ASSUME NEW c \in Clients, WipeKeys(c) PROVE Found(e)'
      <3>1. CASE c = e
        BY <2>0, <2>9, <3>1 DEF WipeKeys, NoReq
      <3>2. CASE c # e
        BY <2>1, <2>9, <3>2 DEF WipeKeys, Wiping
      <3>3. QED
        BY <3>1, <3>2
    <2>10. QED
      BY <1>2, <2>2, <2>3, <2>4, <2>5, <2>6, <2>7, <2>8, <2>9, NextIsStep DEF Step
  <1>3. QED
    BY <1>1, <1>2

(* A ring that goes leaves its keys to the same reset, which lists them once *)
(* all rings are gone and deletes each of them (WipeRings, WipeKeys).        *)
LEMMA DoomedStep ==
  TypeOK /\ CreatesInRing /\ WipesWhatIsThere /\ OrphanIsDoomed /\ [Next]_vars => OrphanIsDoomed'
  <1> SUFFICES ASSUME TypeOK, CreatesInRing, WipesWhatIsThere, OrphanIsDoomed, [Next]_vars
               PROVE  OrphanIsDoomed'
    OBVIOUS
  <1>1. CASE UNCHANGED vars
    BY <1>1 DEF vars, OrphanIsDoomed, Stored
  <1>2. CASE Next
    <2> DEFINE Dooms(e, j) == \/ req[e].op = "wipeRings"
                              \/ req[e].op = "wipeKeys" /\ j \in req[e].left
    <2> SUFFICES ASSUME NEW j \in Key, j \in Stored', j \notin raced', j[1] \notin keyrings'
                 PROVE  \E e \in Clients : Dooms(e, j)'
      BY DEF OrphanIsDoomed, Stored
    <2>0. j \notin raced /\ raced # Key
      BY <1>2, NextIsStep
    <2>1. j \in Stored /\ j[1] \notin keyrings => \E e \in Clients : Dooms(e, j)
      BY <2>0 DEF OrphanIsDoomed
    <2> USE RequestFields DEF TypeOK, CreateReq, WipeRingsReq, WipeKeysReq, Hold, Stored
    <2>2. ASSUME NEW r \in Rings, CreateKeyRing(r) PROVE \E e \in Clients : Dooms(e, j)'
      BY <2>1, <2>2 DEF CreateKeyRing
    <2>3. ASSUME NEW k \in Key, Encrypt(k) PROVE \E e \in Clients : Dooms(e, j)'
      BY <2>1, <2>3 DEF Encrypt
    <2>4. ASSUME NEW k \in Key, NEW c \in Clients, CreateCryptoKey(c, k)
          PROVE  \E e \in Clients : Dooms(e, j)'
      <3>1. PICK e \in Clients : Dooms(e, j)
        BY <2>1, <2>4 DEF CreateCryptoKey
      <3>2. Dooms(e, j)'
        BY <2>4, <3>1 DEF CreateCryptoKey, Idle, NoReq
      <3>3. QED
        BY <3>2
    <2>5. ASSUME NEW c \in Clients, GetCryptoKey(c) PROVE \E e \in Clients : Dooms(e, j)'
      <3>1. PICK e \in Clients : Dooms(e, j)
        BY <2>1, <2>5 DEF GetCryptoKey
      <3>2. Dooms(e, j)'
        BY <2>5, <3>1 DEF GetCryptoKey
      <3>3. QED
        BY <3>2
    <2>6. ASSUME NEW c \in Clients, PutCryptoKey(c) PROVE \E e \in Clients : Dooms(e, j)'
      <3>1. j # req[c].key
        BY <2>0, <2>6 DEF PutCryptoKey, CreatesInRing, Creating
      <3>2. PICK e \in Clients : Dooms(e, j)
        BY <2>1, <2>6, <3>1 DEF PutCryptoKey
      <3>3. Dooms(e, j)'
        BY <2>6, <3>2 DEF PutCryptoKey
      <3>4. QED
        BY <3>3
    <2>7. ASSUME NEW c \in Clients, Reset(c) PROVE \E e \in Clients : Dooms(e, j)'
      BY <2>7 DEF Reset
    <2>8. ASSUME NEW c \in Clients, WipeRings(c) PROVE \E e \in Clients : Dooms(e, j)'
      <3>1. Dooms(c, j)'
        BY <2>0, <2>8 DEF WipeRings, WipesWhatIsThere
      <3>2. QED
        BY <3>1
    <2>9. ASSUME NEW c \in Clients, WipeKeys(c) PROVE \E e \in Clients : Dooms(e, j)'
      <3>1. PICK e \in Clients : Dooms(e, j)
        BY <2>1, <2>9 DEF WipeKeys
      <3>2. Dooms(e, j)'
        BY <2>0, <2>9, <3>1 DEF WipeKeys, WipesWhatIsThere
      <3>3. QED
        BY <3>2
    <2>10. QED
      BY <1>2, <2>2, <2>3, <2>4, <2>5, <2>6, <2>7, <2>8, <2>9, NextIsStep DEF Step
  <1>3. QED
    BY <1>1, <1>2

LEMMA InvariantInit == Init => IInv
  BY DEF Init, IInv, TypeOK, Request, NoReq, SealedKeyStays, RacesKnown, Races, CreatesInRing,
         WipesWhatIsThere, OrphanIsDoomed, Creating, Wiping, Stored

LEMMA Invariant == Spec => []IInv
  <1>1. IInv /\ [Next]_vars => IInv'
    BY TypeStep, SealedStep, RacesStep, CreatesStep, WipesStep, DoomedStep DEF IInv
  <1>2. QED
    BY InvariantInit, <1>1, PTL DEF Spec

(* The state of KMS keeps its shape: requests hold what their handler needs. *)
THEOREM KMSTypeCorrect == Spec => []TypeOK
  <1>1. IInv => TypeOK
    BY DEF IInv
  <1>2. QED
    BY <1>1, Invariant, PTL

(* Every ciphertext is decrypted until a reset wipes its key, for any number *)
(* of rings, keys, calls in progress and materials drawn: a key that exists  *)
(* is never replaced, however creations and resets interleave                *)
(* (cryptoKeyCollection, encrypt, decrypt).                                  *)
THEOREM CiphertextsStayReadable == Spec => []CiphertextOpens
  <1>1. IInv => CiphertextOpens
    BY DEF IInv, TypeOK, SealedKeyStays, CiphertextOpens, Decrypts, Stored
  <1>2. QED
    BY <1>1, Invariant, PTL

(* A reset leaves no key of a ring it has taken away, unless the key was     *)
(* created beside the reset or two resets ran at once (handleReset).         *)
THEOREM ResetLeavesNoOrphan == Spec => []KeyHasRing
  <1>1. IInv => KeyHasRing
    BY DEF IInv, OrphanIsDoomed, KeyHasRing, Stored, Idle, NoReq
  <1>2. QED
    BY <1>1, Invariant, PTL

-----------------------------------------------------------------------------
(* Secret Manager. *)

(* A set of numbers has a least one, and one with a bound a greatest one. *)
LEMMA LeastNumber ==
  ASSUME NEW S \in SUBSET Nat, S # {}
  PROVE  \E x \in S : \A y \in S : x <= y
  <1> DEFINE R == {p \in Nat \X Nat : p[1] < p[2]}
  <1>1. IsWellFoundedOn(R, Nat)
    BY NatLessThanWellFounded DEF OpToRel
  <1> HIDE DEF R
  <1>2. PICK m \in S : \A k \in S : <<k, m>> \notin R
    BY <1>1, WFMin, Zenon
  <1>3. \A k \in S : ~(k < m)
    BY <1>2 DEF R
  <1>4. QED
    BY <1>3

LEMMA BoundedHasGreatest ==
  ASSUME NEW S \in SUBSET Nat, S # {}, NEW n \in Nat, \A x \in S : x <= n
  PROVE  \E x \in S : \A y \in S : x >= y
  <1> DEFINE T == {n - x : x \in S}
  <1>1. T \subseteq Nat /\ T # {}
    <2>1. \A x \in S : n - x \in Nat
      OBVIOUS
    <2>2. PICK x \in S : TRUE
      OBVIOUS
    <2>3. n - x \in T
      OBVIOUS
    <2>4. QED
      BY <2>1, <2>3, Zenon
  <1>2. PICK m \in T : \A k \in T : m <= k
    BY <1>1, LeastNumber
  <1>3. PICK x \in S : m = n - x
    BY <1>2
  <1>4. ASSUME NEW y \in S PROVE x >= y
    <2>1. m <= n - y
      BY <1>2
    <2>2. QED
      BY <1>3, <2>1
  <1>5. QED
    BY <1>4

(* The fields of a request are those of its operation (req in SecretManager). *)
LEMMA SmRequestFields ==
  ASSUME NEW r \in Sm!Request
  PROVE  /\ r.op = "draw" => r.secret \in Pair /\ r.payload \in 1..MaxVersions
         /\ r.op = "put" => r.ver \in Sm!Version
         /\ r.op \in {"list", "forget"} => r.secret \in Pair
         /\ r.op = "cascade" => r \in [op : {"cascade"}, secret : Pair, keys : SUBSET Nat]
         /\ r.op = "wipe" => r \in [op : {"wipe"}, secrets : SUBSET Pair]
         /\ r.op = "wipe versions" => r \in [op : {"wipe versions"}, left : SUBSET Sm!Version]
  <1>1. \/ r = Sm!NoReq
        \/ r \in [op : {"draw"}, secret : Pair, payload : 1..MaxVersions]
        \/ r \in [op : {"put"}, ver : Sm!Version]
        \/ r \in [op : {"list", "forget"}, secret : Pair]
        \/ r \in [op : {"cascade"}, secret : Pair, keys : SUBSET Nat]
        \/ r \in [op : {"wipe"}, secrets : SUBSET Pair]
        \/ r \in [op : {"wipe versions"}, left : SUBSET Sm!Version]
    BY Zenon DEF Sm!Request
  <1>2. CASE r = Sm!NoReq
    BY <1>2 DEF Sm!NoReq
  <1>3. CASE r \in [op : {"draw"}, secret : Pair, payload : 1..MaxVersions]
    BY <1>3
  <1>4. CASE r \in [op : {"put"}, ver : Sm!Version]
    BY <1>4
  <1>5. CASE r \in [op : {"list", "forget"}, secret : Pair]
    BY <1>5
  <1>6. CASE r \in [op : {"cascade"}, secret : Pair, keys : SUBSET Nat]
    BY <1>6
  <1>7. CASE r \in [op : {"wipe"}, secrets : SUBSET Pair]
    BY <1>7
  <1>8. CASE r \in [op : {"wipe versions"}, left : SUBSET Sm!Version]
    BY <1>8
  <1>9. QED
    BY <1>1, <1>2, <1>3, <1>4, <1>5, <1>6, <1>7, <1>8

(* What a request is made of is a request. *)
LEMMA SmRequests ==
  /\ Sm!NoReq \in Sm!Request
  /\ \A s \in Pair, p \in 1..MaxVersions : [op |-> "draw", secret |-> s, payload |-> p] \in Sm!Request
  /\ \A v \in Sm!Version : [op |-> "put", ver |-> v] \in Sm!Request
  /\ \A s \in Pair : /\ [op |-> "list", secret |-> s] \in Sm!Request
                     /\ [op |-> "forget", secret |-> s] \in Sm!Request
  /\ \A s \in Pair, K \in SUBSET Nat : [op |-> "cascade", secret |-> s, keys |-> K] \in Sm!Request
  /\ \A S \in SUBSET Pair : [op |-> "wipe", secrets |-> S] \in Sm!Request
  /\ \A V \in SUBSET Sm!Version : [op |-> "wipe versions", left |-> V] \in Sm!Request
  BY DEF Sm!Request, Sm!NoReq

LEMMA SmVersions ==
  ASSUME NEW v \in Sm!Version
  PROVE  v.secret \in Pair /\ v.num \in Nat /\ v.payload \in 1..MaxVersions
  BY DEF Sm!Version

(* What a step of a call does to the requests. *)
LEMMA SmHold ==
  ASSUME Sm!TypeOK, NEW c \in Clients, NEW r \in Sm!Request, Sm!Hold(c, r)
  PROVE  /\ smReq' \in [Clients -> Sm!Request] /\ smReq'[c] = r
         /\ \A d \in Clients \ {c} : smReq'[d] = smReq[d]
  BY DEF Sm!TypeOK, Sm!Hold

(* What every step does to the record of races. *)
RacesGrow == smRaced' \subseteq Pair /\ smRaced \subseteq smRaced' /\ Sm!Races' \subseteq smRaced'

LEMMA SmRacesGrow == Sm!TypeOK /\ Sm!Next => RacesGrow
  <1> SUFFICES ASSUME Sm!TypeOK, Sm!Next PROVE RacesGrow
    OBVIOUS
  <1>1. Sm!Races' \subseteq Pair
    BY DEF Sm!Races
  <1>2. smRaced' = smRaced \cup Sm!Races' \cup {s \in Pair : smRestarts' # smRestarts /\ Sm!Of(s, versions) # {}}
    BY DEF Sm!Next
  <1>3. QED
    BY <1>1, <1>2, Zenon DEF RacesGrow, Sm!TypeOK

(* Two calls that get in each other's way are recorded (Races). *)
LEMMA SmAddRaced ==
  ASSUME Sm!RacesKept, NEW c \in Clients, NEW d \in Clients, NEW s \in Pair,
         Sm!Adding(c, s), Sm!Deleting(d, s) \/ Sm!Wiping(d)
  PROVE  s \in smRaced
  BY DEF Sm!RacesKept, Sm!Races

LEMMA SmWipeRaced ==
  ASSUME Sm!RacesKept, NEW c \in Clients, NEW d \in Clients, c # d,
         Sm!Wiping(c), Sm!Wiping(d) \/ \E t \in Pair : Sm!Deleting(d, t)
  PROVE  Pair \subseteq smRaced
  BY DEF Sm!RacesKept, Sm!Races

LEMMA SmRacedNext ==
  ASSUME RacesGrow, NEW c \in Clients, NEW d \in Clients
  PROVE  /\ \A s \in Pair : Sm!Adding(c, s)' /\ (Sm!Deleting(d, s)' \/ Sm!Wiping(d)') => s \in smRaced'
         /\ c # d /\ Sm!Wiping(c)' /\ (Sm!Wiping(d)' \/ \E t \in Pair : Sm!Deleting(d, t)')
               => Pair \subseteq smRaced'
  BY DEF RacesGrow, Sm!Races

(* The parts of the invariant about the stored data, and about the calls. *)
SmStored == Sm!NamesUnique /\ Sm!CountersAhead /\ Sm!DrawnOnce /\ Sm!GrantedStored

SmCalls == Sm!AddsToStored /\ Sm!CascadesAll /\ Sm!WipesFind /\ Sm!OrphansDoomed

(* addVersion finds the secret (addVersion in secretmanager.go). *)
LEMMA SmAddVersionStep ==
  ASSUME Sm!IInv, Sm!TypeOK', RacesGrow, NEW c \in Clients, NEW s \in Pair, Sm!AddVersion(c, s)
  PROVE  SmStored' /\ SmCalls'
  <1> DEFINE r == [op |-> "draw", secret |-> s, payload |-> calls + 1]
  <1>1. /\ smReq[c].op = "none" /\ smReq'[c].op = "draw" /\ smReq'[c].secret = s
        /\ \A d \in Clients \ {c} : smReq'[d] = smReq[d]
    BY DEF Sm!AddVersion, Sm!Idle, Sm!NoReq, Sm!Hold, Sm!IInv, Sm!TypeOK
  <1>2. /\ s \in secrets /\ smRaced \subseteq smRaced'
        /\ UNCHANGED <<secrets, versions, verSeq, granted>>
    BY DEF Sm!AddVersion, RacesGrow
  <1>3. Sm!NamesUnique'
    BY <1>2 DEF Sm!IInv, Sm!NamesUnique, Sm!SameName
  <1>4. Sm!CountersAhead'
    BY <1>1, <1>2 DEF Sm!IInv, Sm!CountersAhead
  <1>5. Sm!DrawnOnce'
    BY <1>1, <1>2 DEF Sm!IInv, Sm!DrawnOnce, Sm!SameName
  <1>6. Sm!GrantedStored'
    BY <1>2 DEF Sm!IInv, Sm!GrantedStored
  <1>7. Sm!AddsToStored'
    BY <1>1, <1>2 DEF Sm!IInv, Sm!AddsToStored, Sm!Adding
  <1>8. Sm!CascadesAll'
    BY <1>1, <1>2 DEF Sm!IInv, Sm!CascadesAll, Sm!Deleting, Sm!Of
  <1>9. Sm!WipesFind'
    BY <1>1, <1>2, ZenonT(60) DEF Sm!IInv, Sm!WipesFind, Sm!SameName
  <1>10. Sm!OrphansDoomed'
    BY <1>1, <1>2, ZenonT(60) DEF Sm!IInv, Sm!OrphansDoomed, Sm!Doomed, Sm!Deleting
  <1>11. QED
    BY <1>3, <1>4, <1>5, <1>6, <1>7, <1>8, <1>9, <1>10 DEF SmStored, SmCalls

(* The number drawn is above those of the stored and the waiting versions    *)
(* (the counter under mu).                                                   *)
LEMMA SmDrawVersionStep ==
  ASSUME Sm!IInv, Sm!TypeOK', RacesGrow, NEW c \in Clients, Sm!DrawVersion(c)
  PROVE  SmStored' /\ SmCalls'
  <1> DEFINE s == smReq[c].secret
             v == [secret |-> s, num |-> verSeq[s] + 1, payload |-> smReq[c].payload]
  <1>0. /\ smReq[c] \in Sm!Request /\ smReq[c].op = "draw" /\ verSeq \in [Pair -> Nat]
        /\ versions \subseteq Sm!Version
    BY DEF Sm!DrawVersion, Sm!IInv, Sm!TypeOK
  <1>1. s \in Pair
    BY <1>0, SmRequestFields
  <1>2. /\ smReq'[c].op = "put" /\ smReq'[c].ver = v
        /\ \A d \in Clients \ {c} : smReq'[d] = smReq[d]
    BY DEF Sm!DrawVersion, Sm!NextVersion, Sm!Hold, Sm!IInv, Sm!TypeOK
  <1>3. /\ smRaced \subseteq smRaced'
        /\ UNCHANGED <<secrets, versions, granted>>
        /\ verSeq' = [verSeq EXCEPT ![s] = @ + 1]
    BY DEF Sm!DrawVersion, RacesGrow
  <1>4. verSeq[s] \in Nat /\ verSeq'[s] = verSeq[s] + 1 /\ \A t \in Pair \ {s} : verSeq'[t] = verSeq[t]
    BY <1>0, <1>1, <1>3
  <1>5. v.secret = s /\ v.num = verSeq[s] + 1
    OBVIOUS
  <1>6. \A w \in versions : w.secret \in Pair /\ w.num \in Nat
    BY <1>0, SmVersions
  <1>7. \A d \in Clients : smReq[d].op = "put" => smReq[d].ver.secret \in Pair /\ smReq[d].ver.num \in Nat
    BY SmRequestFields, SmVersions DEF Sm!IInv, Sm!TypeOK
  <1> HIDE DEF v, s
  <1>8. Sm!NamesUnique'
    BY <1>3 DEF Sm!IInv, Sm!NamesUnique, Sm!SameName
  <1>9. Sm!CountersAhead'
    <2>1. ASSUME NEW w \in versions PROVE w.secret \in smRaced' \/ w.num <= verSeq'[w.secret]
      BY <1>3, <1>4, <1>6 DEF Sm!IInv, Sm!CountersAhead
    <2>2. ASSUME NEW d \in Clients, smReq'[d].op = "put"
          PROVE  smReq'[d].ver.secret \in smRaced' \/ smReq'[d].ver.num <= verSeq'[smReq'[d].ver.secret]
      <3>1. CASE d = c
        BY <1>2, <1>4, <1>5, <3>1
      <3>2. CASE d # c
        BY <1>2, <1>3, <1>4, <1>7, <2>2, <3>2 DEF Sm!IInv, Sm!CountersAhead
      <3>3. QED
        BY <3>1, <3>2
    <2>3. QED
      BY <1>3, <2>1, <2>2 DEF Sm!CountersAhead
  <1>10. Sm!DrawnOnce'
    <2>1. ASSUME s \notin smRaced, NEW w \in versions PROVE ~Sm!SameName(w, v)
      BY <1>4, <1>5, <1>6, <2>1 DEF Sm!IInv, Sm!CountersAhead, Sm!SameName
    <2>2. ASSUME s \notin smRaced, NEW d \in Clients, smReq[d].op = "put"
          PROVE  ~Sm!SameName(v, smReq[d].ver) /\ ~Sm!SameName(smReq[d].ver, v)
      BY <1>4, <1>5, <1>7, <2>2 DEF Sm!IInv, Sm!CountersAhead, Sm!SameName
    <2>3. ASSUME NEW d \in Clients, smReq'[d].op = "put", smReq'[d].ver.secret \notin smRaced'
          PROVE  /\ \A w \in versions : ~Sm!SameName(w, smReq'[d].ver)
                 /\ \A e \in Clients \ {d} : smReq'[e].op = "put" => ~Sm!SameName(smReq'[d].ver, smReq'[e].ver)
      <3>1. CASE d = c
        BY <1>2, <1>3, <1>5, <2>1, <2>2, <2>3, <3>1
      <3>2. CASE d # c
        <4>1. /\ smReq[d].op = "put" /\ smReq'[d].ver = smReq[d].ver /\ smReq[d].ver.secret \notin smRaced
          BY <1>2, <1>3, <2>3, <3>2
        <4>2. ASSUME NEW e \in Clients \ {d}, smReq'[e].op = "put"
              PROVE  ~Sm!SameName(smReq'[d].ver, smReq'[e].ver)
          <5>1. CASE e = c
            BY <1>2, <1>5, <2>2, <4>1, <5>1 DEF Sm!SameName
          <5>2. CASE e # c
            BY <1>2, <4>1, <4>2, <5>2 DEF Sm!IInv, Sm!DrawnOnce
          <5>3. QED
            BY <5>1, <5>2
        <4>3. QED
          BY <4>1, <4>2 DEF Sm!IInv, Sm!DrawnOnce
      <3>3. QED
        BY <3>1, <3>2
    <2>4. QED
      BY <1>3, <2>3 DEF Sm!DrawnOnce, Sm!SameName
  <1>11. Sm!GrantedStored'
    BY <1>3 DEF Sm!IInv, Sm!GrantedStored
  <1>12. Sm!AddsToStored'
    <2>1. Sm!Adding(c, s)
      BY <1>0 DEF Sm!Adding, s
    <2>2. QED
      BY <1>1, <1>2, <1>3, <1>5, <2>1 DEF Sm!IInv, Sm!AddsToStored, Sm!Adding
  <1>13. Sm!CascadesAll'
    BY <1>2, <1>3 DEF Sm!IInv, Sm!CascadesAll, Sm!Deleting, Sm!Of
  <1>14. Sm!WipesFind'
    BY <1>2, <1>3, ZenonT(60) DEF Sm!IInv, Sm!WipesFind, Sm!SameName
  <1>15. Sm!OrphansDoomed'
    BY <1>0, <1>2, <1>3 DEF Sm!IInv, Sm!OrphansDoomed, Sm!Doomed, Sm!Deleting
  <1>16. QED
    BY <1>8, <1>9, <1>10, <1>11, <1>12, <1>13, <1>14, <1>15 DEF SmStored, SmCalls

(* The version put has a name of its own, so that it overwrites none that    *)
(* was answered, and its secret is there (the Put of addVersion).            *)
LEMMA SmPutVersionStep ==
  ASSUME Sm!IInv, Sm!TypeOK', RacesGrow, NEW c \in Clients, Sm!PutVersion(c)
  PROVE  SmStored' /\ SmCalls'
  <1> DEFINE v == smReq[c].ver
  <1>0. smReq[c] \in Sm!Request /\ smReq[c].op = "put"
    BY DEF Sm!PutVersion, Sm!IInv, Sm!TypeOK
  <1>1. v.secret \in Pair /\ v.num \in Nat
    BY <1>0, SmRequestFields, SmVersions
  <1>2. /\ smReq'[c].op = "none"
        /\ \A d \in Clients \ {c} : smReq'[d] = smReq[d]
    BY DEF Sm!PutVersion, Sm!NoReq, Sm!Hold, Sm!IInv, Sm!TypeOK
  <1>3. /\ smRaced \subseteq smRaced'
        /\ UNCHANGED <<secrets, verSeq>>
        /\ versions' = {w \in versions : ~Sm!SameName(w, v)} \cup {v}
        /\ granted' = granted \cup {v}
    BY DEF Sm!PutVersion, RacesGrow
  <1>4. Sm!Adding(c, v.secret)
    BY <1>0 DEF Sm!Adding
  <1>5. /\ v.secret \in smRaced \/ v.num <= verSeq[v.secret]
        /\ \/ v.secret \in smRaced
           \/ /\ \A w \in versions : ~Sm!SameName(w, v)
              /\ \A d \in Clients \ {c} : smReq[d].op = "put" => ~Sm!SameName(v, smReq[d].ver)
    BY <1>0 DEF Sm!IInv, Sm!CountersAhead, Sm!DrawnOnce
  <1>6. v.secret \in smRaced \/ v.secret \in secrets
    BY <1>1, <1>4 DEF Sm!IInv, Sm!AddsToStored
  <1>7. \A w \in versions : w.secret \in Pair /\ w.num \in Nat
    BY SmVersions DEF Sm!IInv, Sm!TypeOK
  <1> HIDE DEF v
  <1>8. Sm!NamesUnique'
    BY <1>3 DEF Sm!IInv, Sm!NamesUnique, Sm!SameName
  <1>9. Sm!CountersAhead'
    BY <1>2, <1>3, <1>5 DEF Sm!IInv, Sm!CountersAhead
  <1>10. Sm!DrawnOnce'
    <2>1. ASSUME NEW d \in Clients, smReq'[d].op = "put", smReq'[d].ver.secret \notin smRaced'
          PROVE  /\ d # c /\ smReq'[d] = smReq[d]
                 /\ \A w \in versions' : ~Sm!SameName(w, smReq'[d].ver)
                 /\ \A e \in Clients \ {d} : smReq'[e].op = "put" => ~Sm!SameName(smReq'[d].ver, smReq'[e].ver)
      <3>1. /\ d # c /\ smReq'[d] = smReq[d] /\ smReq[d].ver.secret \notin smRaced
        BY <1>2, <1>3, <2>1
      <3>2. /\ \A w \in versions : ~Sm!SameName(w, smReq[d].ver)
            /\ \A e \in Clients \ {d} : smReq[e].op = "put" => ~Sm!SameName(smReq[d].ver, smReq[e].ver)
        BY <2>1, <3>1 DEF Sm!IInv, Sm!DrawnOnce
      <3>3. ~Sm!SameName(smReq[d].ver, v)
        BY <1>0, <3>1, <3>2 DEF v
      <3>4. ~Sm!SameName(v, smReq[d].ver)
        BY <3>3 DEF Sm!SameName
      <3>5. QED
        BY <1>2, <1>3, <3>1, <3>2, <3>4
    <2>2. QED
      BY <2>1 DEF Sm!DrawnOnce, Sm!SameName
  <1>11. Sm!GrantedStored'
    <2>1. ASSUME NEW w \in granted, w.secret \notin smRaced' PROVE w \in versions'
      <3>1. w \in versions
        BY <1>3, <2>1 DEF Sm!IInv, Sm!GrantedStored
      <3>2. ~Sm!SameName(w, v)
        BY <1>3, <1>5, <2>1, <3>1 DEF Sm!SameName
      <3>3. QED
        BY <1>3, <3>1, <3>2
    <2>2. QED
      BY <1>3, <2>1 DEF Sm!GrantedStored
  <1>12. Sm!AddsToStored'
    BY <1>2, <1>3 DEF Sm!IInv, Sm!AddsToStored, Sm!Adding
  <1>13. Sm!CascadesAll'
    <2>1. ASSUME NEW d \in Clients, NEW s \in Pair \ smRaced', Sm!Deleting(d, s)'
          PROVE  s # v.secret /\ s \notin smRaced /\ smReq'[d] = smReq[d] /\ Sm!Deleting(d, s)
      <3>1. smReq'[d] = smReq[d] /\ Sm!Deleting(d, s) /\ s \notin smRaced
        BY <1>2, <1>3, <2>1 DEF Sm!Deleting
      <3>2. QED
        BY <1>1, <1>4, <3>1, SmAddRaced DEF Sm!IInv
    <2>2. ASSUME NEW s \in Pair, s # v.secret
          PROVE  Sm!Of(s, granted') = Sm!Of(s, granted) /\ Sm!Of(s, versions') = Sm!Of(s, versions)
      BY <1>3, <2>2 DEF Sm!Of, Sm!SameName
    <2>3. QED
      BY <2>1, <2>2 DEF Sm!IInv, Sm!CascadesAll
  <1>14. Sm!WipesFind'
    <2>1. ASSUME NEW x, \E w \in versions : Sm!SameName(x, w) PROVE \E w \in versions' : Sm!SameName(x, w)
      BY <1>3, <2>1 DEF Sm!SameName
    <2>2. ASSUME NEW d \in Clients, ~(Pair \subseteq smRaced')
          PROVE  /\ smReq'[d].op = "wipe" => smReq'[d].secrets \subseteq secrets'
                 /\ smReq'[d].op = "wipe versions" => \A x \in smReq'[d].left :
                       /\ \E w \in versions' : Sm!SameName(x, w)
                       /\ \A w \in smReq'[d].left : Sm!SameName(x, w) => x = w
      BY <1>2, <1>3, <2>1, <2>2 DEF Sm!IInv, Sm!WipesFind
    <2>3. QED
      BY <2>2 DEF Sm!WipesFind, Sm!SameName
  <1>15. Sm!OrphansDoomed'
    BY <1>0, <1>2, <1>3, <1>6 DEF Sm!IInv, Sm!OrphansDoomed, Sm!Doomed, Sm!Deleting
  <1>16. QED
    BY <1>8, <1>9, <1>10, <1>11, <1>12, <1>13, <1>14, <1>15 DEF SmStored, SmCalls

LEMMA SmCreateSecretStep ==
  ASSUME Sm!IInv, Sm!TypeOK', RacesGrow, NEW s \in Pair, Sm!CreateSecret(s)
  PROVE  SmStored' /\ SmCalls'
  <1>1. /\ smRaced \subseteq smRaced' /\ secrets \subseteq secrets'
        /\ UNCHANGED <<versions, verSeq, smReq, granted>>
    BY DEF Sm!CreateSecret, RacesGrow
  <1>2. SmStored'
    BY <1>1 DEF Sm!IInv, SmStored, Sm!NamesUnique, Sm!CountersAhead, Sm!DrawnOnce, Sm!GrantedStored, Sm!SameName
  <1>3. Sm!AddsToStored' /\ Sm!CascadesAll'
    BY <1>1 DEF Sm!IInv, Sm!AddsToStored, Sm!CascadesAll, Sm!Adding, Sm!Deleting, Sm!Of
  <1>4. Sm!WipesFind' /\ Sm!OrphansDoomed'
    BY <1>1 DEF Sm!IInv, Sm!WipesFind, Sm!OrphansDoomed, Sm!Doomed, Sm!Deleting, Sm!SameName
  <1>5. QED
    BY <1>2, <1>3, <1>4 DEF SmCalls

(* DELETE of a secret promises nothing of it any more and dooms its          *)
(* versions; an addVersion in progress on it is recorded as a race.          *)
LEMMA SmDeleteSecretStep ==
  ASSUME Sm!IInv, Sm!TypeOK', RacesGrow, NEW c \in Clients, NEW s \in Pair, Sm!DeleteSecret(c, s)
  PROVE  SmStored' /\ SmCalls'
  <1>1. /\ smReq[c].op = "none" /\ smReq'[c].op = "list" /\ smReq'[c].secret = s
        /\ \A d \in Clients \ {c} : smReq'[d] = smReq[d]
    BY DEF Sm!DeleteSecret, Sm!Idle, Sm!NoReq, Sm!Hold, Sm!IInv, Sm!TypeOK
  <1>2. /\ smRaced \subseteq smRaced' /\ secrets' = secrets \ {s}
        /\ granted' = granted \ Sm!Of(s, granted)
        /\ UNCHANGED <<versions, verSeq>>
    BY DEF Sm!DeleteSecret, RacesGrow
  <1>3. Sm!Deleting(c, s)'
    BY <1>1 DEF Sm!Deleting
  <1>4. Sm!NamesUnique' /\ Sm!CountersAhead'
    BY <1>1, <1>2 DEF Sm!IInv, Sm!NamesUnique, Sm!CountersAhead, Sm!SameName
  <1>5. Sm!DrawnOnce'
    BY <1>1, <1>2 DEF Sm!IInv, Sm!DrawnOnce, Sm!SameName
  <1>6. Sm!GrantedStored'
    BY <1>2 DEF Sm!IInv, Sm!GrantedStored
  <1>7. Sm!AddsToStored'
    <2>1. ASSUME NEW t \in Pair \ smRaced', NEW d \in Clients, Sm!Adding(d, t)' PROVE t \in secrets'
      <3>1. t # s
        BY <1>3, <2>1, SmRacedNext
      <3>2. d # c /\ Sm!Adding(d, t)
        BY <1>1, <2>1 DEF Sm!Adding
      <3>3. QED
        BY <1>2, <2>1, <3>1, <3>2 DEF Sm!IInv, Sm!AddsToStored
    <2>2. QED
      BY <2>1 DEF Sm!AddsToStored
  <1>8. Sm!CascadesAll'
    <2>1. Sm!Of(s, granted') = {} /\ \A t \in Pair : Sm!Of(t, granted') \subseteq Sm!Of(t, granted)
      BY <1>2 DEF Sm!Of
    <2>2. ASSUME NEW d \in Clients, NEW t \in Pair \ smRaced', Sm!Deleting(d, t)'
          PROVE  /\ Sm!Of(t, granted') = {}
                 /\ smReq'[d].op = "cascade" => \A v \in Sm!Of(t, versions') : v.num \in smReq'[d].keys
                 /\ smReq'[d].op = "forget" => Sm!Of(t, versions') = {}
      <3>1. CASE d = c
        BY <1>1, <2>1, <2>2, <3>1 DEF Sm!Deleting
      <3>2. CASE d # c
        <4>1. smReq'[d] = smReq[d] /\ Sm!Deleting(d, t) /\ t \in Pair \ smRaced
          BY <1>1, <1>2, <2>2, <3>2 DEF Sm!Deleting
        <4>2. QED
          BY <1>2, <2>1, <4>1 DEF Sm!IInv, Sm!CascadesAll
      <3>3. QED
        BY <3>1, <3>2
    <2>3. QED
      BY <2>2 DEF Sm!CascadesAll
  <1>9. Sm!WipesFind'
    <2>1. ASSUME NEW d \in Clients, Sm!Wiping(d)' PROVE Pair \subseteq smRaced'
      <3>1. d # c
        BY <1>1, <2>1 DEF Sm!Wiping
      <3>2. QED
        BY <1>3, <2>1, <3>1, SmRacedNext
    <2>2. QED
      BY <2>1 DEF Sm!WipesFind, Sm!Wiping
  <1>10. Sm!OrphansDoomed'
    BY <1>1, <1>2 DEF Sm!IInv, Sm!OrphansDoomed, Sm!Doomed, Sm!Deleting
  <1>11. QED
    BY <1>4, <1>5, <1>6, <1>7, <1>8, <1>9, <1>10 DEF SmStored, SmCalls

(* The cascade lists the versions of the secret (the List of DELETE). *)
LEMMA SmListVersionsStep ==
  ASSUME Sm!IInv, Sm!TypeOK', RacesGrow, NEW c \in Clients, Sm!ListVersions(c)
  PROVE  SmStored' /\ SmCalls'
  <1> DEFINE s == smReq[c].secret
  <1>1. /\ smReq[c].op = "list" /\ smReq'[c].op = "cascade" /\ smReq'[c].secret = s
        /\ smReq'[c].keys = {v.num : v \in Sm!Of(s, versions)}
        /\ \A d \in Clients \ {c} : smReq'[d] = smReq[d]
    BY DEF Sm!ListVersions, Sm!Hold, Sm!IInv, Sm!TypeOK
  <1>2. /\ smRaced \subseteq smRaced'
        /\ UNCHANGED <<secrets, versions, verSeq, granted>>
    BY DEF Sm!ListVersions, RacesGrow
  <1>3. \A d \in Clients, t \in Pair : Sm!Deleting(d, t)' <=> Sm!Deleting(d, t)
    BY <1>1 DEF Sm!Deleting
  <1>4. Sm!NamesUnique' /\ Sm!CountersAhead'
    BY <1>1, <1>2 DEF Sm!IInv, Sm!NamesUnique, Sm!CountersAhead, Sm!SameName
  <1>5. Sm!DrawnOnce'
    BY <1>1, <1>2 DEF Sm!IInv, Sm!DrawnOnce, Sm!SameName
  <1>6. Sm!GrantedStored'
    BY <1>2 DEF Sm!IInv, Sm!GrantedStored
  <1>7. Sm!AddsToStored'
    BY <1>1, <1>2 DEF Sm!IInv, Sm!AddsToStored, Sm!Adding
  <1>8. Sm!CascadesAll'
    <2>1. ASSUME NEW d \in Clients, NEW t \in Pair \ smRaced', Sm!Deleting(d, t)'
          PROVE  /\ Sm!Of(t, granted') = {}
                 /\ smReq'[d].op = "cascade" => \A v \in Sm!Of(t, versions') : v.num \in smReq'[d].keys
                 /\ smReq'[d].op = "forget" => Sm!Of(t, versions') = {}
      <3>1. Sm!Deleting(d, t) /\ t \in Pair \ smRaced
        BY <1>2, <1>3, <2>1
      <3>2. Sm!Of(t, granted) = {}
        BY <3>1 DEF Sm!IInv, Sm!CascadesAll
      <3>3. CASE d = c
        <4>1. t = s
          BY <1>1, <2>1, <3>3 DEF Sm!Deleting
        <4>2. QED
          BY <1>1, <1>2, <3>2, <3>3, <4>1
      <3>4. CASE d # c
        BY <1>1, <1>2, <3>1, <3>4 DEF Sm!IInv, Sm!CascadesAll
      <3>5. QED
        BY <3>3, <3>4
    <2>2. QED
      BY <2>1 DEF Sm!CascadesAll
  <1>9. Sm!WipesFind'
    BY <1>1, <1>2, ZenonT(60) DEF Sm!IInv, Sm!WipesFind, Sm!SameName
  <1>10. Sm!OrphansDoomed'
    BY <1>1, <1>2, ZenonT(60) DEF Sm!IInv, Sm!OrphansDoomed, Sm!Doomed, Sm!Deleting
  <1>11. QED
    BY <1>4, <1>5, <1>6, <1>7, <1>8, <1>9, <1>10 DEF SmStored, SmCalls

(* The cascade removes a version nobody is promised, or is through with the  *)
(* list when nothing is left.                                                *)
LEMMA SmDeleteVersionsStep ==
  ASSUME Sm!IInv, Sm!TypeOK', RacesGrow, NEW c \in Clients, Sm!DeleteVersions(c)
  PROVE  SmStored' /\ SmCalls'
  <1> DEFINE s == smReq[c].secret
  <1>0. smReq[c] \in [op : {"cascade"}, secret : Pair, keys : SUBSET Nat]
    BY SmRequestFields DEF Sm!DeleteVersions, Sm!IInv, Sm!TypeOK
  <1>1. /\ smReq[c].op = "cascade" /\ s \in Pair
        /\ smReq'[c].op \in {"cascade", "forget"} /\ smReq'[c].secret = s
        /\ \A d \in Clients \ {c} : smReq'[d] = smReq[d]
    BY <1>0 DEF Sm!DeleteVersions, Sm!Hold, Sm!IInv, Sm!TypeOK
  <1>2. /\ smRaced \subseteq smRaced'
        /\ versions' \subseteq versions
        /\ \A v \in versions : v.secret # s => v \in versions'
        /\ UNCHANGED <<secrets, verSeq, granted>>
    BY DEF Sm!DeleteVersions, RacesGrow
  <1>3. \/ smReq[c].keys = {} /\ smReq'[c].op = "forget"
        \/ \E n \in smReq[c].keys :
             /\ versions' = {v \in versions : v.secret # s \/ v.num # n}
             /\ smReq'[c].op = "cascade" /\ smReq'[c].keys = smReq[c].keys \ {n}
    BY <1>0 DEF Sm!DeleteVersions, Sm!Hold, Sm!IInv, Sm!TypeOK
  <1>4. Sm!Deleting(c, s)
    BY <1>1 DEF Sm!Deleting
  <1>5. s \in smRaced \/ (Sm!Of(s, granted) = {} /\ \A v \in Sm!Of(s, versions) : v.num \in smReq[c].keys)
    BY <1>1, <1>4 DEF Sm!IInv, Sm!CascadesAll
  <1> HIDE DEF s
  <1>6. \A d \in Clients, t \in Pair : Sm!Deleting(d, t)' <=> Sm!Deleting(d, t)
    BY <1>1, <1>4 DEF Sm!Deleting
  <1>7. Sm!NamesUnique' /\ Sm!CountersAhead'
    BY <1>1, <1>2 DEF Sm!IInv, Sm!NamesUnique, Sm!CountersAhead, Sm!SameName
  <1>8. Sm!DrawnOnce'
    BY <1>1, <1>2 DEF Sm!IInv, Sm!DrawnOnce, Sm!SameName
  <1>9. Sm!GrantedStored'
    BY <1>2, <1>5 DEF Sm!IInv, Sm!GrantedStored, Sm!Of
  <1>10. Sm!AddsToStored'
    BY <1>1, <1>2 DEF Sm!IInv, Sm!AddsToStored, Sm!Adding
  <1>11. Sm!CascadesAll'
    <2>1. ASSUME NEW d \in Clients, NEW t \in Pair \ smRaced', Sm!Deleting(d, t)'
          PROVE  /\ Sm!Of(t, granted') = {}
                 /\ smReq'[d].op = "cascade" => \A v \in Sm!Of(t, versions') : v.num \in smReq'[d].keys
                 /\ smReq'[d].op = "forget" => Sm!Of(t, versions') = {}
      <3>1. Sm!Deleting(d, t) /\ t \in Pair \ smRaced /\ Sm!Of(t, versions') \subseteq Sm!Of(t, versions)
        BY <1>2, <1>6, <2>1 DEF Sm!Of
      <3>2. Sm!Of(t, granted') = {}
        BY <1>2, <3>1 DEF Sm!IInv, Sm!CascadesAll
      <3>3. CASE d = c
        <4>1. t = s
          BY <1>1, <2>1, <3>3 DEF Sm!Deleting
        <4>2. CASE smReq[c].keys = {} /\ smReq'[c].op = "forget"
          BY <1>5, <3>1, <3>2, <3>3, <4>1, <4>2
        <4>3. CASE \E n \in smReq[c].keys :
                     /\ versions' = {v \in versions : v.secret # s \/ v.num # n}
                     /\ smReq'[c].op = "cascade" /\ smReq'[c].keys = smReq[c].keys \ {n}
          BY <1>5, <3>1, <3>2, <3>3, <4>1, <4>3 DEF Sm!Of
        <4>4. QED
          BY <1>3, <4>2, <4>3
      <3>4. CASE d # c
        BY <1>1, <3>1, <3>2, <3>4 DEF Sm!IInv, Sm!CascadesAll
      <3>5. QED
        BY <3>3, <3>4
    <2>2. QED
      BY <2>1 DEF Sm!CascadesAll
  <1>12. Sm!WipesFind'
    <2>1. ASSUME NEW d \in Clients, Sm!Wiping(d)' PROVE Pair \subseteq smRaced'
      <3>1. d # c /\ Sm!Wiping(d)
        BY <1>1, <2>1 DEF Sm!Wiping
      <3>2. QED
        BY <1>1, <1>2, <1>4, <3>1, SmWipeRaced DEF Sm!IInv
    <2>2. QED
      BY <2>1 DEF Sm!WipesFind, Sm!Wiping
  <1>13. Sm!OrphansDoomed'
    <2>1. ASSUME NEW v \in versions', v.secret \notin smRaced', v.secret \notin secrets' PROVE Sm!Doomed(v)'
      <3>0. v.secret \in Pair
        BY <2>1, SmVersions DEF Sm!TypeOK
      <3>1. PICK d \in Clients : \/ Sm!Deleting(d, v.secret) \/ smReq[d].op = "wipe"
                                 \/ smReq[d].op = "wipe versions" /\ v \in smReq[d].left
        BY <1>2, <2>1 DEF Sm!IInv, Sm!OrphansDoomed, Sm!Doomed
      <3>2. CASE Sm!Deleting(d, v.secret)
        BY <1>6, <3>0, <3>2 DEF Sm!Doomed
      <3>3. CASE ~Sm!Deleting(d, v.secret)
        <4>1. smReq'[d] = smReq[d]
          BY <1>1, <3>1, <3>3
        <4>2. QED
          BY <3>1, <3>3, <4>1 DEF Sm!Doomed
      <3>4. QED
        BY <3>2, <3>3
    <2>2. QED
      BY <2>1 DEF Sm!OrphansDoomed
  <1>14. QED
    BY <1>7, <1>8, <1>9, <1>10, <1>11, <1>12, <1>13 DEF SmStored, SmCalls

(* The counter is dropped when no version is left that it must be ahead of   *)
(* (delete(s.verSeq, name)).                                                 *)
LEMMA SmForgetCounterStep ==
  ASSUME Sm!IInv, Sm!TypeOK', RacesGrow, NEW c \in Clients, Sm!ForgetCounter(c)
  PROVE  SmStored' /\ SmCalls'
  <1> DEFINE s == smReq[c].secret
  <1>0. s \in Pair /\ verSeq \in [Pair -> Nat]
    BY SmRequestFields DEF Sm!ForgetCounter, Sm!IInv, Sm!TypeOK
  <1>1. /\ smReq[c].op = "forget" /\ smReq'[c].op = "none"
        /\ \A d \in Clients \ {c} : smReq'[d] = smReq[d]
    BY DEF Sm!ForgetCounter, Sm!NoReq, Sm!Hold, Sm!IInv, Sm!TypeOK
  <1>2. /\ smRaced \subseteq smRaced'
        /\ verSeq' = [verSeq EXCEPT ![s] = 0]
        /\ UNCHANGED <<secrets, versions, granted>>
    BY DEF Sm!ForgetCounter, RacesGrow
  <1>3. \A t \in Pair \ {s} : verSeq'[t] = verSeq[t]
    BY <1>0, <1>2
  <1>4. Sm!Deleting(c, s)
    BY <1>1 DEF Sm!Deleting
  <1>5. s \in smRaced \/ Sm!Of(s, versions) = {}
    BY <1>0, <1>1, <1>4 DEF Sm!IInv, Sm!CascadesAll
  <1>6. \A w \in versions : w.secret \in Pair /\ (w.secret = s => s \in smRaced)
    BY <1>5, SmVersions DEF Sm!IInv, Sm!TypeOK, Sm!Of
  <1>7. ASSUME NEW d \in Clients, smReq[d].op = "put"
        PROVE  smReq[d].ver.secret \in Pair /\ (smReq[d].ver.secret = s => s \in smRaced)
    <2>1. smReq[d].ver.secret \in Pair
      BY <1>7, SmRequestFields, SmVersions DEF Sm!IInv, Sm!TypeOK
    <2>2. Sm!Adding(d, smReq[d].ver.secret)
      BY <1>7 DEF Sm!Adding
    <2>3. QED
      BY <1>0, <1>4, <2>1, <2>2, SmAddRaced DEF Sm!IInv
  <1>8. \A v \in versions : Sm!Deleting(c, v.secret) => v.secret \in smRaced
    BY <1>6 DEF Sm!Deleting
  <1> HIDE DEF s
  <1>9. Sm!NamesUnique'
    BY <1>2 DEF Sm!IInv, Sm!NamesUnique, Sm!SameName
  <1>10. Sm!CountersAhead'
    <2>1. \A v \in versions : v.secret \in smRaced' \/ v.num <= verSeq'[v.secret]
      BY <1>2, <1>3, <1>6 DEF Sm!IInv, Sm!CountersAhead
    <2>2. ASSUME NEW d \in Clients, smReq'[d].op = "put"
          PROVE  smReq'[d].ver.secret \in smRaced' \/ smReq'[d].ver.num <= verSeq'[smReq'[d].ver.secret]
      <3>1. smReq'[d] = smReq[d]
        BY <1>1, <2>2
      <3>2. QED
        BY <1>2, <1>3, <1>7, <2>2, <3>1 DEF Sm!IInv, Sm!CountersAhead
    <2>3. QED
      BY <1>2, <2>1, <2>2 DEF Sm!CountersAhead
  <1>11. Sm!DrawnOnce'
    BY <1>1, <1>2 DEF Sm!IInv, Sm!DrawnOnce, Sm!SameName
  <1>12. Sm!GrantedStored'
    BY <1>2 DEF Sm!IInv, Sm!GrantedStored
  <1>13. Sm!AddsToStored'
    BY <1>1, <1>2 DEF Sm!IInv, Sm!AddsToStored, Sm!Adding
  <1>14. Sm!CascadesAll'
    BY <1>1, <1>2 DEF Sm!IInv, Sm!CascadesAll, Sm!Deleting, Sm!Of
  <1>15. Sm!WipesFind'
    BY <1>1, <1>2, ZenonT(60) DEF Sm!IInv, Sm!WipesFind, Sm!SameName
  <1>16. Sm!OrphansDoomed'
    <2>1. ASSUME NEW v \in versions', v.secret \notin smRaced', v.secret \notin secrets' PROVE Sm!Doomed(v)'
      <3>1. PICK d \in Clients : \/ Sm!Deleting(d, v.secret) \/ smReq[d].op = "wipe"
                                 \/ smReq[d].op = "wipe versions" /\ v \in smReq[d].left
        BY <1>2, <2>1 DEF Sm!IInv, Sm!OrphansDoomed, Sm!Doomed
      <3>2. smReq'[d] = smReq[d]
        BY <1>1, <1>2, <1>8, <2>1, <3>1
      <3>3. QED
        BY <3>1, <3>2 DEF Sm!Doomed, Sm!Deleting
    <2>2. QED
      BY <2>1 DEF Sm!OrphansDoomed
  <1>17. QED
    BY <1>9, <1>10, <1>11, <1>12, <1>13, <1>14, <1>15, <1>16 DEF SmStored, SmCalls

(* /admin/reset lists the secrets. *)
LEMMA SmResetStep ==
  ASSUME Sm!IInv, Sm!TypeOK', RacesGrow, NEW c \in Clients, Sm!Reset(c)
  PROVE  SmStored' /\ SmCalls'
  <1>1. /\ smReq[c].op = "none" /\ smReq'[c].op = "wipe" /\ smReq'[c].secrets = secrets
        /\ \A d \in Clients \ {c} : smReq'[d] = smReq[d]
    BY DEF Sm!Reset, Sm!Idle, Sm!NoReq, Sm!Hold, Sm!IInv, Sm!TypeOK
  <1>2. /\ smRaced \subseteq smRaced'
        /\ UNCHANGED <<secrets, versions, verSeq, granted>>
    BY DEF Sm!Reset, RacesGrow
  <1>3. Sm!NamesUnique' /\ Sm!CountersAhead'
    BY <1>1, <1>2 DEF Sm!IInv, Sm!NamesUnique, Sm!CountersAhead, Sm!SameName
  <1>4. Sm!DrawnOnce' /\ Sm!GrantedStored'
    BY <1>1, <1>2 DEF Sm!IInv, Sm!DrawnOnce, Sm!GrantedStored, Sm!SameName
  <1>5. Sm!AddsToStored'
    BY <1>1, <1>2 DEF Sm!IInv, Sm!AddsToStored, Sm!Adding
  <1>6. Sm!CascadesAll'
    BY <1>1, <1>2 DEF Sm!IInv, Sm!CascadesAll, Sm!Deleting, Sm!Of
  <1>7. Sm!WipesFind'
    BY <1>1, <1>2 DEF Sm!IInv, Sm!WipesFind, Sm!SameName
  <1>8. Sm!OrphansDoomed'
    BY <1>1, <1>2 DEF Sm!IInv, Sm!OrphansDoomed, Sm!Doomed, Sm!Deleting
  <1>9. QED
    BY <1>3, <1>4, <1>5, <1>6, <1>7, <1>8 DEF SmStored, SmCalls

(* The first pass of /admin/reset removes a secret it finds, or is done and  *)
(* lists the versions; it ends early only when another call got in its way.  *)
LEMMA SmWipeSecretsStep ==
  ASSUME Sm!IInv, Sm!TypeOK', RacesGrow, NEW c \in Clients, Sm!WipeSecrets(c)
  PROVE  SmStored' /\ SmCalls'
  <1> DEFINE Less(s) == [smReq[c] EXCEPT !.secrets = @ \ {s}]
  <1>1. smReq[c] \in [op : {"wipe"}, secrets : SUBSET Pair]
    BY SmRequestFields DEF Sm!WipeSecrets, Sm!IInv, Sm!TypeOK
  <1>2. \/ UNCHANGED secrets /\ Sm!Hold(c, [op |-> "wipe versions", left |-> versions])
        \/ \E s \in smReq[c].secrets : secrets' = secrets \ {s} /\ s \in secrets /\ Sm!Hold(c, Less(s))
        \/ \E s \in smReq[c].secrets : secrets' = secrets \ {s} /\ s \notin secrets /\ Sm!Hold(c, Sm!NoReq)
    BY Zenon DEF Sm!WipeSecrets
  <1>3. /\ \A q : Sm!Hold(c, q) => smReq'[c] = q
        /\ \A q : Sm!Hold(c, q) => \A d \in Clients \ {c} : smReq'[d] = smReq[d]
    BY DEF Sm!Hold, Sm!IInv, Sm!TypeOK
  <1>4. \A s : Less(s).op = "wipe" /\ Less(s).secrets = smReq[c].secrets \ {s}
    BY <1>1
  <1> HIDE DEF Less
  <1>5. /\ \A d \in Clients \ {c} : smReq'[d] = smReq[d]
        /\ \/ UNCHANGED secrets /\ smReq'[c] = [op |-> "wipe versions", left |-> versions]
           \/ \E s \in smReq[c].secrets : secrets' = secrets \ {s} /\ s \in secrets /\ smReq'[c] = Less(s)
           \/ \E s \in smReq[c].secrets : secrets' = secrets \ {s} /\ s \notin secrets /\ smReq'[c] = Sm!NoReq
    BY <1>2, <1>3, Zenon
  <1>6. /\ smRaced \subseteq smRaced'
        /\ granted' \subseteq granted
        /\ UNCHANGED <<versions, verSeq>>
    BY DEF Sm!WipeSecrets, RacesGrow
  <1>7. \/ /\ UNCHANGED secrets /\ smReq'[c].op = "wipe versions" /\ smReq'[c].left = versions
        \/ \E s \in smReq[c].secrets :
             /\ secrets' = secrets \ {s}
             /\ \/ s \in secrets /\ smReq'[c].op = "wipe" /\ smReq'[c].secrets = smReq[c].secrets \ {s}
                \/ s \notin secrets /\ smReq'[c].op = "none"
    <2>1. CASE UNCHANGED secrets /\ smReq'[c] = [op |-> "wipe versions", left |-> versions]
      <3> DEFINE r == [op |-> "wipe versions", left |-> versions]
      <3>1. r.op = "wipe versions" /\ r.left = versions
        OBVIOUS
      <3> HIDE DEF r
      <3>2. UNCHANGED secrets /\ smReq'[c] = r
        BY <2>1, Zenon DEF r
      <3>3. QED
        BY <3>1, <3>2, Zenon
    <2>2. CASE \E s \in smReq[c].secrets : secrets' = secrets \ {s} /\ s \in secrets /\ smReq'[c] = Less(s)
      BY <1>4, <2>2, Zenon
    <2>3. CASE \E s \in smReq[c].secrets : secrets' = secrets \ {s} /\ s \notin secrets /\ smReq'[c] = Sm!NoReq
      <3>1. Sm!NoReq.op = "none"
        BY DEF Sm!NoReq
      <3>2. QED
        BY <2>3, <3>1, Zenon
    <2>4. QED
      BY <1>5, <2>1, <2>2, <2>3
  <1>8. /\ smReq[c].op = "wipe" /\ smReq'[c].op \in {"none", "wipe", "wipe versions"}
        /\ \A d \in Clients \ {c} : smReq'[d] = smReq[d]
    <2>1. smReq[c].op = "wipe"
      BY <1>1
    <2>2. smReq'[c].op \in {"none", "wipe", "wipe versions"}
      BY <1>7, Zenon
    <2>3. QED
      BY <1>5, <2>1, <2>2
  <1>9. Sm!Wiping(c)
    BY <1>8 DEF Sm!Wiping
  <1>10. Pair \subseteq smRaced \/ smReq[c].secrets \subseteq secrets
    BY <1>8 DEF Sm!IInv, Sm!WipesFind
  <1>11. Sm!NamesUnique' /\ Sm!CountersAhead'
    BY <1>8, <1>6 DEF Sm!IInv, Sm!NamesUnique, Sm!CountersAhead, Sm!SameName
  <1>12. Sm!DrawnOnce' /\ Sm!GrantedStored'
    <2>1. Sm!GrantedStored'
      BY <1>6 DEF Sm!IInv, Sm!GrantedStored
    <2>2. \A d \in Clients : smReq'[d].op = "put" => smReq'[d] = smReq[d]
      BY <1>8
    <2>3. Sm!DrawnOnce'
      BY <1>6, <2>2 DEF Sm!IInv, Sm!DrawnOnce, Sm!SameName
    <2>4. QED
      BY <2>1, <2>3
  <1>13. Sm!AddsToStored'
    <2>1. ASSUME NEW t \in Pair \ smRaced', NEW d \in Clients, Sm!Adding(d, t)' PROVE t \in secrets'
      <3>1. Sm!Adding(d, t)
        BY <1>8, <2>1 DEF Sm!Adding
      <3>2. t \in smRaced
        BY <1>9, <3>1, SmAddRaced DEF Sm!IInv
      <3>3. QED
        BY <1>6, <2>1, <3>2
    <2>2. QED
      BY <2>1 DEF Sm!AddsToStored
  <1>14. Sm!CascadesAll'
    <2>1. ASSUME NEW d \in Clients, NEW t \in Pair \ smRaced', Sm!Deleting(d, t)'
          PROVE  FALSE
      <3>1. d # c /\ Sm!Deleting(d, t)
        BY <1>8, <2>1 DEF Sm!Deleting
      <3>2. QED
        BY <1>6, <1>9, <2>1, <3>1, SmWipeRaced DEF Sm!IInv
    <2>2. QED
      BY <2>1 DEF Sm!CascadesAll
  <1>15. ASSUME NEW d \in Clients \ {c}, Sm!Wiping(d)' PROVE Pair \subseteq smRaced'
    <2>1. Sm!Wiping(d)
      BY <1>8, <1>15 DEF Sm!Wiping
    <2>2. QED
      BY <1>6, <1>9, <2>1, SmWipeRaced DEF Sm!IInv
  <1>16. Sm!WipesFind'
    <2>1. ASSUME ~(Pair \subseteq smRaced')
          PROVE  /\ smReq'[c].op = "wipe" => smReq'[c].secrets \subseteq secrets'
                 /\ smReq'[c].op = "wipe versions" => \A v \in smReq'[c].left :
                       /\ \E w \in versions' : Sm!SameName(v, w)
                       /\ \A w \in smReq'[c].left : Sm!SameName(v, w) => v = w
      <3>1. smReq[c].secrets \subseteq secrets
        BY <1>6, <1>10, <2>1
      <3>2. CASE UNCHANGED secrets /\ smReq'[c].op = "wipe versions" /\ smReq'[c].left = versions
        BY <1>6, <3>2 DEF Sm!IInv, Sm!NamesUnique, Sm!SameName
      <3>3. CASE \E s \in smReq[c].secrets :
                   /\ secrets' = secrets \ {s}
                   /\ \/ s \in secrets /\ smReq'[c].op = "wipe" /\ smReq'[c].secrets = smReq[c].secrets \ {s}
                      \/ s \notin secrets /\ smReq'[c].op = "none"
        BY <3>1, <3>3
      <3>4. QED
        BY <1>7, <3>2, <3>3
    <2>2. QED
      BY <1>15, <2>1 DEF Sm!WipesFind, Sm!Wiping, Sm!SameName
  <1>17. Sm!OrphansDoomed'
    <2>1. ASSUME NEW v \in versions', v.secret \notin smRaced' PROVE Sm!Doomed(v)'
      <3>1. v.secret \in Pair
        BY <2>1, SmVersions DEF Sm!TypeOK
      <3>2. smReq[c].secrets \subseteq secrets
        BY <1>6, <1>10, <2>1, <3>1
      <3>3. smReq'[c].op = "wipe" \/ (smReq'[c].op = "wipe versions" /\ v \in smReq'[c].left)
        BY <1>6, <1>7, <3>2
      <3>4. QED
        BY <3>3 DEF Sm!Doomed
    <2>2. QED
      BY <2>1 DEF Sm!OrphansDoomed
  <1>18. QED
    BY <1>11, <1>12, <1>13, <1>14, <1>16, <1>17 DEF SmStored, SmCalls

(* The second pass removes a version together with its promise.              *)
LEMMA SmWipeVersionsStep ==
  ASSUME Sm!IInv, Sm!TypeOK', RacesGrow, NEW c \in Clients, Sm!WipeVersions(c)
  PROVE  SmStored' /\ SmCalls'
  <1> DEFINE Less(v) == [smReq[c] EXCEPT !.left = @ \ {v}]
  <1>1. smReq[c] \in [op : {"wipe versions"}, left : SUBSET Sm!Version]
    BY SmRequestFields DEF Sm!WipeVersions, Sm!IInv, Sm!TypeOK
  <1>2. \/ smReq[c].left = {} /\ UNCHANGED <<versions, granted>> /\ Sm!Hold(c, Sm!NoReq)
        \/ \E v \in smReq[c].left :
             /\ versions' = {w \in versions : ~Sm!SameName(v, w)}
             /\ granted' = {w \in granted : ~Sm!SameName(v, w)}
             /\ \/ Sm!Hold(c, Less(v))
                \/ ~(\E w \in versions : Sm!SameName(v, w)) /\ Sm!Hold(c, Sm!NoReq)
    BY Zenon DEF Sm!WipeVersions
  <1>3. /\ \A q : Sm!Hold(c, q) => smReq'[c] = q
        /\ \A q : Sm!Hold(c, q) => \A d \in Clients \ {c} : smReq'[d] = smReq[d]
    BY DEF Sm!Hold, Sm!IInv, Sm!TypeOK
  <1>4. \A v : Less(v).op = "wipe versions" /\ Less(v).left = smReq[c].left \ {v}
    BY <1>1
  <1> HIDE DEF Less
  <1>5. /\ \A d \in Clients \ {c} : smReq'[d] = smReq[d]
        /\ \/ smReq[c].left = {} /\ UNCHANGED <<versions, granted>> /\ smReq'[c] = Sm!NoReq
           \/ \E v \in smReq[c].left :
                /\ versions' = {w \in versions : ~Sm!SameName(v, w)}
                /\ granted' = {w \in granted : ~Sm!SameName(v, w)}
                /\ \/ smReq'[c] = Less(v)
                   \/ ~(\E w \in versions : Sm!SameName(v, w)) /\ smReq'[c] = Sm!NoReq
    BY <1>2, <1>3, Zenon
  <1>6. /\ smRaced \subseteq smRaced'
        /\ granted' \subseteq granted /\ versions' \subseteq versions
        /\ UNCHANGED <<secrets, verSeq>>
    BY DEF Sm!WipeVersions, RacesGrow
  <1>7. \/ /\ smReq[c].left = {} /\ smReq'[c].op = "none" /\ UNCHANGED <<versions, granted>>
        \/ \E v \in smReq[c].left :
             /\ versions' = {w \in versions : ~Sm!SameName(v, w)}
             /\ granted' = {w \in granted : ~Sm!SameName(v, w)}
             /\ \/ smReq'[c].op = "wipe versions" /\ smReq'[c].left = smReq[c].left \ {v}
                \/ ~(\E w \in versions : Sm!SameName(v, w)) /\ smReq'[c].op = "none"
    <2>1. Sm!NoReq.op = "none"
      BY DEF Sm!NoReq
    <2>2. QED
      BY <1>4, <1>5, <2>1, Zenon
  <1>8. /\ smReq[c].op = "wipe versions" /\ smReq'[c].op \in {"none", "wipe versions"}
        /\ \A d \in Clients \ {c} : smReq'[d] = smReq[d]
    <2>1. smReq[c].op = "wipe versions"
      BY <1>1
    <2>2. smReq'[c].op \in {"none", "wipe versions"}
      BY <1>7, Zenon
    <2>3. QED
      BY <1>5, <2>1, <2>2
  <1>9. Sm!Wiping(c)
    BY <1>8 DEF Sm!Wiping
  <1>10. \/ Pair \subseteq smRaced
        \/ \A v \in smReq[c].left :
              /\ \E w \in versions : Sm!SameName(v, w)
              /\ \A w \in smReq[c].left : Sm!SameName(v, w) => v = w
    BY <1>8 DEF Sm!IInv, Sm!WipesFind
  <1>11. Sm!NamesUnique' /\ Sm!CountersAhead'
    BY <1>8, <1>6 DEF Sm!IInv, Sm!NamesUnique, Sm!CountersAhead, Sm!SameName
  <1>12. Sm!DrawnOnce'
    BY <1>8, <1>6, ZenonT(60) DEF Sm!IInv, Sm!DrawnOnce, Sm!SameName
  <1>13. Sm!GrantedStored'
    BY <1>6, <1>7 DEF Sm!IInv, Sm!GrantedStored
  <1>14. Sm!AddsToStored'
    BY <1>8, <1>6 DEF Sm!IInv, Sm!AddsToStored, Sm!Adding
  <1>15. Sm!CascadesAll'
    <2>1. ASSUME NEW d \in Clients, NEW t \in Pair \ smRaced', Sm!Deleting(d, t)'
          PROVE  FALSE
      <3>1. d # c /\ Sm!Deleting(d, t)
        BY <1>8, <2>1 DEF Sm!Deleting
      <3>2. QED
        BY <1>6, <1>9, <2>1, <3>1, SmWipeRaced DEF Sm!IInv
    <2>2. QED
      BY <2>1 DEF Sm!CascadesAll
  <1>16. ASSUME NEW d \in Clients \ {c}, Sm!Wiping(d) PROVE Pair \subseteq smRaced'
    BY <1>6, <1>9, <1>16, SmWipeRaced DEF Sm!IInv
  <1>17. Sm!WipesFind'
    <2>1. ASSUME ~(Pair \subseteq smRaced'), smReq'[c].op = "wipe versions", NEW x \in smReq'[c].left
          PROVE  /\ \E w \in versions' : Sm!SameName(x, w)
                 /\ \A w \in smReq'[c].left : Sm!SameName(x, w) => x = w
      <3>1. \A v \in smReq[c].left :
              /\ \E w \in versions : Sm!SameName(v, w)
              /\ \A w \in smReq[c].left : Sm!SameName(v, w) => v = w
        BY <1>6, <1>10, <2>1
      <3>2. PICK v \in smReq[c].left :
              /\ versions' = {w \in versions : ~Sm!SameName(v, w)}
              /\ smReq'[c].left = smReq[c].left \ {v}
        BY <1>7, <2>1, <3>1
      <3>3. x \in smReq[c].left /\ x # v
        BY <2>1, <3>2
      <3>4. PICK w \in versions : Sm!SameName(x, w)
        BY <3>1, <3>3
      <3>5. ~Sm!SameName(v, x)
        BY <3>1, <3>2, <3>3
      <3>6. w \in versions'
        BY <3>2, <3>4, <3>5 DEF Sm!SameName
      <3>7. QED
        BY <3>1, <3>2, <3>3, <3>4, <3>6
    <2>2. ASSUME NEW d \in Clients, ~(Pair \subseteq smRaced')
          PROVE  /\ smReq'[d].op = "wipe" => smReq'[d].secrets \subseteq secrets'
                 /\ smReq'[d].op = "wipe versions" => \A x \in smReq'[d].left :
                       /\ \E w \in versions' : Sm!SameName(x, w)
                       /\ \A w \in smReq'[d].left : Sm!SameName(x, w) => x = w
      <3>1. CASE d = c
        BY <1>8, <2>1, <2>2, <3>1
      <3>2. CASE d # c
        <4>1. smReq'[d] = smReq[d] /\ ~Sm!Wiping(d)
          BY <1>8, <1>16, <2>2, <3>2
        <4>2. QED
          BY <4>1 DEF Sm!Wiping
      <3>3. QED
        BY <3>1, <3>2
    <2>3. QED
      BY <2>2 DEF Sm!WipesFind, Sm!SameName
  <1>18. Sm!OrphansDoomed'
    <2>1. ASSUME NEW v \in versions', v.secret \notin smRaced', v.secret \notin secrets' PROVE Sm!Doomed(v)'
      <3>0. v.secret \in Pair
        BY <2>1, SmVersions DEF Sm!TypeOK
      <3>1. PICK d \in Clients : \/ Sm!Deleting(d, v.secret) \/ smReq[d].op = "wipe"
                                 \/ smReq[d].op = "wipe versions" /\ v \in smReq[d].left
        BY <1>6, <2>1 DEF Sm!IInv, Sm!OrphansDoomed, Sm!Doomed
      <3>2. CASE d # c
        BY <1>8, <3>1, <3>2 DEF Sm!Doomed, Sm!Deleting
      <3>3. CASE d = c
        <4>1. v \in smReq[c].left
          BY <1>8, <3>1, <3>3 DEF Sm!Deleting
        <4>2. smReq'[c].op = "wipe versions" /\ v \in smReq'[c].left
          BY <1>6, <1>7, <1>10, <2>1, <3>0, <4>1 DEF Sm!SameName
        <4>3. QED
          BY <4>2 DEF Sm!Doomed
      <3>4. QED
        BY <3>2, <3>3
    <2>2. QED
      BY <2>1 DEF Sm!OrphansDoomed
  <1>19. QED
    BY <1>11, <1>12, <1>13, <1>14, <1>15, <1>17, <1>18 DEF SmStored, SmCalls

(* A new process starts its counters at 0: the secrets with versions are     *)
(* recorded, the others have nothing to be ahead of (New).                   *)
LEMMA SmRestartStep ==
  ASSUME Sm!IInv, Sm!TypeOK', RacesGrow, Sm!Restart,
         {s \in Pair : smRestarts' # smRestarts /\ Sm!Of(s, versions) # {}} \subseteq smRaced'
  PROVE  SmStored' /\ SmCalls'
  <1>1. /\ smRaced \subseteq smRaced'
        /\ \A c \in Clients : smReq[c].op = "none"
        /\ UNCHANGED <<secrets, versions, smReq, granted>>
    BY DEF Sm!Restart, RacesGrow, Sm!Idle, Sm!NoReq
  <1>2. smRestarts' # smRestarts
    BY DEF Sm!Restart, Sm!IInv, Sm!TypeOK
  <1>3. \A v \in versions : v.secret \in smRaced'
    BY <1>2, SmVersions DEF Sm!IInv, Sm!TypeOK, Sm!Of
  <1>4. SmStored'
    BY <1>1, <1>3 DEF Sm!IInv, SmStored, Sm!NamesUnique, Sm!CountersAhead, Sm!DrawnOnce, Sm!GrantedStored,
                      Sm!SameName
  <1>5. Sm!AddsToStored' /\ Sm!CascadesAll'
    BY <1>1 DEF Sm!AddsToStored, Sm!CascadesAll, Sm!Adding, Sm!Deleting
  <1>6. Sm!WipesFind' /\ Sm!OrphansDoomed'
    BY <1>1, <1>3 DEF Sm!WipesFind, Sm!OrphansDoomed
  <1>7. QED
    BY <1>4, <1>5, <1>6 DEF SmCalls

(* Every handler keeps the shape of what it stores (TypeOK). *)
LEMMA SmTypeStep == Sm!TypeOK /\ Sm!Next => Sm!TypeOK'
  <1> SUFFICES ASSUME Sm!TypeOK, Sm!Next PROVE Sm!TypeOK'
    OBVIOUS
  <1> DEFINE Rest == /\ secrets' \subseteq Pair
                     /\ versions' \subseteq Sm!Version /\ granted' \subseteq Sm!Version
                     /\ verSeq' \in [Pair -> Nat]
                     /\ calls' \in 0..MaxVersions /\ smRestarts' \in 0..MaxRestarts
  <1>1. smRaced' \subseteq Pair
    BY SmRacesGrow DEF RacesGrow
  <1>2. MaxVersions \in Nat /\ MaxRestarts \in Nat
    BY ServicesAssumption
  <1>3. ASSUME NEW c \in Clients, NEW r \in Sm!Request, Sm!Hold(c, r), Rest PROVE Sm!TypeOK'
    BY <1>1, <1>3, SmHold DEF Sm!TypeOK
  <1>4. ASSUME NEW c \in Clients PROVE smReq[c] \in Sm!Request
    BY DEF Sm!TypeOK
  <1>5. ASSUME NEW s \in Pair, Sm!CreateSecret(s) PROVE Sm!TypeOK'
    BY <1>1, <1>5 DEF Sm!CreateSecret, Sm!TypeOK
  <1>6. ASSUME Sm!Restart PROVE Sm!TypeOK'
    BY <1>1, <1>2, <1>6 DEF Sm!Restart, Sm!TypeOK
  <1>7. ASSUME NEW c \in Clients, NEW s \in Pair, Sm!AddVersion(c, s) PROVE Sm!TypeOK'
    <2>1. calls + 1 \in 1..MaxVersions /\ Rest
      BY <1>2, <1>7 DEF Sm!AddVersion, Sm!TypeOK
    <2>2. [op |-> "draw", secret |-> s, payload |-> calls + 1] \in Sm!Request
      BY <2>1, SmRequests
    <2>3. QED
      BY <1>3, <1>7, <2>1, <2>2 DEF Sm!AddVersion
  <1>8. ASSUME NEW c \in Clients, NEW s \in Pair, Sm!DeleteSecret(c, s) PROVE Sm!TypeOK'
    <2>1. Rest
      BY <1>8 DEF Sm!DeleteSecret, Sm!TypeOK
    <2>2. QED
      BY <1>3, <1>8, <2>1, SmRequests DEF Sm!DeleteSecret
  <1>9. ASSUME NEW c \in Clients, Sm!DrawVersion(c) PROVE Sm!TypeOK'
    <2> DEFINE s == smReq[c].secret
               v == [secret |-> s, num |-> Sm!NextVersion(s), payload |-> smReq[c].payload]
    <2>1. s \in Pair /\ smReq[c].payload \in 1..MaxVersions
      BY <1>4, <1>9, SmRequestFields DEF Sm!DrawVersion
    <2>2. Sm!NextVersion(s) \in Nat /\ Rest
      BY <1>9, <2>1 DEF Sm!DrawVersion, Sm!NextVersion, Sm!TypeOK
    <2>3. v \in Sm!Version
      BY <2>1, <2>2 DEF Sm!Version
    <2>4. [op |-> "put", ver |-> v] \in Sm!Request
      BY <2>3, SmRequests, Zenon
    <2>5. QED
      BY <1>3, <1>9, <2>2, <2>4 DEF Sm!DrawVersion
  <1>10. ASSUME NEW c \in Clients, Sm!PutVersion(c) PROVE Sm!TypeOK'
    <2>1. smReq[c].ver \in Sm!Version
      BY <1>4, <1>10, SmRequestFields DEF Sm!PutVersion
    <2>2. Rest
      BY <1>10, <2>1 DEF Sm!PutVersion, Sm!TypeOK
    <2>3. QED
      BY <1>3, <1>10, <2>2, SmRequests DEF Sm!PutVersion
  <1>11. ASSUME NEW c \in Clients, Sm!ListVersions(c) PROVE Sm!TypeOK'
    <2> DEFINE s == smReq[c].secret
               K == {v.num : v \in Sm!Of(s, versions)}
    <2>1. s \in Pair
      BY <1>4, <1>11, SmRequestFields DEF Sm!ListVersions
    <2>2. K \in SUBSET Nat /\ Rest
      BY <1>11, SmVersions DEF Sm!ListVersions, Sm!TypeOK, Sm!Of
    <2>3. [op |-> "cascade", secret |-> s, keys |-> K] \in Sm!Request
      BY <2>1, <2>2, SmRequests, Zenon
    <2>4. QED
      BY <1>3, <1>11, <2>2, <2>3 DEF Sm!ListVersions
  <1>12. ASSUME NEW c \in Clients, Sm!DeleteVersions(c) PROVE Sm!TypeOK'
    <2>1. smReq[c] \in [op : {"cascade"}, secret : Pair, keys : SUBSET Nat]
      BY <1>4, <1>12, SmRequestFields DEF Sm!DeleteVersions
    <2>2. [op |-> "forget", secret |-> smReq[c].secret] \in Sm!Request
      BY <2>1, SmRequests
    <2>3. \A n : [smReq[c] EXCEPT !.keys = @ \ {n}] \in Sm!Request
      <3>1. \A n : [smReq[c] EXCEPT !.keys = @ \ {n}] \in [op : {"cascade"}, secret : Pair, keys : SUBSET Nat]
        BY <2>1
      <3>2. QED
        BY <3>1, Zenon DEF Sm!Request
    <2>4. Rest
      BY <1>12 DEF Sm!DeleteVersions, Sm!TypeOK
    <2>5. QED
      BY <1>3, <1>12, <2>2, <2>3, <2>4, Zenon DEF Sm!DeleteVersions
  <1>13. ASSUME NEW c \in Clients, Sm!ForgetCounter(c) PROVE Sm!TypeOK'
    <2>1. Rest
      BY <1>13 DEF Sm!ForgetCounter, Sm!TypeOK
    <2>2. QED
      BY <1>3, <1>13, <2>1, SmRequests DEF Sm!ForgetCounter
  <1>14. ASSUME NEW c \in Clients, Sm!Reset(c) PROVE Sm!TypeOK'
    <2>1. Rest /\ secrets \in SUBSET Pair
      BY <1>14 DEF Sm!Reset, Sm!TypeOK
    <2>2. [op |-> "wipe", secrets |-> secrets] \in Sm!Request
      BY <2>1, SmRequests, Zenon
    <2>3. QED
      BY <1>3, <1>14, <2>1, <2>2 DEF Sm!Reset
  <1>15. ASSUME NEW c \in Clients, Sm!WipeSecrets(c) PROVE Sm!TypeOK'
    <2>1. smReq[c] \in [op : {"wipe"}, secrets : SUBSET Pair]
      BY <1>4, <1>15, SmRequestFields DEF Sm!WipeSecrets
    <2>2. \A s : [smReq[c] EXCEPT !.secrets = @ \ {s}] \in Sm!Request
      <3>1. \A s : [smReq[c] EXCEPT !.secrets = @ \ {s}] \in [op : {"wipe"}, secrets : SUBSET Pair]
        BY <2>1
      <3>2. QED
        BY <3>1, Zenon DEF Sm!Request
    <2>3. [op |-> "wipe versions", left |-> versions] \in Sm!Request /\ Sm!NoReq \in Sm!Request
      BY SmRequests DEF Sm!TypeOK
    <2>4. Rest
      BY <1>15 DEF Sm!WipeSecrets, Sm!TypeOK
    <2>5. PICK r \in Sm!Request : Sm!Hold(c, r)
      BY <1>15, <2>2, <2>3, Zenon DEF Sm!WipeSecrets
    <2>6. QED
      BY <1>3, <2>4, <2>5
  <1>16. ASSUME NEW c \in Clients, Sm!WipeVersions(c) PROVE Sm!TypeOK'
    <2>1. smReq[c] \in [op : {"wipe versions"}, left : SUBSET Sm!Version]
      BY <1>4, <1>16, SmRequestFields DEF Sm!WipeVersions
    <2>2. \A v : [smReq[c] EXCEPT !.left = @ \ {v}] \in Sm!Request
      <3>1. \A v : [smReq[c] EXCEPT !.left = @ \ {v}] \in [op : {"wipe versions"}, left : SUBSET Sm!Version]
        BY <2>1
      <3>2. QED
        BY <3>1, Zenon DEF Sm!Request
    <2>3. Sm!NoReq \in Sm!Request
      BY SmRequests
    <2>4. Rest
      BY <1>16 DEF Sm!WipeVersions, Sm!TypeOK
    <2>5. PICK r \in Sm!Request : Sm!Hold(c, r)
      BY <1>16, <2>2, <2>3, Zenon DEF Sm!WipeVersions
    <2>6. QED
      BY <1>3, <2>4, <2>5
  <1>17. QED
    BY <1>5, <1>6, <1>7, <1>8, <1>9, <1>10, <1>11, <1>12, <1>13, <1>14, <1>15, <1>16 DEF Sm!Next, Sm!Call

LEMMA SmInit == Sm!Init => Sm!IInv
  <1> SUFFICES ASSUME Sm!Init PROVE Sm!IInv
    OBVIOUS
  <1> USE DEF Sm!Init
  <1>1. \A c \in Clients : smReq[c].op = "none"
    BY DEF Sm!NoReq
  <1>2. Sm!TypeOK
    <2>1. smReq \in [Clients -> Sm!Request]
      BY SmRequests, Zenon
    <2>2. verSeq \in [Pair -> Nat] /\ calls \in 0..MaxVersions /\ smRestarts \in 0..MaxRestarts
      BY ServicesAssumption
    <2>3. QED
      BY <2>1, <2>2 DEF Sm!TypeOK
  <1>3. Sm!RacesKept
    BY <1>1 DEF Sm!RacesKept, Sm!Races, Sm!Adding, Sm!Wiping
  <1>4. Sm!NamesUnique /\ Sm!CountersAhead /\ Sm!DrawnOnce /\ Sm!GrantedStored
    BY <1>1 DEF Sm!NamesUnique, Sm!CountersAhead, Sm!DrawnOnce, Sm!GrantedStored
  <1>5. Sm!AddsToStored /\ Sm!CascadesAll /\ Sm!WipesFind /\ Sm!OrphansDoomed
    BY <1>1 DEF Sm!AddsToStored, Sm!CascadesAll, Sm!WipesFind, Sm!OrphansDoomed, Sm!Adding, Sm!Deleting
  <1>6. QED
    BY <1>2, <1>3, <1>4, <1>5 DEF Sm!IInv

LEMMA SmStep == Sm!IInv /\ [Sm!Next]_sm => Sm!IInv'
  <1> SUFFICES ASSUME Sm!IInv, [Sm!Next]_sm PROVE Sm!IInv'
    OBVIOUS
  <1>1. CASE UNCHANGED sm
    <2>1. UNCHANGED secrets /\ UNCHANGED versions /\ UNCHANGED verSeq /\ UNCHANGED smReq /\ UNCHANGED calls
          /\ UNCHANGED smRestarts /\ UNCHANGED granted /\ UNCHANGED smRaced
      BY <1>1 DEF sm
    <2>2. Sm!TypeOK' /\ Sm!RacesKept'
      <3>1. Sm!TypeOK'
        BY <2>1 DEF Sm!IInv, Sm!TypeOK
      <3>2. Sm!Races' = Sm!Races
        BY <2>1 DEF Sm!Races, Sm!Adding, Sm!Deleting, Sm!Wiping
      <3>3. QED
        BY <2>1, <3>1, <3>2 DEF Sm!IInv, Sm!RacesKept
    <2>3. Sm!NamesUnique' /\ Sm!CountersAhead' /\ Sm!DrawnOnce' /\ Sm!GrantedStored'
      BY <2>1 DEF Sm!IInv, Sm!NamesUnique, Sm!CountersAhead, Sm!DrawnOnce, Sm!GrantedStored, Sm!SameName
    <2>4. Sm!AddsToStored' /\ Sm!CascadesAll'
      BY <2>1 DEF Sm!IInv, Sm!AddsToStored, Sm!CascadesAll, Sm!Adding, Sm!Deleting, Sm!Of
    <2>5. Sm!WipesFind' /\ Sm!OrphansDoomed'
      BY <2>1 DEF Sm!IInv, Sm!WipesFind, Sm!OrphansDoomed, Sm!Doomed, Sm!Deleting, Sm!SameName
    <2>6. QED
      BY <2>2, <2>3, <2>4, <2>5 DEF Sm!IInv
  <1>2. CASE Sm!Next
    <2>1. Sm!TypeOK' /\ RacesGrow
      BY <1>2, SmTypeStep, SmRacesGrow DEF Sm!IInv
    <2>2. Sm!RacesKept'
      BY <2>1 DEF RacesGrow, Sm!RacesKept
    <2>3. ASSUME Sm!Restart PROVE SmStored' /\ SmCalls'
      <3>1. {s \in Pair : smRestarts' # smRestarts /\ Sm!Of(s, versions) # {}} \subseteq smRaced'
        BY <1>2 DEF Sm!Next
      <3>2. QED
        BY <2>1, <2>3, <3>1, SmRestartStep
    <2>4. ASSUME NEW c \in Clients, Sm!Call(c) PROVE SmStored' /\ SmCalls'
      <3> USE <2>1
      <3>1. ASSUME NEW s \in Pair, Sm!AddVersion(c, s) \/ Sm!DeleteSecret(c, s) PROVE SmStored' /\ SmCalls'
        BY <3>1, SmAddVersionStep, SmDeleteSecretStep
      <3>2. CASE Sm!DrawVersion(c) \/ Sm!PutVersion(c)
        BY <3>2, SmDrawVersionStep, SmPutVersionStep
      <3>3. CASE Sm!ListVersions(c) \/ Sm!DeleteVersions(c) \/ Sm!ForgetCounter(c)
        BY <3>3, SmListVersionsStep, SmDeleteVersionsStep, SmForgetCounterStep
      <3>4. CASE Sm!Reset(c) \/ Sm!WipeSecrets(c) \/ Sm!WipeVersions(c)
        BY <3>4, SmResetStep, SmWipeSecretsStep, SmWipeVersionsStep
      <3>5. QED
        BY <2>4, <3>1, <3>2, <3>3, <3>4 DEF Sm!Call
    <2>5. SmStored' /\ SmCalls'
      BY <1>2, <2>1, <2>3, <2>4, SmCreateSecretStep DEF Sm!Next
    <2>6. QED
      BY <2>1, <2>2, <2>5 DEF Sm!IInv, SmStored, SmCalls
  <1>3. QED
    BY <1>1, <1>2

(* The number that addVersion draws is above that of `latest` (versionItem). *)
LEMMA SmDrawsNewest ==
  ASSUME Sm!IInv, [Sm!Next]_sm, NEW c \in Clients, Sm!DrawVersion(c), smReq[c].secret \notin smRaced'
  PROVE  smReq'[c].ver.num > Sm!Latest(smReq[c].secret)
  <1> DEFINE s == smReq[c].secret
             S == {v.num : v \in Sm!Of(s, versions)} \cup {0}
  <1>1. s \in Pair /\ verSeq[s] \in Nat
    <2>1. s \in Pair
      BY SmRequestFields DEF Sm!DrawVersion, Sm!IInv, Sm!TypeOK
    <2>2. QED
      BY <2>1 DEF Sm!IInv, Sm!TypeOK
  <1>2. s \notin smRaced
    BY SmRacesGrow DEF Sm!IInv, RacesGrow, sm
  <1>3. S \in SUBSET Nat /\ S # {} /\ \A x \in S : x <= verSeq[s]
    <2>1. \A v \in Sm!Of(s, versions) : v.num \in Nat /\ v.num <= verSeq[s]
      BY <1>2, SmVersions DEF Sm!IInv, Sm!TypeOK, Sm!CountersAhead, Sm!Of
    <2>2. QED
      BY <1>1, <2>1
  <1>4. smReq'[c].ver.num = verSeq[s] + 1
    BY DEF Sm!DrawVersion, Sm!NextVersion, Sm!Hold, Sm!IInv, Sm!TypeOK
  <1>5. Sm!Latest(s) \in S
    <2> HIDE DEF S
    <2>1. \E x \in S : \A y \in S : x >= y
      BY <1>1, <1>3, BoundedHasGreatest
    <2>2. (CHOOSE x \in S : \A y \in S : x >= y) \in S
      BY <2>1, Zenon
    <2>3. Sm!Latest(s) = CHOOSE x \in S : \A y \in S : x >= y
      BY Zenon DEF Sm!Latest, Sm!Max, S
    <2>4. QED
      BY <2>2, <2>3
  <1> HIDE DEF S
  <1>6. Sm!Latest(s) \in Nat /\ Sm!Latest(s) <= verSeq[s]
    BY <1>3, <1>5
  <1>7. QED
    BY <1>1, <1>4, <1>6

(* A version that was answered is what access returns until its secret is    *)
(* deleted, `latest` is the version added last, and a deletion leaves no     *)
(* version behind, for any number of secrets, calls in progress, versions    *)
(* and restarts (addVersion, the cascade of DELETE, handleReset).            *)
THEOREM SecretsStayReadable == ServicesSpec => SecretsKept
  <1>1. ServicesInit => Sm!IInv
    BY SmInit DEF ServicesInit
  <1>2. [ServicesNext]_servicesVars => [Sm!Next]_sm
    BY DEF ServicesNext, servicesVars
  <1>3. Sm!IInv /\ [ServicesNext]_servicesVars => Sm!IInv'
    BY <1>2, SmStep
  <1>4. Sm!IInv => Sm!TypeOK /\ Sm!VersionKept /\ Sm!NoOrphanVersion
    <2> SUFFICES ASSUME Sm!IInv PROVE Sm!TypeOK /\ Sm!VersionKept /\ Sm!NoOrphanVersion
      OBVIOUS
    <2>1. Sm!TypeOK
      BY DEF Sm!IInv
    <2>2. Sm!VersionKept
      BY DEF Sm!IInv, Sm!VersionKept, Sm!GrantedStored, Sm!NamesUnique, Sm!SameName, Sm!Access
    <2>3. Sm!NoOrphanVersion
      <3>1. ASSUME \A c \in Clients : Sm!Idle(c), NEW v PROVE ~Sm!Doomed(v)
        <4>1. \A c \in Clients : smReq[c].op = "none"
          BY <3>1 DEF Sm!Idle, Sm!NoReq
        <4>2. QED
          BY <4>1 DEF Sm!Doomed, Sm!Deleting
      <3>2. QED
        BY <3>1 DEF Sm!IInv, Sm!NoOrphanVersion, Sm!OrphansDoomed
    <2>4. QED
      BY <2>1, <2>2, <2>3
  <1>5. Sm!IInv /\ [ServicesNext]_servicesVars
          => [\A c \in Clients : Sm!DrawVersion(c) /\ smReq[c].secret \notin smRaced'
                => smReq'[c].ver.num > Sm!Latest(smReq[c].secret)]_(Sm!vars)
    BY <1>2, SmDrawsNewest
  <1>6. QED
    BY <1>1, <1>3, <1>4, <1>5, PTL DEF ServicesSpec, SecretsKept, Sm!LatestIsNewest

-----------------------------------------------------------------------------
(* IAM: service accounts, keys and policies. *)

(* The fields of a request are those of its operation (req in IAMAdmin). *)
LEMMA IamRequestFields ==
  ASSUME NEW r \in Iam!Request
  PROVE  /\ r.op \in {"create", "patch"} => r.account \in Pair /\ r.rec \in Iam!Account
         /\ r.op \in {"list", "key"} => r.account \in Pair
         /\ r.op = "cascade" => r \in [op : {"cascade"}, account : Pair, left : SUBSET Iam!Serial]
         /\ r.op = "edit" => r.account \in Pair /\ r.read \subseteq Members
         /\ r.op \in {"wipe policies", "wipe accounts"} =>
               r \in [op : {"wipe policies", "wipe accounts"}, left : SUBSET Pair]
         /\ r.op = "wipe keys" => r \in [op : {"wipe keys"}, left : SUBSET [account : Pair, id : Iam!Serial]]
  <1>1. \/ r = Iam!NoReq
        \/ r \in [op : {"create", "patch"}, account : Pair, rec : Iam!Account]
        \/ r \in [op : {"list", "key"}, account : Pair]
        \/ r \in [op : {"cascade"}, account : Pair, left : SUBSET Iam!Serial]
        \/ r \in [op : {"edit"}, account : Pair, read : SUBSET Members]
        \/ r \in [op : {"wipe policies", "wipe accounts"}, left : SUBSET Pair]
        \/ r \in [op : {"wipe keys"}, left : SUBSET [account : Pair, id : Iam!Serial]]
    BY Zenon DEF Iam!Request
  <1>2. CASE r = Iam!NoReq
    BY <1>2 DEF Iam!NoReq
  <1>3. CASE r \in [op : {"create", "patch"}, account : Pair, rec : Iam!Account]
    BY <1>3
  <1>4. CASE r \in [op : {"list", "key"}, account : Pair]
    BY <1>4
  <1>5. CASE r \in [op : {"cascade"}, account : Pair, left : SUBSET Iam!Serial]
    BY <1>5
  <1>6. CASE r \in [op : {"edit"}, account : Pair, read : SUBSET Members]
    BY <1>6
  <1>7. CASE r \in [op : {"wipe policies", "wipe accounts"}, left : SUBSET Pair]
    BY <1>7
  <1>8. CASE r \in [op : {"wipe keys"}, left : SUBSET [account : Pair, id : Iam!Serial]]
    BY <1>8
  <1>9. QED
    BY <1>1, <1>2, <1>3, <1>4, <1>5, <1>6, <1>7, <1>8

(* What a request is made of is a request. *)
LEMMA IamRequests ==
  /\ Iam!NoReq \in Iam!Request
  /\ \A o \in {"create", "patch"}, a \in Pair, r \in Iam!Account :
        [op |-> o, account |-> a, rec |-> r] \in Iam!Request
  /\ \A o \in {"list", "key"}, a \in Pair : [op |-> o, account |-> a] \in Iam!Request
  /\ \A a \in Pair, I \in SUBSET Iam!Serial : [op |-> "cascade", account |-> a, left |-> I] \in Iam!Request
  /\ \A a \in Pair, B \in SUBSET Members : [op |-> "edit", account |-> a, read |-> B] \in Iam!Request
  /\ \A o \in {"wipe policies", "wipe accounts"}, A \in SUBSET Pair : [op |-> o, left |-> A] \in Iam!Request
  /\ \A K \in SUBSET [account : Pair, id : Iam!Serial] : [op |-> "wipe keys", left |-> K] \in Iam!Request
  BY DEF Iam!Request, Iam!NoReq

(* A stored account is not the missing one. *)
LEMMA IamAccounts ==
  ASSUME NEW r \in Iam!Account
  PROVE  r # Iam!None /\ r.uid \in Iam!Serial /\ r.display \in 0..MaxSerial
  BY ServicesAssumption DEF Iam!Account, Iam!None, Iam!Serial

(* What a step of a call does to the requests. *)
LEMMA IamHold ==
  ASSUME Iam!TypeOK, NEW c \in Clients, NEW r, Iam!Hold(c, r)
  PROVE  iamReq'[c] = r /\ \A d \in Clients \ {c} : iamReq'[d] = iamReq[d]
  BY DEF Iam!TypeOK, Iam!Hold

(* What every step does to the record of races. *)
IamRacesGrow == iamRaced' \subseteq Pair /\ iamRaced \subseteq iamRaced' /\ Iam!Races' \subseteq iamRaced'

LEMMA IamRacedGrows == Iam!TypeOK /\ Iam!RacesKept /\ Iam!Next => IamRacesGrow
  <1> SUFFICES ASSUME Iam!TypeOK, Iam!RacesKept, Iam!Next PROVE IamRacesGrow
    OBVIOUS
  <1>1. iamRaced \subseteq Pair
    BY DEF Iam!TypeOK
  <1>2. CASE iamRaced' = iamRaced \cup Iam!Races'
    <2>1. Iam!Races' \subseteq Pair
      BY DEF Iam!Races
    <2>2. QED
      BY <1>1, <1>2, <2>1 DEF IamRacesGrow
  <1>3. ASSUME NEW k \in keys, Iam!DeleteKey(k),
               iamRaced' = iamRaced \cup {a \in Pair : \E c \in Clients : Iam!Wiping(c)}
        PROVE  IamRacesGrow
    <2>1. Iam!Races' = Iam!Races
      <3>1. iamReq' = iamReq
        BY <1>3 DEF Iam!DeleteKey
      <3>2. \A c \in Clients : /\ Iam!Wiping(c)' <=> Iam!Wiping(c)
                              /\ \A a \in Pair : Iam!About(c, a)' <=> Iam!About(c, a)
        BY <3>1 DEF Iam!About, Iam!Wiping, Iam!Idle
      <3>3. QED
        BY <3>1, <3>2 DEF Iam!Races
    <2>2. QED
      BY <1>1, <1>3, <2>1 DEF IamRacesGrow, Iam!RacesKept
  <1>4. QED
    BY <1>2, <1>3 DEF Iam!Next

(* Calls that are in progress together are recorded (Races). *)
LEMMA IamTogether ==
  ASSUME Iam!RacesKept, NEW c \in Clients, NEW d \in Clients, c # d
  PROVE  /\ \A a \in Pair : Iam!About(c, a) /\ Iam!About(d, a) => a \in iamRaced
         /\ Iam!Wiping(c) /\ (Iam!Wiping(d) \/ iamReq[d].op \in {"list", "cascade"}) => Pair \subseteq iamRaced
  BY DEF Iam!RacesKept, Iam!Races, Iam!About

LEMMA IamTogetherNext ==
  ASSUME IamRacesGrow, NEW c \in Clients, NEW d \in Clients, c # d
  PROVE  /\ \A a \in Pair : Iam!About(c, a)' /\ Iam!About(d, a)' => a \in iamRaced'
         /\ Iam!Wiping(c)' /\ (Iam!Wiping(d)' \/ iamReq'[d].op \in {"list", "cascade"}) => Pair \subseteq iamRaced'
  BY DEF IamRacesGrow, Iam!Races, Iam!About

(* A call that works on an account is about it. *)
LEMMA IamAbout ==
  ASSUME NEW c \in Clients
  PROVE  /\ iamReq[c].op \in {"create", "patch", "list", "key", "cascade", "edit"}
              => Iam!About(c, iamReq[c].account)
         /\ Iam!Wiping(c) => \A a : Iam!About(c, a)
  BY DEF Iam!About, Iam!Idle, Iam!NoReq

(* A step of another call that touches nothing leaves what a call relies on. *)
LEMMA IamFrame ==
  ASSUME NEW d \in Clients, iamReq'[d] = iamReq[d], iamRaced \subseteq iamRaced',
         UNCHANGED <<accounts, keys, policies>>
  PROVE  /\ Iam!StillSo(d) => Iam!StillSo(d)'
         /\ Iam!Finds(d) => Iam!Finds(d)'
         /\ \A k : Iam!Dooms(d, k) => Iam!Dooms(d, k)'
  <1>1. Iam!Exists' = Iam!Exists
    BY DEF Iam!Exists
  <1>2. Iam!StillSo(d) => Iam!StillSo(d)'
    BY <1>1 DEF Iam!StillSo
  <1>3. Iam!Finds(d) => Iam!Finds(d)'
    BY <1>1 DEF Iam!Finds
  <1>4. \A k : Iam!Dooms(d, k) => Iam!Dooms(d, k)'
    BY DEF Iam!Dooms
  <1>5. QED
    BY <1>2, <1>3, <1>4

(* The parts of the invariant beside the types and the races. *)
IamRest ==
    /\ \A c \in Clients : Iam!StillSo(c) /\ Iam!Finds(c)
    /\ Iam!KeysDoomed /\ Iam!ShownStored /\ Iam!EditsAddUp

(* A step that only changes what one call holds. *)
LEMMA IamOnlyHolds ==
  ASSUME Iam!IInv, IamRacesGrow, NEW c \in Clients, NEW r, Iam!Hold(c, r),
         UNCHANGED <<accounts, keys, policies, shown, edited>>,
         Iam!StillSo(c)', Iam!Finds(c)', \A k \in keys : Iam!Dooms(c, k) => Iam!Dooms(c, k)'
  PROVE  IamRest'
  <1>1. \A d \in Clients \ {c} : iamReq'[d] = iamReq[d]
    BY IamHold DEF Iam!IInv
  <1>2. iamRaced \subseteq iamRaced'
    BY DEF IamRacesGrow
  <1>3. Iam!Exists' = Iam!Exists
    BY DEF Iam!Exists
  <1>4. \A d \in Clients : Iam!StillSo(d)' /\ Iam!Finds(d)'
    BY <1>1, <1>2, IamFrame DEF Iam!IInv
  <1>5. Iam!KeysDoomed'
    <2>1. \A d \in Clients, k \in keys : Iam!Dooms(d, k) => Iam!Dooms(d, k)'
      BY <1>1, <1>2, IamFrame
    <2>2. QED
      BY <1>2, <1>3, <2>1 DEF Iam!IInv, Iam!KeysDoomed
  <1>6. Iam!ShownStored' /\ Iam!EditsAddUp'
    BY <1>2, <1>3 DEF Iam!IInv, Iam!ShownStored, Iam!EditsAddUp
  <1>7. QED
    BY <1>4, <1>5, <1>6 DEF IamRest

(* The checks and reads at the start of a call (accountsCollection, item,    *)
(* keysCollection, getIamPolicy).                                            *)
LEMMA IamStarts ==
  ASSUME Iam!IInv, IamRacesGrow, NEW c \in Clients, NEW a \in Pair,
         \/ Iam!CreateAccount(c, a) \/ Iam!PatchAccount(c, a)
         \/ Iam!CreateKey(c, a) \/ Iam!GetPolicy(c, a)
  PROVE  IamRest'
  <1> USE IamOnlyHolds
  <1>1. Iam!Idle(c) => \A k : ~Iam!Dooms(c, k)
    <2>1. Iam!Idle(c) => iamReq[c].op = "none"
      BY DEF Iam!Idle, Iam!NoReq
    <2>2. QED
      BY <2>1 DEF Iam!Dooms
  <1>2. CASE Iam!CreateAccount(c, a)
    <2> DEFINE r == [op |-> "create", account |-> a, rec |-> [uid |-> serial + 1, display |-> 0]]
    <2>1. /\ Iam!Hold(c, r) /\ Iam!Idle(c) /\ a \notin Iam!Exists
          /\ UNCHANGED <<accounts, keys, policies, shown, edited>>
      BY <1>2 DEF Iam!CreateAccount
    <2>2. iamReq'[c].op = "create" /\ iamReq'[c].account = a
      BY <2>1, IamHold DEF Iam!IInv
    <2>3. Iam!Exists' = Iam!Exists
      BY <2>1 DEF Iam!Exists
    <2>4. Iam!StillSo(c)' /\ Iam!Finds(c)'
      BY <2>1, <2>2, <2>3 DEF Iam!StillSo, Iam!Finds
    <2> HIDE DEF r
    <2>5. QED
      BY <1>1, <2>1, <2>4
  <1>3. CASE Iam!PatchAccount(c, a)
    <2> DEFINE r == [op |-> "patch", account |-> a, rec |-> [accounts[a] EXCEPT !.display = serial + 1]]
    <2>1. /\ Iam!Hold(c, r) /\ Iam!Idle(c) /\ a \in Iam!Exists
          /\ UNCHANGED <<accounts, keys, policies, shown, edited>>
      BY <1>3 DEF Iam!PatchAccount
    <2>2. iamReq'[c] = r
      BY <2>1, IamHold DEF Iam!IInv
    <2>3. accounts[a] \in Iam!Account
      BY <2>1 DEF Iam!IInv, Iam!TypeOK, Iam!Exists
    <2>4. r.op = "patch" /\ r.account = a /\ r.rec.uid = accounts[a].uid
      BY <2>3 DEF Iam!Account
    <2>5. Iam!Exists' = Iam!Exists
      BY <2>1 DEF Iam!Exists
    <2> HIDE DEF r
    <2>6. Iam!StillSo(c)' /\ Iam!Finds(c)'
      BY <2>1, <2>2, <2>4, <2>5 DEF Iam!StillSo, Iam!Finds
    <2>7. QED
      BY <1>1, <2>1, <2>6
  <1>4. CASE Iam!CreateKey(c, a)
    <2>1. /\ Iam!Hold(c, [op |-> "key", account |-> a]) /\ Iam!Idle(c) /\ a \in Iam!Exists
          /\ UNCHANGED <<accounts, keys, policies, shown, edited>>
      BY <1>4 DEF Iam!CreateKey
    <2>2. iamReq'[c].op = "key" /\ iamReq'[c].account = a
      BY <2>1, IamHold DEF Iam!IInv
    <2>3. Iam!Exists' = Iam!Exists
      BY <2>1 DEF Iam!Exists
    <2>4. Iam!StillSo(c)' /\ Iam!Finds(c)'
      BY <2>1, <2>2, <2>3 DEF Iam!StillSo, Iam!Finds
    <2>5. QED
      BY <1>1, <2>1, <2>4
  <1>5. CASE Iam!GetPolicy(c, a)
    <2>1. /\ Iam!Hold(c, [op |-> "edit", account |-> a, read |-> policies[a]]) /\ Iam!Idle(c)
          /\ UNCHANGED <<accounts, keys, policies, shown, edited>>
      BY <1>5 DEF Iam!GetPolicy
    <2>2. iamReq'[c].op = "edit" /\ iamReq'[c].account = a /\ iamReq'[c].read = policies[a]
      BY <2>1, IamHold DEF Iam!IInv
    <2>3. Iam!StillSo(c)' /\ Iam!Finds(c)'
      BY <2>1, <2>2 DEF Iam!StillSo, Iam!Finds
    <2>4. QED
      BY <1>1, <2>1, <2>3
  <1>6. QED
    BY <1>2, <1>3, <1>4, <1>5

(* /admin/reset lists the policies. *)
LEMMA IamResetStep ==
  ASSUME Iam!IInv, IamRacesGrow, NEW c \in Clients, Iam!Reset(c)
  PROVE  IamRest'
  <1> DEFINE r == [op |-> "wipe policies", left |-> {b \in Pair : policies[b] # {}}]
  <1>1. /\ Iam!Hold(c, r) /\ Iam!Idle(c)
        /\ UNCHANGED <<accounts, keys, policies, shown, edited>>
    BY DEF Iam!Reset
  <1>2. r.op = "wipe policies"
    OBVIOUS
  <1> HIDE DEF r
  <1>3. iamReq'[c].op = "wipe policies"
    BY <1>1, <1>2, IamHold DEF Iam!IInv
  <1>4. Iam!StillSo(c)' /\ Iam!Finds(c)'
    BY <1>3 DEF Iam!StillSo, Iam!Finds
  <1>5. \A k : ~Iam!Dooms(c, k)
    <2>1. iamReq[c].op = "none"
      BY <1>1 DEF Iam!Idle, Iam!NoReq
    <2>2. QED
      BY <2>1 DEF Iam!Dooms
  <1>6. QED
    BY <1>1, <1>4, <1>5, IamOnlyHolds

(* The cascade lists the keys of the account (item DELETE). *)
LEMMA IamListKeysStep ==
  ASSUME Iam!IInv, IamRacesGrow, NEW c \in Clients, Iam!ListKeys(c)
  PROVE  IamRest'
  <1> DEFINE a == iamReq[c].account
             I == {k.id : k \in {k \in keys : k.account = a}}
             r == [op |-> "cascade", account |-> a, left |-> I]
  <1>1. /\ Iam!Hold(c, r) /\ iamReq[c].op = "list"
        /\ UNCHANGED <<accounts, keys, policies, shown, edited>>
    BY DEF Iam!ListKeys
  <1>2. r.op = "cascade" /\ r.account = a /\ r.left = I
    OBVIOUS
  <1>3. \A k \in keys : k.account = a => k.id \in I
    OBVIOUS
  <1> HIDE DEF I, r
  <1>4. iamReq'[c] = r
    BY <1>1, IamHold DEF Iam!IInv
  <1>5. Iam!StillSo(c)' /\ Iam!Finds(c)'
    BY <1>2, <1>4 DEF Iam!StillSo, Iam!Finds
  <1>6. \A k \in keys : Iam!Dooms(c, k) => Iam!Dooms(c, k)'
    BY <1>1, <1>2, <1>3, <1>4 DEF Iam!Dooms
  <1>7. QED
    BY <1>1, <1>5, <1>6, IamOnlyHolds

(* The account that is put is the one checked or read, with the display name *)
(* that is answered (the Put of accountsCollection and of item PATCH).       *)
LEMMA IamPutAccountStep ==
  ASSUME Iam!IInv, IamRacesGrow, NEW c \in Clients, Iam!PutAccount(c)
  PROVE  IamRest'
  <1> DEFINE a == iamReq[c].account
  <1>1. /\ iamReq[c].op \in {"create", "patch"} /\ a \in Pair /\ iamReq[c].rec \in Iam!Account
    BY IamRequestFields DEF Iam!PutAccount, Iam!IInv, Iam!TypeOK
  <1>2. iamReq'[c].op = "none" /\ \A d \in Clients \ {c} : iamReq'[d] = iamReq[d]
    BY IamHold DEF Iam!PutAccount, Iam!IInv, Iam!NoReq
  <1>3. /\ iamRaced \subseteq iamRaced' /\ UNCHANGED <<keys, policies, edited>>
        /\ accounts'[a] = iamReq[c].rec /\ shown'[a] = iamReq[c].rec.display
        /\ \A b \in Pair \ {a} : accounts'[b] = accounts[b] /\ shown'[b] = shown[b]
    BY <1>1 DEF Iam!PutAccount, IamRacesGrow, Iam!IInv, Iam!TypeOK
  <1>4. Iam!About(c, a)
    BY <1>1, IamAbout
  <1>5. \A d \in Clients \ {c} : Iam!About(d, a) => a \in iamRaced
    BY <1>1, <1>4, IamTogether DEF Iam!IInv
  <1>6. iamReq[c].rec # Iam!None
    BY <1>1, IamAccounts
  <1> HIDE DEF a
  <1>7. Iam!Exists' = Iam!Exists \cup {a}
    BY <1>1, <1>3, <1>6 DEF Iam!Exists, a
  <1>8. ASSUME NEW d \in Clients PROVE Iam!StillSo(d)' /\ Iam!Finds(d)'
    <2>1. CASE d = c
      BY <1>2, <2>1 DEF Iam!StillSo, Iam!Finds
    <2>2. CASE d # c
      <3>1. Iam!StillSo(d) /\ Iam!Finds(d) /\ iamReq'[d] = iamReq[d]
        BY <1>2, <2>2 DEF Iam!IInv
      <3>2. Iam!Finds(d)'
        BY <1>3, <1>7, <3>1 DEF Iam!Finds
      <3>3. Iam!StillSo(d)'
        <4>1. CASE iamReq[d].op \in {"create", "patch", "key", "edit"} /\ iamReq[d].account = a
          BY <1>3, <1>5, <2>2, <3>1, <4>1, IamAbout DEF Iam!StillSo
        <4>2. CASE iamReq[d].op \in {"create", "patch", "key", "edit"} /\ iamReq[d].account # a
          <5>1. iamReq[d].account \in Pair
            BY <4>2, IamRequestFields DEF Iam!IInv, Iam!TypeOK
          <5>2. QED
            BY <1>3, <1>7, <3>1, <4>2, <5>1 DEF Iam!StillSo
        <4>3. CASE ~(iamReq[d].op \in {"create", "patch", "key", "edit"})
          BY <3>1, <4>3 DEF Iam!StillSo
        <4>4. QED
          BY <4>1, <4>2, <4>3
      <3>4. QED
        BY <3>2, <3>3
    <2>3. QED
      BY <2>1, <2>2
  <1>9. Iam!KeysDoomed'
    <2>1. \A d \in Clients, k \in keys : Iam!Dooms(d, k) => Iam!Dooms(d, k)'
      BY <1>1, <1>2 DEF Iam!Dooms
    <2>2. QED
      BY <1>3, <1>7, <2>1 DEF Iam!IInv, Iam!KeysDoomed
  <1>10. Iam!ShownStored'
    <2>1. \A b \in Iam!Exists : b \in Pair
      BY DEF Iam!Exists
    <2>2. QED
      BY <1>1, <1>3, <1>7, <2>1 DEF Iam!IInv, Iam!ShownStored
  <1>11. Iam!EditsAddUp'
    BY <1>3 DEF Iam!IInv, Iam!EditsAddUp
  <1>12. QED
    BY <1>8, <1>9, <1>10, <1>11 DEF IamRest

(* DELETE of an account dooms its keys; another call on the account, or a    *)
(* reset, is recorded as a race (item DELETE).                               *)
LEMMA IamDeleteAccountStep ==
  ASSUME Iam!IInv, IamRacesGrow, NEW c \in Clients, NEW a \in Pair, Iam!DeleteAccount(c, a)
  PROVE  IamRest'
  <1>1. iamReq[c].op = "none"
    BY DEF Iam!DeleteAccount, Iam!Idle, Iam!NoReq
  <1>2. /\ iamReq'[c].op = "list" /\ iamReq'[c].account = a
        /\ \A d \in Clients \ {c} : iamReq'[d] = iamReq[d]
    BY IamHold DEF Iam!DeleteAccount, Iam!IInv
  <1>3. /\ iamRaced \subseteq iamRaced' /\ UNCHANGED <<keys, policies, edited>>
        /\ accounts'[a] = Iam!None
        /\ \A b \in Pair \ {a} : accounts'[b] = accounts[b] /\ shown'[b] = shown[b]
    BY DEF Iam!DeleteAccount, IamRacesGrow, Iam!IInv, Iam!TypeOK
  <1>4. Iam!Exists' = Iam!Exists \ {a}
    BY <1>3 DEF Iam!Exists
  <1>5. Iam!About(c, a)'
    BY <1>2 DEF Iam!About, Iam!Idle, Iam!NoReq
  <1>6. ASSUME NEW d \in Clients \ {c} PROVE Iam!StillSo(d)' /\ Iam!Finds(d)'
    <2>1. Iam!StillSo(d) /\ Iam!Finds(d) /\ iamReq'[d] = iamReq[d]
      BY <1>2, <1>6 DEF Iam!IInv
    <2>2. Iam!Finds(d)'
      <3>1. CASE Iam!Wiping(d)'
        BY <1>2, <3>1, IamTogetherNext DEF Iam!Finds
      <3>2. CASE ~Iam!Wiping(d)'
        BY <3>2 DEF Iam!Finds, Iam!Wiping
      <3>3. QED
        BY <3>1, <3>2
    <2>3. Iam!StillSo(d)'
      <3>1. CASE iamReq[d].op \in {"create", "patch", "key", "edit"} /\ iamReq[d].account = a
        <4>1. Iam!About(d, a)'
          BY <2>1, <3>1 DEF Iam!About, Iam!Idle, Iam!NoReq
        <4>2. QED
          BY <1>5, <2>1, <3>1, <4>1, IamTogetherNext DEF Iam!StillSo
      <3>2. CASE iamReq[d].op \in {"create", "patch", "key", "edit"} /\ iamReq[d].account # a
        <4>1. iamReq[d].account \in Pair
          BY <3>2, IamRequestFields DEF Iam!IInv, Iam!TypeOK
        <4>2. QED
          BY <1>3, <1>4, <2>1, <3>2, <4>1 DEF Iam!StillSo
      <3>3. CASE ~(iamReq[d].op \in {"create", "patch", "key", "edit"})
        BY <2>1, <3>3 DEF Iam!StillSo
      <3>4. QED
        BY <3>1, <3>2, <3>3
    <2>4. QED
      BY <2>2, <2>3
  <1>7. Iam!StillSo(c)' /\ Iam!Finds(c)'
    BY <1>2 DEF Iam!StillSo, Iam!Finds
  <1>8. Iam!KeysDoomed'
    <2>1. \A d \in Clients, k \in keys : Iam!Dooms(d, k) => Iam!Dooms(d, k)'
      BY <1>1, <1>2 DEF Iam!Dooms
    <2>2. \A k \in keys : k.account = a => Iam!Dooms(c, k)'
      BY <1>2 DEF Iam!Dooms
    <2>3. QED
      BY <1>3, <1>4, <2>1, <2>2 DEF Iam!IInv, Iam!KeysDoomed
  <1>9. Iam!ShownStored'
    BY <1>3, <1>4 DEF Iam!IInv, Iam!ShownStored, Iam!Exists
  <1>10. Iam!EditsAddUp'
    BY <1>3 DEF Iam!IInv, Iam!EditsAddUp
  <1>11. QED
    BY <1>6, <1>7, <1>8, <1>9, <1>10 DEF IamRest

(* A step that takes keys away: what is doomed stays doomed, and a reset     *)
(* that loses a key it has listed is recorded.                               *)
LEMMA IamTakesKeys ==
  ASSUME Iam!IInv, IamRacesGrow, keys' \subseteq keys, UNCHANGED <<accounts, policies, shown, edited>>,
         \A c \in Clients : iamReq[c].op \in {"create", "patch", "key", "edit"} \/
                            iamReq'[c].op \in {"create", "patch", "key", "edit"} => iamReq'[c] = iamReq[c],
         \A c \in Clients : Iam!Finds(c)',
         \A c \in Clients, k \in keys' : Iam!Dooms(c, k) => k.account \in iamRaced' \/ Iam!Dooms(c, k)'
  PROVE  IamRest'
  <1>1. iamRaced \subseteq iamRaced' /\ Iam!Exists' = Iam!Exists
    BY DEF IamRacesGrow, Iam!Exists
  <1>2. ASSUME NEW c \in Clients PROVE Iam!StillSo(c)'
    <2>1. CASE iamReq'[c].op \in {"create", "patch", "key", "edit"}
      BY <1>1, <2>1 DEF Iam!IInv, Iam!StillSo
    <2>2. CASE ~(iamReq'[c].op \in {"create", "patch", "key", "edit"})
      BY <2>2 DEF Iam!StillSo
    <2>3. QED
      BY <2>1, <2>2
  <1>3. Iam!KeysDoomed'
    BY <1>1 DEF Iam!IInv, Iam!KeysDoomed
  <1>4. Iam!ShownStored' /\ Iam!EditsAddUp'
    BY <1>1 DEF Iam!IInv, Iam!ShownStored, Iam!EditsAddUp
  <1>5. QED
    BY <1>2, <1>3, <1>4 DEF IamRest

(* The cascade removes a key of its list, or has none left. *)
LEMMA IamCascadeStep ==
  ASSUME Iam!IInv, IamRacesGrow, NEW c \in Clients, Iam!Cascade(c)
  PROVE  IamRest'
  <1> DEFINE a == iamReq[c].account
             Less(i) == [iamReq[c] EXCEPT !.left = @ \ {i}]
  <1>1. iamReq[c] \in [op : {"cascade"}, account : Pair, left : SUBSET Iam!Serial]
    BY IamRequestFields DEF Iam!Cascade, Iam!IInv, Iam!TypeOK
  <1>2. \A i : Less(i).op = "cascade" /\ Less(i).account = a /\ Less(i).left = iamReq[c].left \ {i}
    BY <1>1
  <1>3. iamReq[c].op = "cascade" /\ a \in Pair
    BY <1>1
  <1>4. iamRaced \subseteq iamRaced'
    BY DEF IamRacesGrow
  <1>5. CASE iamReq[c].left = {} /\ Iam!Hold(c, Iam!NoReq) /\ UNCHANGED keys
    <2>1. iamReq'[c].op = "none"
      BY <1>5, IamHold DEF Iam!IInv, Iam!NoReq
    <2>2. Iam!StillSo(c)' /\ Iam!Finds(c)'
      BY <2>1 DEF Iam!StillSo, Iam!Finds
    <2>3. \A k \in keys : ~Iam!Dooms(c, k)
      BY <1>3, <1>5 DEF Iam!Dooms
    <2>4. UNCHANGED <<accounts, keys, policies, shown, edited>>
      BY <1>5 DEF Iam!Cascade
    <2>5. QED
      BY <1>5, <2>2, <2>3, <2>4, IamOnlyHolds
  <1>6. ASSUME NEW i \in iamReq[c].left, keys' = keys \ {[account |-> a, id |-> i]}, Iam!Hold(c, Less(i))
        PROVE  IamRest'
    <2> HIDE DEF Less
    <2>1. iamReq'[c] = Less(i) /\ \A d \in Clients \ {c} : iamReq'[d] = iamReq[d]
      BY <1>6, IamHold DEF Iam!IInv
    <2>2. iamReq'[c].op = "cascade" /\ iamReq'[c].account = a /\ iamReq'[c].left = iamReq[c].left \ {i}
      BY <1>2, <2>1
    <2>3. UNCHANGED <<accounts, policies, shown, edited>>
      BY DEF Iam!Cascade
    <2>4. \A d \in Clients : iamReq[d].op \in {"create", "patch", "key", "edit"} \/
                             iamReq'[d].op \in {"create", "patch", "key", "edit"} => iamReq'[d] = iamReq[d]
      BY <1>3, <2>1, <2>2
    <2>5. ASSUME NEW d \in Clients PROVE Iam!Finds(d)'
      <3>1. CASE Iam!Wiping(d)
        <4>1. d # c /\ Pair \subseteq iamRaced
          BY <1>3, <3>1, IamTogether DEF Iam!IInv, Iam!Wiping
        <4>2. QED
          BY <1>4, <4>1 DEF Iam!Finds
      <3>2. CASE ~Iam!Wiping(d)
        BY <2>1, <2>2, <3>2 DEF Iam!Finds, Iam!Wiping
      <3>3. QED
        BY <3>1, <3>2
    <2>6. ASSUME NEW d \in Clients, NEW k \in keys', Iam!Dooms(d, k) PROVE Iam!Dooms(d, k)'
      <3>1. CASE d = c
        <4>1. k.account = a /\ k.id \in iamReq[c].left
          BY <1>3, <2>6, <3>1 DEF Iam!Dooms
        <4>2. k \in [account : Pair, id : Iam!Serial] /\ k # [account |-> a, id |-> i]
          BY <1>6 DEF Iam!IInv, Iam!TypeOK
        <4>3. k.id # i
          BY <4>1, <4>2
        <4>4. QED
          BY <2>2, <3>1, <4>1, <4>3 DEF Iam!Dooms
      <3>2. CASE d # c
        BY <2>1, <2>6, <3>2 DEF Iam!Dooms
      <3>3. QED
        BY <3>1, <3>2
    <2>7. QED
      BY <1>6, <2>3, <2>4, <2>5, <2>6, IamTakesKeys
  <1>7. QED
    BY <1>5, <1>6 DEF Iam!Cascade

(* A single DELETE of a key beside a reset is recorded (keyItem). *)
LEMMA IamDeleteKeyStep ==
  ASSUME Iam!IInv, IamRacesGrow, NEW k \in keys, Iam!DeleteKey(k),
         {a \in Pair : \E c \in Clients : Iam!Wiping(c)} \subseteq iamRaced'
  PROVE  IamRest'
  <1>1. /\ keys' = keys \ {k} /\ iamReq' = iamReq /\ iamRaced \subseteq iamRaced'
        /\ UNCHANGED <<accounts, policies, shown, edited>>
    BY DEF Iam!DeleteKey, IamRacesGrow
  <1>2. ASSUME NEW c \in Clients PROVE Iam!Finds(c)'
    <2>1. CASE Iam!Wiping(c)
      BY <2>1 DEF Iam!Finds
    <2>2. CASE ~Iam!Wiping(c)
      BY <1>1, <2>2 DEF Iam!Finds, Iam!Wiping
    <2>3. QED
      BY <2>1, <2>2
  <1>3. \A c \in Clients, j \in keys' : Iam!Dooms(c, j) => Iam!Dooms(c, j)'
    BY <1>1 DEF Iam!Dooms
  <1>4. keys' \subseteq keys
    BY <1>1
  <1>5. QED
    BY <1>1, <1>2, <1>3, <1>4, IamTakesKeys

(* A key is put while its account is there, unless a deletion is recorded    *)
(* (keysCollection).                                                         *)
LEMMA IamPutKeyStep ==
  ASSUME Iam!IInv, IamRacesGrow, NEW c \in Clients, Iam!PutKey(c)
  PROVE  IamRest'
  <1> DEFINE a == iamReq[c].account
             k == [account |-> a, id |-> serial + 1]
  <1>1. iamReq[c].op = "key" /\ a \in Pair
    BY IamRequestFields DEF Iam!PutKey, Iam!IInv, Iam!TypeOK
  <1>2. iamReq'[c].op = "none" /\ \A d \in Clients \ {c} : iamReq'[d] = iamReq[d]
    BY IamHold DEF Iam!PutKey, Iam!IInv, Iam!NoReq
  <1>3. /\ iamRaced \subseteq iamRaced' /\ keys' = keys \cup {k}
        /\ UNCHANGED <<accounts, policies, shown, edited>>
    BY DEF Iam!PutKey, IamRacesGrow
  <1>4. Iam!Exists' = Iam!Exists
    BY <1>3 DEF Iam!Exists
  <1>5. k.account = a /\ (a \in iamRaced \/ a \in Iam!Exists)
    BY <1>1 DEF Iam!IInv, Iam!StillSo
  <1> HIDE DEF k
  <1>6. ASSUME NEW d \in Clients PROVE Iam!StillSo(d)' /\ Iam!Finds(d)'
    <2>1. CASE d = c
      BY <1>2, <2>1 DEF Iam!StillSo, Iam!Finds
    <2>2. CASE d # c
      <3>1. Iam!StillSo(d) /\ Iam!Finds(d) /\ iamReq'[d] = iamReq[d]
        BY <1>2, <2>2 DEF Iam!IInv
      <3>2. Iam!StillSo(d)'
        BY <1>3, <1>4, <3>1 DEF Iam!StillSo
      <3>3. Iam!Finds(d)'
        BY <1>3, <1>4, <3>1 DEF Iam!Finds
      <3>4. QED
        BY <3>2, <3>3
    <2>3. QED
      BY <2>1, <2>2
  <1>7. Iam!KeysDoomed'
    <2>1. \A d \in Clients, j \in keys : Iam!Dooms(d, j) => Iam!Dooms(d, j)'
      BY <1>1, <1>2 DEF Iam!Dooms
    <2>2. QED
      BY <1>3, <1>4, <1>5, <2>1 DEF Iam!IInv, Iam!KeysDoomed
  <1>8. Iam!ShownStored' /\ Iam!EditsAddUp'
    BY <1>3, <1>4 DEF Iam!IInv, Iam!ShownStored, Iam!EditsAddUp
  <1>9. QED
    BY <1>6, <1>7, <1>8 DEF IamRest

(* A step that changes the policy of one account, on behalf of a call about  *)
(* it: whoever else has read the policy is recorded.                         *)
LEMMA IamChangesPolicy ==
  ASSUME Iam!IInv, IamRacesGrow, NEW c \in Clients, NEW a \in Pair, Iam!About(c, a),
         \A k : ~Iam!Dooms(c, k), ~(iamReq'[c].op \in {"create", "patch", "key", "edit", "wipe accounts", "wipe keys"}),
         \A d \in Clients \ {c} : iamReq'[d] = iamReq[d],
         \A b \in Pair \ {a} : policies'[b] = policies[b] /\ edited'[b] = edited[b],
         a \in iamRaced \/ policies'[a] = edited'[a],
         UNCHANGED <<accounts, keys, shown>>
  PROVE  IamRest'
  <1>1. iamRaced \subseteq iamRaced' /\ Iam!Exists' = Iam!Exists
    BY DEF IamRacesGrow, Iam!Exists
  <1>2. \A d \in Clients \ {c} : Iam!About(d, a) => a \in iamRaced
    BY IamTogether DEF Iam!IInv
  <1>3. ASSUME NEW d \in Clients PROVE Iam!StillSo(d)' /\ Iam!Finds(d)'
    <2>1. CASE d = c
      BY <2>1 DEF Iam!StillSo, Iam!Finds
    <2>2. CASE d # c
      <3>1. Iam!StillSo(d) /\ Iam!Finds(d) /\ iamReq'[d] = iamReq[d]
        BY <2>2 DEF Iam!IInv
      <3>2. Iam!Finds(d)'
        BY <1>1, <3>1 DEF Iam!Finds
      <3>3. Iam!StillSo(d)'
        <4>1. CASE iamReq[d].op \in {"create", "patch", "key", "edit"} /\ iamReq[d].account = a
          BY <1>1, <1>2, <2>2, <3>1, <4>1, IamAbout DEF Iam!StillSo
        <4>2. CASE iamReq[d].op \in {"create", "patch", "key", "edit"} /\ iamReq[d].account # a
          <5>1. iamReq[d].account \in Pair
            BY <4>2, IamRequestFields DEF Iam!IInv, Iam!TypeOK
          <5>2. QED
            BY <1>1, <3>1, <4>2, <5>1 DEF Iam!StillSo
        <4>3. CASE ~(iamReq[d].op \in {"create", "patch", "key", "edit"})
          BY <3>1, <4>3 DEF Iam!StillSo
        <4>4. QED
          BY <4>1, <4>2, <4>3
      <3>4. QED
        BY <3>2, <3>3
    <2>3. QED
      BY <2>1, <2>2
  <1>4. Iam!KeysDoomed'
    <2>1. \A d \in Clients, k \in keys : Iam!Dooms(d, k) => Iam!Dooms(d, k)'
      BY DEF Iam!Dooms
    <2>2. QED
      BY <1>1, <2>1 DEF Iam!IInv, Iam!KeysDoomed
  <1>5. Iam!ShownStored' /\ Iam!EditsAddUp'
    BY <1>1 DEF Iam!IInv, Iam!ShownStored, Iam!EditsAddUp
  <1>6. QED
    BY <1>3, <1>4, <1>5 DEF IamRest

(* An edit of the policy as it is now adds up (Store.Set). *)
LEMMA IamSetPolicyStep ==
  ASSUME Iam!IInv, IamRacesGrow, NEW c \in Clients, NEW m \in Members, Iam!SetPolicy(c, m)
  PROVE  IamRest'
  <1> DEFINE a == iamReq[c].account
             R == iamReq[c].read
  <1>1. iamReq[c].op = "edit" /\ a \in Pair
    BY IamRequestFields DEF Iam!SetPolicy, Iam!IInv, Iam!TypeOK
  <1>2. iamReq'[c].op = "none" /\ \A d \in Clients \ {c} : iamReq'[d] = iamReq[d]
    BY IamHold DEF Iam!SetPolicy, Iam!IInv, Iam!NoReq
  <1>3. /\ policies' = [policies EXCEPT ![a] = Iam!Bindings(R, m)]
        /\ edited' = [edited EXCEPT ![a] = IF m \in R THEN @ \ {m} ELSE @ \cup {m}]
        /\ UNCHANGED <<accounts, keys, shown>>
    BY DEF Iam!SetPolicy
  <1>4. policies \in [Pair -> SUBSET Members] /\ edited \in [Pair -> SUBSET Members]
    BY DEF Iam!IInv, Iam!TypeOK
  <1>5. a \in iamRaced \/ (policies[a] = R /\ edited[a] = R)
    BY <1>1 DEF Iam!IInv, Iam!StillSo, Iam!EditsAddUp
  <1> HIDE DEF R
  <1>6. a \in iamRaced \/ policies'[a] = edited'[a]
    BY <1>1, <1>3, <1>4, <1>5 DEF Iam!Bindings
  <1>7. \A b \in Pair \ {a} : policies'[b] = policies[b] /\ edited'[b] = edited[b]
    BY <1>1, <1>3, <1>4
  <1>8. Iam!About(c, a) /\ \A k : ~Iam!Dooms(c, k)
    BY <1>1, IamAbout DEF Iam!Dooms
  <1>9. QED
    BY <1>1, <1>2, <1>3, <1>6, <1>7, <1>8, IamChangesPolicy

(* A policy that /admin/reset removes counts no edit any more. *)
LEMMA IamWipePoliciesStep ==
  ASSUME Iam!IInv, IamRacesGrow, NEW c \in Clients, Iam!WipePolicies(c)
  PROVE  IamRest'
  <1> DEFINE Less(a) == [iamReq[c] EXCEPT !.left = @ \ {a}]
  <1>1. iamReq[c].op = "wipe policies" /\ Iam!Wiping(c) /\ \A k : ~Iam!Dooms(c, k)
    BY DEF Iam!WipePolicies, Iam!Wiping, Iam!Dooms
  <1>2. iamReq[c] \in [op : {"wipe policies", "wipe accounts"}, left : SUBSET Pair]
    BY <1>1, IamRequestFields DEF Iam!IInv, Iam!TypeOK
  <1>3. \A a : Less(a).op = "wipe policies"
    BY <1>1, <1>2
  <1>4. UNCHANGED <<accounts, keys, shown>>
    BY DEF Iam!WipePolicies
  <1>5. CASE Iam!Hold(c, [op |-> "wipe accounts", left |-> Iam!Exists]) /\ UNCHANGED <<policies, edited>>
    <2> DEFINE r == [op |-> "wipe accounts", left |-> Iam!Exists]
    <2>1. r.op = "wipe accounts" /\ r.left = Iam!Exists
      OBVIOUS
    <2> HIDE DEF r
    <2>2. Iam!Hold(c, r) /\ UNCHANGED <<accounts, keys, policies, shown, edited>>
      BY <1>4, <1>5 DEF r
    <2>3. iamReq'[c] = r
      BY <2>2, IamHold DEF Iam!IInv
    <2>4. Iam!Exists' = Iam!Exists
      BY <1>4 DEF Iam!Exists
    <2>5. Iam!StillSo(c)' /\ Iam!Finds(c)'
      BY <2>1, <2>3, <2>4 DEF Iam!StillSo, Iam!Finds
    <2>6. QED
      BY <1>1, <2>2, <2>5, IamOnlyHolds
  <1>6. ASSUME NEW a \in iamReq[c].left, policies' = [policies EXCEPT ![a] = {}],
               edited' = [edited EXCEPT ![a] = {}], Iam!Hold(c, Less(a))
        PROVE  IamRest'
    <2> HIDE DEF Less
    <2>1. a \in Pair
      BY <1>2
    <2>2. iamReq'[c].op = "wipe policies" /\ \A d \in Clients \ {c} : iamReq'[d] = iamReq[d]
      BY <1>3, <1>6, IamHold DEF Iam!IInv
    <2>3. /\ policies'[a] = edited'[a]
          /\ \A b \in Pair \ {a} : policies'[b] = policies[b] /\ edited'[b] = edited[b]
      BY <1>6, <2>1 DEF Iam!IInv, Iam!TypeOK
    <2>4. Iam!About(c, a)
      BY <1>1, IamAbout
    <2>5. QED
      BY <1>1, <1>4, <2>1, <2>2, <2>3, <2>4, IamChangesPolicy
  <1>7. QED
    BY <1>5, <1>6, Zenon DEF Iam!WipePolicies

(* The second pass of /admin/reset removes an account it finds, or is done   *)
(* and lists the keys; it ends early only when another call got in its way.  *)
LEMMA IamWipeAccountsStep ==
  ASSUME Iam!IInv, IamRacesGrow, NEW c \in Clients, Iam!WipeAccounts(c)
  PROVE  IamRest'
  <1> DEFINE Less(a) == [iamReq[c] EXCEPT !.left = @ \ {a}]
  <1>1. iamReq[c].op = "wipe accounts" /\ Iam!Wiping(c)
    BY DEF Iam!WipeAccounts, Iam!Wiping
  <1>2. iamReq[c] \in [op : {"wipe policies", "wipe accounts"}, left : SUBSET Pair]
    BY <1>1, IamRequestFields DEF Iam!IInv, Iam!TypeOK
  <1>3. \A a : Less(a).op = "wipe accounts" /\ Less(a).left = iamReq[c].left \ {a}
    BY <1>1, <1>2
  <1>4. UNCHANGED <<keys, policies, edited>> /\ iamRaced \subseteq iamRaced'
    BY DEF Iam!WipeAccounts, IamRacesGrow
  <1>5. CASE Iam!Hold(c, [op |-> "wipe keys", left |-> keys]) /\ UNCHANGED <<accounts, shown>>
    <2> DEFINE r == [op |-> "wipe keys", left |-> keys]
    <2>1. r.op = "wipe keys" /\ r.left = keys
      OBVIOUS
    <2> HIDE DEF r
    <2>2. Iam!Hold(c, r) /\ UNCHANGED <<accounts, keys, policies, shown, edited>>
      BY <1>4, <1>5 DEF r
    <2>3. iamReq'[c] = r
      BY <2>2, IamHold DEF Iam!IInv
    <2>4. Iam!StillSo(c)' /\ Iam!Finds(c)'
      BY <1>4, <2>1, <2>3 DEF Iam!StillSo, Iam!Finds
    <2>5. \A k \in keys : Iam!Dooms(c, k)'
      BY <2>1, <2>3 DEF Iam!Dooms
    <2>6. QED
      BY <2>2, <2>4, <2>5, IamOnlyHolds
  <1>6. ASSUME NEW a \in iamReq[c].left, accounts' = [accounts EXCEPT ![a] = Iam!None],
               shown' = [shown EXCEPT ![a] = 0],
               Iam!Hold(c, IF a \in Iam!Exists THEN Less(a) ELSE Iam!NoReq)
        PROVE  IamRest'
    <2> HIDE DEF Less
    <2> DEFINE r == IF a \in Iam!Exists THEN Less(a) ELSE Iam!NoReq
    <2>1. a \in Pair
      BY <1>2
    <2>2. iamReq'[c] = r /\ \A d \in Clients \ {c} : iamReq'[d] = iamReq[d]
      BY <1>6, IamHold DEF Iam!IInv
    <2>3. /\ a \in Iam!Exists => iamReq'[c].op = "wipe accounts" /\ iamReq'[c].left = iamReq[c].left \ {a}
          /\ a \notin Iam!Exists => iamReq'[c].op = "none"
      <3>1. Iam!NoReq.op = "none"
        BY DEF Iam!NoReq
      <3>2. QED
        BY <1>3, <2>2, <3>1, Zenon
    <2> HIDE DEF r
    <2>4. Pair \subseteq iamRaced \/ iamReq[c].left \subseteq Iam!Exists
      BY <1>1 DEF Iam!IInv, Iam!Finds
    <2>5. /\ accounts'[a] = Iam!None
          /\ \A b \in Pair \ {a} : accounts'[b] = accounts[b] /\ shown'[b] = shown[b]
      BY <1>6, <2>1 DEF Iam!IInv, Iam!TypeOK
    <2>6. Iam!Exists' = Iam!Exists \ {a}
      BY <2>1, <2>5 DEF Iam!Exists
    <2>7. ASSUME NEW d \in Clients \ {c} PROVE Iam!StillSo(d)' /\ Iam!Finds(d)'
      <3>1. Iam!StillSo(d) /\ Iam!Finds(d) /\ iamReq'[d] = iamReq[d]
        BY <2>2, <2>7 DEF Iam!IInv
      <3>2. Iam!Finds(d)'
        <4>1. CASE Iam!Wiping(d)
          BY <1>1, <1>4, <4>1, IamTogether DEF Iam!Finds, Iam!IInv
        <4>2. CASE ~Iam!Wiping(d)
          BY <3>1, <4>2 DEF Iam!Finds, Iam!Wiping
        <4>3. QED
          BY <4>1, <4>2
      <3>3. Iam!StillSo(d)'
        <4>1. CASE iamReq[d].op \in {"create", "patch", "key", "edit"}
          <5>1. iamReq[d].account \in Pair
            BY <4>1, IamRequestFields DEF Iam!IInv, Iam!TypeOK
          <5>2. Iam!About(c, iamReq[d].account) /\ Iam!About(d, iamReq[d].account)
            BY <1>1, <4>1, IamAbout
          <5>3. iamReq[d].account \in iamRaced
            BY <5>1, <5>2, IamTogether DEF Iam!IInv
          <5>4. QED
            BY <1>4, <3>1, <5>3 DEF Iam!StillSo
        <4>2. CASE ~(iamReq[d].op \in {"create", "patch", "key", "edit"})
          BY <3>1, <4>2 DEF Iam!StillSo
        <4>3. QED
          BY <4>1, <4>2
      <3>4. QED
        BY <3>2, <3>3
    <2>8. Iam!StillSo(c)' /\ Iam!Finds(c)'
      <3>1. Iam!StillSo(c)'
        BY <2>3 DEF Iam!StillSo
      <3>2. Iam!Finds(c)'
        BY <1>4, <2>3, <2>4, <2>6 DEF Iam!Finds
      <3>3. QED
        BY <3>1, <3>2
    <2>9. Iam!KeysDoomed'
      <3>1. ASSUME NEW k \in keys, k.account \notin iamRaced' PROVE Iam!Dooms(c, k)'
        <4>1. k.account \in Pair
          BY DEF Iam!IInv, Iam!TypeOK
        <4>2. iamReq'[c].op = "wipe accounts"
          BY <1>4, <2>3, <2>4, <3>1, <4>1
        <4>3. QED
          BY <4>2 DEF Iam!Dooms
      <3>2. QED
        BY <1>4, <3>1 DEF Iam!KeysDoomed
    <2>10. Iam!ShownStored'
      BY <1>4, <2>5, <2>6 DEF Iam!IInv, Iam!ShownStored, Iam!Exists
    <2>11. Iam!EditsAddUp'
      BY <1>4 DEF Iam!IInv, Iam!EditsAddUp
    <2>12. QED
      BY <2>7, <2>8, <2>9, <2>10, <2>11 DEF IamRest
  <1>7. QED
    BY <1>5, <1>6, Zenon DEF Iam!WipeAccounts

(* The last pass of /admin/reset removes a key it finds, or is done. *)
LEMMA IamWipeKeysStep ==
  ASSUME Iam!IInv, IamRacesGrow, NEW c \in Clients, Iam!WipeKeys(c)
  PROVE  IamRest'
  <1> DEFINE Less(k) == [iamReq[c] EXCEPT !.left = @ \ {k}]
  <1>1. iamReq[c].op = "wipe keys" /\ Iam!Wiping(c)
    BY DEF Iam!WipeKeys, Iam!Wiping
  <1>2. iamReq[c] \in [op : {"wipe keys"}, left : SUBSET [account : Pair, id : Iam!Serial]]
    BY <1>1, IamRequestFields DEF Iam!IInv, Iam!TypeOK
  <1>3. \A k : Less(k).op = "wipe keys" /\ Less(k).left = iamReq[c].left \ {k}
    BY <1>2
  <1>4. UNCHANGED <<accounts, policies, shown, edited>> /\ iamRaced \subseteq iamRaced'
    BY DEF Iam!WipeKeys, IamRacesGrow
  <1>5. CASE iamReq[c].left = {} /\ Iam!Hold(c, Iam!NoReq) /\ UNCHANGED keys
    <2>1. iamReq'[c].op = "none"
      BY <1>5, IamHold DEF Iam!IInv, Iam!NoReq
    <2>2. Iam!StillSo(c)' /\ Iam!Finds(c)'
      BY <2>1 DEF Iam!StillSo, Iam!Finds
    <2>3. \A k \in keys : ~Iam!Dooms(c, k)
      BY <1>1, <1>5 DEF Iam!Dooms
    <2>4. UNCHANGED <<accounts, keys, policies, shown, edited>>
      BY <1>4, <1>5
    <2>5. QED
      BY <1>5, <2>2, <2>3, <2>4, IamOnlyHolds
  <1>6. ASSUME NEW k \in iamReq[c].left, keys' = keys \ {k},
               Iam!Hold(c, IF k \in keys THEN Less(k) ELSE Iam!NoReq)
        PROVE  IamRest'
    <2> HIDE DEF Less
    <2> DEFINE r == IF k \in keys THEN Less(k) ELSE Iam!NoReq
    <2>1. iamReq'[c] = r /\ \A d \in Clients \ {c} : iamReq'[d] = iamReq[d]
      BY <1>6, IamHold DEF Iam!IInv
    <2>2. /\ k \in keys => iamReq'[c].op = "wipe keys" /\ iamReq'[c].left = iamReq[c].left \ {k}
          /\ k \notin keys => iamReq'[c].op = "none"
      <3>1. Iam!NoReq.op = "none"
        BY DEF Iam!NoReq
      <3>2. QED
        BY <1>3, <2>1, <3>1, Zenon
    <2> HIDE DEF r
    <2>3. Pair \subseteq iamRaced \/ iamReq[c].left \subseteq keys
      BY <1>1 DEF Iam!IInv, Iam!Finds
    <2>4. \A d \in Clients : iamReq[d].op \in {"create", "patch", "key", "edit"} \/
                             iamReq'[d].op \in {"create", "patch", "key", "edit"} => iamReq'[d] = iamReq[d]
      BY <1>1, <2>1, <2>2
    <2>5. ASSUME NEW d \in Clients PROVE Iam!Finds(d)'
      <3>1. CASE d = c
        BY <1>4, <1>6, <2>2, <2>3, <3>1 DEF Iam!Finds
      <3>2. CASE d # c /\ Iam!Wiping(d)
        BY <1>1, <1>4, <3>2, IamTogether DEF Iam!Finds, Iam!IInv
      <3>3. CASE d # c /\ ~Iam!Wiping(d)
        BY <2>1, <3>3 DEF Iam!Finds, Iam!Wiping
      <3>4. QED
        BY <3>1, <3>2, <3>3
    <2>6. ASSUME NEW d \in Clients, NEW j \in keys', Iam!Dooms(d, j)
          PROVE  j.account \in iamRaced' \/ Iam!Dooms(d, j)'
      <3>1. CASE d = c
        <4>1. j \in iamReq[c].left /\ j # k /\ j.account \in Pair
          BY <1>1, <1>2, <1>6, <2>6, <3>1 DEF Iam!Dooms
        <4>2. QED
          BY <1>4, <2>2, <2>3, <3>1, <4>1 DEF Iam!Dooms
      <3>2. CASE d # c
        BY <2>1, <2>6, <3>2 DEF Iam!Dooms
      <3>3. QED
        BY <3>1, <3>2
    <2>7. QED
      BY <1>4, <1>6, <2>4, <2>5, <2>6, IamTakesKeys
  <1>7. QED
    BY <1>5, <1>6, Zenon DEF Iam!WipeKeys

(* Every handler keeps the shape of what it stores (TypeOK). *)
LEMMA IamTypeStep == Iam!IInv /\ Iam!Next => Iam!TypeOK'
  <1> SUFFICES ASSUME Iam!IInv, Iam!Next PROVE Iam!TypeOK'
    OBVIOUS
  <1> DEFINE Rest == /\ accounts' \in [Pair -> Iam!Account \cup {Iam!None}]
                     /\ keys' \subseteq [account : Pair, id : Iam!Serial]
                     /\ policies' \in [Pair -> SUBSET Members] /\ edited' \in [Pair -> SUBSET Members]
                     /\ serial' \in 0..MaxSerial
                     /\ shown' \in [Pair -> 0..MaxSerial]
  <1>0. Iam!TypeOK
    BY DEF Iam!IInv
  <1>1. iamRaced' \subseteq Pair
    BY IamRacedGrows DEF IamRacesGrow, Iam!IInv
  <1>2. MaxSerial \in Nat
    BY ServicesAssumption
  <1>3. ASSUME NEW c \in Clients, NEW r \in Iam!Request, Iam!Hold(c, r), Rest PROVE Iam!TypeOK'
    <2>1. iamReq' \in [Clients -> Iam!Request]
      BY <1>0, <1>3 DEF Iam!Hold, Iam!TypeOK
    <2>2. QED
      BY <1>1, <1>3, <2>1 DEF Iam!TypeOK
  <1>4. ASSUME NEW c \in Clients PROVE iamReq[c] \in Iam!Request
    BY <1>0 DEF Iam!TypeOK
  <1>5. Iam!Fresh => serial + 1 \in Iam!Serial /\ serial' \in 0..MaxSerial
    BY <1>0, <1>2 DEF Iam!Fresh, Iam!Serial, Iam!TypeOK
  <1>6. ASSUME NEW c \in Clients, NEW a \in Pair, Iam!CreateAccount(c, a) PROVE Iam!TypeOK'
    <2> DEFINE u == [uid |-> serial + 1, display |-> 0]
    <2>1. u \in Iam!Account
      BY <1>5, <1>6 DEF Iam!CreateAccount, Iam!Account
    <2>2. Rest
      BY <1>0, <1>5, <1>6 DEF Iam!CreateAccount, Iam!TypeOK
    <2>3. [op |-> "create", account |-> a, rec |-> u] \in Iam!Request
      BY <2>1, IamRequests, Zenon
    <2>4. QED
      BY <1>3, <1>6, <2>2, <2>3 DEF Iam!CreateAccount
  <1>7. ASSUME NEW c \in Clients, NEW a \in Pair, Iam!PatchAccount(c, a) PROVE Iam!TypeOK'
    <2> DEFINE u == [accounts[a] EXCEPT !.display = serial + 1]
    <2>1. accounts[a] \in Iam!Account
      BY <1>0, <1>7 DEF Iam!PatchAccount, Iam!Exists, Iam!TypeOK
    <2>2. u \in Iam!Account
      BY <1>5, <1>7, <2>1 DEF Iam!PatchAccount, Iam!Account
    <2>3. Rest
      BY <1>0, <1>5, <1>7 DEF Iam!PatchAccount, Iam!TypeOK
    <2>4. [op |-> "patch", account |-> a, rec |-> u] \in Iam!Request
      BY <2>2, IamRequests, Zenon
    <2>5. QED
      BY <1>3, <1>7, <2>3, <2>4 DEF Iam!PatchAccount
  <1>8. ASSUME NEW c \in Clients, NEW a \in Pair,
               Iam!DeleteAccount(c, a) \/ Iam!CreateKey(c, a) \/ Iam!GetPolicy(c, a)
        PROVE  Iam!TypeOK'
    <2>1. Rest
      BY <1>0, <1>2, <1>8 DEF Iam!DeleteAccount, Iam!CreateKey, Iam!GetPolicy, Iam!TypeOK
    <2>2. policies[a] \in SUBSET Members
      BY <1>0 DEF Iam!TypeOK
    <2>3. /\ [op |-> "list", account |-> a] \in Iam!Request
          /\ [op |-> "key", account |-> a] \in Iam!Request
      BY IamRequests
    <2>4. [op |-> "edit", account |-> a, read |-> policies[a]] \in Iam!Request
      BY <2>2, IamRequests, Zenon
    <2>5. PICK r \in Iam!Request : Iam!Hold(c, r)
      BY <1>8, <2>3, <2>4, Zenon DEF Iam!DeleteAccount, Iam!CreateKey, Iam!GetPolicy
    <2>6. QED
      BY <1>3, <2>1, <2>5
  <1>9. ASSUME NEW c \in Clients, Iam!PutAccount(c) PROVE Iam!TypeOK'
    <2>1. iamReq[c].account \in Pair /\ iamReq[c].rec \in Iam!Account
      BY <1>4, <1>9, IamRequestFields DEF Iam!PutAccount
    <2>2. iamReq[c].rec.display \in 0..MaxSerial
      BY <2>1, IamAccounts
    <2>3. Rest
      BY <1>0, <1>9, <2>1, <2>2 DEF Iam!PutAccount, Iam!TypeOK
    <2>4. QED
      BY <1>3, <1>9, <2>3, IamRequests DEF Iam!PutAccount
  <1>10. ASSUME NEW c \in Clients, Iam!ListKeys(c) PROVE Iam!TypeOK'
    <2> DEFINE a == iamReq[c].account
               I == {k.id : k \in {k \in keys : k.account = a}}
    <2>1. a \in Pair
      BY <1>4, <1>10, IamRequestFields DEF Iam!ListKeys
    <2>2. I \in SUBSET Iam!Serial
      BY <1>0 DEF Iam!TypeOK
    <2>3. [op |-> "cascade", account |-> a, left |-> I] \in Iam!Request
      BY <2>1, <2>2, IamRequests, Zenon
    <2>4. Rest
      BY <1>0, <1>10 DEF Iam!ListKeys, Iam!TypeOK
    <2>5. QED
      BY <1>3, <1>10, <2>3, <2>4 DEF Iam!ListKeys
  <1>11. ASSUME NEW c \in Clients, Iam!Cascade(c) PROVE Iam!TypeOK'
    <2>1. iamReq[c] \in [op : {"cascade"}, account : Pair, left : SUBSET Iam!Serial]
      BY <1>4, <1>11, IamRequestFields DEF Iam!Cascade
    <2>2. \A i : [iamReq[c] EXCEPT !.left = @ \ {i}] \in Iam!Request
      <3>1. \A i : [iamReq[c] EXCEPT !.left = @ \ {i}] \in [op : {"cascade"}, account : Pair, left : SUBSET Iam!Serial]
        BY <2>1
      <3>2. QED
        BY <3>1, Zenon DEF Iam!Request
    <2>3. Iam!NoReq \in Iam!Request
      BY IamRequests
    <2>4. Rest
      BY <1>0, <1>11 DEF Iam!Cascade, Iam!TypeOK
    <2>5. PICK r \in Iam!Request : Iam!Hold(c, r)
      BY <1>11, <2>2, <2>3, Zenon DEF Iam!Cascade
    <2>6. QED
      BY <1>3, <2>4, <2>5
  <1>12. ASSUME NEW c \in Clients, Iam!PutKey(c) PROVE Iam!TypeOK'
    <2>1. iamReq[c].account \in Pair
      BY <1>4, <1>12, IamRequestFields DEF Iam!PutKey
    <2>2. [account |-> iamReq[c].account, id |-> serial + 1] \in [account : Pair, id : Iam!Serial]
      BY <1>5, <1>12, <2>1 DEF Iam!PutKey
    <2>3. Rest
      BY <1>0, <1>5, <1>12, <2>2 DEF Iam!PutKey, Iam!TypeOK
    <2>4. QED
      BY <1>3, <1>12, <2>3, IamRequests DEF Iam!PutKey
  <1>13. ASSUME NEW c \in Clients, NEW m \in Members, Iam!SetPolicy(c, m) PROVE Iam!TypeOK'
    <2>1. iamReq[c].account \in Pair /\ iamReq[c].read \subseteq Members
      BY <1>4, <1>13, IamRequestFields DEF Iam!SetPolicy
    <2>2. Iam!Bindings(iamReq[c].read, m) \in SUBSET Members
      BY <2>1 DEF Iam!Bindings
    <2>3. Rest
      BY <1>0, <1>13, <2>1, <2>2 DEF Iam!SetPolicy, Iam!TypeOK
    <2>4. QED
      BY <1>3, <1>13, <2>3, IamRequests DEF Iam!SetPolicy
  <1>14. ASSUME NEW c \in Clients, Iam!Reset(c) PROVE Iam!TypeOK'
    <2> DEFINE A == {a \in Pair : policies[a] # {}}
    <2>1. A \in SUBSET Pair
      OBVIOUS
    <2>2. [op |-> "wipe policies", left |-> A] \in Iam!Request
      BY <2>1, IamRequests, Zenon
    <2>3. Rest
      BY <1>0, <1>14 DEF Iam!Reset, Iam!TypeOK
    <2>4. QED
      BY <1>3, <1>14, <2>2, <2>3 DEF Iam!Reset
  <1>15. ASSUME NEW c \in Clients, Iam!WipePolicies(c) \/ Iam!WipeAccounts(c) PROVE Iam!TypeOK'
    <2> DEFINE W == [op : {"wipe policies", "wipe accounts"}, left : SUBSET Pair]
    <2>1. iamReq[c] \in W
      BY <1>4, <1>15, IamRequestFields DEF Iam!WipePolicies, Iam!WipeAccounts
    <2>2. \A a : [iamReq[c] EXCEPT !.left = @ \ {a}] \in Iam!Request
      <3>1. \A a : [iamReq[c] EXCEPT !.left = @ \ {a}] \in W
        BY <2>1
      <3>2. QED
        BY <3>1, Zenon DEF Iam!Request
    <2>3. Iam!Exists \in SUBSET Pair /\ keys \in SUBSET [account : Pair, id : Iam!Serial]
      BY <1>0 DEF Iam!Exists, Iam!TypeOK
    <2>4. /\ [op |-> "wipe accounts", left |-> Iam!Exists] \in Iam!Request
          /\ [op |-> "wipe keys", left |-> keys] \in Iam!Request /\ Iam!NoReq \in Iam!Request
      BY <2>3, IamRequests, Zenon
    <2>5. Rest
      <3>1. CASE Iam!WipePolicies(c)
        BY <1>0, <3>1 DEF Iam!WipePolicies, Iam!TypeOK
      <3>2. CASE Iam!WipeAccounts(c)
        <4>1. /\ accounts' = accounts \/ \E a \in Pair : accounts' = [accounts EXCEPT ![a] = Iam!None]
              /\ shown' = shown \/ \E a \in Pair : shown' = [shown EXCEPT ![a] = 0]
          BY <2>1, <3>2 DEF Iam!WipeAccounts
        <4>2. accounts' \in [Pair -> Iam!Account \cup {Iam!None}] /\ shown' \in [Pair -> 0..MaxSerial]
          BY <1>0, <1>2, <4>1 DEF Iam!TypeOK
        <4>3. QED
          BY <1>0, <3>2, <4>2 DEF Iam!WipeAccounts, Iam!TypeOK
      <3>3. QED
        BY <1>15, <3>1, <3>2
    <2>6. PICK r \in Iam!Request : Iam!Hold(c, r)
      BY <1>15, <2>2, <2>4, Zenon DEF Iam!WipePolicies, Iam!WipeAccounts
    <2>7. QED
      BY <1>3, <2>5, <2>6
  <1>16. ASSUME NEW c \in Clients, Iam!WipeKeys(c) PROVE Iam!TypeOK'
    <2> DEFINE W == [op : {"wipe keys"}, left : SUBSET [account : Pair, id : Iam!Serial]]
    <2>1. iamReq[c] \in W
      BY <1>4, <1>16, IamRequestFields DEF Iam!WipeKeys
    <2>2. \A k : [iamReq[c] EXCEPT !.left = @ \ {k}] \in Iam!Request
      <3>1. \A k : [iamReq[c] EXCEPT !.left = @ \ {k}] \in W
        BY <2>1
      <3>2. QED
        BY <3>1, Zenon DEF Iam!Request
    <2>3. Iam!NoReq \in Iam!Request
      BY IamRequests
    <2>4. Rest
      BY <1>0, <1>16 DEF Iam!WipeKeys, Iam!TypeOK
    <2>5. PICK r \in Iam!Request : Iam!Hold(c, r)
      BY <1>16, <2>2, <2>3, Zenon DEF Iam!WipeKeys
    <2>6. QED
      BY <1>3, <2>4, <2>5
  <1>17. ASSUME NEW k \in keys, Iam!DeleteKey(k) PROVE Iam!TypeOK'
    BY <1>0, <1>1, <1>17 DEF Iam!DeleteKey, Iam!TypeOK
  <1>18. ASSUME NEW c \in Clients, Iam!Call(c) PROVE Iam!TypeOK'
    BY <1>6, <1>7, <1>8, <1>9, <1>10, <1>11, <1>12, <1>13, <1>14, <1>15, <1>16, <1>18 DEF Iam!Call
  <1>19. QED
    BY <1>17, <1>18 DEF Iam!Next

LEMMA IamInit == Iam!Init => Iam!IInv
  <1> SUFFICES ASSUME Iam!Init PROVE Iam!IInv
    OBVIOUS
  <1> USE DEF Iam!Init
  <1>1. \A c \in Clients : iamReq[c].op = "none" /\ Iam!Idle(c)
    BY DEF Iam!NoReq, Iam!Idle
  <1>2. Iam!TypeOK
    <2>1. iamReq \in [Clients -> Iam!Request]
      BY IamRequests, Zenon
    <2>2. serial \in 0..MaxSerial /\ shown \in [Pair -> 0..MaxSerial]
      BY ServicesAssumption
    <2>3. QED
      BY <2>1, <2>2 DEF Iam!TypeOK
  <1>3. Iam!RacesKept
    BY <1>1 DEF Iam!RacesKept, Iam!Races, Iam!About, Iam!Wiping
  <1>4. \A c \in Clients : Iam!StillSo(c) /\ Iam!Finds(c)
    BY <1>1 DEF Iam!StillSo, Iam!Finds
  <1>5. Iam!KeysDoomed /\ Iam!ShownStored /\ Iam!EditsAddUp
    BY DEF Iam!KeysDoomed, Iam!ShownStored, Iam!EditsAddUp, Iam!Exists
  <1>6. QED
    BY <1>2, <1>3, <1>4, <1>5 DEF Iam!IInv

LEMMA IamStep == Iam!IInv /\ [Iam!Next]_iam => Iam!IInv'
  <1> SUFFICES ASSUME Iam!IInv, [Iam!Next]_iam PROVE Iam!IInv'
    OBVIOUS
  <1>1. CASE UNCHANGED iam
    <2>1. /\ UNCHANGED accounts /\ UNCHANGED keys /\ UNCHANGED policies /\ UNCHANGED iamReq
          /\ UNCHANGED serial /\ UNCHANGED shown /\ UNCHANGED edited /\ UNCHANGED iamRaced
      BY <1>1 DEF iam
    <2>2. Iam!TypeOK'
      BY <2>1 DEF Iam!IInv, Iam!TypeOK
    <2>3. Iam!RacesKept'
      <3>1. \A c \in Clients : /\ Iam!Wiping(c)' <=> Iam!Wiping(c)
                              /\ \A a \in Pair : Iam!About(c, a)' <=> Iam!About(c, a)
        BY <2>1 DEF Iam!About, Iam!Wiping, Iam!Idle
      <3>2. Iam!Races' = Iam!Races
        BY <2>1, <3>1 DEF Iam!Races
      <3>3. QED
        BY <2>1, <3>2 DEF Iam!IInv, Iam!RacesKept
    <2>4. \A c \in Clients : /\ Iam!StillSo(c)' /\ Iam!Finds(c)'
                             /\ \A k : Iam!Dooms(c, k) => Iam!Dooms(c, k)'
      BY <2>1, IamFrame DEF Iam!IInv
    <2>5. Iam!Exists' = Iam!Exists
      BY <2>1 DEF Iam!Exists
    <2>6. Iam!KeysDoomed' /\ Iam!ShownStored' /\ Iam!EditsAddUp'
      BY <2>1, <2>4, <2>5 DEF Iam!IInv, Iam!KeysDoomed, Iam!ShownStored, Iam!EditsAddUp
    <2>7. QED
      BY <2>2, <2>3, <2>4, <2>6 DEF Iam!IInv
  <1>2. CASE Iam!Next
    <2>1. Iam!TypeOK' /\ IamRacesGrow
      BY <1>2, IamTypeStep, IamRacedGrows DEF Iam!IInv
    <2>2. Iam!RacesKept'
      BY <2>1 DEF IamRacesGrow, Iam!RacesKept
    <2>3. ASSUME NEW c \in Clients, Iam!Call(c) PROVE IamRest'
      <3> USE <2>1
      <3>1. ASSUME NEW a \in Pair, \/ Iam!CreateAccount(c, a) \/ Iam!PatchAccount(c, a) \/ Iam!DeleteAccount(c, a)
                                   \/ Iam!CreateKey(c, a) \/ Iam!GetPolicy(c, a)
            PROVE  IamRest'
        BY <3>1, IamStarts, IamDeleteAccountStep
      <3>2. CASE Iam!PutAccount(c) \/ Iam!ListKeys(c) \/ Iam!Cascade(c) \/ Iam!PutKey(c)
        BY <3>2, IamPutAccountStep, IamListKeysStep, IamCascadeStep, IamPutKeyStep
      <3>3. ASSUME NEW m \in Members, Iam!SetPolicy(c, m) PROVE IamRest'
        BY <3>3, IamSetPolicyStep
      <3>4. CASE Iam!Reset(c)
        BY <3>4, IamResetStep
      <3>5. CASE Iam!WipePolicies(c) \/ Iam!WipeAccounts(c) \/ Iam!WipeKeys(c)
        BY <3>5, IamWipePoliciesStep, IamWipeAccountsStep, IamWipeKeysStep
      <3>6. QED
        BY <2>3, <3>1, <3>2, <3>3, <3>4, <3>5 DEF Iam!Call
    <2>4. ASSUME NEW k \in keys, Iam!DeleteKey(k),
                 iamRaced' = iamRaced \cup {a \in Pair : \E c \in Clients : Iam!Wiping(c)}
          PROVE  IamRest'
      BY <2>1, <2>4, IamDeleteKeyStep
    <2>5. IamRest'
      BY <1>2, <2>3, <2>4 DEF Iam!Next
    <2>6. QED
      BY <2>1, <2>2, <2>5 DEF Iam!IInv, IamRest
  <1>3. QED
    BY <1>1, <1>2

(* Only the Put of a creation or a PATCH changes an account that stays. *)
LEMMA IamUidKept ==
  ASSUME Iam!IInv, [Iam!Next]_iam, NEW a \in Pair, a \notin iamRaced, a \in Iam!Exists, a \in Iam!Exists'
  PROVE  accounts'[a].uid = accounts[a].uid
  <1>1. CASE UNCHANGED accounts
    BY <1>1
  <1>2. ASSUME NEW c \in Clients, Iam!PutAccount(c) PROVE accounts'[a].uid = accounts[a].uid
    <2>1. iamReq[c].op \in {"create", "patch"} /\ Iam!StillSo(c)
      BY <1>2 DEF Iam!PutAccount, Iam!IInv
    <2>2. CASE iamReq[c].account = a
      <3>1. accounts'[a] = iamReq[c].rec
        BY <1>2, <2>2 DEF Iam!PutAccount, Iam!IInv, Iam!TypeOK
      <3>2. QED
        BY <2>1, <2>2, <3>1 DEF Iam!StillSo
    <2>3. CASE iamReq[c].account # a
      BY <1>2, <2>3 DEF Iam!PutAccount, Iam!IInv, Iam!TypeOK
    <2>4. QED
      BY <2>2, <2>3
  <1>3. ASSUME NEW b, accounts' = [accounts EXCEPT ![b] = Iam!None] PROVE accounts'[a].uid = accounts[a].uid
    BY <1>3 DEF Iam!Exists, Iam!IInv, Iam!TypeOK
  <1>4. Iam!Next => \/ UNCHANGED accounts
                    \/ \E c \in Clients : Iam!PutAccount(c)
                    \/ \E b : accounts' = [accounts EXCEPT ![b] = Iam!None]
    BY Zenon DEF Iam!Next, Iam!Call, Iam!CreateAccount, Iam!PatchAccount, Iam!DeleteAccount, Iam!CreateKey,
                 Iam!GetPolicy, Iam!ListKeys, Iam!Cascade, Iam!PutKey, Iam!SetPolicy, Iam!Reset,
                 Iam!WipePolicies, Iam!WipeAccounts, Iam!WipeKeys, Iam!DeleteKey
  <1>5. UNCHANGED iam => UNCHANGED accounts
    BY DEF iam
  <1>6. QED
    BY <1>1, <1>2, <1>3, <1>4, <1>5

(* A key dies with its account, edits of a policy that do not overlap add    *)
(* up, and a PATCH keeps the unique id and stores the display name that it   *)
(* answers, for any number of accounts, bindings and calls in progress       *)
(* (item, keysCollection, Store.Set, handleReset).                           *)
THEOREM AccountsStayWhole == ServicesSpec => AccountsKept
  <1>1. ServicesInit => Iam!IInv
    BY IamInit DEF ServicesInit
  <1>2. [ServicesNext]_servicesVars => [Iam!Next]_iam
    BY DEF ServicesNext, servicesVars
  <1>3. Iam!IInv /\ [ServicesNext]_servicesVars => Iam!IInv'
    BY <1>2, IamStep
  <1>4. Iam!IInv => Iam!TypeOK /\ Iam!NoOrphanKey /\ Iam!EditsAddUp
    <2> SUFFICES ASSUME Iam!IInv PROVE Iam!TypeOK /\ Iam!NoOrphanKey /\ Iam!EditsAddUp
      OBVIOUS
    <2>1. Iam!TypeOK /\ Iam!EditsAddUp
      BY DEF Iam!IInv
    <2>2. Iam!NoOrphanKey
      <3>1. ASSUME Iam!Quiet, NEW c \in Clients, NEW k PROVE ~Iam!Dooms(c, k)
        <4>1. iamReq[c].op = "none"
          BY <3>1 DEF Iam!Quiet, Iam!Idle, Iam!NoReq
        <4>2. QED
          BY <4>1 DEF Iam!Dooms
      <3>2. QED
        BY <3>1 DEF Iam!IInv, Iam!NoOrphanKey, Iam!KeysDoomed
    <2>3. QED
      BY <2>1, <2>2
  <1>5. Iam!IInv /\ Iam!IInv' /\ [ServicesNext]_servicesVars
          => [\A a \in Pair \ iamRaced' :
                /\ a \in Iam!Exists /\ a \in Iam!Exists' => accounts'[a].uid = accounts[a].uid
                /\ a \in Iam!Exists' => accounts'[a].display = shown'[a]]_(Iam!vars)
    <2> SUFFICES ASSUME Iam!IInv, Iam!IInv', [Iam!Next]_iam, NEW a \in Pair \ iamRaced'
                 PROVE  /\ a \in Iam!Exists /\ a \in Iam!Exists' => accounts'[a].uid = accounts[a].uid
                        /\ a \in Iam!Exists' => accounts'[a].display = shown'[a]
      BY <1>2
    <2>1. a \notin iamRaced
      BY IamRacedGrows DEF Iam!IInv, IamRacesGrow, iam
    <2>2. a \in Iam!Exists' => accounts'[a].display = shown'[a]
      BY DEF Iam!IInv, Iam!ShownStored
    <2>3. a \in Iam!Exists /\ a \in Iam!Exists' => accounts'[a].uid = accounts[a].uid
      BY <2>1, IamUidKept
    <2>4. QED
      BY <2>2, <2>3
  <1>6. QED
    BY <1>1, <1>3, <1>4, <1>5, PTL DEF ServicesSpec, AccountsKept, Iam!PatchKept

-----------------------------------------------------------------------------
(* Cloud Storage: buckets and objects. *)

(* The fields of a request are those of its operation (req in Storage). *)
LEMMA StRequestFields ==
  ASSUME NEW r \in St!Request
  PROVE  /\ r.op \in {"meta", "data", "body"} => r \in [op : {"meta", "data", "body"}, key : St!Key, body : St!Body]
         /\ r.op = "undata" => r.key \in St!Key
         /\ r.op \in {"list", "drop"} => r.bucket \in Buckets
         /\ r.op = "cascade" => r \in [op : {"cascade"}, bucket : Buckets, keys : SUBSET St!Key, half : SUBSET St!Key]
         /\ r.op = "reset" => r \in [op : {"reset"}, buckets : SUBSET Buckets]
  <1>1. \/ r = St!NoReq
        \/ r \in [op : {"meta", "data", "body"}, key : St!Key, body : St!Body]
        \/ r \in [op : {"undata"}, key : St!Key]
        \/ r \in [op : {"list", "drop"}, bucket : Buckets]
        \/ r \in [op : {"cascade"}, bucket : Buckets, keys : SUBSET St!Key, half : SUBSET St!Key]
        \/ r \in [op : {"reset"}, buckets : SUBSET Buckets]
    BY Zenon DEF St!Request
  <1>2. CASE r = St!NoReq
    BY <1>2 DEF St!NoReq
  <1>3. CASE r \in [op : {"meta", "data", "body"}, key : St!Key, body : St!Body]
    BY <1>3
  <1>4. CASE r \in [op : {"undata"}, key : St!Key]
    BY <1>4
  <1>5. CASE r \in [op : {"list", "drop"}, bucket : Buckets]
    BY <1>5
  <1>6. CASE r \in [op : {"cascade"}, bucket : Buckets, keys : SUBSET St!Key, half : SUBSET St!Key]
    BY <1>6
  <1>7. CASE r \in [op : {"reset"}, buckets : SUBSET Buckets]
    BY <1>7
  <1>8. QED
    BY <1>1, <1>2, <1>3, <1>4, <1>5, <1>6, <1>7

(* What a request is made of is a request. *)
LEMMA StRequests ==
  /\ St!NoReq \in St!Request
  /\ \A o \in {"meta", "data", "body"}, k \in St!Key, b \in St!Body : [op |-> o, key |-> k, body |-> b] \in St!Request
  /\ \A k \in St!Key : [op |-> "undata", key |-> k] \in St!Request
  /\ \A o \in {"list", "drop"}, b \in Buckets : [op |-> o, bucket |-> b] \in St!Request
  /\ \A b \in Buckets, K \in SUBSET St!Key, H \in SUBSET St!Key :
        [op |-> "cascade", bucket |-> b, keys |-> K, half |-> H] \in St!Request
  /\ \A B \in SUBSET Buckets : [op |-> "reset", buckets |-> B] \in St!Request
  BY DEF St!Request, St!NoReq

LEMMA StHold ==
  ASSUME St!TypeOK, NEW c \in Clients, NEW r, St!Hold(c, r)
  PROVE  stReq'[c] = r /\ \A d \in Clients \ {c} : stReq'[d] = stReq[d]
  BY DEF St!TypeOK, St!Hold

LEMMA StKeys ==
  /\ \A k \in St!Key : k[1] \in Buckets /\ k \in St!Of(k[1])
  /\ \A b \in Buckets : St!Of(b) \subseteq St!Key /\ \A k \in St!Of(b) : k[1] = b
  /\ Seeds \subseteq St!Key
  BY ServicesAssumption DEF St!Key, St!Of

(* The keys a call is about, by its operation (About). *)
LEMMA StAbout ==
  ASSUME NEW c \in Clients
  PROVE  /\ stReq[c].op \in {"meta", "data", "body", "undata"} => St!About(c) = {stReq[c].key}
         /\ stReq[c].op \in {"list", "cascade", "drop"} => St!About(c) = St!Of(stReq[c].bucket)
         /\ stReq[c].op = "reset" => St!About(c) = St!Key
  BY DEF St!About

LEMMA StAboutNext ==
  ASSUME NEW c \in Clients
  PROVE  /\ stReq'[c].op \in {"meta", "data", "body", "undata"} => St!About(c)' = {stReq'[c].key}
         /\ stReq'[c].op \in {"list", "cascade", "drop"} => St!About(c)' = St!Of(stReq'[c].bucket)
         /\ stReq'[c].op = "reset" => St!About(c)' = St!Key
  BY DEF St!About, St!Of, St!Key

(* Calls that are in progress together on a key are recorded (Overlaps). *)
LEMMA StTogether ==
  ASSUME St!OverlapsKept, NEW c \in Clients, NEW d \in Clients, c # d, NEW k \in St!Key,
         k \in St!About(c), k \in St!About(d), stReq[c].op # "body" \/ stReq[d].op # "body"
  PROVE  k \in stRaced
  <1>1. {stReq[c].op, stReq[d].op} # {"body"}
    OBVIOUS
  <1>2. QED
    BY <1>1 DEF St!OverlapsKept, St!Overlaps

LEMMA StTogetherNext ==
  ASSUME St!Overlaps' \subseteq stRaced', NEW c \in Clients, NEW d \in Clients, c # d, NEW k \in St!Key,
         k \in St!About(c)', k \in St!About(d)', stReq'[c].op # "body" \/ stReq'[d].op # "body"
  PROVE  k \in stRaced'
  <1>1. {stReq'[c].op, stReq'[d].op} # {"body"}
    OBVIOUS
  <1>2. QED
    BY <1>1 DEF St!Overlaps, St!Key

(* A call that says or changes something of a key is about it. *)
LEMMA StSays ==
  ASSUME St!CascadesOwn, NEW c \in Clients, NEW k \in St!Key, k \notin St!About(c)
  PROVE  St!Reached(c, k) /\ ~St!Changes(c, k)
  <1>1. St!Reached(c, k)
    BY StAbout DEF St!Reached
  <1>2. ~St!Changes(c, k)
    BY StAbout DEF St!Changes, St!Uploads, St!CascadesOwn
  <1>3. QED
    BY <1>1, <1>2

LEMMA StSaysNext ==
  ASSUME St!CascadesOwn', NEW c \in Clients, NEW k \in St!Key, k \notin St!About(c)'
  PROVE  St!Reached(c, k)' /\ ~St!Changes(c, k)' /\ ~St!Uploads(c, k)'
  <1>1. St!Reached(c, k)'
    BY StAboutNext DEF St!Reached, St!Of
  <1>2. ~St!Changes(c, k)' /\ ~St!Uploads(c, k)'
    <2>1. ~St!Uploads(c, k)' /\ ~(stReq'[c].op = "undata" /\ stReq'[c].key = k)
      BY StAboutNext DEF St!Uploads
    <2>2. ~(stReq'[c].op = "cascade" /\ k \in stReq'[c].half)
      BY StAboutNext DEF St!CascadesOwn, St!Of
    <2>3. QED
      BY <2>1, <2>2 DEF St!Changes
  <1>3. QED
    BY <1>1, <1>2

(* An object that no step touched is as sound as it was. *)
LEMMA StUntouched ==
  ASSUME NEW k \in St!Key, St!Sound(k),
         meta'[k] = meta[k], data'[k] = data[k], promised'[k] = promised[k],
         k[1] \in buckets \cup wiped => k[1] \in buckets' \cup wiped',
         \A d \in Clients : \/ stReq'[d] = stReq[d]
                            \/ /\ St!Reached(d, k)'
                               /\ St!Changes(d, k) => St!Changes(d, k)'
                               /\ St!Uploads(d, k)' => St!Uploads(d, k)
  PROVE  St!Sound(k)'
  <1>1. ASSUME NEW d \in Clients, stReq'[d] = stReq[d]
        PROVE  /\ St!Reached(d, k) => St!Reached(d, k)'
               /\ St!Uploads(d, k)' <=> St!Uploads(d, k)
               /\ St!Changes(d, k)' <=> St!Changes(d, k)
    <2>1. St!Uploads(d, k)' <=> St!Uploads(d, k)
      BY <1>1 DEF St!Uploads
    <2>2. St!Changes(d, k)' <=> St!Changes(d, k)
      BY <1>1, <2>1 DEF St!Changes
    <2>3. St!Reached(d, k) => St!Reached(d, k)'
      BY <1>1 DEF St!Reached, St!Of, St!None
    <2>4. QED
      BY <2>1, <2>2, <2>3
  <1>2. \A d \in Clients : St!Reached(d, k)'
    BY <1>1 DEF St!Sound
  <1>3. St!Whole(k) => St!Whole(k)'
    BY DEF St!Whole, St!None
  <1>4. \A d \in Clients : /\ St!Changes(d, k) => St!Changes(d, k)'
                           /\ St!Uploads(d, k)' => St!Uploads(d, k)
    BY <1>1
  <1>5. meta'[k] # St!None \/ (\E d \in Clients : St!Uploads(d, k)') => k[1] \in buckets' \cup wiped'
    BY <1>4 DEF St!Sound
  <1>6. QED
    BY <1>2, <1>3, <1>4, <1>5 DEF St!Sound, St!None

(* An object that one call alone is about. *)
LEMMA StMine ==
  ASSUME St!CascadesOwn', NEW k \in St!Key, NEW c \in Clients,
         \A d \in Clients \ {c} : k \notin St!About(d)',
         St!Reached(c, k)', St!Whole(k)' \/ St!Changes(c, k)',
         meta'[k] # St!None \/ St!Uploads(c, k)' => k[1] \in buckets' \cup wiped'
  PROVE  St!Sound(k)'
  <1>1. \A d \in Clients \ {c} : St!Reached(d, k)' /\ ~St!Uploads(d, k)'
    BY StSaysNext
  <1>2. \A d \in Clients : St!Reached(d, k)'
    BY <1>1
  <1>3. meta'[k] # St!None \/ (\E d \in Clients : St!Uploads(d, k)') => k[1] \in buckets' \cup wiped'
    BY <1>1
  <1>4. QED
    BY <1>2, <1>3 DEF St!Sound, St!None

(* A key that is not recorded is the business of the call that changes it. *)
LEMMA StAlone ==
  ASSUME St!IInv, NEW k \in St!Key, NEW c \in Clients, k \notin stRaced, k \in St!About(c), stReq[c].op # "body",
         \A d \in Clients \ {c} : stReq'[d] = stReq[d]
  PROVE  /\ \A d \in Clients \ {c} : k \notin St!About(d) /\ k \notin St!About(d)'
         /\ St!Whole(k) \/ St!Changes(c, k)
  <1>1. ASSUME NEW d \in Clients \ {c} PROVE k \notin St!About(d)
    BY StTogether DEF St!IInv
  <1>2. ASSUME NEW d \in Clients \ {c} PROVE St!About(d)' = St!About(d)
    BY DEF St!About, St!Of, St!Key
  <1>3. St!Whole(k) \/ St!Changes(c, k)
    BY <1>1, StSays DEF St!IInv, St!Sound
  <1>4. QED
    BY <1>1, <1>2, <1>3

LEMMA StAloneNext ==
  ASSUME St!Overlaps' \subseteq stRaced', NEW k \in St!Key, NEW c \in Clients, k \notin stRaced',
         k \in St!About(c)', stReq'[c].op # "body"
  PROVE  \A d \in Clients \ {c} : k \notin St!About(d)'
  BY StTogetherNext

(* What every step but an upload and a crash does to the record. *)
StGrows == stRaced \subseteq stRaced' /\ St!Overlaps' \subseteq stRaced'

StRest == St!CascadesOwn /\ \A k \in St!Key : k \in stRaced \/ St!Sound(k)

(* A step of a call that is in no cascade afterwards. *)
LEMMA StNoCascade ==
  ASSUME St!IInv, NEW c \in Clients, stReq'[c].op # "cascade", \A d \in Clients \ {c} : stReq'[d] = stReq[d]
  PROVE  St!CascadesOwn'
  BY DEF St!IInv, St!CascadesOwn, St!Of

(* A bucket is added: a bucket that a reset removed is there again. *)
LEMMA StCreateBucketStep ==
  ASSUME St!IInv, StGrows, NEW b \in Buckets, St!CreateBucket(b)
  PROVE  StRest'
  <1>1. /\ stReq' = stReq /\ meta' = meta /\ data' = data /\ promised' = promised
        /\ buckets' = buckets \cup {b} /\ wiped' = wiped \ {b} /\ stRaced \subseteq stRaced'
    BY DEF St!CreateBucket, StGrows
  <1>2. St!CascadesOwn'
    BY <1>1 DEF St!IInv, St!CascadesOwn, St!Of
  <1>3. ASSUME NEW k \in St!Key, k \notin stRaced' PROVE St!Sound(k)'
    <2>1. St!Sound(k)
      BY <1>1, <1>3 DEF St!IInv
    <2>2. QED
      BY <1>1, <2>1, StUntouched
  <1>4. QED
    BY <1>2, <1>3 DEF StRest, St!Key

(* A call that starts with nothing said about any object (DELETE of a bucket *)
(* and /admin/reset), or ends a download.                                    *)
LEMMA StSaysNothing ==
  ASSUME St!IInv, StGrows, NEW c \in Clients, \A d \in Clients \ {c} : stReq'[d] = stReq[d],
         stReq[c].op \in {"none", "body", "list", "reset"}, stReq'[c].op \in {"none", "list", "reset"},
         UNCHANGED <<meta, data, promised>>, buckets \cup wiped \subseteq buckets' \cup wiped'
  PROVE  StRest'
  <1>1. St!CascadesOwn'
    BY StNoCascade
  <1>2. \A k \in St!Key : /\ St!Reached(c, k)' /\ ~St!Changes(c, k) /\ ~St!Uploads(c, k)'
    BY DEF St!Reached, St!Changes, St!Uploads
  <1>3. ASSUME NEW k \in St!Key, k \notin stRaced' PROVE St!Sound(k)'
    <2>1. St!Sound(k)
      BY <1>3 DEF St!IInv, StGrows
    <2>2. QED
      BY <1>2, <2>1, StUntouched
  <1>4. QED
    BY <1>1, <1>3 DEF StRest, St!Key

(* An upload begins: whatever became of the object before, it is made good   *)
(* (storeObject after the look-up of the bucket).                            *)
LEMMA StUploadStep ==
  ASSUME St!IInv, NEW c \in Clients, NEW k \in St!Key, St!HandleUpload(c, k),
         stRaced \ {k} \subseteq stRaced', St!Overlaps' \subseteq stRaced'
  PROVE  StRest'
  <1>1. /\ k[1] \in buckets /\ UNCHANGED <<buckets, meta, data, promised, wiped>>
        /\ St!Hold(c, [op |-> "meta", key |-> k, body |-> uploads + 1]) /\ stReq[c].op = "none"
    BY DEF St!HandleUpload, St!Upload, St!Idle, St!NoReq
  <1>2. /\ stReq'[c].op = "meta" /\ stReq'[c].key = k
        /\ \A d \in Clients \ {c} : stReq'[d] = stReq[d]
    BY <1>1, StHold DEF St!IInv
  <1>3. St!CascadesOwn'
    BY <1>2, StNoCascade
  <1>4. \A j : St!Reached(c, j)' /\ ~St!Changes(c, j)
    BY <1>1, <1>2 DEF St!Reached, St!Changes, St!Uploads
  <1>5. ASSUME NEW j \in St!Key, j \notin stRaced' PROVE St!Sound(j)'
    <2>1. CASE j = k
      <3>1. k \in St!About(c)'
        BY <1>2, StAboutNext
      <3>2. \A d \in Clients \ {c} : k \notin St!About(d)'
        BY <1>2, <1>5, <2>1, <3>1, StAloneNext
      <3>3. St!Changes(c, k)'
        BY <1>2 DEF St!Changes, St!Uploads
      <3>4. QED
        BY <1>1, <1>3, <1>4, <2>1, <3>2, <3>3, StMine
    <2>2. CASE j # k
      <3>1. St!Sound(j)
        BY <1>5, <2>2 DEF St!IInv
      <3>2. ~St!Uploads(c, j)'
        BY <1>2, <2>2 DEF St!Uploads
      <3>3. QED
        BY <1>1, <1>2, <1>4, <3>1, <3>2, StUntouched
    <2>3. QED
      BY <2>1, <2>2
  <1>6. QED
    BY <1>3, <1>5 DEF StRest, St!Key

(* The metadata are put and promise the body that is to come. *)
LEMMA StPutMetaStep ==
  ASSUME St!IInv, StGrows, NEW c \in Clients, St!PutMeta(c)
  PROVE  StRest'
  <1> DEFINE r == [stReq[c] EXCEPT !.op = "data"]
  <1>1. stReq[c] \in [op : {"meta", "data", "body"}, key : St!Key, body : St!Body] /\ stReq[c].op = "meta"
    BY StRequestFields DEF St!PutMeta, St!IInv, St!TypeOK
  <1> PICK k \in St!Key : stReq[c].key = k
    BY <1>1
  <1>2. r.op = "data" /\ r.key = k /\ r.body = stReq[c].body
    BY <1>1
  <1>3. /\ meta' = [meta EXCEPT ![k] = stReq[c].body] /\ UNCHANGED <<buckets, data, promised, wiped>>
        /\ St!Hold(c, r)
    BY DEF St!PutMeta
  <1> HIDE DEF r
  <1>4. /\ stReq'[c].op = "data" /\ stReq'[c].key = k /\ stReq'[c].body = stReq[c].body
        /\ \A d \in Clients \ {c} : stReq'[d] = stReq[d]
    BY <1>2, <1>3, StHold DEF St!IInv
  <1>5. meta'[k] = stReq[c].body /\ \A j \in St!Key \ {k} : meta'[j] = meta[j]
    BY <1>2, <1>3 DEF St!IInv, St!TypeOK
  <1>6. St!CascadesOwn'
    BY <1>4, StNoCascade
  <1>7. ASSUME NEW j \in St!Key, j \notin stRaced' PROVE St!Sound(j)'
    <2>1. St!Sound(j) /\ j \notin stRaced
      BY <1>7 DEF St!IInv, StGrows
    <2>2. CASE j = k
      <3>1. k \in St!About(c)
        BY <1>1, StAbout
      <3>2. \A d \in Clients \ {c} : k \notin St!About(d)'
        BY <1>1, <1>4, <2>1, <2>2, <3>1, StAlone
      <3>3. St!Uploads(c, k) /\ St!Changes(c, k)'
        BY <1>1, <1>4 DEF St!Changes, St!Uploads
      <3>4. k[1] \in buckets' \cup wiped'
        BY <1>3, <2>1, <2>2, <3>3 DEF St!Sound
      <3>5. St!Reached(c, k)'
        BY <1>4, <1>5 DEF St!Reached
      <3>6. QED
        BY <1>6, <2>2, <3>2, <3>3, <3>4, <3>5, StMine
    <2>3. CASE j # k
      <3>1. St!Reached(c, j)' /\ ~St!Changes(c, j) /\ ~St!Uploads(c, j)'
        BY <1>1, <1>4, <2>3 DEF St!Reached, St!Changes, St!Uploads
      <3>2. QED
        BY <1>3, <1>4, <1>5, <2>1, <2>3, <3>1, StUntouched
    <2>4. QED
      BY <2>2, <2>3
  <1>8. QED
    BY <1>6, <1>7 DEF StRest, St!Key

(* The body that the metadata describe is put, and the upload is answered. *)
LEMMA StPutDataStep ==
  ASSUME St!IInv, StGrows, NEW c \in Clients, St!PutData(c)
  PROVE  StRest'
  <1>1. stReq[c] \in [op : {"meta", "data", "body"}, key : St!Key, body : St!Body] /\ stReq[c].op = "data"
    BY StRequestFields DEF St!PutData, St!IInv, St!TypeOK
  <1> PICK k \in St!Key : stReq[c].key = k
    BY <1>1
  <1>3. /\ data' = [data EXCEPT ![k] = stReq[c].body] /\ promised' = [promised EXCEPT ![k] = stReq[c].body]
        /\ UNCHANGED <<buckets, meta, wiped>> /\ St!Hold(c, St!NoReq)
    BY DEF St!PutData
  <1>4. stReq'[c].op = "none" /\ \A d \in Clients \ {c} : stReq'[d] = stReq[d]
    BY <1>3, StHold DEF St!IInv, St!NoReq
  <1>5. /\ data'[k] = stReq[c].body /\ \A j \in St!Key \ {k} : data'[j] = data[j]
        /\ promised'[k] = stReq[c].body /\ \A j \in St!Key \ {k} : promised'[j] = promised[j]
    BY <1>3 DEF St!IInv, St!TypeOK
  <1>7. St!CascadesOwn'
    BY <1>4, StNoCascade
  <1>8. \A j : St!Reached(c, j)' /\ ~St!Uploads(c, j)'
    BY <1>4 DEF St!Reached, St!Uploads
  <1>9. ASSUME NEW j \in St!Key, j \notin stRaced' PROVE St!Sound(j)'
    <2>1. St!Sound(j) /\ j \notin stRaced
      BY <1>9 DEF St!IInv, StGrows
    <2>2. CASE j = k
      <3>1. k \in St!About(c)
        BY <1>1, StAbout
      <3>2. \A d \in Clients \ {c} : k \notin St!About(d)'
        BY <1>1, <1>4, <2>1, <2>2, <3>1, StAlone
      <3>3. meta[k] = stReq[c].body
        BY <1>1, <2>1, <2>2 DEF St!Sound, St!Reached
      <3>4. St!Uploads(c, k)
        BY <1>1 DEF St!Uploads
      <3>5. k[1] \in buckets' \cup wiped'
        BY <1>3, <2>1, <2>2, <3>4 DEF St!Sound
      <3>6. St!Whole(k)'
        BY <1>3, <1>5, <3>3 DEF St!Whole
      <3>7. QED
        BY <1>7, <1>8, <2>2, <3>2, <3>5, <3>6, StMine
    <2>3. CASE j # k
      <3>1. ~St!Changes(c, j)
        BY <1>1, <2>3 DEF St!Changes, St!Uploads
      <3>2. QED
        BY <1>3, <1>4, <1>5, <1>8, <2>1, <2>3, <3>1, StUntouched
    <2>4. QED
      BY <2>2, <2>3
  <1>10. QED
    BY <1>7, <1>9 DEF StRest, St!Key

(* A change of an object is a change by a call about it that is no download. *)
LEMMA StChanger ==
  ASSUME St!CascadesOwn, NEW c \in Clients, NEW k \in St!Key, St!Changes(c, k)
  PROVE  k \in St!About(c) /\ stReq[c].op \notin {"none", "body"}
  <1>1. k \in St!About(c)
    BY StSays
  <1>2. stReq[c].op \notin {"none", "body"}
    BY DEF St!Changes, St!Uploads
  <1>3. QED
    BY <1>1, <1>2

(* A download begins on a whole object, or beside a call that changes it. *)
LEMMA StDownloadStep ==
  ASSUME St!IInv, StGrows, NEW c \in Clients, NEW k \in St!Key, St!Download(c, k)
  PROVE  StRest'
  <1>1. /\ UNCHANGED <<buckets, meta, data, promised, wiped>>
        /\ St!Hold(c, [op |-> "body", key |-> k, body |-> meta[k]]) /\ stReq[c].op = "none"
    BY DEF St!Download, St!Idle, St!NoReq
  <1>2. /\ stReq'[c].op = "body" /\ stReq'[c].key = k /\ stReq'[c].body = meta[k]
        /\ \A d \in Clients \ {c} : stReq'[d] = stReq[d]
    BY <1>1, StHold DEF St!IInv
  <1>3. St!CascadesOwn'
    BY <1>2, StNoCascade
  <1>4. \A j : ~St!Changes(c, j) /\ ~St!Uploads(c, j)'
    BY <1>1, <1>2 DEF St!Changes, St!Uploads
  <1>5. ASSUME NEW j \in St!Key, j \notin stRaced' PROVE St!Sound(j)'
    <2>1. St!Sound(j)
      BY <1>5 DEF St!IInv, StGrows
    <2>2. CASE j = k
      <3>1. ASSUME NEW d \in Clients, St!Changes(d, k) PROVE FALSE
        <4>1. d # c /\ k \in St!About(d) /\ stReq[d].op # "body"
          BY <1>4, <3>1, StChanger DEF St!IInv
        <4>2. k \in St!About(d)' /\ stReq'[d].op # "body"
          BY <1>2, <4>1 DEF St!About, St!Of, St!Key
        <4>3. k \in St!About(c)'
          BY <1>2, StAboutNext
        <4>4. QED
          BY <1>5, <2>2, <4>1, <4>2, <4>3, StTogetherNext DEF StGrows
      <3>2. meta[k] = data[k]
        BY <2>1, <2>2, <3>1 DEF St!Sound, St!Whole
      <3>3. St!Reached(c, j)'
        BY <1>1, <1>2, <2>2, <3>2 DEF St!Reached
      <3>4. QED
        BY <1>1, <1>2, <1>4, <2>1, <3>3, StUntouched
    <2>3. CASE j # k
      <3>1. St!Reached(c, j)'
        BY <1>2, <2>3 DEF St!Reached
      <3>2. QED
        BY <1>1, <1>2, <1>4, <2>1, <3>1, StUntouched
    <2>4. QED
      BY <2>2, <2>3
  <1>6. QED
    BY <1>3, <1>5 DEF StRest, St!Key

(* The metadata of an object go first, its body later (deleteObject). *)
LEMMA StDeleteObjectStep ==
  ASSUME St!IInv, StGrows, NEW c \in Clients, NEW k \in St!Key, St!DeleteObject(c, k)
  PROVE  StRest'
  <1>1. /\ UNCHANGED <<buckets, data, wiped>> /\ stReq[c].op = "none"
        /\ meta' = St!Without(meta, {k}) /\ promised' = St!Without(promised, {k})
        /\ St!Hold(c, [op |-> "undata", key |-> k])
    BY DEF St!DeleteObject, St!Idle, St!NoReq
  <1>2. /\ stReq'[c].op = "undata" /\ stReq'[c].key = k
        /\ \A d \in Clients \ {c} : stReq'[d] = stReq[d]
    BY <1>1, StHold DEF St!IInv
  <1>3. /\ meta'[k] = St!None /\ promised'[k] = St!None
        /\ \A j \in St!Key \ {k} : meta'[j] = meta[j] /\ promised'[j] = promised[j]
    BY <1>1 DEF St!Without
  <1>4. St!CascadesOwn'
    BY <1>2, StNoCascade
  <1>5. \A j : ~St!Changes(c, j) /\ ~St!Uploads(c, j)'
    BY <1>1, <1>2 DEF St!Changes, St!Uploads
  <1>6. \A j : St!Reached(c, j)'
    BY <1>2, <1>3 DEF St!Reached, St!None
  <1>7. ASSUME NEW j \in St!Key, j \notin stRaced' PROVE St!Sound(j)'
    <2>1. CASE j = k
      <3>1. k \in St!About(c)'
        BY <1>2, StAboutNext
      <3>2. \A d \in Clients \ {c} : k \notin St!About(d)'
        BY <1>2, <1>7, <2>1, <3>1, StAloneNext DEF StGrows
      <3>3. St!Changes(c, k)'
        BY <1>2 DEF St!Changes
      <3>4. QED
        BY <1>3, <1>4, <1>5, <1>6, <2>1, <3>2, <3>3, StMine
    <2>2. CASE j # k
      <3>1. St!Sound(j)
        BY <1>7 DEF St!IInv, StGrows
      <3>2. QED
        BY <1>1, <1>2, <1>3, <1>5, <1>6, <2>2, <3>1, StUntouched
    <2>3. QED
      BY <2>1, <2>2
  <1>8. QED
    BY <1>4, <1>7 DEF StRest, St!Key

LEMMA StDeleteDataStep ==
  ASSUME St!IInv, StGrows, NEW c \in Clients, St!DeleteData(c)
  PROVE  StRest'
  <1>1. stReq[c].key \in St!Key /\ stReq[c].op = "undata"
    BY StRequestFields DEF St!DeleteData, St!IInv, St!TypeOK
  <1> PICK k \in St!Key : stReq[c].key = k
    BY <1>1
  <1>2. /\ data' = St!Without(data, {k}) /\ St!Hold(c, St!NoReq)
        /\ UNCHANGED <<buckets, meta, promised, wiped>>
    BY DEF St!DeleteData
  <1>3. stReq'[c].op = "none" /\ \A d \in Clients \ {c} : stReq'[d] = stReq[d]
    BY <1>2, StHold DEF St!IInv, St!NoReq
  <1>4. data'[k] = St!None /\ \A j \in St!Key \ {k} : data'[j] = data[j]
    BY <1>2 DEF St!Without
  <1>5. St!CascadesOwn'
    BY <1>3, StNoCascade
  <1>6. \A j : St!Reached(c, j)' /\ ~St!Uploads(c, j)'
    BY <1>3 DEF St!Reached, St!Uploads
  <1>7. ASSUME NEW j \in St!Key, j \notin stRaced' PROVE St!Sound(j)'
    <2>1. St!Sound(j) /\ j \notin stRaced
      BY <1>7 DEF St!IInv, StGrows
    <2>2. CASE j = k
      <3>1. k \in St!About(c)
        BY <1>1, StAbout
      <3>2. \A d \in Clients \ {c} : k \notin St!About(d)'
        BY <1>1, <1>3, <2>1, <2>2, <3>1, StAlone
      <3>3. meta[k] = St!None /\ promised[k] = St!None
        BY <1>1, <2>1, <2>2 DEF St!Sound, St!Reached
      <3>4. meta'[k] = St!None /\ promised'[k] = St!None
        BY <1>2, <3>3
      <3>5. St!Whole(k)'
        BY <1>4, <3>4 DEF St!Whole, St!None
      <3>6. QED
        BY <1>5, <1>6, <2>2, <3>2, <3>4, <3>5, StMine
    <2>3. CASE j # k
      <3>1. ~St!Changes(c, j)
        BY <1>1, <2>3 DEF St!Changes, St!Uploads
      <3>2. QED
        BY <1>2, <1>3, <1>4, <1>6, <2>1, <2>3, <3>1, StUntouched
    <2>4. QED
      BY <2>2, <2>3
  <1>8. QED
    BY <1>5, <1>7 DEF StRest, St!Key

(* The cascade lists what the bucket holds. *)
LEMMA StListObjectsStep ==
  ASSUME St!IInv, StGrows, NEW c \in Clients, St!ListObjects(c)
  PROVE  StRest'
  <1>1. stReq[c].bucket \in Buckets /\ stReq[c].op = "list"
    BY StRequestFields DEF St!ListObjects, St!IInv, St!TypeOK
  <1> PICK b \in Buckets : stReq[c].bucket = b
    BY <1>1
  <1>2. /\ UNCHANGED <<buckets, meta, data, promised, wiped>>
        /\ St!Hold(c, [op |-> "cascade", bucket |-> b, keys |-> St!Stored(St!Of(b)), half |-> {}])
    BY DEF St!ListObjects
  <1>3. /\ stReq'[c].op = "cascade" /\ stReq'[c].bucket = b
        /\ stReq'[c].keys = St!Stored(St!Of(b)) /\ stReq'[c].half = {}
        /\ \A d \in Clients \ {c} : stReq'[d] = stReq[d]
    BY <1>2, StHold DEF St!IInv
  <1>4. St!CascadesOwn'
    <2>1. stReq'[c].keys \subseteq St!Of(b) /\ stReq'[c].half \subseteq St!Of(b)
      BY <1>3 DEF St!Stored
    <2>2. QED
      BY <1>3, <2>1 DEF St!CascadesOwn, St!IInv, St!Of
  <1>5. \A j : ~St!Changes(c, j) /\ ~St!Uploads(c, j)'
    BY <1>1, <1>3 DEF St!Changes, St!Uploads
  <1>6. ASSUME NEW j \in St!Key PROVE St!Reached(c, j)'
    <2>1. j \in St!Of(b) /\ meta'[j] # St!None => j \in stReq'[c].keys
      BY <1>2, <1>3 DEF St!Stored
    <2>2. QED
      BY <1>3, <2>1 DEF St!Reached, St!Of, St!None
  <1>7. ASSUME NEW j \in St!Key, j \notin stRaced' PROVE St!Sound(j)'
    <2>1. St!Sound(j)
      BY <1>7 DEF St!IInv, StGrows
    <2>2. QED
      BY <1>2, <1>3, <1>5, <1>6, <2>1, StUntouched
  <1>8. QED
    BY <1>4, <1>7 DEF StRest, St!Key

(* The body of the object that the cascade is half-way with goes. *)
LEMMA StCascadeBody ==
  ASSUME St!IInv, StGrows, NEW c \in Clients, stReq[c].op = "cascade", NEW k \in stReq[c].half,
         data' = St!Without(data, {k}), St!Hold(c, [stReq[c] EXCEPT !.half = {}]),
         UNCHANGED <<buckets, meta, promised, wiped>>
  PROVE  StRest'
  <1> DEFINE r == [stReq[c] EXCEPT !.half = {}]
  <1>1. stReq[c] \in [op : {"cascade"}, bucket : Buckets, keys : SUBSET St!Key, half : SUBSET St!Key]
    BY StRequestFields DEF St!IInv, St!TypeOK
  <1> PICK b \in Buckets : stReq[c].bucket = b
    BY <1>1
  <1>2. r.op = "cascade" /\ r.bucket = b /\ r.keys = stReq[c].keys /\ r.half = {} /\ k \in St!Key
    BY <1>1
  <1>3. St!Hold(c, r)
    OBVIOUS
  <1> HIDE DEF r
  <1>4. /\ stReq'[c].op = "cascade" /\ stReq'[c].bucket = b /\ stReq'[c].half = {}
        /\ stReq'[c].keys = stReq[c].keys /\ \A d \in Clients \ {c} : stReq'[d] = stReq[d]
    BY <1>2, <1>3, StHold DEF St!IInv
  <1>5. data'[k] = St!None /\ \A j \in St!Key \ {k} : data'[j] = data[j]
    BY <1>2 DEF St!Without
  <1>6. /\ stReq[c].keys \subseteq St!Of(b) /\ stReq[c].half \subseteq St!Of(b)
        /\ \A i, j \in stReq[c].half : i = j
    BY DEF St!IInv, St!CascadesOwn
  <1>7. St!CascadesOwn'
    BY <1>4, <1>6 DEF St!IInv, St!CascadesOwn, St!Of
  <1>8. \A j : ~St!Uploads(c, j)'
    BY <1>4 DEF St!Uploads
  <1>9. ASSUME NEW j \in St!Key, j \notin stRaced' PROVE St!Sound(j)'
    <2>1. St!Sound(j) /\ j \notin stRaced
      BY <1>9 DEF St!IInv, StGrows
    <2>2. j \in St!Of(b) /\ meta[j] # St!None => j \in stReq[c].keys
      BY <2>1 DEF St!Sound, St!Reached
    <2>3. St!Reached(c, j)'
      BY <1>4, <2>2 DEF St!Reached, St!Of, St!None
    <2>4. CASE j = k
      <3>1. k \in St!About(c)
        BY <1>6, StAbout
      <3>2. \A d \in Clients \ {c} : k \notin St!About(d)'
        BY <1>2, <1>4, <2>1, <2>4, <3>1, StAlone
      <3>3. meta'[k] = St!None /\ promised'[k] = St!None
        BY <1>6, <2>1, <2>4 DEF St!Sound, St!Reached
      <3>4. St!Whole(k)'
        BY <1>5, <3>3 DEF St!Whole, St!None
      <3>5. QED
        BY <1>7, <1>8, <2>3, <2>4, <3>2, <3>3, <3>4, StMine
    <2>5. CASE j # k
      <3>1. ~St!Changes(c, j)
        BY <1>6, <2>5 DEF St!Changes, St!Uploads
      <3>2. QED
        BY <1>4, <1>5, <1>8, <2>1, <2>3, <2>5, <3>1, StUntouched
    <2>6. QED
      BY <2>4, <2>5
  <1>10. QED
    BY <1>7, <1>9 DEF StRest, St!Key

(* The metadata of the next object on the cascade's list go. *)
LEMMA StCascadeMeta ==
  ASSUME St!IInv, StGrows, NEW c \in Clients, stReq[c].op = "cascade", stReq[c].half = {}, NEW k \in stReq[c].keys,
         meta' = St!Without(meta, {k}), promised' = St!Without(promised, {k}),
         St!Hold(c, [stReq[c] EXCEPT !.keys = @ \ {k}, !.half = {k}]),
         UNCHANGED <<buckets, data, wiped>>
  PROVE  StRest'
  <1> DEFINE r == [stReq[c] EXCEPT !.keys = @ \ {k}, !.half = {k}]
  <1>1. stReq[c] \in [op : {"cascade"}, bucket : Buckets, keys : SUBSET St!Key, half : SUBSET St!Key]
    BY StRequestFields DEF St!IInv, St!TypeOK
  <1> PICK b \in Buckets : stReq[c].bucket = b
    BY <1>1
  <1>2. r.op = "cascade" /\ r.bucket = b /\ r.keys = stReq[c].keys \ {k} /\ r.half = {k} /\ k \in St!Key
    BY <1>1
  <1>3. St!Hold(c, r)
    OBVIOUS
  <1> HIDE DEF r
  <1>4. /\ stReq'[c].op = "cascade" /\ stReq'[c].bucket = b /\ stReq'[c].half = {k}
        /\ stReq'[c].keys = stReq[c].keys \ {k} /\ \A d \in Clients \ {c} : stReq'[d] = stReq[d]
    BY <1>2, <1>3, StHold DEF St!IInv
  <1>5. /\ meta'[k] = St!None /\ promised'[k] = St!None
        /\ \A j \in St!Key \ {k} : meta'[j] = meta[j] /\ promised'[j] = promised[j]
    BY <1>2 DEF St!Without
  <1>6. stReq[c].keys \subseteq St!Of(b)
    BY DEF St!IInv, St!CascadesOwn
  <1>7. St!CascadesOwn'
    BY <1>4, <1>6 DEF St!IInv, St!CascadesOwn, St!Of
  <1>8. \A j : ~St!Uploads(c, j)' /\ ~St!Changes(c, j)
    BY <1>4 DEF St!Uploads, St!Changes
  <1>9. ASSUME NEW j \in St!Key, j \notin stRaced' PROVE St!Sound(j)'
    <2>1. St!Sound(j) /\ j \notin stRaced
      BY <1>9 DEF St!IInv, StGrows
    <2>2. j \in St!Of(b) /\ meta[j] # St!None => j \in stReq[c].keys
      BY <2>1 DEF St!Sound, St!Reached
    <2>3. St!Reached(c, j)'
      BY <1>4, <1>5, <2>2 DEF St!Reached, St!Of, St!None
    <2>4. CASE j = k
      <3>1. k \in St!About(c)
        BY <1>6, StAbout
      <3>2. \A d \in Clients \ {c} : k \notin St!About(d)'
        BY <1>2, <1>4, <2>1, <2>4, <3>1, StAlone
      <3>3. St!Changes(c, k)'
        BY <1>4 DEF St!Changes
      <3>4. QED
        BY <1>5, <1>7, <1>8, <2>3, <2>4, <3>2, <3>3, StMine
    <2>5. CASE j # k
      BY <1>4, <1>5, <1>8, <2>1, <2>3, <2>5, StUntouched
    <2>6. QED
      BY <2>4, <2>5
  <1>10. QED
    BY <1>7, <1>9 DEF StRest, St!Key

LEMMA StCascadeEnds ==
  ASSUME St!IInv, StGrows, NEW c \in Clients, stReq[c].op = "cascade", stReq[c].half = {}, stReq[c].keys = {},
         St!Hold(c, [op |-> "drop", bucket |-> stReq[c].bucket]),
         UNCHANGED <<buckets, meta, data, promised, wiped>>
  PROVE  StRest'
  <1>1. /\ stReq'[c].op = "drop" /\ stReq'[c].bucket = stReq[c].bucket
        /\ \A d \in Clients \ {c} : stReq'[d] = stReq[d]
    BY StHold DEF St!IInv
  <1>2. St!CascadesOwn'
    BY <1>1, StNoCascade
  <1>3. \A j : ~St!Uploads(c, j)' /\ ~St!Changes(c, j)
    BY <1>1 DEF St!Uploads, St!Changes
  <1>4. ASSUME NEW j \in St!Key, j \notin stRaced' PROVE St!Sound(j)'
    <2>1. St!Sound(j)
      BY <1>4 DEF St!IInv, StGrows
    <2>2. j \in St!Of(stReq[c].bucket) => meta[j] = St!None
      BY <2>1 DEF St!Sound, St!Reached
    <2>3. St!Reached(c, j)'
      BY <1>1, <2>2 DEF St!Reached, St!Of, St!None
    <2>4. QED
      BY <1>1, <1>3, <2>1, <2>3, StUntouched
  <1>5. QED
    BY <1>2, <1>4 DEF StRest, St!Key

LEMMA StCascadeStep ==
  ASSUME St!IInv, StGrows, NEW c \in Clients, St!Cascade(c)
  PROVE  StRest'
  <1>1. stReq[c].op = "cascade" /\ UNCHANGED <<buckets, wiped>>
    BY DEF St!Cascade
  <1>2. CASE \E k \in stReq[c].half : /\ data' = St!Without(data, {k})
                                      /\ St!Hold(c, [stReq[c] EXCEPT !.half = {}])
                                      /\ UNCHANGED <<meta, promised>>
    BY <1>1, <1>2, StCascadeBody
  <1>3. CASE /\ stReq[c].half = {}
             /\ \E k \in stReq[c].keys : /\ meta' = St!Without(meta, {k})
                                         /\ promised' = St!Without(promised, {k})
                                         /\ St!Hold(c, [stReq[c] EXCEPT !.keys = @ \ {k}, !.half = {k}])
             /\ UNCHANGED data
    BY <1>1, <1>3, StCascadeMeta
  <1>4. CASE /\ stReq[c].half = {} /\ stReq[c].keys = {}
             /\ St!Hold(c, [op |-> "drop", bucket |-> stReq[c].bucket])
             /\ UNCHANGED <<meta, data, promised>>
    BY <1>1, <1>4, StCascadeEnds
  <1>5. QED
    BY <1>2, <1>3, <1>4, Zenon DEF St!Cascade

(* The bucket goes when nothing of it is left. *)
LEMMA StDropBucketStep ==
  ASSUME St!IInv, StGrows, NEW c \in Clients, St!DropBucket(c)
  PROVE  StRest'
  <1>1. stReq[c].bucket \in Buckets /\ stReq[c].op = "drop"
    BY StRequestFields DEF St!DropBucket, St!IInv, St!TypeOK
  <1> PICK b \in Buckets : stReq[c].bucket = b
    BY <1>1
  <1>2. /\ buckets' = buckets \ {b} /\ St!Hold(c, St!NoReq)
        /\ UNCHANGED <<meta, data, promised, wiped>>
    BY DEF St!DropBucket
  <1>3. stReq'[c].op = "none" /\ \A d \in Clients \ {c} : stReq'[d] = stReq[d]
    BY <1>2, StHold DEF St!IInv, St!NoReq
  <1>4. St!CascadesOwn'
    BY <1>3, StNoCascade
  <1>5. \A j : St!Reached(c, j)' /\ ~St!Uploads(c, j)' /\ ~St!Changes(c, j)
    BY <1>1, <1>3 DEF St!Reached, St!Uploads, St!Changes
  <1>6. ASSUME NEW j \in St!Key, j \notin stRaced' PROVE St!Sound(j)'
    <2>1. St!Sound(j) /\ j \notin stRaced
      BY <1>6 DEF St!IInv, StGrows
    <2>2. CASE j[1] = b
      <3>1. j \in St!Of(b)
        BY <2>2, StKeys
      <3>2. j \in St!About(c)
        BY <1>1, <3>1, StAbout
      <3>3. (\A d \in Clients \ {c} : j \notin St!About(d)') /\ St!Whole(j)
        BY <1>1, <1>3, <1>5, <2>1, <3>2, StAlone
      <3>4. meta[j] = St!None
        BY <1>1, <2>1, <3>1 DEF St!Sound, St!Reached
      <3>5. St!Whole(j)' /\ meta'[j] = St!None
        BY <1>2, <3>3, <3>4 DEF St!Whole, St!None
      <3>6. QED
        BY <1>4, <1>5, <3>3, <3>5, StMine
    <2>3. CASE j[1] # b
      <3>1. j[1] \in buckets \cup wiped => j[1] \in buckets' \cup wiped'
        BY <1>2, <2>3
      <3>2. QED
        BY <1>2, <1>3, <1>5, <2>1, <3>1, StUntouched
    <2>4. QED
      BY <2>2, <2>3
  <1>7. QED
    BY <1>4, <1>6 DEF StRest, St!Key

(* What says nothing of an object. *)
LEMMA StReadBodyStep ==
  ASSUME St!IInv, StGrows, NEW c \in Clients, St!ReadBody(c)
  PROVE  StRest'
  <1>1. /\ stReq[c].op = "body" /\ UNCHANGED <<buckets, meta, data, promised, wiped>> /\ St!Hold(c, St!NoReq)
    BY DEF St!ReadBody
  <1>2. stReq'[c].op = "none" /\ \A d \in Clients \ {c} : stReq'[d] = stReq[d]
    BY <1>1, StHold DEF St!IInv, St!NoReq
  <1>3. QED
    BY <1>1, <1>2, StSaysNothing

LEMMA StDeleteBucketStep ==
  ASSUME St!IInv, StGrows, NEW c \in Clients, NEW b \in Buckets, St!DeleteBucket(c, b)
  PROVE  StRest'
  <1>1. /\ stReq[c].op = "none" /\ UNCHANGED <<buckets, meta, data, promised, wiped>>
        /\ St!Hold(c, [op |-> "list", bucket |-> b])
    BY DEF St!DeleteBucket, St!Idle, St!NoReq
  <1>2. stReq'[c].op = "list" /\ \A d \in Clients \ {c} : stReq'[d] = stReq[d]
    BY <1>1, StHold DEF St!IInv
  <1>3. QED
    BY <1>1, <1>2, StSaysNothing

LEMMA StResetStep ==
  ASSUME St!IInv, StGrows, NEW c \in Clients, St!Reset(c)
  PROVE  StRest'
  <1>1. /\ stReq[c].op = "none" /\ UNCHANGED <<buckets, meta, data, promised, wiped>>
        /\ St!Hold(c, [op |-> "reset", buckets |-> buckets])
    BY DEF St!Reset, St!Idle, St!NoReq
  <1>2. stReq'[c].op = "reset" /\ \A d \in Clients \ {c} : stReq'[d] = stReq[d]
    BY <1>1, StHold DEF St!IInv
  <1>3. QED
    BY <1>1, <1>2, StSaysNothing

LEMMA StWipeBucketsStep ==
  ASSUME St!IInv, StGrows, NEW c \in Clients, St!WipeBuckets(c)
  PROVE  StRest'
  <1>1. /\ stReq[c].op = "reset" /\ UNCHANGED <<meta, data, promised>>
        /\ stReq[c] \in [op : {"reset"}, buckets : SUBSET Buckets]
    BY StRequestFields DEF St!WipeBuckets, St!IInv, St!TypeOK
  <1>2. CASE stReq[c].buckets = {} /\ St!Hold(c, St!NoReq) /\ UNCHANGED <<buckets, wiped>>
    <2>1. stReq'[c].op = "none" /\ \A d \in Clients \ {c} : stReq'[d] = stReq[d]
      BY <1>2, StHold DEF St!IInv, St!NoReq
    <2>2. QED
      BY <1>1, <1>2, <2>1, StSaysNothing
  <1>3. ASSUME NEW b \in stReq[c].buckets, buckets' = buckets \ {b}, wiped' = wiped \cup {b},
               St!Hold(c, IF b \in buckets THEN [stReq[c] EXCEPT !.buckets = @ \ {b}] ELSE St!NoReq)
        PROVE  StRest'
    <2> DEFINE r == [stReq[c] EXCEPT !.buckets = @ \ {b}]
               q == IF b \in buckets THEN r ELSE St!NoReq
    <2>1. r.op = "reset"
      BY <1>1
    <2>2. q.op \in {"reset", "none"}
      BY <2>1 DEF St!NoReq
    <2>3. St!Hold(c, q)
      BY <1>3
    <2> HIDE DEF q
    <2>4. stReq'[c].op \in {"none", "reset"} /\ \A d \in Clients \ {c} : stReq'[d] = stReq[d]
      BY <2>2, <2>3, StHold DEF St!IInv
    <2>5. buckets \cup wiped \subseteq buckets' \cup wiped'
      BY <1>3
    <2>6. QED
      BY <1>1, <2>4, <2>5, StSaysNothing
  <1>4. QED
    BY <1>2, <1>3, Zenon DEF St!WipeBuckets

(* A crash cuts the calls short that were changing an object, and records    *)
(* them; New writes the seed files again.                                    *)
LEMMA StCrashStep ==
  ASSUME St!IInv, St!CrashAndRestart, stRaced' = stRaced \cup St!CutShort
  PROVE  St!OverlapsKept' /\ StRest'
  <1>1. /\ buckets' = St!EnsureBuckets(buckets) /\ UNCHANGED wiped
        /\ meta' = St!Seeded(meta) /\ data' = St!Seeded(data) /\ promised' = St!Seeded(promised)
        /\ stReq' = [c \in Clients |-> St!NoReq]
    BY DEF St!CrashAndRestart
  <1>2. \A c \in Clients : stReq'[c].op = "none"
    BY <1>1 DEF St!NoReq
  <1>3. \A c \in Clients : St!About(c)' = {}
    BY <1>2 DEF St!About
  <1>4. St!OverlapsKept'
    BY <1>3 DEF St!OverlapsKept, St!Overlaps
  <1>5. St!CascadesOwn'
    BY <1>2 DEF St!CascadesOwn
  <1>6. ASSUME NEW k \in St!Key, k \notin stRaced' PROVE St!Sound(k)'
    <2>1. St!Sound(k)
      BY <1>6 DEF St!IInv
    <2>2. \A c \in Clients : ~St!Changes(c, k)
      BY <1>6, StChanger DEF St!IInv, St!CutShort
    <2>3. St!Whole(k)
      BY <2>1, <2>2 DEF St!Sound
    <2>4. St!Whole(k)'
      BY <1>1, <2>3 DEF St!Seeded, St!Whole, St!None
    <2>5. \A c \in Clients : St!Reached(c, k)' /\ ~St!Uploads(c, k)'
      BY <1>2 DEF St!Reached, St!Uploads
    <2>6. meta'[k] # St!None => k[1] \in buckets' \cup wiped'
      <3>1. CASE k \in Seeds
        BY <1>1, <3>1 DEF St!EnsureBuckets
      <3>2. CASE k \notin Seeds
        <4>1. meta'[k] = meta[k] /\ buckets \subseteq buckets' /\ wiped' = wiped
          BY <1>1, <3>2 DEF St!Seeded, St!EnsureBuckets
        <4>2. QED
          BY <2>1, <4>1 DEF St!Sound
      <3>3. QED
        BY <3>1, <3>2
    <2>7. QED
      BY <2>4, <2>5, <2>6 DEF St!Sound, St!None
  <1>7. QED
    BY <1>4, <1>5, <1>6 DEF StRest, St!Key

(* A step of a call leaves the other calls alone. *)
LEMMA StOthers ==
  ASSUME St!TypeOK, NEW c \in Clients, St!Start(c) \/ St!Continue(c)
  PROVE  \A d \in Clients \ {c} : stReq'[d] = stReq[d]
  <1>1. St!Start(c) => \E r : St!Hold(c, r)
    BY Zenon DEF St!Start, St!HandleUpload, St!HandleObject, St!Upload, St!Download, St!DeleteObject,
                 St!DeleteBucket, St!Reset
  <1>2. St!Continue(c) => \E r : St!Hold(c, r)
    <2>1. St!WipeBuckets(c) \/ St!Cascade(c) => \E r : St!Hold(c, r)
      BY Zenon DEF St!WipeBuckets, St!Cascade
    <2>2. QED
      BY <2>1, Zenon DEF St!Continue, St!PutMeta, St!PutData, St!ReadBody, St!DeleteData, St!ListObjects,
                         St!DropBucket
  <1>3. QED
    BY <1>1, <1>2, StHold

(* Only an upload that begins takes a key off the record. *)
LEMMA StBegun ==
  ASSUME NEW c \in Clients, \A d \in Clients \ {c} : stReq'[d] = stReq[d]
  PROVE  /\ stReq[c].op # "none" \/ stReq'[c].op # "meta" => St!Begun = {}
         /\ \A k : stReq'[c].key = k => St!Begun \subseteq {k}
  <1>1. \A d \in Clients \ {c} : ~(St!Idle(d) /\ stReq'[d].op = "meta")
    BY DEF St!Idle, St!NoReq
  <1>2. St!Idle(c) => stReq[c].op = "none"
    BY DEF St!Idle, St!NoReq
  <1>3. QED
    BY <1>1, <1>2 DEF St!Begun

(* Seeding and deleting keep the two records of the objects well typed. *)
LEMMA StRecords ==
  ASSUME NEW f \in [St!Key -> St!Body]
  PROVE  /\ St!Seeded(f) \in [St!Key -> St!Body]
         /\ \A K : St!Without(f, K) \in [St!Key -> St!Body]
         /\ \A k \in St!Key, b \in St!Body : [f EXCEPT ![k] = b] \in [St!Key -> St!Body]
  <1>1. St!None \in St!Body /\ St!SeedBody \in St!Body
    BY ServicesAssumption DEF St!Body, St!None, St!SeedBody
  <1>2. QED
    BY <1>1 DEF St!Seeded, St!Without

LEMMA StTypeStep == St!IInv /\ St!Next => St!TypeOK'
  <1> SUFFICES ASSUME St!IInv, St!Next PROVE St!TypeOK'
    OBVIOUS
  <1> DEFINE Rest == /\ buckets' \subseteq Buckets /\ wiped' \subseteq Buckets
                     /\ meta' \in [St!Key -> St!Body] /\ data' \in [St!Key -> St!Body]
                     /\ promised' \in [St!Key -> St!Body]
                     /\ uploads' \in 0..MaxUploads /\ stRestarts' \in 0..MaxRestarts
  <1>0. St!TypeOK
    BY DEF St!IInv
  <1>1. stRaced' \subseteq St!Key
    <2>1. \A c \in Clients : St!About(c) \subseteq St!Key
      BY <1>0, StRequestFields, StKeys DEF St!TypeOK, St!About
    <2>2. St!CutShort \subseteq St!Key
      BY <2>1 DEF St!CutShort
    <2>3. St!Overlaps' \subseteq St!Key
      BY DEF St!Overlaps, St!Key
    <2>4. QED
      BY <1>0, <2>2, <2>3 DEF St!Next, St!TypeOK
  <1>2. MaxUploads \in Nat /\ MaxRestarts \in Nat
    BY ServicesAssumption
  <1>3. ASSUME NEW c \in Clients, NEW r \in St!Request, St!Hold(c, r), Rest PROVE St!TypeOK'
    <2>1. stReq' \in [Clients -> St!Request]
      BY <1>0, <1>3 DEF St!Hold, St!TypeOK
    <2>2. QED
      BY <1>1, <1>3, <2>1 DEF St!TypeOK, St!Key, St!Body, St!None, St!SeedBody
  <1>4. ASSUME NEW c \in Clients PROVE stReq[c] \in St!Request
    BY <1>0 DEF St!TypeOK
  <1>5. ASSUME NEW b \in Buckets, St!CreateBucket(b) PROVE St!TypeOK'
    BY <1>0, <1>1, <1>5 DEF St!CreateBucket, St!TypeOK, St!Key, St!Body, St!None, St!SeedBody
  <1>6. ASSUME NEW c \in Clients, NEW k \in St!Key, St!HandleUpload(c, k) PROVE St!TypeOK'
    <2>1. Rest
      BY <1>0, <1>2, <1>6 DEF St!HandleUpload, St!Upload, St!TypeOK
    <2>2. uploads + 1 \in St!Body
      BY <1>0, <1>2, <1>6 DEF St!HandleUpload, St!Upload, St!TypeOK, St!Body, St!None, St!SeedBody
    <2>3. [op |-> "meta", key |-> k, body |-> uploads + 1] \in St!Request
      BY <2>2, StRequests
    <2>4. QED
      BY <1>3, <1>6, <2>1, <2>3 DEF St!HandleUpload, St!Upload
  <1>7. ASSUME NEW c \in Clients, NEW k \in St!Key, St!Download(c, k) PROVE St!TypeOK'
    <2>1. Rest
      BY <1>0, <1>7 DEF St!Download, St!TypeOK
    <2>2. [op |-> "body", key |-> k, body |-> meta[k]] \in St!Request
      BY <1>0, StRequests DEF St!TypeOK
    <2>3. QED
      BY <1>3, <1>7, <2>1, <2>2 DEF St!Download
  <1>8. ASSUME NEW c \in Clients, NEW k \in St!Key, St!DeleteObject(c, k) PROVE St!TypeOK'
    <2>1. Rest
      BY <1>0, <1>8, StRecords DEF St!DeleteObject, St!TypeOK
    <2>2. [op |-> "undata", key |-> k] \in St!Request
      BY StRequests
    <2>3. QED
      BY <1>3, <1>8, <2>1, <2>2 DEF St!DeleteObject
  <1>9. ASSUME NEW c \in Clients, NEW b \in Buckets, St!DeleteBucket(c, b) PROVE St!TypeOK'
    <2>1. Rest
      BY <1>0, <1>9 DEF St!DeleteBucket, St!TypeOK
    <2>2. [op |-> "list", bucket |-> b] \in St!Request
      BY StRequests
    <2>3. QED
      BY <1>3, <1>9, <2>1, <2>2 DEF St!DeleteBucket
  <1>10. ASSUME NEW c \in Clients, St!Reset(c) PROVE St!TypeOK'
    <2>1. Rest
      BY <1>0, <1>10 DEF St!Reset, St!TypeOK
    <2>2. [op |-> "reset", buckets |-> buckets] \in St!Request
      BY <1>0, StRequests DEF St!TypeOK
    <2>3. QED
      BY <1>3, <1>10, <2>1, <2>2 DEF St!Reset
  <1>11. ASSUME NEW c \in Clients, St!PutMeta(c) PROVE St!TypeOK'
    <2>1. stReq[c] \in [op : {"meta", "data", "body"}, key : St!Key, body : St!Body]
      BY <1>4, <1>11, StRequestFields DEF St!PutMeta
    <2>2. Rest
      BY <1>0, <1>11, <2>1, StRecords DEF St!PutMeta, St!TypeOK
    <2>3. [stReq[c] EXCEPT !.op = "data"] \in [op : {"meta", "data", "body"}, key : St!Key, body : St!Body]
      BY <2>1
    <2>4. [stReq[c] EXCEPT !.op = "data"] \in St!Request
      BY <2>3, Zenon DEF St!Request
    <2>5. QED
      BY <1>3, <1>11, <2>2, <2>4, Zenon DEF St!PutMeta
  <1>12. ASSUME NEW c \in Clients, St!PutData(c) PROVE St!TypeOK'
    <2>1. stReq[c] \in [op : {"meta", "data", "body"}, key : St!Key, body : St!Body]
      BY <1>4, <1>12, StRequestFields DEF St!PutData
    <2>2. Rest
      BY <1>0, <1>12, <2>1, StRecords DEF St!PutData, St!TypeOK
    <2>3. QED
      BY <1>3, <1>12, <2>2, StRequests DEF St!PutData
  <1>13. ASSUME NEW c \in Clients, St!ReadBody(c) PROVE St!TypeOK'
    <2>1. Rest
      BY <1>0, <1>13 DEF St!ReadBody, St!TypeOK
    <2>2. QED
      BY <1>3, <1>13, <2>1, StRequests DEF St!ReadBody
  <1>14. ASSUME NEW c \in Clients, St!DeleteData(c) PROVE St!TypeOK'
    <2>1. Rest
      BY <1>0, <1>14, StRecords DEF St!DeleteData, St!TypeOK
    <2>2. QED
      BY <1>3, <1>14, <2>1, StRequests DEF St!DeleteData
  <1>15. ASSUME NEW c \in Clients, St!ListObjects(c) PROVE St!TypeOK'
    <2>1. stReq[c].bucket \in Buckets
      BY <1>4, <1>15, StRequestFields DEF St!ListObjects
    <2>2. Rest
      BY <1>0, <1>15 DEF St!ListObjects, St!TypeOK
    <2>3. St!Stored(St!Of(stReq[c].bucket)) \in SUBSET St!Key
      BY <2>1, StKeys DEF St!Stored
    <2>4. [op |-> "cascade", bucket |-> stReq[c].bucket, keys |-> St!Stored(St!Of(stReq[c].bucket)), half |-> {}]
            \in St!Request
      BY <2>1, <2>3, StRequests
    <2>5. QED
      BY <1>3, <1>15, <2>2, <2>4 DEF St!ListObjects
  <1>16. ASSUME NEW c \in Clients, St!Cascade(c) PROVE St!TypeOK'
    <2> DEFINE R == [op : {"cascade"}, bucket : Buckets, keys : SUBSET St!Key, half : SUBSET St!Key]
               Done == [stReq[c] EXCEPT !.half = {}]
               Half(k) == [stReq[c] EXCEPT !.keys = @ \ {k}, !.half = {k}]
    <2>1. stReq[c] \in R
      BY <1>4, <1>16, StRequestFields DEF St!Cascade
    <2>2. Rest
      <3>1. /\ meta' = meta \/ \E k : meta' = St!Without(meta, {k})
            /\ data' = data \/ \E k : data' = St!Without(data, {k})
            /\ promised' = promised \/ \E k : promised' = St!Without(promised, {k})
            /\ UNCHANGED <<buckets, uploads, stRestarts, wiped>>
        BY <1>16, Zenon DEF St!Cascade
      <3>2. /\ meta \in [St!Key -> St!Body] /\ data \in [St!Key -> St!Body] /\ promised \in [St!Key -> St!Body]
            /\ buckets \subseteq Buckets /\ wiped \subseteq Buckets
            /\ uploads \in 0..MaxUploads /\ stRestarts \in 0..MaxRestarts /\ St!None \in St!Body
        BY <1>0, ServicesAssumption DEF St!TypeOK, St!Body, St!None, St!SeedBody
      <3>3. meta' \in [St!Key -> St!Body]
        BY <3>1, <3>2 DEF St!Without
      <3>4. data' \in [St!Key -> St!Body]
        BY <3>1, <3>2 DEF St!Without
      <3>5. promised' \in [St!Key -> St!Body]
        BY <3>1, <3>2 DEF St!Without
      <3>6. QED
        BY <3>1, <3>2, <3>3, <3>4, <3>5
    <2>3. Done \in R /\ \A k \in stReq[c].keys : Half(k) \in R
      BY <2>1
    <2>4. R \subseteq St!Request
      BY Zenon DEF St!Request
    <2>5. [op |-> "drop", bucket |-> stReq[c].bucket] \in St!Request
      BY <2>1, StRequests
    <2>6. \E r \in St!Request : St!Hold(c, r)
      <3>1. \/ St!Hold(c, Done) \/ \E k \in stReq[c].keys : St!Hold(c, Half(k))
            \/ St!Hold(c, [op |-> "drop", bucket |-> stReq[c].bucket])
        BY <1>16, Zenon DEF St!Cascade
      <3> HIDE DEF R, Done, Half
      <3>2. QED
        BY <2>3, <2>4, <2>5, <3>1
    <2>7. QED
      BY <1>3, <2>2, <2>6
  <1>17. ASSUME NEW c \in Clients, St!DropBucket(c) PROVE St!TypeOK'
    <2>1. Rest
      BY <1>0, <1>17 DEF St!DropBucket, St!TypeOK
    <2>2. QED
      BY <1>3, <1>17, <2>1, StRequests DEF St!DropBucket
  <1>18. ASSUME NEW c \in Clients, St!WipeBuckets(c) PROVE St!TypeOK'
    <2> DEFINE Less(b) == [stReq[c] EXCEPT !.buckets = @ \ {b}]
    <2>1. stReq[c] \in [op : {"reset"}, buckets : SUBSET Buckets]
      BY <1>4, <1>18, StRequestFields DEF St!WipeBuckets
    <2>2. Rest
      BY <1>0, <1>18, <2>1 DEF St!WipeBuckets, St!TypeOK
    <2>3. \A b \in stReq[c].buckets : Less(b) \in [op : {"reset"}, buckets : SUBSET Buckets]
      BY <2>1
    <2>4. [op : {"reset"}, buckets : SUBSET Buckets] \subseteq St!Request /\ St!NoReq \in St!Request
      BY Zenon DEF St!Request
    <2>5. \/ St!Hold(c, St!NoReq)
          \/ \E b \in stReq[c].buckets : St!Hold(c, IF b \in buckets THEN Less(b) ELSE St!NoReq)
      BY <1>18, Zenon DEF St!WipeBuckets
    <2> HIDE DEF Less
    <2>6. \E r \in St!Request : St!Hold(c, r)
      BY <2>3, <2>4, <2>5
    <2>7. QED
      BY <1>3, <2>2, <2>6
  <1>19. ASSUME St!CrashAndRestart PROVE St!TypeOK'
    <2>1. \A k \in Seeds : k[1] \in Buckets
      BY StKeys
    <2>2. Rest
      BY <1>0, <1>2, <1>19, <2>1, StRecords DEF St!CrashAndRestart, St!TypeOK, St!EnsureBuckets
    <2>3. stReq' \in [Clients -> St!Request]
      BY <1>19, StRequests DEF St!CrashAndRestart
    <2>4. QED
      BY <1>1, <2>2, <2>3 DEF St!TypeOK, St!Key, St!Body, St!None, St!SeedBody
  <1>20. QED
    <2>1. ASSUME NEW c \in Clients, St!Start(c) PROVE St!TypeOK'
      BY <1>6, <1>7, <1>8, <1>9, <1>10, <2>1 DEF St!Start, St!HandleObject
    <2>2. ASSUME NEW c \in Clients, St!Continue(c) PROVE St!TypeOK'
      BY <1>11, <1>12, <1>13, <1>14, <1>15, <1>16, <1>17, <1>18, <2>2 DEF St!Continue
    <2>3. QED
      BY <1>5, <1>19, <2>1, <2>2 DEF St!Next

LEMMA StInit == St!Init => St!IInv
  <1> SUFFICES ASSUME St!Init PROVE St!IInv
    OBVIOUS
  <1>1. /\ buckets = St!EnsureBuckets({}) /\ meta = St!Seeded(St!Nothing) /\ data = St!Seeded(St!Nothing)
        /\ promised = St!Seeded(St!Nothing) /\ stReq = [c \in Clients |-> St!NoReq]
        /\ uploads = 0 /\ stRestarts = 0 /\ stRaced = {} /\ wiped = {}
    BY DEF St!Init
  <1>2. \A c \in Clients : stReq[c].op = "none"
    BY <1>1 DEF St!NoReq
  <1>3. St!TypeOK
    <2>1. St!Nothing \in [St!Key -> St!Body]
      BY ServicesAssumption DEF St!Nothing, St!Body, St!None, St!SeedBody
    <2>2. meta \in [St!Key -> St!Body] /\ data \in [St!Key -> St!Body] /\ promised \in [St!Key -> St!Body]
      BY <1>1, <2>1, StRecords
    <2>3. buckets \subseteq Buckets
      BY <1>1, StKeys DEF St!EnsureBuckets
    <2>4. stReq \in [Clients -> St!Request]
      BY <1>1, StRequests
    <2>5. QED
      BY <1>1, <2>2, <2>3, <2>4, ServicesAssumption DEF St!TypeOK
  <1>4. St!OverlapsKept
    BY <1>2 DEF St!OverlapsKept, St!Overlaps, St!About
  <1>5. St!CascadesOwn
    BY <1>2 DEF St!CascadesOwn
  <1>6. ASSUME NEW k \in St!Key PROVE St!Sound(k)
    <2>1. St!Whole(k)
      BY <1>1 DEF St!Whole, St!Seeded, St!Nothing, St!None
    <2>2. \A c \in Clients : St!Reached(c, k) /\ ~St!Uploads(c, k)
      BY <1>2 DEF St!Reached, St!Uploads
    <2>3. meta[k] # St!None => k[1] \in buckets
      BY <1>1 DEF St!Seeded, St!Nothing, St!EnsureBuckets
    <2>4. QED
      BY <2>1, <2>2, <2>3 DEF St!Sound
  <1>7. QED
    BY <1>3, <1>4, <1>5, <1>6 DEF St!IInv

LEMMA StStep == St!IInv /\ [St!Next]_st => St!IInv'
  <1> SUFFICES ASSUME St!IInv, [St!Next]_st PROVE St!IInv'
    OBVIOUS
  <1>1. CASE UNCHANGED st
    <2>1. /\ UNCHANGED buckets /\ UNCHANGED meta /\ UNCHANGED data /\ UNCHANGED stReq /\ UNCHANGED uploads
          /\ UNCHANGED stRestarts /\ UNCHANGED promised /\ UNCHANGED stRaced /\ UNCHANGED wiped
      BY <1>1 DEF st
    <2>2. St!TypeOK'
      BY <2>1 DEF St!IInv, St!TypeOK, St!Key, St!Body, St!None, St!SeedBody, St!Request, St!NoReq
    <2>3. \A c \in Clients : St!About(c)' = St!About(c)
      BY <2>1 DEF St!About, St!Of, St!Key
    <2>4. St!OverlapsKept'
      <3>1. St!Overlaps' = St!Overlaps
        BY <2>1, <2>3 DEF St!Overlaps, St!Key
      <3>2. QED
        BY <2>1, <3>1 DEF St!IInv, St!OverlapsKept
    <2>5. St!CascadesOwn'
      BY <2>1 DEF St!IInv, St!CascadesOwn, St!Of
    <2>6. ASSUME NEW k \in St!Key, k \notin stRaced' PROVE St!Sound(k)'
      <3>1. St!Sound(k)
        BY <2>1, <2>6 DEF St!IInv
      <3>2. QED
        BY <2>1, <3>1, StUntouched
    <2>7. QED
      BY <2>2, <2>4, <2>5, <2>6 DEF St!IInv, St!Key
  <1>2. CASE St!Next
    <2>1. St!TypeOK'
      BY <1>2, StTypeStep
    <2>2. St!OverlapsKept' /\ StRest' => St!IInv'
      BY <2>1 DEF St!IInv, StRest, St!Key
    <2>3. CASE St!CrashAndRestart /\ stRaced' = stRaced \cup St!CutShort
      BY <2>2, <2>3, StCrashStep
    <2>4. CASE /\ (\E b \in Buckets : St!CreateBucket(b)) \/ \E c \in Clients : St!Start(c) \/ St!Continue(c)
               /\ stRaced' = (stRaced \ St!Begun) \cup St!Overlaps'
      <3>1. St!Overlaps' \subseteq stRaced' /\ St!OverlapsKept'
        BY <2>4 DEF St!OverlapsKept
      <3>2. St!Begun = {} => StGrows
        BY <2>4 DEF StGrows
      <3>3. ASSUME NEW b \in Buckets, St!CreateBucket(b) PROVE StRest'
        <4>1. St!Begun = {}
          BY <3>3 DEF St!Begun, St!CreateBucket, St!Idle, St!NoReq
        <4>2. QED
          BY <3>2, <3>3, <4>1, StCreateBucketStep
      <3>4. ASSUME NEW c \in Clients, St!Start(c) PROVE StRest'
        <4>1. \A d \in Clients \ {c} : stReq'[d] = stReq[d]
          BY <3>4, StOthers DEF St!IInv
        <4>2. stReq'[c].op # "meta" => StGrows
          BY <3>2, <4>1, StBegun
        <4>3. ASSUME NEW k \in St!Key, St!HandleUpload(c, k) PROVE StRest'
          <5>1. stReq'[c] = [op |-> "meta", key |-> k, body |-> uploads + 1]
            BY <4>3, StHold DEF St!HandleUpload, St!Upload, St!IInv
          <5>2. stReq'[c].key = k
            BY <5>1
          <5>3. St!Begun \subseteq {k}
            BY <4>1, <5>2, StBegun
          <5>4. QED
            BY <2>4, <3>1, <4>3, <5>3, StUploadStep
        <4>4. ASSUME NEW k \in St!Key, St!Download(c, k) PROVE StRest'
          <5>1. stReq'[c] = [op |-> "body", key |-> k, body |-> meta[k]]
            BY <4>4, StHold DEF St!Download, St!IInv
          <5>2. QED
            BY <4>2, <4>4, <5>1, StDownloadStep
        <4>5. ASSUME NEW k \in St!Key, St!DeleteObject(c, k) PROVE StRest'
          <5>1. stReq'[c] = [op |-> "undata", key |-> k]
            BY <4>5, StHold DEF St!DeleteObject, St!IInv
          <5>2. QED
            BY <4>2, <4>5, <5>1, StDeleteObjectStep
        <4>6. ASSUME NEW b \in Buckets, St!DeleteBucket(c, b) PROVE StRest'
          <5>1. stReq'[c] = [op |-> "list", bucket |-> b]
            BY <4>6, StHold DEF St!DeleteBucket, St!IInv
          <5>2. QED
            BY <4>2, <4>6, <5>1, StDeleteBucketStep
        <4>7. ASSUME St!Reset(c) PROVE StRest'
          <5>1. stReq'[c] = [op |-> "reset", buckets |-> buckets]
            BY <4>7, StHold DEF St!Reset, St!IInv
          <5>2. QED
            BY <4>2, <4>7, <5>1, StResetStep
        <4>8. QED
          BY <3>4, <4>3, <4>4, <4>5, <4>6, <4>7 DEF St!Start, St!HandleObject
      <3>5. ASSUME NEW c \in Clients, St!Continue(c) PROVE StRest'
        <4>1. \A d \in Clients \ {c} : stReq'[d] = stReq[d]
          BY <3>5, StOthers DEF St!IInv
        <4>2. stReq[c].op # "none"
          BY <3>5 DEF St!Continue, St!PutMeta, St!PutData, St!ReadBody, St!DeleteData, St!ListObjects,
                      St!Cascade, St!DropBucket, St!WipeBuckets
        <4>3. StGrows
          BY <3>2, <4>1, <4>2, StBegun
        <4>4. QED
          BY <3>5, <4>3, StPutMetaStep, StPutDataStep, StReadBodyStep, StDeleteDataStep, StListObjectsStep,
             StCascadeStep, StDropBucketStep, StWipeBucketsStep DEF St!Continue
      <3>6. QED
        BY <2>2, <2>4, <3>1, <3>3, <3>4, <3>5
    <2>5. QED
      BY <1>2, <2>3, <2>4 DEF St!Next
  <1>3. QED
    BY <1>1, <1>2

(* The objects of Cloud Storage keep what ObjectsKept says, for every number *)
(* of buckets, objects, seed files and API calls: away from calls that       *)
(* overlapped on an object or were cut short by a crash, the metadata and    *)
(* the body of an object are of one upload, the last one answered, a deleted *)
(* bucket leaves no object behind, and a download gives the body that its    *)
(* ETag describes (storeObject, deleteObject, deleteBucketAndObjects and     *)
(* downloadObject in src/internal/services/storage).                         *)
THEOREM ObjectsStayWhole == ServicesSpec => ObjectsKept
  <1>1. ServicesInit => St!IInv
    BY StInit DEF ServicesInit
  <1>2. [ServicesNext]_servicesVars => [St!Next]_st
    BY DEF ServicesNext, servicesVars
  <1>3. St!IInv /\ [ServicesNext]_servicesVars => St!IInv'
    BY <1>2, StStep
  <1>4. St!IInv => St!TypeOK /\ St!ObjectIsWhole /\ St!UploadKept /\ St!NoGhostObject
    <2> SUFFICES ASSUME St!IInv
                 PROVE  St!TypeOK /\ St!ObjectIsWhole /\ St!UploadKept /\ St!NoGhostObject
      OBVIOUS
    <2>1. ASSUME NEW k \in St!Key, St!Settled(k)
          PROVE  St!Whole(k) /\ (meta[k] # St!None => k[1] \in buckets \cup wiped)
      <3>1. St!Sound(k) /\ \A c \in Clients : ~St!Changes(c, k)
        BY <2>1, StSays DEF St!IInv, St!Settled
      <3>2. QED
        BY <3>1 DEF St!Sound
    <2>2. QED
      BY <2>1 DEF St!IInv, St!ObjectIsWhole, St!UploadKept, St!NoGhostObject, St!Whole
  <1>5. St!IInv /\ [ServicesNext]_servicesVars
          => [\A c \in Clients : St!ReadBody(c) /\ stReq[c].key \notin stRaced
                 => data[stReq[c].key] = stReq[c].body]_(St!vars)
    <2> SUFFICES ASSUME St!IInv, NEW c \in Clients, St!ReadBody(c), stReq[c].key \notin stRaced
                 PROVE  data[stReq[c].key] = stReq[c].body
      OBVIOUS
    <2>1. stReq[c].op = "body" /\ stReq[c].key \in St!Key
      BY StRequestFields DEF St!ReadBody, St!IInv, St!TypeOK
    <2>2. St!Reached(c, stReq[c].key)
      BY <2>1 DEF St!IInv, St!Sound
    <2>3. QED
      BY <2>1, <2>2 DEF St!Reached
  <1>6. QED
    BY <1>1, <1>3, <1>4, <1>5, PTL DEF ServicesSpec, ObjectsKept, St!DownloadIsWhole

-----------------------------------------------------------------------------
(* Logging and Monitoring. *)

(* Numbers are drawn for entries that were sent, one for each (Telemetry     *)
(* bounds the entries by MaxEntries, so that a key is one of Keys).          *)
TeDrawsCounted == IsFiniteSet(Te!Drawing) /\ seq + Cardinality(Te!Drawing) <= sent

TeIInv == Te!Shape /\ TeDrawsCounted /\ Te!DrawnOnce /\ Te!AnsweredStored

(* The fields of a request are those of its operation (req in Telemetry). *)
LEMMA TeRequestFields ==
  ASSUME NEW r \in Te!Request
  PROVE  /\ r.op = "draw" => r.label \in Labels /\ r.entry \in 1..MaxEntries
         /\ r.op = "put" => r.key \in Te!Keys /\ r.entry \in 1..MaxEntries
         /\ r.op \in {"none", "draw", "put"}
  BY DEF Te!Request, Te!NoReq

LEMMA TeHold ==
  ASSUME Te!Shape, NEW c \in Clients, NEW r, Te!Hold(c, r)
  PROVE  teReq'[c] = r /\ \A d \in Clients \ {c} : teReq'[d] = teReq[d]
  BY DEF Te!Shape, Te!Hold

(* An entry arrives and waits for its number. *)
LEMMA TeNextEntryStep ==
  ASSUME TeIInv, NEW c \in Clients, NEW l \in Labels, Te!NextEntry(c, l)
  PROVE  TeIInv'
  <1> DEFINE r == [op |-> "draw", label |-> l, entry |-> sent + 1]
  <1>1. /\ teReq[c].op = "none" /\ sent < MaxEntries /\ sent' = sent + 1 /\ Te!Hold(c, r)
        /\ UNCHANGED <<seq, entries, teRestarts, answered>>
    BY DEF Te!NextEntry, Te!NoReq
  <1>2. r \in Te!Request /\ r.op = "draw"
    BY <1>1, ServicesAssumption DEF TeIInv, Te!Shape, Te!Request
  <1> HIDE DEF r
  <1>3. teReq'[c] = r /\ \A d \in Clients \ {c} : teReq'[d] = teReq[d]
    BY <1>1, TeHold DEF TeIInv
  <1>4. Te!Shape'
    <2>1. teReq' \in [Clients -> Te!Request]
      BY <1>1, <1>2 DEF TeIInv, Te!Shape, Te!Hold
    <2>2. QED
      BY <1>1, <2>1, ServicesAssumption DEF TeIInv, Te!Shape, Te!Keys, Te!Request, Te!NoReq
  <1>5. TeDrawsCounted'
    <2>1. Te!Drawing' = Te!Drawing \cup {c} /\ c \notin Te!Drawing
      BY <1>1, <1>2, <1>3 DEF Te!Drawing
    <2>2. IsFiniteSet(Te!Drawing) /\ Cardinality(Te!Drawing) \in Nat /\ seq + Cardinality(Te!Drawing) <= sent
      BY FS_CardinalityType DEF TeIInv, TeDrawsCounted
    <2>3. IsFiniteSet(Te!Drawing') /\ Cardinality(Te!Drawing') = Cardinality(Te!Drawing) + 1
      BY <2>1, <2>2, FS_AddElement
    <2>4. seq \in Nat /\ sent \in Nat
      BY DEF TeIInv, Te!Shape
    <2>5. seq' + Cardinality(Te!Drawing') <= sent'
      BY <1>1, <2>2, <2>3, <2>4
    <2>6. QED
      BY <2>3, <2>5 DEF TeDrawsCounted
  <1>6. Te!DrawnOnce'
    BY <1>1, <1>2, <1>3 DEF TeIInv, Te!DrawnOnce
  <1>7. Te!AnsweredStored'
    BY <1>1 DEF TeIInv, Te!AnsweredStored
  <1>8. QED
    BY <1>4, <1>5, <1>6, <1>7 DEF TeIInv

(* The number that is drawn is above all that were: atomic.AddUint64. *)
LEMMA TeDrawStep ==
  ASSUME TeIInv, NEW c \in Clients, Te!Draw(c)
  PROVE  TeIInv'
  <1> DEFINE k == <<teReq[c].label, seq + 1>>
             r == [op |-> "put", key |-> k, entry |-> teReq[c].entry]
  <1>0. /\ teReq \in [Clients -> Te!Request] /\ seq \in Nat /\ sent \in 0..MaxEntries
        /\ IsFiniteSet(Te!Drawing) /\ seq + Cardinality(Te!Drawing) <= sent /\ MaxEntries \in Nat
    BY ServicesAssumption DEF TeIInv, Te!Shape, TeDrawsCounted
  <1>1. /\ teReq[c].op = "draw" /\ seq' = seq + 1 /\ Te!Hold(c, r)
        /\ UNCHANGED <<entries, sent, teRestarts, answered>>
    BY DEF Te!Draw
  <1>2. c \in Te!Drawing
    BY <1>1 DEF Te!Drawing
  <1>3. /\ IsFiniteSet(Te!Drawing \ {c}) /\ Cardinality(Te!Drawing \ {c}) \in Nat
        /\ Cardinality(Te!Drawing \ {c}) = Cardinality(Te!Drawing) - 1 /\ Cardinality(Te!Drawing) \in Nat
    BY <1>0, <1>2, FS_RemoveElement, FS_CardinalityType
  <1>4. seq + 1 \in 1..MaxEntries
    BY <1>0, <1>3
  <1>5. k \in Te!Keys /\ k[2] = seq + 1
    BY <1>0, <1>1, <1>4, TeRequestFields DEF Te!Keys
  <1> HIDE DEF k
  <1>6. r \in Te!Request /\ r.op = "put" /\ r.key = k
    BY <1>0, <1>1, <1>5, TeRequestFields DEF Te!Request
  <1> HIDE DEF r
  <1>7. teReq'[c] = r /\ \A d \in Clients \ {c} : teReq'[d] = teReq[d]
    BY <1>1, TeHold DEF TeIInv
  <1>8. Te!Shape'
    <2>1. teReq' \in [Clients -> Te!Request]
      BY <1>0, <1>1, <1>6 DEF Te!Hold
    <2>2. QED
      BY <1>1, <2>1 DEF TeIInv, Te!Shape, Te!Keys, Te!Request, Te!NoReq
  <1>9. TeDrawsCounted'
    <2>1. Te!Drawing' = Te!Drawing \ {c}
      BY <1>6, <1>7 DEF Te!Drawing
    <2>2. QED
      BY <1>0, <1>1, <1>3, <2>1 DEF TeDrawsCounted
  <1>10. Te!DrawnOnce'
    <2>1. \A d \in Clients \ {c} : teReq[d].op = "put" => teReq[d].key[2] <= seq /\ teReq[d].key \in Te!Keys
      BY <1>0, TeRequestFields DEF TeIInv, Te!DrawnOnce
    <2>2. \A j \in Te!Keys : j[2] \in Nat
      BY DEF Te!Keys
    <2>3. \A d \in Clients \ {c} : teReq[d].op = "put" => teReq[d].key # k
      BY <1>0, <1>5, <2>1, <2>2
    <2>4. \A a \in answered : a.key \in Te!Keys /\ a.key[2] <= seq
      BY DEF TeIInv, Te!DrawnOnce, Te!Shape
    <2>5. \A a \in answered : a.key # k
      BY <1>0, <1>5, <2>2, <2>4
    <2>6. \A a \in answered : a.key[2] <= seq'
      BY <1>0, <1>1, <2>2, <2>4
    <2>7. \A d \in Clients : teReq'[d].op = "put" => teReq'[d].key[2] <= seq'
      BY <1>0, <1>1, <1>5, <1>6, <1>7, <2>1, <2>2
    <2>8. \A d \in Clients : teReq'[d].op = "put" => \A a \in answered : a.key # teReq'[d].key
      BY <1>6, <1>7, <2>5 DEF TeIInv, Te!DrawnOnce
    <2>9. \A d, e \in Clients : teReq'[d].op = "put" /\ teReq'[e].op = "put" /\ d # e => teReq'[d].key # teReq'[e].key
      BY <1>6, <1>7, <2>3 DEF TeIInv, Te!DrawnOnce
    <2>10. QED
      BY <1>1, <2>6, <2>7, <2>8, <2>9 DEF Te!DrawnOnce
  <1>11. Te!AnsweredStored'
    BY <1>1 DEF TeIInv, Te!AnsweredStored
  <1>12. QED
    BY <1>8, <1>9, <1>10, <1>11 DEF TeIInv

(* The entry is put where no other was. *)
LEMMA TePutStep ==
  ASSUME TeIInv, NEW c \in Clients, Te!Put(c)
  PROVE  TeIInv'
  <1> DEFINE a0 == [key |-> teReq[c].key, entry |-> teReq[c].entry]
  <1>0. teReq[c].op = "put" /\ teReq[c].key \in Te!Keys /\ teReq[c].entry \in 1..MaxEntries
    BY TeRequestFields DEF Te!Put, TeIInv, Te!Shape
  <1>1. /\ entries' = [entries EXCEPT ![teReq[c].key] = teReq[c].entry] /\ answered' = answered \cup {a0}
        /\ Te!Hold(c, Te!NoReq) /\ UNCHANGED <<seq, sent, teRestarts>>
    BY DEF Te!Put
  <1>2. a0.key = teReq[c].key /\ a0.entry = teReq[c].entry /\ a0 \in [key : Te!Keys, entry : 1..MaxEntries]
    BY <1>0
  <1> HIDE DEF a0
  <1>3. teReq'[c].op = "none" /\ \A d \in Clients \ {c} : teReq'[d] = teReq[d]
    BY <1>1, TeHold DEF TeIInv, Te!NoReq
  <1>4. Te!Shape'
    <2>1. teReq' \in [Clients -> Te!Request]
      BY <1>1 DEF TeIInv, Te!Shape, Te!Hold, Te!Request
    <2>2. entries' \in [Te!Keys -> 0..MaxEntries]
      BY <1>0, <1>1, ServicesAssumption DEF TeIInv, Te!Shape
    <2>3. QED
      BY <1>1, <1>2, <2>1, <2>2 DEF TeIInv, Te!Shape, Te!Keys, Te!Request, Te!NoReq
  <1>5. TeDrawsCounted'
    <2>1. Te!Drawing' = Te!Drawing
      BY <1>0, <1>3 DEF Te!Drawing
    <2>2. QED
      BY <1>1, <2>1 DEF TeIInv, TeDrawsCounted
  <1>6. Te!DrawnOnce'
    BY <1>0, <1>1, <1>2, <1>3 DEF TeIInv, Te!DrawnOnce
  <1>7. Te!AnsweredStored'
    <2>1. ASSUME NEW a \in answered PROVE entries'[a.key] = a.entry
      <3>1. a.key # teReq[c].key /\ a.key \in Te!Keys /\ entries[a.key] = a.entry
        BY <1>0 DEF TeIInv, Te!DrawnOnce, Te!AnsweredStored, Te!Shape
      <3>2. QED
        BY <1>0, <1>1, <3>1 DEF TeIInv, Te!Shape
    <2>2. entries'[a0.key] = a0.entry
      BY <1>0, <1>1, <1>2 DEF TeIInv, Te!Shape
    <2>3. QED
      BY <1>1, <2>1, <2>2 DEF Te!AnsweredStored
  <1>8. QED
    BY <1>4, <1>5, <1>6, <1>7 DEF TeIInv

(* A process starts with the counter at 0 and nothing answered. *)
LEMMA TeFresh ==
  ASSUME seq = 0, sent \in 0..MaxEntries, entries \in [Te!Keys -> 0..MaxEntries],
         teReq = [c \in Clients |-> Te!NoReq], answered = {}
  PROVE  TeIInv
  <1>1. \A c \in Clients : teReq[c].op = "none"
    BY DEF Te!NoReq
  <1>2. Te!Drawing = {}
    BY <1>1 DEF Te!Drawing
  <1>3. QED
    BY <1>1, <1>2, FS_EmptySet DEF TeIInv, Te!Shape, Te!Request, TeDrawsCounted, Te!DrawnOnce, Te!AnsweredStored

LEMMA TeFreshNext ==
  ASSUME seq' = 0, sent' \in 0..MaxEntries, entries' \in [Te!Keys -> 0..MaxEntries],
         teReq' = [c \in Clients |-> Te!NoReq], answered' = {}
  PROVE  TeIInv'
  <1>1. \A c \in Clients : teReq'[c].op = "none"
    BY DEF Te!NoReq
  <1>2. Te!Drawing' = {}
    BY <1>1 DEF Te!Drawing
  <1>3. QED
    BY <1>1, <1>2, FS_EmptySet DEF TeIInv, Te!Shape, Te!Keys, Te!Request, Te!NoReq, TeDrawsCounted,
                                   Te!DrawnOnce, Te!AnsweredStored

LEMMA TeStep == TeIInv /\ [Te!Next]_te => TeIInv'
  <1> SUFFICES ASSUME TeIInv, [Te!Next]_te PROVE TeIInv'
    OBVIOUS
  <1>1. CASE UNCHANGED te
    BY <1>1 DEF te, TeIInv, Te!Shape, Te!Keys, Te!Request, Te!NoReq, TeDrawsCounted, Te!Drawing,
                Te!DrawnOnce, Te!AnsweredStored
  <1>2. CASE Te!Restart
    BY <1>2, TeFreshNext DEF Te!Restart, TeIInv, Te!Shape
  <1>3. QED
    BY <1>1, <1>2, TeNextEntryStep, TeDrawStep, TePutStep DEF Te!Next

(* An entry that was answered since the process started is listed: the       *)
(* number drawn under atomic.AddUint64 is one that no other entry of this    *)
(* process has, so that its key is its own.                                  *)
LEMMA EntriesStayListed == ServicesSpec => [](surface = "telemetry" => Te!EntryKept)
  <1>1. ServicesInit => TeIInv
    <2> SUFFICES ASSUME Te!Init PROVE TeIInv
      BY DEF ServicesInit
    <2>1. sent \in 0..MaxEntries /\ entries \in [Te!Keys -> 0..MaxEntries]
      BY ServicesAssumption DEF Te!Init
    <2>2. QED
      BY <2>1, TeFresh DEF Te!Init
  <1>2. [ServicesNext]_servicesVars => [Te!Next]_te
    BY DEF ServicesNext, servicesVars
  <1>3. TeIInv /\ [ServicesNext]_servicesVars => TeIInv'
    BY <1>2, TeStep
  <1>4. TeIInv => Te!EntryKept
    <2> SUFFICES ASSUME TeIInv, NEW a \in answered PROVE a.entry \in Te!HandleList \cap Te!List(a.key[1])
      BY DEF Te!EntryKept
    <2>1. a.key \in Te!Keys /\ a.entry \in 1..MaxEntries /\ entries[a.key] = a.entry
      BY DEF TeIInv, Te!Shape, Te!AnsweredStored
    <2>2. a.key \in {a.key[1]} \X (1..MaxEntries) /\ a.entry # 0
      BY <2>1, ServicesAssumption DEF Te!Keys
    <2>3. QED
      BY <2>1, <2>2 DEF Te!HandleList, Te!List
  <1>5. QED
    BY <1>1, <1>3, <1>4, PTL DEF ServicesSpec

-----------------------------------------------------------------------------
(* Logging filters. *)

(* A lexeme of the right kind for its place in a filter. *)
LfPlaced(i) ==
    /\ i % 4 = 1 => input[i].kind = "ident"
    /\ i % 4 = 2 => input[i].kind = "op"
    /\ i % 4 = 3 => input[i].kind \in {"ident", "string"}
    /\ i % 4 = 0 => input[i].kind = "and"

(* The predicate whose field is at place i. *)
LfClauseAt(i) ==
    [field |-> input[i].text, op |-> input[i + 1].text, word |-> input[i + 2].text]

LfBuilds(c) == Lf!Builds(c.field, c.op, c.word)

LfText == {l.text : l \in Lf!Lexeme}

LfPredicate == [field : LfText, op : LfText, word : LfText]

(* As long as the parser has refused nothing, each lexeme is of the kind its *)
(* place asks for, the predicates are those of the complete clauses, and the *)
(* open clause holds the lexemes since the last of them.                     *)
LfReading ==
    /\ expects = "field" => Len(input) = 4 * Len(pred)
    /\ expects = "op" => /\ Len(input) = 4 * Len(pred) + 1
                         /\ clause = [field |-> input[Len(input)].text]
    /\ expects = "value" => /\ Len(input) = 4 * Len(pred) + 2
                            /\ clause = [field |-> input[Len(input) - 1].text,
                                         op |-> input[Len(input)].text]
    /\ expects = "and" => Len(input) = 4 * Len(pred) - 1
    /\ expects # "error" =>
          /\ \A i \in 1..Len(input) : LfPlaced(i)
          /\ \A k \in 1..Len(pred) : pred[k] = LfClauseAt(4 * k - 3) /\ LfBuilds(pred[k])

(* What makes the parser refuse stays in the filter: a lexeme out of place,  *)
(* or a clause that buildPredicate does not take.                            *)
LfRefused ==
    expects = "error" =>
        \E i \in 1..Len(input) :
            \/ ~LfPlaced(i)
            \/ i % 4 = 1 /\ i + 2 <= Len(input) /\ ~LfBuilds(LfClauseAt(i))

LfIInv ==
    /\ input \in Seq(Lf!Lexeme)
    /\ pred \in Seq(LfPredicate)
    /\ expects \in {"field", "op", "value", "and", "error"}
    /\ LfReading
    /\ LfRefused

LEMMA LfRemainders ==
  ASSUME NEW n \in Nat
  PROVE  /\ n % 4 \in 0..3
         /\ n % 4 = 0 => (n + 1) % 4 = 1
         /\ n % 4 = 1 => (n + 1) % 4 = 2
         /\ n % 4 = 2 => (n + 1) % 4 = 3 /\ n > 1 /\ (n - 1) % 4 = 1
         /\ n % 4 = 3 => (n + 1) % 4 = 0
  OBVIOUS

LEMMA LfQuotients ==
  ASSUME NEW k \in Nat
  PROVE  /\ (4 * k) % 4 = 0 /\ (4 * k + 1) % 4 = 1 /\ (4 * k + 2) % 4 = 2
         /\ (4 * k - 1) % 4 = 3
  OBVIOUS

LEMMA LfLexemes ==
  ASSUME NEW l \in Lf!Lexeme
  PROVE  /\ l.text \in LfText
         /\ l.kind = "op" => l.text \in Lf!Ops
         /\ l.kind \in {"ident", "op", "string", "and"} => Lf!Tokenizes(l)
  <1>1. ASSUME l \in [kind : {"op"}, text : Lf!Ops]
        PROVE  (l.kind = "op" => l.text \in Lf!Ops) /\ (l.kind \in {"ident", "op", "string", "and"} => Lf!Tokenizes(l))
    BY <1>1 DEF Lf!Ops, Lf!Tokenizes
  <1>2. ASSUME l \in [kind : {"ident"}, text : Lf!Fields \cup {"ERROR", "a"}]
        PROVE  (l.kind = "op" => l.text \in Lf!Ops) /\ (l.kind \in {"ident", "op", "string", "and"} => Lf!Tokenizes(l))
    BY <1>2 DEF Lf!Fields, Lf!Tokenizes
  <1>3. ASSUME l \in [kind : {"string"}, text : Lf!Words]
        PROVE  (l.kind = "op" => l.text \in Lf!Ops) /\ (l.kind \in {"ident", "op", "string", "and"} => Lf!Tokenizes(l))
    BY <1>3 DEF Lf!Words, Lf!Tokenizes
  <1>4. ASSUME l \in [kind : {"and"}, text : {"AND"}]
        PROVE  (l.kind = "op" => l.text \in Lf!Ops) /\ (l.kind \in {"ident", "op", "string", "and"} => Lf!Tokenizes(l))
    BY <1>4 DEF Lf!Tokenizes
  <1>5. ASSUME l \in [kind : {"number"}, text : {"200"}] \cup [kind : {"refused"}, text : {"(", "OR", "!"}]
        PROVE  (l.kind = "op" => l.text \in Lf!Ops) /\ (l.kind \in {"ident", "op", "string", "and"} => Lf!Tokenizes(l))
    BY <1>5
  <1>6. l.text \in LfText
    BY DEF LfText
  <1>7. QED
    BY <1>1, <1>2, <1>3, <1>4, <1>5, <1>6 DEF Lf!Lexeme

(* The lexemes read before stay where they are. *)
LEMMA LfAppended ==
  ASSUME input \in Seq(Lf!Lexeme), NEW l \in Lf!Lexeme, input' = Append(input, l)
  PROVE  /\ input' \in Seq(Lf!Lexeme)
         /\ Len(input') = Len(input) + 1 /\ Len(input) \in Nat
         /\ input'[Len(input) + 1] = l
         /\ \A i \in 1..Len(input) : input'[i] = input[i] /\ (LfPlaced(i)' <=> LfPlaced(i))
         /\ \A i \in 1..Len(input) - 2 : LfClauseAt(i)' = LfClauseAt(i)
  <1>1. /\ input' \in Seq(Lf!Lexeme)
        /\ Len(input') = Len(input) + 1 /\ Len(input) \in Nat
        /\ input'[Len(input) + 1] = l
        /\ \A i \in 1..Len(input) : input'[i] = input[i]
    OBVIOUS
  <1>2. ASSUME NEW i \in 1..Len(input) PROVE LfPlaced(i)' <=> LfPlaced(i)
    BY <1>1 DEF LfPlaced
  <1>3. ASSUME NEW i \in 1..Len(input) - 2 PROVE LfClauseAt(i)' = LfClauseAt(i)
    <2>1. i \in 1..Len(input) /\ i + 1 \in 1..Len(input) /\ i + 2 \in 1..Len(input)
      BY <1>1
    <2>2. QED
      BY <1>1, <2>1 DEF LfClauseAt
  <1>4. QED
    BY <1>1, <1>2, <1>3

LEMMA LfPlacedKept ==
  ASSUME LfIInv, NEW l \in Lf!Lexeme, input' = Append(input, l), expects # "error",
         NEW n \in Nat, n = Len(input), LfPlaced(n + 1)'
  PROVE  \A i \in 1..n + 1 : LfPlaced(i)'
  <1> SUFFICES ASSUME NEW i \in 1..n + 1 PROVE LfPlaced(i)'
    OBVIOUS
  <1>1. CASE i \in 1..n
    <2>1. LfPlaced(i)
      BY <1>1 DEF LfIInv, LfReading
    <2>2. QED
      BY <1>1, <2>1, LfAppended DEF LfIInv
  <1>2. CASE i = n + 1
    BY <1>2
  <1>3. QED
    BY <1>1, <1>2

(* The clauses before the last lexemes stay what they are. *)
LEMMA LfPredKept ==
  ASSUME LfIInv, NEW l \in Lf!Lexeme, input' = Append(input, l), expects # "error",
         UNCHANGED pred
  PROVE  \A k \in 1..Len(pred) : pred'[k] = LfClauseAt(4 * k - 3)' /\ LfBuilds(pred'[k])
  <1> USE DEF LfIInv, LfReading
  <1> SUFFICES ASSUME NEW k \in 1..Len(pred)
               PROVE  pred[k] = LfClauseAt(4 * k - 3)' /\ LfBuilds(pred[k])
    OBVIOUS
  <1>1. Len(input) >= 4 * Len(pred) - 1 /\ Len(input) \in Nat /\ Len(pred) \in Nat
    OBVIOUS
  <1>2. 4 * k - 3 \in 1..Len(input) - 2
    BY <1>1
  <1>3. PICK i \in 1..Len(input) - 2 : i = 4 * k - 3
    BY <1>2
  <1>4. pred[k] = LfClauseAt(i) /\ LfBuilds(pred[k])
    BY <1>3
  <1>5. LfClauseAt(i)' = LfClauseAt(i)
    BY LfAppended
  <1>6. QED
    BY <1>3, <1>4, <1>5 DEF LfClauseAt

(* A lexeme out of place, or a clause that is not taken, is refused for good. *)
LEMMA LfRejectedStep ==
  ASSUME LfIInv, NEW l \in Lf!Lexeme, input' = Append(input, l), Lf!Rejected, expects # "error",
         NEW n \in Nat, n = Len(input),
         \/ ~LfPlaced(n + 1)'
         \/ /\ n % 4 = 2
            /\ ~LfBuilds([field |-> input[n - 1].text, op |-> input[n].text, word |-> l.text])
  PROVE  LfIInv'
  <1>0. /\ input' \in Seq(Lf!Lexeme) /\ Len(input') = Len(input) + 1 /\ Len(input) \in Nat
        /\ input'[Len(input) + 1] = l
        /\ \A i \in 1..Len(input) : input'[i] = input[i]
    BY LfAppended DEF LfIInv
  <1>1. expects' = "error" /\ pred' = pred
    BY DEF Lf!Rejected
  <1>2. LfRefused'
    <2>2. CASE ~LfPlaced(n + 1)'
      <3>1. n + 1 \in 1..Len(input')
        BY <1>0
      <3>2. QED
        BY <2>2, <3>1 DEF LfRefused
    <2>3. CASE /\ n % 4 = 2
               /\ ~LfBuilds([field |-> input[n - 1].text, op |-> input[n].text, word |-> l.text])
      <3>1. /\ n - 1 \in 1..Len(input') /\ (n - 1) % 4 = 1 /\ (n - 1) + 2 <= Len(input')
            /\ n - 1 \in 1..Len(input) /\ n \in 1..Len(input)
            /\ (n - 1) + 1 = n /\ (n - 1) + 2 = n + 1
        BY <1>0, <2>3, LfRemainders
      <3>2. LfClauseAt(n - 1)' = [field |-> input[n - 1].text, op |-> input[n].text,
                                  word |-> l.text]
        BY <1>0, <3>1 DEF LfClauseAt
      <3>3. ~LfBuilds(LfClauseAt(n - 1)')
        BY <2>3, <3>2
      <3>4. QED
        BY <3>1, <3>3 DEF LfRefused, LfBuilds, LfClauseAt
    <2>4. QED
      BY <2>2, <2>3
  <1>3. QED
    BY <1>0, <1>1, <1>2 DEF LfIInv, LfReading

(* Each step of the parser takes the lexeme its place asks for, or refuses. *)
LEMMA LfFieldStep ==
  ASSUME LfIInv, NEW l \in Lf!Lexeme, input' = Append(input, l), Lf!ParseField(l)
  PROVE  LfIInv'
  <1> PICK n \in Nat : n = Len(input)
    BY DEF LfIInv
  <1>1. /\ input' \in Seq(Lf!Lexeme) /\ Len(input') = n + 1 /\ input'[n + 1] = l
        /\ \A i \in 1..n : LfPlaced(i)' <=> LfPlaced(i)
    BY LfAppended DEF LfIInv
  <1>2. expects = "field" /\ n = 4 * Len(pred) /\ Len(pred) \in Nat
    BY DEF Lf!ParseField, LfIInv, LfReading
  <1>3. n % 4 = 0 /\ (n + 1) % 4 = 1
    BY <1>2, LfQuotients, LfRemainders
  <1>4. CASE Lf!Tokenizes(l) /\ l.kind = "ident"
    <2>1. expects' = "op" /\ clause' = [field |-> l.text] /\ pred' = pred
      BY <1>4 DEF Lf!ParseField
    <2>2. LfPlaced(n + 1)'
      BY <1>1, <1>3, <1>4 DEF LfPlaced
    <2>3. \A i \in 1..n + 1 : LfPlaced(i)'
      BY <1>2, <2>2, LfPlacedKept
    <2>4. \A k \in 1..Len(pred) : pred'[k] = LfClauseAt(4 * k - 3)' /\ LfBuilds(pred'[k])
      BY <1>2, <2>1, LfPredKept
    <2>5. QED
      BY <1>1, <1>2, <2>1, <2>3, <2>4 DEF LfIInv, LfReading, LfRefused
  <1>5. CASE ~(Lf!Tokenizes(l) /\ l.kind = "ident")
    <2>1. l.kind # "ident"
      BY <1>5, LfLexemes
    <2>2. ~LfPlaced(n + 1)'
      BY <1>1, <1>3, <2>1 DEF LfPlaced
    <2>3. QED
      BY <1>2, <1>5, <2>2, LfRejectedStep DEF Lf!ParseField
  <1>6. QED
    BY <1>4, <1>5

LEMMA LfOpStep ==
  ASSUME LfIInv, NEW l \in Lf!Lexeme, input' = Append(input, l), Lf!ParseOp(l)
  PROVE  LfIInv'
  <1> PICK n \in Nat : n = Len(input)
    BY DEF LfIInv
  <1>1. /\ input' \in Seq(Lf!Lexeme) /\ Len(input') = n + 1 /\ input'[n + 1] = l
        /\ \A i \in 1..n : input'[i] = input[i] /\ (LfPlaced(i)' <=> LfPlaced(i))
    BY LfAppended DEF LfIInv
  <1>2. expects = "op" /\ n = 4 * Len(pred) + 1 /\ Len(pred) \in Nat
    BY DEF Lf!ParseOp, LfIInv, LfReading
  <1>3. n % 4 = 1 /\ (n + 1) % 4 = 2 /\ n \in 1..n
    BY <1>2, LfQuotients, LfRemainders
  <1>4. CASE l.kind = "op"
    <2>1. expects' = "value" /\ clause' = [field |-> clause.field, op |-> l.text] /\ pred' = pred
      BY <1>4 DEF Lf!ParseOp
    <2>2. LfPlaced(n + 1)'
      BY <1>1, <1>3, <1>4 DEF LfPlaced
    <2>3. \A i \in 1..n + 1 : LfPlaced(i)'
      BY <1>2, <2>2, LfPlacedKept
    <2>4. \A k \in 1..Len(pred) : pred'[k] = LfClauseAt(4 * k - 3)' /\ LfBuilds(pred'[k])
      BY <1>2, <2>1, LfPredKept
    <2>5. clause = [field |-> input[n].text]
      BY <1>2 DEF LfIInv, LfReading
    <2>6. clause' = [field |-> input'[n].text, op |-> input'[n + 1].text]
      BY <1>1, <1>3, <2>1, <2>5
    <2>7. QED
      BY <1>1, <1>2, <2>1, <2>3, <2>4, <2>6 DEF LfIInv, LfReading, LfRefused
  <1>5. CASE l.kind # "op"
    <2>1. ~LfPlaced(n + 1)'
      BY <1>1, <1>3, <1>5 DEF LfPlaced
    <2>2. QED
      BY <1>2, <1>5, <2>1, LfRejectedStep DEF Lf!ParseOp
  <1>6. QED
    BY <1>4, <1>5

LEMMA LfAndStep ==
  ASSUME LfIInv, NEW l \in Lf!Lexeme, input' = Append(input, l), Lf!ParseAnd(l)
  PROVE  LfIInv'
  <1> PICK n \in Nat : n = Len(input)
    BY DEF LfIInv
  <1>1. /\ input' \in Seq(Lf!Lexeme) /\ Len(input') = n + 1 /\ input'[n + 1] = l
        /\ \A i \in 1..n : LfPlaced(i)' <=> LfPlaced(i)
    BY LfAppended DEF LfIInv
  <1>2. expects = "and" /\ n = 4 * Len(pred) - 1 /\ Len(pred) \in Nat
    BY DEF Lf!ParseAnd, LfIInv, LfReading
  <1>3. n % 4 = 3 /\ (n + 1) % 4 = 0
    BY <1>2, LfQuotients, LfRemainders
  <1>4. CASE l.kind = "and"
    <2>1. expects' = "field" /\ pred' = pred
      BY <1>4 DEF Lf!ParseAnd
    <2>2. LfPlaced(n + 1)'
      BY <1>1, <1>3, <1>4 DEF LfPlaced
    <2>3. \A i \in 1..n + 1 : LfPlaced(i)'
      BY <1>2, <2>2, LfPlacedKept
    <2>4. \A k \in 1..Len(pred) : pred'[k] = LfClauseAt(4 * k - 3)' /\ LfBuilds(pred'[k])
      BY <1>2, <2>1, LfPredKept
    <2>5. QED
      BY <1>1, <1>2, <2>1, <2>3, <2>4 DEF LfIInv, LfReading, LfRefused
  <1>5. CASE l.kind # "and"
    <2>1. ~LfPlaced(n + 1)'
      BY <1>1, <1>3, <1>5 DEF LfPlaced
    <2>2. QED
      BY <1>2, <1>5, <2>1, LfRejectedStep DEF Lf!ParseAnd
  <1>6. QED
    BY <1>4, <1>5

LEMMA LfValueStep ==
  ASSUME LfIInv, NEW l \in Lf!Lexeme, input' = Append(input, l), Lf!ParseValue(l)
  PROVE  LfIInv'
  <1> PICK n \in Nat : n = Len(input)
    BY DEF LfIInv
  <1>1. /\ input' \in Seq(Lf!Lexeme) /\ Len(input') = n + 1 /\ input'[n + 1] = l
        /\ \A i \in 1..n : input'[i] = input[i] /\ (LfPlaced(i)' <=> LfPlaced(i))
        /\ \A i \in 1..n - 2 : LfClauseAt(i)' = LfClauseAt(i)
    BY LfAppended DEF LfIInv
  <1>2. expects = "value" /\ n = 4 * Len(pred) + 2 /\ Len(pred) \in Nat
    BY DEF Lf!ParseValue, LfIInv, LfReading
  <1>3. n % 4 = 2 /\ (n + 1) % 4 = 3 /\ n \in 1..n /\ n - 1 \in 1..n
    BY <1>2, LfQuotients, LfRemainders
  <1>4. clause.field = input[n - 1].text /\ clause.op = input[n].text
    BY <1>2 DEF LfIInv, LfReading
  <1> DEFINE c == [field |-> input[n - 1].text, op |-> input[n].text, word |-> l.text]
             ok == Lf!Tokenizes(l) /\ l.kind \in {"string", "ident"} /\ LfBuilds(c)
  <1>5. \/ ok /\ expects' = "and" /\ pred' = Append(pred, c)
        \/ ~ok /\ Lf!Rejected
    BY <1>4 DEF Lf!ParseValue, LfBuilds
  <1>6. CASE ok /\ expects' = "and" /\ pred' = Append(pred, c)
    <2>1. c \in LfPredicate
      <3>1. input[n - 1] \in Lf!Lexeme /\ input[n] \in Lf!Lexeme
        BY <1>3 DEF LfIInv
      <3>2. QED
        BY <3>1, LfLexemes DEF LfPredicate
    <2>2. PICK m \in Nat : m = Len(pred)
      BY <1>2
    <2>3. /\ pred' \in Seq(LfPredicate) /\ Len(pred') = m + 1 /\ pred'[m + 1] = c
          /\ \A k \in 1..m : pred'[k] = pred[k]
      BY <1>6, <2>1, <2>2 DEF LfIInv
    <2>4. LfPlaced(n + 1)'
      BY <1>1, <1>3, <1>6 DEF LfPlaced
    <2>5. \A i \in 1..n + 1 : LfPlaced(i)'
      BY <1>2, <2>4, LfPlacedKept
    <2>6. ASSUME NEW k \in 1..m
          PROVE  pred'[k] = LfClauseAt(4 * k - 3)' /\ LfBuilds(pred'[k])
      <3>1. PICK i \in 1..n - 2 : i = 4 * k - 3
        BY <1>2, <2>2
      <3>2. pred[k] = LfClauseAt(i) /\ LfBuilds(pred[k])
        BY <1>2, <2>2, <3>1 DEF LfIInv, LfReading
      <3>3. QED
        BY <1>1, <2>3, <3>1, <3>2
    <2>7. c = LfClauseAt(n - 1)'
      <3>1. (n - 1) + 1 = n /\ (n - 1) + 2 = n + 1
        OBVIOUS
      <3>2. QED
        BY <1>1, <1>3, <3>1 DEF LfClauseAt
    <2>8. n - 1 = 4 * (m + 1) - 3
      BY <1>2, <2>2
    <2>9. ASSUME NEW k \in 1..m + 1
          PROVE  pred'[k] = LfClauseAt(4 * k - 3)' /\ LfBuilds(pred'[k])
      <3>1. CASE k \in 1..m
        BY <2>6, <3>1
      <3>2. CASE k = m + 1
        BY <1>6, <2>3, <2>7, <2>8, <3>2
      <3>3. QED
        BY <3>1, <3>2
    <2>10. Len(input') = 4 * Len(pred') - 1
      BY <1>1, <1>2, <2>2, <2>3
    <2> HIDE DEF c
    <2>11. QED
      BY <1>1, <1>6, <2>3, <2>5, <2>9, <2>10 DEF LfIInv, LfReading, LfRefused
  <1>7. CASE ~ok /\ Lf!Rejected
    <2>1. CASE l.kind \in {"string", "ident"}
      <3>1. ~LfBuilds(c)
        BY <1>7, <2>1, LfLexemes
      <3>2. QED
        BY <1>2, <1>3, <1>7, <3>1, LfRejectedStep
    <2>2. CASE l.kind \notin {"string", "ident"}
      <3>1. ~LfPlaced(n + 1)'
        BY <1>1, <1>3, <2>2 DEF LfPlaced
      <3>2. QED
        BY <1>2, <1>7, <3>1, LfRejectedStep
    <2>3. QED
      BY <2>1, <2>2
  <1>8. QED
    BY <1>5, <1>6, <1>7

LEMMA LfStep == LfIInv /\ [Lf!Next]_lf => LfIInv'
  <1> SUFFICES ASSUME LfIInv, [Lf!Next]_lf PROVE LfIInv'
    OBVIOUS
  <1>1. CASE UNCHANGED lf
    BY <1>1 DEF lf, LfIInv, LfReading, LfRefused, LfPlaced, LfClauseAt
  <1>2. CASE Lf!Next
    BY <1>2, LfFieldStep, LfOpStep, LfValueStep, LfAndStep DEF Lf!Next
  <1>3. QED
    BY <1>1, <1>2

(* What buildPredicate takes is what the subset of the language lists. *)
LEMMA LfNumbers ==
  /\ Lf!IsNumber("200") /\ Lf!IsNumber("+7")
  /\ \A w : Lf!IsNumber(w) => w \in {"200", "+7"}
  /\ DOMAIN Lf!Levels = {"ERROR", "INFO"} /\ DOMAIN Lf!Times = {"t1", "t2"}
  <1>1. Lf!IsNumber("200")
    BY DEF Lf!IsNumber, Lf!Bytes, Lf!IsDigit
  <1>2. Lf!IsNumber("+7")
    BY DEF Lf!IsNumber, Lf!Bytes, Lf!IsDigit
  <1>3. \A w : Lf!IsNumber(w) => w \in {"200", "+7"}
    BY DEF Lf!IsNumber, Lf!Bytes
  <1>4. DOMAIN Lf!Levels = {"ERROR", "INFO"} /\ DOMAIN Lf!Times = {"t1", "t2"}
    BY DEF Lf!Levels, Lf!Times
  <1>5. QED
    BY <1>1, <1>2, <1>3, <1>4

LEMMA LfMeaningful ==
  ASSUME NEW c, c.op \in Lf!Ops
  PROVE  LfBuilds(c) <=> Lf!Meaningful(c) /\ c.op # "=="
  BY LfNumbers DEF LfBuilds, Lf!Builds, Lf!Meaningful, Lf!Orders, Lf!Ops

(* Value reads the digits of "200". *)
LEMMA LfValue == Lf!Value("200") = 200
  <1>1. Lf!Bytes["200"] = <<50, 48, 48>> /\ Len(Lf!Bytes["200"]) = 3
    BY DEF Lf!Bytes
  <1> DEFINE F(f) == [i \in 0..Len(Lf!Bytes["200"]) |->
                        IF i = 0 THEN 0 ELSE 10 * f[i - 1] + ((Lf!Bytes["200"][i] - 48) % 256)]
             g == [i \in 0..3 |-> IF i = 0 THEN 0 ELSE IF i = 1 THEN 2 ELSE IF i = 2 THEN 20 ELSE 200]
             n == CHOOSE f : f = F(f)
  <1>2. g = F(g)
    BY <1>1
  <1>3. n = F(n)
    <2> HIDE DEF F, g
    <2>1. QED
      BY <1>2
  <1> HIDE DEF n
  <1>4. n[3] = 200
    <2>1. n[0] = 0
      BY <1>1, <1>3
    <2>2. n[1] = 10 * n[0] + ((50 - 48) % 256)
      BY <1>1, <1>3
    <2>3. n[2] = 10 * n[1] + ((48 - 48) % 256)
      BY <1>1, <1>3
    <2>4. n[3] = 10 * n[2] + ((48 - 48) % 256)
      BY <1>1, <1>3
    <2>5. QED
      BY <2>1, <2>2, <2>3, <2>4
  <1>5. Lf!Value("200") = n[Len(Lf!Bytes["200"])]
    BY DEF Lf!Value, n
  <1>6. QED
    BY <1>1, <1>4, <1>5

(* What an evaluator compares: six operators, on the sign of a difference. *)
LEMMA LfCompare ==
  ASSUME NEW a \in Int, NEW b \in Int, NEW op \in Lf!Ops, op # "=="
  PROVE  Lf!NumericCmp(op, a, b) <=> CASE a - b < 0 -> op \in {"!=", "<", "<="}
                                       [] a - b = 0 -> op \in {"=", "<=", ">="}
                                       [] OTHER -> op \in {"!=", ">", ">="}
  <1>1. /\ Lf!NumericCmp("=", a, b) <=> a = b
        /\ Lf!NumericCmp("!=", a, b) <=> a # b
        /\ Lf!NumericCmp(">", a, b) <=> a > b
        /\ Lf!NumericCmp(">=", a, b) <=> a >= b
        /\ Lf!NumericCmp("<", a, b) <=> a < b
        /\ Lf!NumericCmp("<=", a, b) <=> a <= b
    BY DEF Lf!NumericCmp
  <1>2. op \in {"=", "!=", ">", ">=", "<", "<="}
    BY DEF Lf!Ops
  <1>3. CASE a - b < 0
    <2>1. a < b /\ a # b /\ ~(a > b) /\ ~(a >= b) /\ a <= b
      BY <1>3
    <2>2. Lf!NumericCmp(op, a, b) <=> op \in {"!=", "<", "<="}
      BY <1>1, <1>2, <2>1
    <2>3. QED
      BY <1>3, <2>2
  <1>4. CASE a - b = 0
    <2>1. ~(a < b) /\ a = b /\ ~(a > b) /\ a >= b /\ a <= b
      BY <1>4
    <2>2. Lf!NumericCmp(op, a, b) <=> op \in {"=", "<=", ">="}
      BY <1>1, <1>2, <2>1
    <2>3. QED
      BY <1>4, <2>2
  <1>5. CASE a - b > 0
    <2>1. ~(a < b) /\ a # b /\ a > b /\ a >= b /\ ~(a <= b)
      BY <1>5
    <2>2. Lf!NumericCmp(op, a, b) <=> op \in {"!=", ">", ">="}
      BY <1>1, <1>2, <2>1
    <2>3. QED
      BY <1>5, <2>2
  <1>6. QED
    BY <1>3, <1>4, <1>5

LEMMA LfWords ==
  /\ Lf!Levels["ERROR"] = 500 /\ Lf!Levels["INFO"] = 200
  /\ Lf!Times["t1"] = 1 /\ Lf!Times["t2"] = 2
  /\ Lf!Number("ERROR") = 500 /\ Lf!Number("INFO") = 200 /\ Lf!Number("200") = 200
  /\ Lf!Number("t1") = 1 /\ Lf!Number("t2") = 2
  BY DEF Lf!Levels, Lf!Times, Lf!Number

LEMMA LfEntries ==
  ASSUME NEW e \in Lf!Entry
  PROVE  /\ e.timestamp \in Int
         /\ \E a \in Int : a = Lf!Rank(e.severity) /\ a = Lf!Number(e.severity)
  <1>1. e.severity \in {"ERROR", "INFO", ""}
    BY Zenon DEF Lf!Entry
  <1>2. e.timestamp \in Int
    <2>1. e.timestamp \in 1..2
      BY Zenon DEF Lf!Entry
    <2>2. QED
      BY <2>1
  <1>3. CASE e.severity = ""
    <2>1. Lf!Rank("") = 0 /\ Lf!Number("") = 0
      BY DEF Lf!Rank, Lf!Levels, Lf!Number
    <2>2. Lf!Rank(e.severity) = 0 /\ Lf!Number(e.severity) = 0
      BY <1>3, <2>1, Zenon
    <2>3. QED
      BY <1>2, <2>2
  <1>4. CASE e.severity \in {"ERROR", "INFO"}
    <2>1. Lf!Rank("ERROR") = 500 /\ Lf!Rank("INFO") = 200
      BY DEF Lf!Rank, Lf!Levels
    <2>2. QED
      BY <1>2, <1>4, <2>1, LfWords
  <1>5. QED
    BY <1>1, <1>2, <1>3, <1>4, Zenon

(* The evaluator of a predicate that is taken selects what it means. *)
LEMMA LfEvaluated ==
  ASSUME NEW c \in LfPredicate, c.op \in Lf!Ops, LfBuilds(c), c.word # "+7", NEW e \in Lf!Entry
  PROVE  Lf!Evaluate(c, e) <=> Lf!Meant(c, e)
  <1>1. CASE c.field = "severity"
    <2>1. c.word \in {"ERROR", "INFO", "200"} /\ c.op # "=="
      BY <1>1, LfNumbers DEF LfBuilds, Lf!Builds
    <2>2. PICK b \in Int : /\ b = Lf!Number(c.word)
                           /\ b = IF c.word \in DOMAIN Lf!Levels THEN Lf!Levels[c.word]
                                  ELSE Lf!Value(c.word)
      <3>1. CASE c.word = "ERROR"
        BY <3>1, LfWords, LfNumbers
      <3>2. CASE c.word = "INFO"
        BY <3>2, LfWords, LfNumbers
      <3>3. CASE c.word = "200"
        BY <3>3, LfWords, LfNumbers, LfValue
      <3>4. QED
        BY <2>1, <3>1, <3>2, <3>3
    <2>5. PICK a \in Int : a = Lf!Rank(e.severity) /\ a = Lf!Number(e.severity)
      BY LfEntries
    <2>6. Lf!Evaluate(c, e) <=> Lf!NumericCmp(c.op, a, b)
      BY <1>1, <2>2, <2>5 DEF Lf!Evaluate
    <2>7. Lf!Difference(c, e) = a - b
      BY <1>1, <2>2, <2>5 DEF Lf!Difference
    <2>8. QED
      BY <2>1, <2>6, <2>7, LfCompare DEF Lf!Meant
  <1>2. CASE c.field = "timestamp"
    <2>1. c.word \in {"t1", "t2"} /\ c.op # "=="
      BY <1>2, LfNumbers DEF LfBuilds, Lf!Builds
    <2>2. PICK b \in Int : b = Lf!Times[c.word] /\ b = Lf!Number(c.word)
      BY <2>1, LfWords
    <2>3. e.timestamp \in Int
      BY LfEntries
    <2>4. Lf!Evaluate(c, e) <=> Lf!NumericCmp(c.op, e.timestamp, b)
      BY <1>2, <2>2 DEF Lf!Evaluate
    <2>5. Lf!Difference(c, e) = e.timestamp - b
      BY <1>2, <2>2 DEF Lf!Difference
    <2>6. QED
      BY <2>1, <2>3, <2>4, <2>5, LfCompare DEF Lf!Meant
  <1>3. CASE c.field = "logName"
    BY <1>3 DEF LfBuilds, Lf!Builds, Lf!Evaluate, Lf!Difference, Lf!Meant
  <1>4. CASE c.field = "resource.type"
    BY <1>4 DEF LfBuilds, Lf!Builds, Lf!Evaluate, Lf!Difference, Lf!Meant
  <1>5. CASE c.field = "resource.labels.k"
    BY <1>5 DEF LfBuilds, Lf!Builds, Lf!Evaluate, Lf!Difference, Lf!Meant
  <1>6. QED
    BY <1>1, <1>2, <1>3, <1>4, <1>5 DEF LfBuilds, Lf!Builds

(* The predicates of an accepted filter are its clauses. *)
LEMMA LfClauses ==
  ASSUME LfIInv, expects = "and"
  PROVE  /\ Lf!Clauses = {pred[k] : k \in 1..Len(pred)}
         /\ \A k \in 1..Len(pred) : pred[k].op \in Lf!Ops
  <1>1. PICK n \in Nat, m \in Nat : n = Len(input) /\ m = Len(pred) /\ n = 4 * m - 1
    BY DEF LfIInv, LfReading
  <1>2. \A k \in 1..m : pred[k] = LfClauseAt(4 * k - 3)
    BY <1>1 DEF LfIInv, LfReading
  <1>3. \A k \in 1..m : 4 * k - 3 \in {j \in 1..n : j % 4 = 1}
    BY <1>1
  <1>4. ASSUME NEW j \in 1..n, j % 4 = 1 PROVE \E k \in 1..m : j = 4 * k - 3
    <2>1. j = 4 * (j \div 4) + 1 /\ j \div 4 \in Nat
      BY <1>4
    <2>2. (j \div 4) + 1 \in 1..m /\ j = 4 * ((j \div 4) + 1) - 3
      BY <1>1, <2>1
    <2>3. QED
      BY <2>2
  <1>5. Lf!Clauses = {LfClauseAt(j) : j \in {i \in 1..n : i % 4 = 1}}
    BY <1>1 DEF Lf!Clauses, LfClauseAt
  <1>6. Lf!Clauses = {pred[k] : k \in 1..m}
    BY <1>2, <1>3, <1>4, <1>5
  <1>7. ASSUME NEW k \in 1..m PROVE pred[k].op \in Lf!Ops
    <2>1. PICK i \in 1..n : i = 4 * k - 2 /\ i % 4 = 2
      BY <1>1
    <2>2. input[i] \in Lf!Lexeme /\ input[i].kind = "op"
      <3>1. LfPlaced(i)
        BY <1>1 DEF LfIInv, LfReading
      <3>2. input[i] \in Lf!Lexeme
        <4>1. input \in Seq(Lf!Lexeme) /\ i \in 1..Len(input)
          BY <1>1 DEF LfIInv
        <4>2. QED
          BY <4>1
      <3>3. input[i].kind = "op"
        BY <2>1, <3>1 DEF LfPlaced
      <3>4. QED
        BY <3>2, <3>3
    <2>3. pred[k].op = input[i].text
      <3>1. PICK h \in 1..n : h = 4 * k - 3 /\ h + 1 = i
        BY <1>1, <2>1
      <3>2. pred[k] = LfClauseAt(h)
        BY <1>2, <3>1
      <3>3. QED
        BY <3>1, <3>2 DEF LfClauseAt
    <2>4. QED
      BY <2>2, <2>3, LfLexemes
  <1>8. QED
    BY <1>1, <1>6, <1>7

(* filter.go takes a filter without an unquoted number for a value exactly  *)
(* when it is in the documented subset.                                     *)
LEMMA LfAcceptance == LfIInv => Lf!FilterAccepted
  <1> SUFFICES ASSUME LfIInv PROVE Lf!FilterAccepted
    OBVIOUS
  <1>1. CASE input = <<>>
    BY <1>1 DEF Lf!FilterAccepted, Lf!Accepted, Lf!WellFormed, Lf!Clauses
  <1>2. CASE expects = "and"
    <2>1. PICK n \in Nat, m \in Nat : n = Len(input) /\ m = Len(pred) /\ n = 4 * m - 1
      BY <1>2 DEF LfIInv, LfReading
    <2>2. ASSUME NEW k \in 1..m
          PROVE  pred[k].op # "==" /\ Lf!Meaningful(pred[k])
      <3>1. LfBuilds(pred[k]) /\ pred[k].op \in Lf!Ops
        BY <1>2, <2>1, LfClauses DEF LfIInv, LfReading
      <3>2. QED
        BY <3>1, LfMeaningful
    <2>3. \A c \in Lf!Clauses : Lf!Meaningful(c)
      BY <1>2, <2>1, <2>2, LfClauses
    <2>4. ASSUME NEW i \in 1..n, i % 4 = 2 PROVE input[i].text # "=="
      <3>1. i = 4 * (i \div 4) + 2 /\ i \div 4 \in Nat
        BY <2>4
      <3>2. PICK k \in 1..m : i = 4 * k - 2
        <4>1. (i \div 4) + 1 \in 1..m /\ i = 4 * ((i \div 4) + 1) - 2
          BY <2>1, <3>1
        <4>2. QED
          BY <4>1
      <3>3. PICK h \in 1..n : h = 4 * k - 3 /\ h + 1 = i
        BY <2>1, <3>2
      <3>4. pred[k] = LfClauseAt(h)
        BY <1>2, <2>1, <3>3 DEF LfIInv, LfReading
      <3>5. pred[k].op = input[i].text
        BY <3>3, <3>4 DEF LfClauseAt
      <3>6. QED
        BY <2>2, <3>5
    <2>5. n % 4 = 3
      BY <2>1, LfQuotients
    <2>6. ASSUME NEW i \in 1..n
          PROVE  CASE i % 4 = 1 -> input[i].kind = "ident"
                   [] i % 4 = 2 -> input[i].kind = "op" /\ input[i].text # "=="
                   [] i % 4 = 3 -> \/ input[i].kind \in {"ident", "string"}
                                   \/ input[i].kind = "number" /\ input[i - 2].text = "severity"
                   [] OTHER -> input[i].kind = "and"
      <3>1. LfPlaced(i)
        BY <1>2, <2>1 DEF LfIInv, LfReading
      <3>2. i % 4 \in 0..3
        BY LfRemainders
      <3>3. QED
        BY <2>4, <3>1, <3>2 DEF LfPlaced
    <2>7. Lf!WellFormed
      BY <2>1, <2>5, <2>6 DEF Lf!WellFormed
    <2>8. QED
      BY <1>2, <2>3, <2>7 DEF Lf!FilterAccepted, Lf!Accepted
  <1>3. CASE input # <<>> /\ expects # "and"
    <2> SUFFICES ASSUME ~Lf!UnquotedNumber, Lf!WellFormed,
                        \A c \in Lf!Clauses : Lf!Meaningful(c)
                 PROVE  FALSE
      BY <1>3 DEF Lf!FilterAccepted, Lf!Accepted
    <2>1. PICK n \in Nat : n = Len(input)
      BY DEF LfIInv
    <2>2. n % 4 = 3
      BY <1>3, <2>1 DEF Lf!WellFormed
    <2>3. expects = "error"
      <3>1. PICK m \in Nat : m = Len(pred)
        BY DEF LfIInv
      <3>2. n # 4 * m /\ n # 4 * m + 1 /\ n # 4 * m + 2
        BY <2>2, LfQuotients
      <3>3. QED
        BY <1>3, <2>1, <3>1, <3>2 DEF LfIInv, LfReading
    <2>4. PICK i \in 1..n : \/ ~LfPlaced(i)
                            \/ i % 4 = 1 /\ i + 2 <= n /\ ~LfBuilds(LfClauseAt(i))
      BY <2>1, <2>3 DEF LfIInv, LfRefused
    <2>5. \A j \in 1..n : /\ LfPlaced(j)
                          /\ j % 4 = 2 => input[j].kind = "op" /\ input[j].text # "=="
      <3> SUFFICES ASSUME NEW j \in 1..n
                   PROVE  /\ LfPlaced(j)
                          /\ j % 4 = 2 => input[j].kind = "op" /\ input[j].text # "=="
        OBVIOUS
      <3>1. (CASE j % 4 = 1 -> input[j].kind = "ident"
               [] j % 4 = 2 -> input[j].kind = "op" /\ input[j].text # "=="
               [] j % 4 = 3 -> \/ input[j].kind \in {"ident", "string"}
                               \/ input[j].kind = "number" /\ input[j - 2].text = "severity"
               [] OTHER -> input[j].kind = "and")
        BY <2>1 DEF Lf!WellFormed
      <3>2. j % 4 = 3 => input[j].kind # "number"
        BY <2>1 DEF Lf!UnquotedNumber
      <3>3. QED
        BY <3>1, <3>2 DEF LfPlaced
    <2>6. i % 4 = 1 /\ i + 2 <= n /\ ~LfBuilds(LfClauseAt(i))
      BY <2>4, <2>5
    <2>7. i + 1 \in 1..n /\ (i + 1) % 4 = 2
      BY <2>6, LfRemainders
    <2>8. input[i + 1].kind = "op" /\ input[i + 1].text # "==" /\ input[i + 1] \in Lf!Lexeme
      BY <2>1, <2>5, <2>7 DEF LfIInv
    <2>9. LfClauseAt(i).op \in Lf!Ops /\ LfClauseAt(i).op # "=="
      BY <2>8, LfLexemes DEF LfClauseAt
    <2>10. LfClauseAt(i) \in Lf!Clauses
      BY <2>1, <2>6 DEF Lf!Clauses, LfClauseAt
    <2>11. Lf!Meaningful(LfClauseAt(i))
      BY <2>10
    <2> HIDE DEF LfClauseAt
    <2>12. QED
      BY <2>6, <2>9, <2>11, LfMeaningful
  <1>4. QED
    BY <1>1, <1>2, <1>3

(* The evaluators of an accepted filter select what its clauses mean. *)
LEMMA LfSelection == LfIInv => Lf!FilterHonoured
  <1> SUFFICES ASSUME LfIInv, Lf!Accepted, \A c \in Lf!Clauses : c.word # "+7",
                      NEW e \in Lf!Entry
               PROVE  Lf!Matches(e) <=> \A c \in Lf!Clauses : Lf!Meant(c, e)
    BY DEF Lf!FilterHonoured
  <1>1. CASE expects = "and"
    <2>1. \A k \in 1..Len(pred) : Lf!Evaluate(pred[k], e) <=> Lf!Meant(pred[k], e)
      <3> SUFFICES ASSUME NEW k \in 1..Len(pred)
                   PROVE  Lf!Evaluate(pred[k], e) <=> Lf!Meant(pred[k], e)
        OBVIOUS
      <3>1. pred[k] \in LfPredicate /\ LfBuilds(pred[k])
        BY <1>1 DEF LfIInv, LfReading
      <3>2. pred[k].op \in Lf!Ops /\ pred[k].word # "+7"
        BY <1>1, LfClauses
      <3>3. QED
        BY <3>1, <3>2, LfEvaluated
    <2>2. QED
      BY <1>1, <2>1, LfClauses DEF Lf!Matches
  <1>2. CASE input = <<>> /\ expects # "and"
    <2>1. Len(pred) = 0
      BY <1>2 DEF LfIInv, LfReading, LfRefused
    <2>2. Lf!Clauses = {}
      BY <1>2 DEF Lf!Clauses
    <2>3. QED
      BY <2>1, <2>2 DEF Lf!Matches
  <1>3. QED
    BY <1>1, <1>2 DEF Lf!Accepted

LEMMA LfInitial == Lf!Init => LfIInv
  BY DEF Lf!Init, LfIInv, LfReading, LfRefused

(* An entry that entries:write or timeSeries has answered since the process  *)
(* started is listed, for every number of labels, entries, restarts and      *)
(* concurrent requests: the number drawn under atomic.AddUint64 is one that  *)
(* no other entry of this process has, so that its key is its own.  And      *)
(* among the filters of every length without an unquoted number for a value, *)
(* parseFilter takes exactly those of the documented subset, and the         *)
(* predicate it builds selects the entries that satisfy each clause, unless  *)
(* a quoted number has a sign.                                               *)
THEOREM LogsStayKept == ServicesSpec => []LogsKept
  <1>1. ServicesInit => LfIInv
    BY LfInitial DEF ServicesInit
  <1>2. [ServicesNext]_servicesVars => [Lf!Next]_lf
    BY DEF ServicesNext, servicesVars
  <1>3. LfIInv /\ [ServicesNext]_servicesVars => LfIInv'
    BY <1>2, LfStep
  <1>4. LfIInv /\ (surface = "telemetry" => Te!EntryKept) => LogsKept
    BY LfAcceptance, LfSelection DEF LogsKept
  <1>5. QED
    BY <1>1, <1>3, <1>4, EntriesStayListed, PTL DEF ServicesSpec

-----------------------------------------------------------------------------
(* BigQuery. *)

(* The tables that SQLite has to hold: those of the map, and those that the *)
(* DELETE in progress has taken out of the map and not dropped yet.         *)
BqDropping(t) == \E c \in Clients : bqReq[c].op = "drop" /\ t \in bqReq[c].left

BqLive == {t \in Tables : t \in tables \/ BqDropping(t)}

BqOpen(i) == pool[i].state # "closed"

(* c is using connection i. *)
BqUses(c, i) == bqReq[c].op # "none" /\ bqReq[c].conn = i

(* Service.mu is held by the one call that creates or drops tables, which   *)
(* nothing else changes under its feet.                                     *)
BqLocked ==
    /\ \A c \in Clients : mu = c <=> bqReq[c].op \in {"create", "drop"}
    /\ \A c \in Clients : bqReq[c].op = "create" => bqReq[c].table[1] \in datasets
    /\ \A c \in Clients : bqReq[c].op = "drop" => bqReq[c].left \cap tables = {}

(* A busy connection is in the hands of exactly one call. *)
BqConnected ==
    \A i \in Bq!Slots :
        /\ pool[i].state = "busy" <=> \E c \in Clients : BqUses(c, i)
        /\ \A c, d \in Clients : BqUses(c, i) /\ BqUses(d, i) => c = d

BqSingle == \A i, j \in Bq!Slots : BqOpen(i) /\ BqOpen(j) => i = j

BqApart == \A t, u \in BqLive : Physical[t] = Physical[u] => t = u

(* An open database has the live tables, one is open when there are any, and *)
(* the rows that were kept are in it.                                        *)
BqBacked ==
    /\ BqLive # {} => \E i \in Bq!Slots : BqOpen(i)
    /\ \A i \in Bq!Slots : BqOpen(i) => DOMAIN pool[i].db = {Physical[t] : t \in BqLive}
    /\ \A k \in kept : /\ k.table \in tables
                       /\ \A i \in Bq!Slots : BqOpen(i) => k.row \in pool[i].db[Physical[k.table]]

(* While no two calls have used the pool at once there is one database, and  *)
(* the map describes it.                                                     *)
BqIInv ==
    /\ Bq!TypeOK
    /\ BqLocked
    /\ BqConnected
    /\ ~apart => BqSingle /\ BqApart /\ BqBacked

LEMMA BqCardinality == \A S : Bq!Cardinality(S) = Cardinality(S)
  BY DEF Bq!Cardinality, Cardinality

LEMMA BqSlots ==
  /\ Cardinality(Clients) \in Nat
  /\ Bq!Slots = 1..Cardinality(Clients)
  /\ Bq!Slots \subseteq Nat /\ 0 \notin Bq!Slots
  <1>1. Cardinality(Clients) \in Nat
    BY BigQueryAssumption, FS_CardinalityType
  <1>2. Bq!Slots = 1..Cardinality(Clients)
    BY BqCardinality DEF Bq!Slots
  <1>3. QED
    BY <1>1, <1>2

(* The fields of a request are those of its operation. *)
LEMMA BqFields ==
  ASSUME NEW r \in Bq!Request
  PROVE  /\ r.op \in {"none", "create", "query", "drop", "insert"}
         /\ r.op = "none" => r = Bq!NoReq
         /\ r.op \in {"create", "query"} =>
               r \in [op : {"create", "query"}, table : Tables, conn : Bq!Slots \cup {0}]
         /\ r.op = "drop" =>
               r \in [op : {"drop"}, left : (SUBSET Tables) \ {{}}, conn : Bq!Slots \cup {0}]
         /\ r.op = "insert" =>
               r \in [op : {"insert"}, table : Tables, left : (SUBSET Bq!Rows) \ {{}},
                      conn : Bq!Slots \cup {0}]
         /\ r.op # "none" => r.conn \in Bq!Slots \cup {0}
  BY DEF Bq!Request, Bq!NoReq

LEMMA BqIdle == Bq!NoReq.op = "none" /\ Bq!NoReq \in Bq!Request
  BY DEF Bq!NoReq, Bq!Request

(* What a statement makes of a database is one. *)
LEMMA BqDatabase ==
  ASSUME NEW db
  PROVE  db \in Bq!Database <=> DOMAIN db \subseteq Names /\ db \in [DOMAIN db -> SUBSET Bq!Rows]
  BY DEF Bq!Database

LEMMA BqEmpty == Bq!Empty \in Bq!Database /\ DOMAIN Bq!Empty = {}
  BY BqDatabase DEF Bq!Empty

LEMMA BqCreated ==
  ASSUME NEW db \in Bq!Database, NEW n \in Names
  PROVE  /\ Bq!Created(db, n) \in Bq!Database
         /\ DOMAIN Bq!Created(db, n) = DOMAIN db \cup {n}
         /\ \A m \in DOMAIN db : m # n => Bq!Created(db, n)[m] = db[m]
  <1>1. DOMAIN db \subseteq Names /\ db \in [DOMAIN db -> SUBSET Bq!Rows]
    BY BqDatabase
  <1>2. DOMAIN Bq!Created(db, n) = DOMAIN db \cup {n}
    BY DEF Bq!Created
  <1>3. Bq!Created(db, n) \in [DOMAIN db \cup {n} -> SUBSET Bq!Rows]
    BY <1>1 DEF Bq!Created
  <1>4. Bq!Created(db, n) \in Bq!Database
    BY <1>1, <1>2, <1>3, BqDatabase
  <1>5. QED
    BY <1>2, <1>4 DEF Bq!Created

LEMMA BqRestricted ==
  ASSUME NEW db \in Bq!Database, NEW n
  PROVE  /\ Bq!Restrict(db, DOMAIN db \ {n}) \in Bq!Database
         /\ DOMAIN Bq!Restrict(db, DOMAIN db \ {n}) = DOMAIN db \ {n}
         /\ \A m \in DOMAIN db : m # n => Bq!Restrict(db, DOMAIN db \ {n})[m] = db[m]
  <1>1. DOMAIN db \subseteq Names /\ db \in [DOMAIN db -> SUBSET Bq!Rows]
    BY BqDatabase
  <1>2. DOMAIN Bq!Restrict(db, DOMAIN db \ {n}) = DOMAIN db \ {n}
    BY DEF Bq!Restrict
  <1>3. Bq!Restrict(db, DOMAIN db \ {n}) \in [DOMAIN db \ {n} -> SUBSET Bq!Rows]
    BY <1>1 DEF Bq!Restrict
  <1>4. Bq!Restrict(db, DOMAIN db \ {n}) \in Bq!Database
    BY <1>1, <1>2, <1>3, BqDatabase
  <1>5. QED
    BY <1>2, <1>4 DEF Bq!Restrict

LEMMA BqInserted ==
  ASSUME NEW db \in Bq!Database, NEW n \in DOMAIN db, NEW r \in Bq!Rows
  PROVE  /\ [db EXCEPT ![n] = @ \cup {r}] \in Bq!Database
         /\ DOMAIN [db EXCEPT ![n] = @ \cup {r}] = DOMAIN db
         /\ r \in [db EXCEPT ![n] = @ \cup {r}][n]
         /\ \A m \in DOMAIN db : db[m] \subseteq [db EXCEPT ![n] = @ \cup {r}][m]
  <1>1. DOMAIN db \subseteq Names /\ db \in [DOMAIN db -> SUBSET Bq!Rows]
    BY BqDatabase
  <1>2. /\ DOMAIN [db EXCEPT ![n] = @ \cup {r}] = DOMAIN db
        /\ [db EXCEPT ![n] = @ \cup {r}] \in [DOMAIN db -> SUBSET Bq!Rows]
    BY <1>1
  <1>3. [db EXCEPT ![n] = @ \cup {r}] \in Bq!Database
    BY <1>1, <1>2, BqDatabase
  <1>4. QED
    BY <1>1, <1>2, <1>3

(* There are as many connections as calls, so that one is left for a call    *)
(* that has none: DB.conn never makes it wait.                               *)
LEMMA BqOneLeft ==
  ASSUME BqIInv, NEW c \in Clients, BqUses(c, 0)
  PROVE  \E i \in Bq!Slots : Bq!CanTake(i)
  <1>1. \E i \in Bq!Slots : pool[i].state # "busy"
    <2> SUFFICES ASSUME \A i \in Bq!Slots : pool[i].state = "busy" PROVE FALSE
      OBVIOUS
    <2> DEFINE f == [i \in Bq!Slots |-> CHOOSE d \in Clients : BqUses(d, i)]
    <2>1. \A i \in Bq!Slots : f[i] \in Clients /\ BqUses(f[i], i)
      BY DEF BqIInv, BqConnected
    <2>2. f \in [Bq!Slots -> Clients \ {c}]
      BY <2>1, BqSlots DEF BqUses
    <2>3. \A i, j \in Bq!Slots : f[i] = f[j] => i = j
      BY <2>1 DEF BqUses
    <2>4. IsFiniteSet(Bq!Slots) /\ Cardinality(Bq!Slots) = Cardinality(Clients)
      BY BqSlots, FS_Interval
    <2>5. IsFiniteSet(Clients \ {c}) /\ Cardinality(Clients \ {c}) = Cardinality(Clients) - 1
      BY BigQueryAssumption, FS_RemoveElement
    <2>6. Cardinality(Clients \ {c}) < Cardinality(Bq!Slots)
      BY <2>4, <2>5, BqSlots
    <2> HIDE DEF f
    <2>7. QED
      BY <2>2, <2>3, <2>4, <2>5, <2>6, FS_PigeonHole
  <1>2. CASE Bq!InState("free") # {}
    BY <1>2 DEF Bq!CanTake, Bq!InState
  <1>3. CASE Bq!InState("free") = {}
    <2>1. Bq!InState("closed") # {} /\ Bq!InState("closed") \subseteq Bq!Slots
      BY <1>1, <1>3 DEF Bq!InState, BqIInv, Bq!TypeOK
    <2>2. PICK i \in Bq!InState("closed") : \A j \in Bq!InState("closed") : i <= j
      BY <2>1, BqSlots, LeastNumber
    <2>3. QED
      BY <1>3, <2>1, <2>2 DEF Bq!CanTake
  <1>4. QED
    BY <1>2, <1>3

(* Nobody waits in a circle: a call without a connection gets one, and if    *)
(* all calls have one and none is a create or a drop, mu is free.            *)
LEMMA BqNoCircle == BqIInv => Bq!NoCircularWait
  <1> SUFFICES ASSUME BqIInv, NEW c \in Clients, ~Bq!Idle(c) PROVE \E d \in Clients : Bq!CanGoOn(d)
    BY DEF Bq!NoCircularWait
  <1>0. \A d \in Clients : Bq!Idle(d) <=> bqReq[d].op = "none"
    BY BqFields, BqIdle DEF Bq!Idle, BqIInv, Bq!TypeOK
  <1>1. CASE \E d \in Clients : BqUses(d, 0)
    BY <1>0, <1>1, BqOneLeft DEF BqUses, Bq!CanGoOn
  <1>2. CASE (\A d \in Clients : ~BqUses(d, 0)) /\ \E d \in Clients : ~Bq!Idle(d) /\ bqReq[d].op # "query"
    BY <1>0, <1>2 DEF BqUses, Bq!CanGoOn
  <1>3. CASE \A d \in Clients : ~BqUses(d, 0) /\ (Bq!Idle(d) \/ bqReq[d].op = "query")
    <2>1. \A d \in Clients : bqReq[d].op \notin {"create", "drop"}
      BY <1>0, <1>3
    <2>2. mu = Bq!Nobody
      BY <2>1 DEF BqIInv, BqLocked, Bq!TypeOK
    <2>3. QED
      BY <1>0, <1>3, <2>2 DEF BqUses, Bq!CanGoOn, Bq!CanAnswer, Bq!FieldTypeIndex
  <1>4. QED
    BY <1>1, <1>2, <1>3

LEMMA BqMeans == BqIInv => Bq!TypeOK /\ Bq!TableBacked /\ Bq!RowsKept
  <1> SUFFICES ASSUME BqIInv PROVE Bq!TableBacked /\ Bq!RowsKept
    BY DEF BqIInv
  <1>1. Bq!TableBacked
    <2> SUFFICES ASSUME mu = Bq!Nobody, ~apart
                 PROVE  /\ \A t, u \in tables : Physical[t] = Physical[u] => t = u
                        /\ tables # {} => Bq!InState("closed") # Bq!Slots
                        /\ \A i \in Bq!Slots \ Bq!InState("closed") :
                              DOMAIN pool[i].db = {Physical[t] : t \in tables}
      BY DEF Bq!TableBacked
    <2>1. \A c \in Clients : bqReq[c].op # "drop"
      BY BigQueryAssumption DEF BqIInv, BqLocked, Bq!Nobody
    <2>2. BqLive = tables
      BY <2>1 DEF BqLive, BqDropping, BqIInv, Bq!TypeOK
    <2>3. QED
      BY <2>2 DEF BqIInv, BqApart, BqBacked, BqOpen, Bq!InState
  <1>2. Bq!RowsKept
    <2> SUFFICES ASSUME ~apart, NEW k \in kept
                 PROVE  \E i \in Bq!Slots : /\ Physical[k.table] \in DOMAIN pool[i].db
                                            /\ k.row \in pool[i].db[Physical[k.table]]
      BY DEF Bq!RowsKept
    <2>1. k.table \in BqLive
      BY DEF BqIInv, Bq!TypeOK, BqBacked, BqLive
    <2>2. PICK i \in Bq!Slots : BqOpen(i)
      BY <2>1 DEF BqIInv, BqBacked
    <2>3. QED
      BY <2>1, <2>2 DEF BqIInv, BqBacked
  <1>3. QED
    BY <1>1, <1>2

(* A call that starts has no connection yet, and the pool stays as it is. *)
LEMMA BqStarted ==
  ASSUME BqIInv, NEW c \in Clients, Bq!Idle(c), NEW r \in Bq!Request, r.op # "none", r.conn = 0,
         Bq!Hold(c, r), UNCHANGED pool
  PROVE  /\ bqReq' \in [Clients -> Bq!Request] /\ bqReq'[c] = r
         /\ \A d \in Clients \ {c} : bqReq'[d] = bqReq[d]
         /\ bqReq[c].op = "none"
         /\ BqConnected'
         /\ BqSingle' <=> BqSingle
  <1>1. /\ bqReq' \in [Clients -> Bq!Request] /\ bqReq'[c] = r
        /\ \A d \in Clients \ {c} : bqReq'[d] = bqReq[d]
    BY DEF BqIInv, Bq!TypeOK, Bq!Hold
  <1>2. bqReq[c].op = "none"
    BY BqIdle DEF Bq!Idle
  <1>3. \A d \in Clients, i \in Bq!Slots : BqUses(d, i)' <=> BqUses(d, i)
    BY <1>1, <1>2, BqSlots DEF BqUses
  <1>4. BqConnected'
    BY <1>3 DEF BqIInv, BqConnected
  <1>5. QED
    BY <1>1, <1>2, <1>4 DEF BqSingle, BqOpen

(* A step that leaves the tables and the drop in progress alone. *)
LEMMA BqLiveSame ==
  ASSUME NEW c \in Clients, tables' = tables,
         \A d \in Clients \ {c} : bqReq'[d] = bqReq[d],
         bqReq[c].op # "drop", bqReq'[c].op # "drop"
  PROVE  BqLive' = BqLive
  <1>1. \A t : BqDropping(t)' <=> BqDropping(t)
    BY DEF BqDropping
  <1>2. QED
    BY <1>1 DEF BqLive

LEMMA BqCreateStep ==
  ASSUME BqIInv, NEW c \in Clients, NEW t \in Tables, Bq!CreateTable(c, t)
  PROVE  BqIInv'
  <1> DEFINE r == [op |-> "create", table |-> t, conn |-> 0]
  <1>1. r \in Bq!Request /\ r.op = "create" /\ r.conn = 0 /\ r.table = t
    BY DEF Bq!Request
  <1>2. /\ Bq!Idle(c) /\ mu = Bq!Nobody /\ t[1] \in datasets /\ mu' = c /\ Bq!Hold(c, r)
        /\ UNCHANGED <<datasets, tables, pool, rowsSent, kept, apart>>
    BY DEF Bq!CreateTable
  <1> HIDE DEF r
  <1>3. /\ bqReq' \in [Clients -> Bq!Request] /\ bqReq'[c] = r
        /\ \A d \in Clients \ {c} : bqReq'[d] = bqReq[d]
        /\ bqReq[c].op = "none" /\ BqConnected' /\ (BqSingle' <=> BqSingle)
    BY <1>1, <1>2, BqStarted
  <1>4. BqLive' = BqLive
    BY <1>1, <1>2, <1>3, BqLiveSame
  <1>5. \A d \in Clients : bqReq[d].op \notin {"create", "drop"}
    BY <1>2, BigQueryAssumption DEF BqIInv, BqLocked, Bq!Nobody
  <1>6. BqLocked'
    BY <1>1, <1>2, <1>3, <1>5 DEF BqLocked
  <1>7. Bq!TypeOK'
    BY <1>2, <1>3 DEF BqIInv, Bq!TypeOK
  <1>8. ~apart' => BqApart' /\ BqBacked'
    BY <1>2, <1>4 DEF BqIInv, BqApart, BqBacked, BqOpen
  <1>9. QED
    BY <1>2, <1>3, <1>6, <1>7, <1>8 DEF BqIInv

LEMMA BqQueryStep ==
  ASSUME BqIInv, NEW c \in Clients, NEW t \in Tables, Bq!Query(c, t)
  PROVE  BqIInv'
  <1> DEFINE r == [op |-> "query", table |-> t, conn |-> 0]
  <1>1. r \in Bq!Request /\ r.op = "query" /\ r.conn = 0
    BY DEF Bq!Request
  <1>2. /\ Bq!Idle(c) /\ Bq!Hold(c, r)
        /\ UNCHANGED <<datasets, tables, mu, pool, rowsSent, kept, apart>>
    BY DEF Bq!Query
  <1> HIDE DEF r
  <1>3. /\ bqReq' \in [Clients -> Bq!Request] /\ bqReq'[c] = r
        /\ \A d \in Clients \ {c} : bqReq'[d] = bqReq[d]
        /\ bqReq[c].op = "none" /\ BqConnected' /\ (BqSingle' <=> BqSingle)
    BY <1>1, <1>2, BqStarted
  <1>4. BqLive' = BqLive
    BY <1>1, <1>2, <1>3, BqLiveSame
  <1>6. BqLocked'
    BY <1>1, <1>2, <1>3 DEF BqIInv, BqLocked
  <1>7. Bq!TypeOK'
    BY <1>2, <1>3 DEF BqIInv, Bq!TypeOK
  <1>8. ~apart' => BqApart' /\ BqBacked'
    BY <1>2, <1>4 DEF BqIInv, BqApart, BqBacked, BqOpen
  <1>9. QED
    BY <1>2, <1>3, <1>6, <1>7, <1>8 DEF BqIInv

LEMMA BqInsertStep ==
  ASSUME BqIInv, NEW c \in Clients, NEW t \in Tables, NEW n \in 1..2, Bq!InsertAll(c, t, n)
  PROVE  BqIInv'
  <1> DEFINE r == [op |-> "insert", table |-> t, left |-> rowsSent + 1 .. rowsSent + n, conn |-> 0]
  <1>1. r \in Bq!Request /\ r.op = "insert" /\ r.conn = 0
    <2>1. rowsSent \in Nat /\ rowsSent + n <= MaxRows /\ MaxRows \in Nat
      BY BigQueryAssumption DEF Bq!InsertAll, BqIInv, Bq!TypeOK
    <2>2. rowsSent + 1 .. rowsSent + n \in (SUBSET Bq!Rows) \ {{}}
      <3>1. rowsSent + 1 \in rowsSent + 1 .. rowsSent + n
        BY <2>1
      <3>2. \A x \in rowsSent + 1 .. rowsSent + n : x \in Bq!Rows
        BY <2>1 DEF Bq!Rows
      <3>3. QED
        BY <3>1, <3>2
    <2>3. QED
      BY <2>2 DEF Bq!Request
  <1>2. /\ Bq!Idle(c) /\ Bq!Hold(c, r) /\ rowsSent' = rowsSent + n /\ rowsSent + n <= MaxRows
        /\ UNCHANGED <<datasets, tables, mu, pool, kept, apart>>
    BY DEF Bq!InsertAll
  <1> HIDE DEF r
  <1>3. /\ bqReq' \in [Clients -> Bq!Request] /\ bqReq'[c] = r
        /\ \A d \in Clients \ {c} : bqReq'[d] = bqReq[d]
        /\ bqReq[c].op = "none" /\ BqConnected' /\ (BqSingle' <=> BqSingle)
    BY <1>1, <1>2, BqStarted
  <1>4. BqLive' = BqLive
    BY <1>1, <1>2, <1>3, BqLiveSame
  <1>6. BqLocked'
    BY <1>1, <1>2, <1>3 DEF BqIInv, BqLocked
  <1>7. Bq!TypeOK'
    BY <1>2, <1>3, BigQueryAssumption DEF BqIInv, Bq!TypeOK
  <1>8. ~apart' => BqApart' /\ BqBacked'
    BY <1>2, <1>4 DEF BqIInv, BqApart, BqBacked, BqOpen
  <1>9. QED
    BY <1>2, <1>3, <1>6, <1>7, <1>8 DEF BqIInv

(* DELETE of a table or of a dataset: the tables leave the map, and are live *)
(* until they are dropped.                                                   *)
LEMMA BqDropStarted ==
  ASSUME BqIInv, NEW c \in Clients, Bq!Idle(c), NEW ts \in SUBSET tables, ts # {},
         Bq!DropTables(c, ts), UNCHANGED <<pool, rowsSent, apart>>,
         datasets' \subseteq Bq!Datasets, \A t \in tables \ ts : t[1] \in datasets'
  PROVE  BqIInv'
  <1> DEFINE r == [op |-> "drop", left |-> ts, conn |-> 0]
  <1>0. ts \in (SUBSET Tables) \ {{}}
    BY DEF BqIInv, Bq!TypeOK
  <1>1. r \in Bq!Request /\ r.op = "drop" /\ r.conn = 0 /\ r.left = ts
    BY <1>0 DEF Bq!Request
  <1>2. /\ mu = Bq!Nobody /\ mu' = c /\ tables' = tables \ ts /\ Bq!Hold(c, r)
        /\ kept' = {k \in kept : k.table \notin ts}
    BY DEF Bq!DropTables
  <1> HIDE DEF r
  <1>3. /\ bqReq' \in [Clients -> Bq!Request] /\ bqReq'[c] = r
        /\ \A d \in Clients \ {c} : bqReq'[d] = bqReq[d]
        /\ bqReq[c].op = "none" /\ BqConnected' /\ (BqSingle' <=> BqSingle)
    BY <1>1, <1>2, BqStarted
  <1>4. \A d \in Clients : bqReq[d].op \notin {"create", "drop"}
    BY <1>2, BigQueryAssumption DEF BqIInv, BqLocked, Bq!Nobody
  <1>5. BqLive' = BqLive
    <2>1. \A t : ~BqDropping(t)
      BY <1>4 DEF BqDropping
    <2>2. \A t : BqDropping(t)' <=> t \in ts
      BY <1>1, <1>3, <1>4 DEF BqDropping
    <2>3. QED
      BY <1>0, <1>2, <2>1, <2>2 DEF BqLive
  <1>6. BqLocked'
    BY <1>1, <1>2, <1>3, <1>4 DEF BqLocked
  <1>7. Bq!TypeOK'
    BY <1>2, <1>3 DEF BqIInv, Bq!TypeOK
  <1>8. ~apart' => BqApart' /\ BqBacked'
    BY <1>2, <1>5 DEF BqIInv, BqApart, BqBacked, BqOpen
  <1>9. QED
    BY <1>3, <1>6, <1>7, <1>8 DEF BqIInv

LEMMA BqDeleteStep ==
  ASSUME BqIInv, NEW c \in Clients,
         \/ \E t \in Tables : Bq!DeleteTable(c, t)
         \/ \E d \in Bq!Datasets : Bq!DeleteDataset(c, d)
  PROVE  BqIInv'
  <1>1. ASSUME NEW t \in Tables, Bq!DeleteTable(c, t) PROVE BqIInv'
    BY <1>1, BqDropStarted DEF Bq!DeleteTable, BqIInv, Bq!TypeOK
  <1>2. ASSUME NEW d \in Bq!Datasets, Bq!DeleteDataset(c, d) PROVE BqIInv'
    <2>1. {t \in tables : t[1] = d} \in SUBSET tables /\ {t \in tables : t[1] = d} # {}
      BY <1>2 DEF Bq!DeleteDataset
    <2>2. datasets' \subseteq Bq!Datasets /\ \A t \in tables \ {u \in tables : u[1] = d} : t[1] \in datasets'
      BY <1>2 DEF Bq!DeleteDataset, BqIInv, Bq!TypeOK
    <2>3. QED
      BY <1>2, <2>1, <2>2, BqDropStarted DEF Bq!DeleteDataset
  <1>3. QED
    BY <1>1, <1>2

LEMMA BqDatasetStep ==
  ASSUME BqIInv, NEW d \in Bq!Datasets, Bq!CreateDataset(d) \/ Bq!DeleteEmptyDataset(d)
  PROVE  BqIInv'
  <1>1. /\ mu = Bq!Nobody /\ datasets' \subseteq Bq!Datasets
        /\ \A t \in tables : t[1] \in datasets'
        /\ UNCHANGED <<tables, mu, pool, bqReq, rowsSent, kept, apart>>
    BY DEF Bq!CreateDataset, Bq!DeleteEmptyDataset, BqIInv, Bq!TypeOK
  <1>2. \A c \in Clients : bqReq[c].op \notin {"create", "drop"}
    BY <1>1, BigQueryAssumption DEF BqIInv, BqLocked, Bq!Nobody
  <1>3. BqLocked'
    BY <1>1, <1>2 DEF BqIInv, BqLocked
  <1>4. Bq!TypeOK'
    BY <1>1 DEF BqIInv, Bq!TypeOK
  <1>5. BqConnected' /\ (~apart' => BqSingle' /\ BqApart' /\ BqBacked')
    BY <1>1 DEF BqIInv, BqConnected, BqUses, BqSingle, BqApart, BqBacked, BqOpen, BqLive, BqDropping
  <1>6. QED
    BY <1>3, <1>4, <1>5 DEF BqIInv

(* DB.conn: while no two calls use the pool at once, a call takes the only   *)
(* database there is, or opens the first one, when no table is live.         *)
LEMMA BqAcquireStep ==
  ASSUME BqIInv, NEW c \in Clients, NEW i \in Bq!Slots, Bq!Acquire(c, i)
  PROVE  BqIInv'
  <1> DEFINE r == [bqReq[c] EXCEPT !.conn = i]
  <1>0. /\ bqReq[c].op \in {"create", "drop", "insert", "query"} /\ bqReq[c].conn = 0
        /\ Bq!CanTake(i) /\ Bq!Hold(c, r) /\ apart' = (apart \/ Bq!InState("busy") # {})
        /\ UNCHANGED <<datasets, tables, mu, rowsSent, kept>>
    BY DEF Bq!Acquire, Bq!TakeConn
  <1>1. /\ r \in Bq!Request /\ r.op = bqReq[c].op /\ r.conn = i
        /\ r.op = "create" => r.table = bqReq[c].table
        /\ r.op = "drop" => r.left = bqReq[c].left
    <2>1. bqReq[c] \in Bq!Request
      BY DEF BqIInv, Bq!TypeOK
    <2>2. QED
      BY <1>0, <2>1, BqFields DEF Bq!Request
  <1> HIDE DEF r
  <1>2. /\ bqReq' \in [Clients -> Bq!Request] /\ bqReq'[c] = r
        /\ \A d \in Clients \ {c} : bqReq'[d] = bqReq[d]
    BY <1>0, <1>1 DEF BqIInv, Bq!TypeOK, Bq!Hold
  <1>3. PICK db \in Bq!Database :
            /\ db = IF i \in Bq!InState("free") THEN pool[i].db ELSE Bq!Empty
            /\ pool' = [pool EXCEPT ![i] = [state |-> "busy", db |-> db]]
    <2>1. (IF i \in Bq!InState("free") THEN pool[i].db ELSE Bq!Empty) \in Bq!Database
      BY BqEmpty DEF BqIInv, Bq!TypeOK
    <2>2. QED
      BY <2>1 DEF Bq!Acquire, Bq!TakeConn
  <1>4. /\ pool' \in [Bq!Slots -> [state : {"free", "busy", "closed"}, db : Bq!Database]]
        /\ pool'[i] = [state |-> "busy", db |-> db]
        /\ \A j \in Bq!Slots \ {i} : pool'[j] = pool[j]
    BY <1>3 DEF BqIInv, Bq!TypeOK
  <1>5. pool[i].state # "busy"
    BY <1>0 DEF Bq!CanTake, Bq!InState
  <1>6. BqConnected'
    <2>1. \A d \in Clients : ~BqUses(d, i)
      BY <1>5 DEF BqIInv, BqConnected
    <2>2. \A d \in Clients, j \in Bq!Slots : BqUses(d, j)' <=> BqUses(d, j) \/ (d = c /\ j = i)
      BY <1>0, <1>1, <1>2, BqSlots DEF BqUses
    <2>3. ASSUME NEW j \in Bq!Slots
          PROVE  /\ pool'[j].state = "busy" <=> \E d \in Clients : BqUses(d, j)'
                 /\ \A d, e \in Clients : BqUses(d, j)' /\ BqUses(e, j)' => d = e
      <3>1. CASE j = i
        BY <1>4, <2>1, <2>2, <3>1
      <3>2. CASE j # i
        BY <1>4, <2>2, <3>2 DEF BqIInv, BqConnected
      <3>3. QED
        BY <3>1, <3>2
    <2>4. QED
      BY <2>3 DEF BqConnected
  <1>7. BqLocked'
    BY <1>0, <1>1, <1>2 DEF BqIInv, BqLocked
  <1>8. Bq!TypeOK'
    BY <1>0, <1>2, <1>4 DEF BqIInv, Bq!TypeOK
  <1>9. BqLive' = BqLive
    <2>1. \A t : BqDropping(t)' <=> BqDropping(t)
      BY <1>1, <1>2 DEF BqDropping
    <2>2. QED
      BY <1>0, <2>1 DEF BqLive
  <1>10. ASSUME ~apart' PROVE BqSingle' /\ BqApart' /\ BqBacked'
    <2>1. ~apart /\ \A j \in Bq!Slots : pool[j].state # "busy"
      BY <1>0, <1>10 DEF Bq!InState
    <2>2. BqSingle /\ BqApart /\ BqBacked
      BY <2>1 DEF BqIInv
    <2>3. CASE i \in Bq!InState("free")
      <3>1. BqOpen(i) /\ pool'[i].db = pool[i].db
        BY <1>3, <1>4, <2>3 DEF BqOpen, Bq!InState
      <3>2. \A j \in Bq!Slots : (BqOpen(j)' <=> BqOpen(j)) /\ pool'[j].db = pool[j].db
        BY <1>4, <3>1 DEF BqOpen
      <3>3. QED
        BY <1>0, <1>9, <2>2, <3>2 DEF BqSingle, BqApart, BqBacked
    <2>4. CASE i \notin Bq!InState("free")
      <3>1. \A j \in Bq!Slots : ~BqOpen(j)
        BY <1>0, <2>1, <2>4 DEF Bq!CanTake, Bq!InState, BqOpen, BqIInv, Bq!TypeOK
      <3>2. BqLive = {}
        BY <2>2, <3>1 DEF BqBacked
      <3>3. kept = {}
        BY <2>2, <3>2 DEF BqBacked, BqLive, BqIInv, Bq!TypeOK
      <3>4. \A j \in Bq!Slots : BqOpen(j)' => j = i
        BY <1>4, <3>1 DEF BqOpen
      <3>5. DOMAIN pool'[i].db = {}
        BY <1>3, <1>4, <2>4, BqEmpty
      <3>6. BqSingle'
        BY <3>4 DEF BqSingle
      <3>7. BqApart'
        BY <1>9, <3>2 DEF BqApart
      <3>8. BqBacked'
        BY <1>0, <1>9, <3>2, <3>3, <3>4, <3>5 DEF BqBacked
      <3>9. QED
        BY <3>6, <3>7, <3>8
    <2>5. QED
      BY <2>3, <2>4
  <1>11. QED
    BY <1>6, <1>7, <1>8, <1>10 DEF BqIInv

(* DB.putConn, at the end of a statement: the call c has no connection any   *)
(* more, and while no two calls use the pool at once the database is kept.   *)
LEMMA BqPut ==
  ASSUME BqIInv, NEW c \in Clients, NEW k \in Bq!Slots, BqUses(c, k),
         NEW db \in Bq!Database, Bq!PutConn(k, db),
         NEW r \in Bq!Request, r.op # "none" => r.conn = 0, Bq!Hold(c, r)
  PROVE  /\ bqReq' \in [Clients -> Bq!Request] /\ bqReq'[c] = r
         /\ \A d \in Clients \ {c} : bqReq'[d] = bqReq[d]
         /\ pool' \in [Bq!Slots -> [state : {"free", "busy", "closed"}, db : Bq!Database]]
         /\ BqConnected'
         /\ ~apart => /\ BqSingle'
                      /\ \A i \in Bq!Slots : BqOpen(i)' <=> i = k
                      /\ pool'[k].db = db
  <1>1. /\ bqReq' \in [Clients -> Bq!Request] /\ bqReq'[c] = r
        /\ \A d \in Clients \ {c} : bqReq'[d] = bqReq[d]
    BY DEF BqIInv, Bq!TypeOK, Bq!Hold
  <1>2. PICK p \in [state : {"free", "closed"}, db : Bq!Database] :
            /\ p = IF Bq!Cardinality(Bq!InState("free")) < MaxIdle
                   THEN [state |-> "free", db |-> db] ELSE Bq!Closed
            /\ pool' = [pool EXCEPT ![k] = p]
    <2>1. (IF Bq!Cardinality(Bq!InState("free")) < MaxIdle
           THEN [state |-> "free", db |-> db] ELSE Bq!Closed)
              \in [state : {"free", "closed"}, db : Bq!Database]
      BY BqEmpty DEF Bq!Closed
    <2>2. QED
      BY <2>1 DEF Bq!PutConn
  <1>3. /\ pool' \in [Bq!Slots -> [state : {"free", "busy", "closed"}, db : Bq!Database]]
        /\ pool'[k] = p
        /\ \A j \in Bq!Slots \ {k} : pool'[j] = pool[j]
    BY <1>2 DEF BqIInv, Bq!TypeOK
  <1>4. pool[k].state = "busy" /\ \A d \in Clients : BqUses(d, k) => d = c
    BY DEF BqIInv, BqConnected
  <1>5. \A d \in Clients, j \in Bq!Slots : BqUses(d, j)' <=> BqUses(d, j) /\ d # c
    BY <1>1, BqSlots DEF BqUses
  <1>6. \A j \in Bq!Slots \ {k} : ~BqUses(c, j)
    BY DEF BqUses
  <1>7. BqConnected'
    <2>1. ASSUME NEW j \in Bq!Slots
          PROVE  /\ pool'[j].state = "busy" <=> \E d \in Clients : BqUses(d, j)'
                 /\ \A d, e \in Clients : BqUses(d, j)' /\ BqUses(e, j)' => d = e
      <3>1. CASE j = k
        <4>1. pool'[k].state # "busy"
          BY <1>3
        <4>2. QED
          BY <1>4, <1>5, <3>1, <4>1
      <3>2. CASE j # k
        BY <1>3, <1>5, <1>6, <3>2 DEF BqIInv, BqConnected
      <3>3. QED
        BY <3>1, <3>2
    <2>2. QED
      BY <2>1 DEF BqConnected
  <1>8. ASSUME ~apart
        PROVE  /\ BqSingle'
               /\ \A i \in Bq!Slots : BqOpen(i)' <=> i = k
               /\ pool'[k].db = db
    <2>1. \A i \in Bq!Slots : BqOpen(i) <=> i = k
      BY <1>4, <1>8 DEF BqIInv, BqSingle, BqOpen
    <2>2. Bq!InState("free") = {}
      BY <1>4, <2>1 DEF Bq!InState, BqOpen
    <2>3. Bq!Cardinality(Bq!InState("free")) < MaxIdle
      BY <2>2, BqCardinality, FS_EmptySet, BigQueryAssumption
    <2>4. p = [state |-> "free", db |-> db]
      BY <1>2, <2>3
    <2>5. \A i \in Bq!Slots : BqOpen(i)' <=> i = k
      BY <1>3, <2>1, <2>4 DEF BqOpen
    <2>6. QED
      BY <1>3, <2>4, <2>5 DEF BqSingle
  <1>9. QED
    BY <1>1, <1>3, <1>7, <1>8

(* What is left to show when a statement ends. *)
LEMMA BqPutStep ==
  ASSUME BqIInv, NEW c \in Clients, NEW k \in Bq!Slots, BqUses(c, k),
         NEW db \in Bq!Database, Bq!PutConn(k, db),
         NEW r \in Bq!Request, r.op # "none" => r.conn = 0, Bq!Hold(c, r),
         UNCHANGED <<datasets, rowsSent, apart>>,
         tables' \subseteq {t \in Tables : t[1] \in datasets},
         mu' \in Clients \cup {Bq!Nobody},
         kept' \subseteq [table : Tables, row : Bq!Rows],
         BqLocked',
         ~apart => /\ BqApart'
                   /\ DOMAIN db = {Physical[t] : t \in BqLive'}
                   /\ \A x \in kept' : x.table \in tables' /\ x.row \in db[Physical[x.table]]
  PROVE  BqIInv'
  <1>1. /\ bqReq' \in [Clients -> Bq!Request]
        /\ pool' \in [Bq!Slots -> [state : {"free", "busy", "closed"}, db : Bq!Database]]
        /\ BqConnected'
        /\ ~apart => /\ BqSingle'
                     /\ \A i \in Bq!Slots : BqOpen(i)' <=> i = k
                     /\ pool'[k].db = db
    BY BqPut
  <1>2. Bq!TypeOK'
    BY <1>1 DEF BqIInv, Bq!TypeOK
  <1>3. ASSUME ~apart' PROVE BqSingle' /\ BqApart' /\ BqBacked'
    BY <1>1, <1>3 DEF BqBacked
  <1>4. QED
    BY <1>1, <1>2, <1>3 DEF BqIInv

(* The database a call has: while no two calls use the pool at once, the one *)
(* with the live tables and the rows that were kept.                         *)
LEMMA BqHas ==
  ASSUME BqIInv, NEW c \in Clients, bqReq[c].op # "none", bqReq[c].conn # 0
  PROVE  \E k \in Bq!Slots, db \in Bq!Database :
            /\ k = bqReq[c].conn /\ db = Bq!Db(c) /\ BqUses(c, k)
            /\ ~apart => /\ BqApart
                         /\ DOMAIN db = {Physical[t] : t \in BqLive}
                         /\ \A x \in kept : /\ x.table \in tables /\ x.table \in BqLive
                                            /\ x.row \in db[Physical[x.table]]
  <1>1. bqReq[c].conn \in Bq!Slots
    BY BqFields DEF BqIInv, Bq!TypeOK
  <1>2. PICK k \in Bq!Slots : k = bqReq[c].conn
    BY <1>1
  <1>3. PICK db \in Bq!Database : db = Bq!Db(c) /\ db = pool[k].db
    BY <1>2 DEF Bq!Db, BqIInv, Bq!TypeOK
  <1>4. BqUses(c, k)
    BY <1>2 DEF BqUses
  <1>5. BqOpen(k)
    BY <1>4 DEF BqIInv, BqConnected, BqOpen
  <1>6. \A x \in kept : x.table \in Tables
    BY DEF BqIInv, Bq!TypeOK
  <1>7. ~apart => /\ BqApart
                  /\ DOMAIN db = {Physical[t] : t \in BqLive}
                  /\ \A x \in kept : /\ x.table \in tables /\ x.table \in BqLive
                                     /\ x.row \in db[Physical[x.table]]
    BY <1>3, <1>5, <1>6 DEF BqIInv, BqBacked, BqLive
  <1>8. QED
    BY <1>2, <1>3, <1>4, <1>7

LEMMA BqReadStep ==
  ASSUME BqIInv, NEW c \in Clients, Bq!ReadRows(c)
  PROVE  BqIInv'
  <1>1. /\ bqReq[c].op = "query" /\ bqReq[c].conn # 0
        /\ Bq!PutConn(bqReq[c].conn, Bq!Db(c)) /\ Bq!Hold(c, Bq!NoReq)
        /\ UNCHANGED <<datasets, tables, mu, rowsSent, kept, apart>>
    BY DEF Bq!ReadRows
  <1>2. PICK k \in Bq!Slots, db \in Bq!Database :
            /\ k = bqReq[c].conn /\ db = Bq!Db(c) /\ BqUses(c, k)
            /\ ~apart => /\ BqApart
                         /\ DOMAIN db = {Physical[t] : t \in BqLive}
                         /\ \A x \in kept : /\ x.table \in tables /\ x.table \in BqLive
                                            /\ x.row \in db[Physical[x.table]]
    BY <1>1, BqHas
  <1>3. Bq!PutConn(k, db)
    BY <1>1, <1>2
  <1>4. bqReq'[c] = Bq!NoReq /\ \A d \in Clients \ {c} : bqReq'[d] = bqReq[d]
    BY <1>1 DEF Bq!Hold, BqIInv, Bq!TypeOK
  <1>5. BqLive' = BqLive
    BY <1>1, <1>4, BqIdle, BqLiveSame
  <1>6. BqLocked'
    BY <1>1, <1>4, BqIdle DEF BqIInv, BqLocked
  <1>7. BqApart' <=> BqApart
    BY <1>5 DEF BqApart
  <1>8. QED
    BY <1>1, <1>2, <1>3, <1>5, <1>6, <1>7, BqIdle, BqPutStep DEF BqIInv, Bq!TypeOK

LEMMA BqCreateSQLStep ==
  ASSUME BqIInv, NEW c \in Clients, Bq!CreateSQLTable(c)
  PROVE  BqIInv'
  <1>1. /\ bqReq[c].op = "create" /\ bqReq[c].conn # 0
        /\ Bq!Hold(c, Bq!NoReq) /\ mu' = Bq!Nobody
        /\ UNCHANGED <<datasets, rowsSent, kept, apart>>
    BY DEF Bq!CreateSQLTable
  <1>2. PICK k \in Bq!Slots, db \in Bq!Database :
            /\ k = bqReq[c].conn /\ db = Bq!Db(c) /\ BqUses(c, k)
            /\ ~apart => /\ BqApart
                         /\ DOMAIN db = {Physical[t] : t \in BqLive}
                         /\ \A x \in kept : /\ x.table \in tables /\ x.table \in BqLive
                                            /\ x.row \in db[Physical[x.table]]
    BY <1>1, BqHas
  <1>3. PICK t \in Tables : t = bqReq[c].table /\ t[1] \in datasets
    BY <1>1, BqFields DEF BqIInv, Bq!TypeOK, BqLocked
  <1>4. PICK n \in Names : n = Physical[t]
    BY BigQueryAssumption
  <1>5. bqReq'[c] = Bq!NoReq /\ \A d \in Clients \ {c} : bqReq'[d] = bqReq[d]
    BY <1>1 DEF Bq!Hold, BqIInv, Bq!TypeOK
  <1>6. mu = c /\ \A d \in Clients \ {c} : bqReq[d].op \notin {"create", "drop"}
    BY <1>1 DEF BqIInv, BqLocked
  <1>7. BqLocked'
    BY <1>1, <1>5, <1>6, BqIdle, BigQueryAssumption DEF BqLocked, Bq!Nobody
  <1>8. \A u : ~BqDropping(u) /\ ~BqDropping(u)'
    BY <1>1, <1>5, <1>6, BqIdle DEF BqDropping
  <1>9. CASE n \in DOMAIN db
    <2>1. Bq!PutConn(k, db) /\ tables' = tables
      BY <1>2, <1>3, <1>4, <1>9 DEF Bq!CreateSQLTable
    <2>2. BqLive' = BqLive
      BY <1>8, <2>1 DEF BqLive
    <2>3. BqApart' <=> BqApart
      BY <2>2 DEF BqApart
    <2>4. QED
      BY <1>1, <1>2, <1>7, <2>1, <2>2, <2>3, BqIdle, BqPutStep DEF BqIInv, Bq!TypeOK
  <1>10. CASE n \notin DOMAIN db
    <2>1. Bq!PutConn(k, Bq!Created(db, n)) /\ tables' = tables \cup {t}
      BY <1>2, <1>3, <1>4, <1>10 DEF Bq!CreateSQLTable
    <2>2. BqLive' = BqLive \cup {t}
      BY <1>8, <2>1 DEF BqLive
    <2>3. PICK e \in Bq!Database : /\ e = Bq!Created(db, n) /\ DOMAIN e = DOMAIN db \cup {n}
                                   /\ \A m \in DOMAIN db : m # n => e[m] = db[m]
      BY BqCreated
    <2>4. Bq!PutConn(k, e)
      BY <2>1, <2>3
    <2>5. ASSUME ~apart
          PROVE  /\ BqApart'
                 /\ DOMAIN e = {Physical[u] : u \in BqLive'}
                 /\ \A x \in kept' : x.table \in tables' /\ x.row \in e[Physical[x.table]]
      <3>1. \A u \in BqLive : Physical[u] \in DOMAIN db /\ Physical[u] # n
        BY <1>2, <1>10, <2>5
      <3>2. BqApart'
        BY <1>2, <1>4, <2>2, <2>5, <3>1 DEF BqApart
      <3>3. DOMAIN e = {Physical[u] : u \in BqLive'}
        BY <1>2, <1>4, <2>2, <2>3, <2>5
      <3>4. \A x \in kept' : x.table \in tables' /\ x.row \in e[Physical[x.table]]
        BY <1>1, <1>2, <2>1, <2>3, <2>5, <3>1
      <3>5. QED
        BY <3>2, <3>3, <3>4
    <2>6. tables' \subseteq {u \in Tables : u[1] \in datasets}
      BY <1>3, <2>1 DEF BqIInv, Bq!TypeOK
    <2>7. QED
      BY <1>1, <1>2, <1>7, <2>4, <2>5, <2>6, BqIdle, BqPutStep DEF BqIInv, Bq!TypeOK
  <1>11. QED
    BY <1>9, <1>10

LEMMA BqDropSQLStep ==
  ASSUME BqIInv, NEW c \in Clients, Bq!DropSQLTable(c)
  PROVE  BqIInv'
  <1>1. /\ bqReq[c].op = "drop" /\ bqReq[c].conn # 0
        /\ UNCHANGED <<datasets, tables, rowsSent, kept, apart>>
    BY DEF Bq!DropSQLTable
  <1>2. PICK k \in Bq!Slots, db \in Bq!Database :
            /\ k = bqReq[c].conn /\ db = Bq!Db(c) /\ BqUses(c, k)
            /\ ~apart => /\ BqApart
                         /\ DOMAIN db = {Physical[t] : t \in BqLive}
                         /\ \A x \in kept : /\ x.table \in tables /\ x.table \in BqLive
                                            /\ x.row \in db[Physical[x.table]]
    BY <1>1, BqHas
  <1>3. PICK ts \in SUBSET Tables : ts = bqReq[c].left /\ ts \cap tables = {}
    BY <1>1, BqFields DEF BqIInv, Bq!TypeOK, BqLocked
  <1>4. PICK t \in ts :
            /\ Bq!PutConn(k, Bq!Restrict(db, DOMAIN db \ {Physical[t]}))
            /\ mu' = IF ts \ {t} = {} THEN Bq!Nobody ELSE mu
            /\ Bq!Hold(c, IF ts \ {t} = {} THEN Bq!NoReq
                          ELSE [op |-> "drop", left |-> ts \ {t}, conn |-> 0])
    BY <1>2, <1>3 DEF Bq!DropSQLTable
  <1>5. PICK e \in Bq!Database : /\ e = Bq!Restrict(db, DOMAIN db \ {Physical[t]})
                                 /\ DOMAIN e = DOMAIN db \ {Physical[t]}
                                 /\ \A m \in DOMAIN db : m # Physical[t] => e[m] = db[m]
    BY BqRestricted
  <1>6. PICK r \in Bq!Request :
            /\ r = IF ts \ {t} = {} THEN Bq!NoReq ELSE [op |-> "drop", left |-> ts \ {t}, conn |-> 0]
            /\ r.op # "none" => r.conn = 0
            /\ ts \ {t} = {} => r.op = "none"
            /\ ts \ {t} # {} => r.op = "drop" /\ r.left = ts \ {t}
    <2>1. CASE ts \ {t} = {}
      BY <2>1, BqIdle
    <2>2. CASE ts \ {t} # {}
      <3> DEFINE q == [op |-> "drop", left |-> ts \ {t}, conn |-> 0]
      <3>1. q \in Bq!Request /\ q.op = "drop" /\ q.conn = 0 /\ q.left = ts \ {t}
        BY <2>2 DEF Bq!Request
      <3> HIDE DEF q
      <3>2. q = IF ts \ {t} = {} THEN Bq!NoReq ELSE [op |-> "drop", left |-> ts \ {t}, conn |-> 0]
        BY <2>2 DEF q
      <3>3. QED
        BY <2>2, <3>1, <3>2
    <2>3. QED
      BY <2>1, <2>2
  <1>7. Bq!PutConn(k, e) /\ Bq!Hold(c, r)
    BY <1>4, <1>5, <1>6
  <1>8. bqReq'[c] = r /\ \A d \in Clients \ {c} : bqReq'[d] = bqReq[d]
    BY <1>7 DEF Bq!Hold, BqIInv, Bq!TypeOK
  <1>9. mu = c /\ \A d \in Clients \ {c} : bqReq[d].op \notin {"create", "drop"}
    BY <1>1 DEF BqIInv, BqLocked
  <1>10. BqLocked'
    <2>1. \A d \in Clients : d # Bq!Nobody
      BY BigQueryAssumption DEF Bq!Nobody
    <2>2. CASE ts \ {t} = {}
      BY <1>1, <1>4, <1>6, <1>8, <1>9, <2>1, <2>2 DEF BqLocked
    <2>3. CASE ts \ {t} # {}
      BY <1>1, <1>3, <1>4, <1>6, <1>8, <1>9, <2>3 DEF BqLocked
    <2>4. QED
      BY <2>2, <2>3
  <1>11. BqLive' = BqLive \ {t}
    <2>1. \A u : BqDropping(u) <=> u \in ts
      BY <1>1, <1>3, <1>9 DEF BqDropping
    <2>2. \A u : BqDropping(u)' <=> u \in ts \ {t}
      BY <1>6, <1>8, <1>9 DEF BqDropping
    <2>3. QED
      BY <1>1, <1>3, <2>1, <2>2 DEF BqLive
  <1>12. t \in BqLive /\ t \notin tables
    BY <1>1, <1>3 DEF BqLive, BqDropping
  <1>13. ASSUME ~apart
         PROVE  /\ BqApart'
                /\ DOMAIN e = {Physical[u] : u \in BqLive'}
                /\ \A x \in kept' : x.table \in tables' /\ x.row \in e[Physical[x.table]]
    <2>1. \A u \in BqLive : Physical[u] = Physical[t] => u = t
      BY <1>2, <1>12, <1>13 DEF BqApart
    <2>2. BqApart'
      BY <1>2, <1>11, <1>13 DEF BqApart
    <2>3. DOMAIN e = {Physical[u] : u \in BqLive'}
      BY <1>2, <1>5, <1>11, <1>13, <2>1
    <2>4. \A x \in kept' : x.table \in tables' /\ x.row \in e[Physical[x.table]]
      BY <1>1, <1>2, <1>5, <1>12, <1>13, <2>1
    <2>5. QED
      BY <2>2, <2>3, <2>4
  <1>14. QED
    BY <1>1, <1>2, <1>4, <1>6, <1>7, <1>10, <1>13, BqPutStep DEF BqIInv, Bq!TypeOK

LEMMA BqInsertRowStep ==
  ASSUME BqIInv, NEW c \in Clients, Bq!InsertRow(c)
  PROVE  BqIInv'
  <1>1. /\ bqReq[c].op = "insert" /\ bqReq[c].conn # 0
        /\ UNCHANGED <<datasets, tables, mu, rowsSent, apart>>
    BY DEF Bq!InsertRow
  <1>2. PICK k \in Bq!Slots, db \in Bq!Database :
            /\ k = bqReq[c].conn /\ db = Bq!Db(c) /\ BqUses(c, k)
            /\ ~apart => /\ BqApart
                         /\ DOMAIN db = {Physical[t] : t \in BqLive}
                         /\ \A x \in kept : /\ x.table \in tables /\ x.table \in BqLive
                                            /\ x.row \in db[Physical[x.table]]
    BY <1>1, BqHas
  <1>3. PICK t \in Tables, rs \in SUBSET Bq!Rows :
            t = bqReq[c].table /\ rs = bqReq[c].left /\ rs # {}
    BY <1>1, BqFields DEF BqIInv, Bq!TypeOK
  <1>4. PICK row \in rs : row = CHOOSE x \in bqReq[c].left : \A y \in bqReq[c].left : x <= y
    <2>1. Bq!Rows \subseteq Nat
      BY DEF Bq!Rows
    <2>2. \E x \in rs : \A y \in rs : x <= y
      BY <1>3, <2>1, LeastNumber
    <2>3. QED
      BY <1>3, <2>2
  <1>5. PICK r \in Bq!Request, e \in Bq!Database :
            /\ Bq!PutConn(k, e) /\ Bq!Hold(c, r)
            /\ r.op # "none" => r.conn = 0
            /\ r.op \in {"none", "insert"}
            /\ DOMAIN e = DOMAIN db /\ \A m \in DOMAIN db : db[m] \subseteq e[m]
            /\ \/ kept' = kept
               \/ /\ Physical[t] \in DOMAIN db /\ row \in e[Physical[t]]
                  /\ kept' = kept \cup {[table |-> u, row |-> row] : u \in tables \cap {t}}
    <2>1. CASE Physical[t] \notin DOMAIN db
      <3>1. Bq!PutConn(k, db) /\ Bq!Hold(c, Bq!NoReq) /\ kept' = kept
        BY <1>2, <1>3, <2>1 DEF Bq!InsertRow
      <3>2. QED
        BY <3>1, BqIdle
    <2>2. CASE Physical[t] \in DOMAIN db
      <3>1. /\ Bq!PutConn(k, [db EXCEPT ![Physical[t]] = @ \cup {row}])
            /\ Bq!Hold(c, IF bqReq[c].left = {row} THEN Bq!NoReq
                          ELSE [bqReq[c] EXCEPT !.left = @ \ {row}, !.conn = 0])
            /\ kept' = kept \cup {[table |-> u, row |-> row] : u \in tables \cap {t}}
        BY <1>2, <1>3, <1>4, <2>2 DEF Bq!InsertRow
      <3>2. PICK e \in Bq!Database : /\ e = [db EXCEPT ![Physical[t]] = @ \cup {row}]
                                     /\ DOMAIN e = DOMAIN db /\ row \in e[Physical[t]]
                                     /\ \A m \in DOMAIN db : db[m] \subseteq e[m]
        <4>1. PICK n \in DOMAIN db : n = Physical[t]
          BY <2>2
        <4>2. row \in Bq!Rows
          BY <1>4
        <4> DEFINE f == [db EXCEPT ![n] = @ \cup {row}]
        <4>3. /\ f \in Bq!Database /\ DOMAIN f = DOMAIN db /\ row \in f[n]
              /\ \A m \in DOMAIN db : db[m] \subseteq f[m]
          BY <4>2, BqInserted
        <4>4. f = [db EXCEPT ![Physical[t]] = @ \cup {row}]
          BY <4>1
        <4> HIDE DEF f
        <4>5. QED
          BY <4>1, <4>3, <4>4
      <3>3. PICK r \in Bq!Request :
                /\ r = IF bqReq[c].left = {row} THEN Bq!NoReq
                       ELSE [bqReq[c] EXCEPT !.left = @ \ {row}, !.conn = 0]
                /\ r.op # "none" => r.conn = 0
                /\ r.op \in {"none", "insert"}
        <4>1. CASE rs = {row}
          BY <1>3, <4>1, BqIdle
        <4>2. CASE rs # {row}
          <5>1. bqReq[c] \in [op : {"insert"}, table : Tables, left : (SUBSET Bq!Rows) \ {{}},
                              conn : Bq!Slots \cup {0}]
            BY <1>1, BqFields DEF BqIInv, Bq!TypeOK
          <5>2. rs \ {row} \in (SUBSET Bq!Rows) \ {{}}
            BY <1>4, <4>2
          <5> DEFINE q == [bqReq[c] EXCEPT !.left = @ \ {row}, !.conn = 0]
          <5>3. /\ q \in [op : {"insert"}, table : Tables, left : (SUBSET Bq!Rows) \ {{}},
                         conn : Bq!Slots \cup {0}]
                /\ q.op = "insert" /\ q.conn = 0
            BY <1>3, <5>1, <5>2
          <5>4. q \in Bq!Request
            BY <5>3 DEF Bq!Request
          <5>5. q = IF bqReq[c].left = {row} THEN Bq!NoReq
                    ELSE [bqReq[c] EXCEPT !.left = @ \ {row}, !.conn = 0]
            BY <1>3, <4>2
          <5> HIDE DEF q
          <5>6. QED
            BY <5>3, <5>4, <5>5
        <4>3. QED
          BY <4>1, <4>2
      <3>4. QED
        BY <2>2, <3>1, <3>2, <3>3
    <2>3. QED
      BY <2>1, <2>2
  <1>6. bqReq'[c] = r /\ \A d \in Clients \ {c} : bqReq'[d] = bqReq[d]
    BY <1>5 DEF Bq!Hold, BqIInv, Bq!TypeOK
  <1>7. BqLive' = BqLive
    BY <1>1, <1>5, <1>6, BqLiveSame
  <1>8. BqLocked'
    BY <1>1, <1>5, <1>6 DEF BqIInv, BqLocked
  <1>9. BqApart' <=> BqApart
    BY <1>7 DEF BqApart
  <1>10. kept' \subseteq [table : Tables, row : Bq!Rows]
    <2>1. kept \subseteq [table : Tables, row : Bq!Rows]
      BY DEF BqIInv, Bq!TypeOK
    <2>2. [table |-> t, row |-> row] \in [table : Tables, row : Bq!Rows]
      BY <1>4
    <2>3. kept' \subseteq kept \cup {[table |-> t, row |-> row]}
      BY <1>5
    <2>4. QED
      BY <2>1, <2>2, <2>3
  <1>11. ASSUME ~apart
         PROVE  \A x \in kept' : x.table \in tables' /\ x.row \in e[Physical[x.table]]
    <2> SUFFICES ASSUME NEW x \in kept'
                 PROVE  x.table \in tables /\ x.row \in e[Physical[x.table]]
      BY <1>1
    <2>1. CASE x \in kept
      <3>1. x.table \in tables /\ Physical[x.table] \in DOMAIN db /\ x.row \in db[Physical[x.table]]
        BY <1>2, <1>11, <2>1
      <3>2. QED
        BY <1>5, <3>1
    <2>2. CASE x \notin kept
      BY <1>5, <2>2
    <2>3. QED
      BY <2>1, <2>2
  <1>12. QED
    BY <1>1, <1>2, <1>5, <1>7, <1>8, <1>9, <1>10, <1>11, BqPutStep DEF BqIInv, Bq!TypeOK

LEMMA BqStep == BqIInv /\ [Bq!Next]_bq => BqIInv'
  <1> SUFFICES ASSUME BqIInv, [Bq!Next]_bq PROVE BqIInv'
    OBVIOUS
  <1>1. CASE UNCHANGED bq
    BY <1>1 DEF bq, BqIInv, Bq!TypeOK, BqLocked, BqConnected, BqUses, BqSingle, BqApart, BqBacked,
                BqOpen, BqLive, BqDropping
  <1>2. CASE Bq!Next
    <2>1. ASSUME NEW d \in Bq!Datasets, Bq!CreateDataset(d) \/ Bq!DeleteEmptyDataset(d)
          PROVE  BqIInv'
      BY <2>1, BqDatasetStep
    <2>2. ASSUME NEW c \in Clients, Bq!Start(c) PROVE BqIInv'
      BY <2>2, BqCreateStep, BqDeleteStep, BqQueryStep, BqInsertStep DEF Bq!Start
    <2>3. ASSUME NEW c \in Clients, Bq!Continue(c) PROVE BqIInv'
      BY <2>3, BqAcquireStep, BqCreateSQLStep, BqDropSQLStep, BqInsertRowStep, BqReadStep
         DEF Bq!Continue
    <2>4. QED
      BY <1>2, <2>1, <2>2, <2>3 DEF Bq!Next
  <1>3. QED
    BY <1>1, <1>2

LEMMA BqInitial == Bq!Init => BqIInv
  <1> SUFFICES ASSUME Bq!Init PROVE BqIInv
    OBVIOUS
  <1>1. /\ datasets = {} /\ tables = {} /\ mu = Bq!Nobody /\ kept = {} /\ apart = FALSE
        /\ pool = [i \in Bq!Slots |-> Bq!Closed] /\ bqReq = [c \in Clients |-> Bq!NoReq]
        /\ rowsSent = 0
    BY DEF Bq!Init
  <1>2. \A c \in Clients : bqReq[c].op = "none" /\ c # Bq!Nobody
    BY <1>1, BqIdle, BigQueryAssumption DEF Bq!Nobody
  <1>3. \A i \in Bq!Slots : pool[i].state = "closed"
    BY <1>1 DEF Bq!Closed
  <1>4. Bq!TypeOK
    <2>1. pool \in [Bq!Slots -> [state : {"free", "busy", "closed"}, db : Bq!Database]]
      BY <1>1, BqEmpty DEF Bq!Closed
    <2>2. bqReq \in [Clients -> Bq!Request]
      BY <1>1, BqIdle
    <2>3. rowsSent \in 0..MaxRows
      BY <1>1, BigQueryAssumption
    <2>4. QED
      BY <1>1, <2>1, <2>2, <2>3 DEF Bq!TypeOK
  <1>5. BqLocked /\ BqConnected
    BY <1>1, <1>2, <1>3 DEF BqLocked, BqConnected, BqUses
  <1>6. BqLive = {}
    BY <1>1, <1>2 DEF BqLive, BqDropping
  <1>7. BqSingle /\ BqApart /\ BqBacked
    BY <1>1, <1>3, <1>6 DEF BqSingle, BqApart, BqBacked, BqOpen
  <1>8. QED
    BY <1>4, <1>5, <1>7 DEF BqIInv

(* BigQuery, for every set of tables and physical names, of which any may    *)
(* collide, every number of rows and of concurrent calls: while no two calls *)
(* used the pool at once, a listed table has a physical table of its own and *)
(* an inserted row stays until its table is dropped; and Service.mu and the  *)
(* connection pool are never waited for in a circle, however calls overlap.  *)
THEOREM TablesStayKept == ServicesSpec => []TablesKept
  <1>1. ServicesInit => BqIInv
    BY BqInitial DEF ServicesInit
  <1>2. [ServicesNext]_servicesVars => [Bq!Next]_bq
    BY DEF ServicesNext, servicesVars
  <1>3. BqIInv /\ [ServicesNext]_servicesVars => BqIInv'
    BY <1>2, BqStep
  <1>4. BqIInv => TablesKept
    BY BqMeans, BqNoCircle DEF TablesKept
  <1>5. QED
    BY <1>1, <1>3, <1>4, PTL DEF ServicesSpec
=============================================================================
