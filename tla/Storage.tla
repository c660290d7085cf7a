------------------------------ MODULE Storage -------------------------------
(***************************************************************************)
(* Cloud Storage: buckets, and objects kept as two records of the state    *)
(* store, the metadata (with the checksums of the body) and the body.      *)
(* storeObject puts one and then the other, downloadObject gets one and    *)
(* then the other, and the cascade of a bucket deletes what it has listed; *)
(* no lock covers two steps.  A crash between two steps leaves BoltDB as   *)
(* it is; New then writes the seed files again.                            *)
(*                                                                         *)
(* A body is the number of the upload that brought it, and the metadata    *)
(* are the body they describe.                                             *)
(***************************************************************************)
EXTENDS Integers, Sequences, FiniteSets

CONSTANTS Buckets,      \* bucket names
          Objects,      \* object names
          Seeds,        \* the objects of the seed directories, a set of keys
          Clients,      \* goroutines that serve an API call
          MaxUploads,   \* bound on the uploads
          MaxRestarts   \* bound on crashes followed by a restart

VARIABLES buckets,   \* storage/buckets
          meta,      \* storage/objects/<bucket>: the body the metadata describe
          data,      \* storage/data/<bucket>: the body
          req,       \* what the API goroutines hold between two steps
          uploads,   \* uploads so far: the next body
          restarts,  \* crashes so far
          promised,  \* history: the body of the last upload answered, unless deleted since
          raced,     \* history: keys whose calls overlapped or crashed, until uploaded again
          wiped      \* history: buckets that /admin/reset removed

vars == <<buckets, meta, data, req, uploads, restarts, promised, raced, wiped>>

Key == Buckets \X Objects
None == 0
SeedBody == MaxUploads + 1
Body == None..SeedBody

NoReq == [op |-> "none"]

Request ==
    {NoReq}
    \cup [op : {"meta", "data", "body"}, key : Key, body : Body]
    \cup [op : {"undata"}, key : Key]
    \cup [op : {"list", "drop"}, bucket : Buckets]
    \cup [op : {"cascade"}, bucket : Buckets, keys : SUBSET Key, half : SUBSET Key]
    \cup [op : {"reset"}, buckets : SUBSET Buckets]

Idle(c) == req[c] = NoReq

Hold(c, r) == req' = [req EXCEPT ![c] = r]

Of(b) == {b} \X Objects

Stored(ks) == {k \in ks : meta[k] # None}

Without(f, ks) == [k \in Key |-> IF k \in ks THEN None ELSE f[k]]

-----------------------------------------------------------------------------
(* createBucket, ensureBucket: the record of a bucket has no content that *)
(* changes, so its check only decides the answer.                         *)
CreateBucket(b) ==
    /\ buckets' = buckets \cup {b}
    /\ wiped' = wiped \ {b}
    /\ UNCHANGED <<meta, data, req, uploads, restarts, promised>>

(* Every way to upload (media, multipart, XML, resumable, console) reads the *)
(* body from the client and calls storeObject.                               *)
Upload(c, k) ==
    /\ Idle(c)
    /\ uploads < MaxUploads
    /\ uploads' = uploads + 1
    /\ Hold(c, [op |-> "meta", key |-> k, body |-> uploads + 1])
    /\ UNCHANGED <<buckets, meta, data, restarts, promised, wiped>>

PutMeta(c) ==
    /\ req[c].op = "meta"
    /\ meta' = [meta EXCEPT ![req[c].key] = req[c].body]
    /\ Hold(c, [req[c] EXCEPT !.op = "data"])
    /\ UNCHANGED <<buckets, data, uploads, restarts, promised, wiped>>

(* Mutant: the body is only put when the object is new. *)
PutDataOnce(c) ==
    /\ req[c].op = "data"
    /\ data' = [data EXCEPT ![req[c].key] = IF @ = None THEN req[c].body ELSE @]
    /\ promised' = [promised EXCEPT ![req[c].key] = req[c].body]
    /\ Hold(c, NoReq)
    /\ UNCHANGED <<buckets, meta, uploads, restarts, wiped>>

PutData(c) ==
    /\ req[c].op = "data"
    /\ data' = [data EXCEPT ![req[c].key] = req[c].body]
    /\ promised' = [promised EXCEPT ![req[c].key] = req[c].body]
    /\ Hold(c, NoReq)
    /\ UNCHANGED <<buckets, meta, uploads, restarts, wiped>>

(* downloadObject: the metadata give the ETag. *)
Download(c, k) ==
    /\ Idle(c)
    /\ meta[k] # None
    /\ Hold(c, [op |-> "body", key |-> k, body |-> meta[k]])
    /\ UNCHANGED <<buckets, meta, data, uploads, restarts, promised, wiped>>

ReadBody(c) ==
    /\ req[c].op = "body"
    /\ Hold(c, NoReq)
    /\ UNCHANGED <<buckets, meta, data, uploads, restarts, promised, wiped>>

DeleteObject(c, k) ==
    /\ Idle(c)
    /\ meta[k] # None
    /\ meta' = Without(meta, {k})
    /\ promised' = Without(promised, {k})
    /\ Hold(c, [op |-> "undata", key |-> k])
    /\ UNCHANGED <<buckets, data, uploads, restarts, wiped>>

(* Mutant: only the metadata are deleted. *)
DeleteDataForgotten(c) ==
    /\ req[c].op = "undata"
    /\ Hold(c, NoReq)
    /\ UNCHANGED <<buckets, meta, data, uploads, restarts, promised, wiped>>

DeleteData(c) ==
    /\ req[c].op = "undata"
    /\ data' = Without(data, {req[c].key})
    /\ Hold(c, NoReq)
    /\ UNCHANGED <<buckets, meta, uploads, restarts, promised, wiped>>

(* deleteBucketAndObjects: Get, List, two Deletes per key in any order of the *)
(* keys, Delete.                                                              *)
DeleteBucket(c, b) ==
    /\ Idle(c)
    /\ b \in buckets
    /\ Hold(c, [op |-> "list", bucket |-> b])
    /\ UNCHANGED <<buckets, meta, data, uploads, restarts, promised, wiped>>

ListObjects(c) ==
    /\ req[c].op = "list"
    /\ Hold(c, [op |-> "cascade", bucket |-> req[c].bucket,
                keys |-> Stored(Of(req[c].bucket)), half |-> {}])
    /\ UNCHANGED <<buckets, meta, data, uploads, restarts, promised, wiped>>

(* half holds the key whose metadata are gone and whose body is next. *)
Cascade(c) ==
    /\ req[c].op = "cascade"
    /\ \/ \E k \in req[c].half :
             /\ data' = Without(data, {k})
             /\ Hold(c, [req[c] EXCEPT !.half = {}])
             /\ UNCHANGED <<meta, promised>>
       \/ /\ req[c].half = {}
          /\ \E k \in req[c].keys :
                /\ meta' = Without(meta, {k})
                /\ promised' = Without(promised, {k})
                /\ Hold(c, [req[c] EXCEPT !.keys = @ \ {k}, !.half = {k}])
          /\ UNCHANGED data
       \/ /\ req[c].half = {} /\ req[c].keys = {}
          /\ Hold(c, [op |-> "drop", bucket |-> req[c].bucket])
          /\ UNCHANGED <<meta, data, promised>>
    /\ UNCHANGED <<buckets, uploads, restarts, wiped>>

(* Mutant: a bucket goes without its objects. *)
DropBucketFirst(c) ==
    /\ req[c].op \in {"list", "drop"}
    /\ buckets' = buckets \ {req[c].bucket}
    /\ Hold(c, NoReq)
    /\ UNCHANGED <<meta, data, uploads, restarts, promised, wiped>>

DropBucket(c) ==
    /\ req[c].op = "drop"
    /\ buckets' = buckets \ {req[c].bucket}
    /\ Hold(c, NoReq)
    /\ UNCHANGED <<meta, data, uploads, restarts, promised, wiped>>

(* /admin/reset knows the namespace of the buckets and not those of their    *)
(* objects; a bucket somebody else deleted meanwhile ends it with an error.  *)
Reset(c) ==
    /\ Idle(c)
    /\ Hold(c, [op |-> "reset", buckets |-> buckets])
    /\ UNCHANGED <<buckets, meta, data, uploads, restarts, promised, wiped>>

WipeBuckets(c) ==
    /\ req[c].op = "reset"
    /\ \/ /\ req[c].buckets = {}
          /\ Hold(c, NoReq)
          /\ UNCHANGED <<buckets, wiped>>
       \/ \E b \in req[c].buckets :
             /\ buckets' = buckets \ {b}
             /\ wiped' = wiped \cup {b}
             /\ Hold(c, IF b \in buckets THEN [req[c] EXCEPT !.buckets = @ \ {b}] ELSE NoReq)
    /\ UNCHANGED <<meta, data, uploads, restarts, promised>>

(* The process dies with the calls in progress; New puts the configured      *)
(* buckets and overwrites the seeded objects before anything is served.      *)
EnsureBuckets(bs) == bs \cup {k[1] : k \in Seeds}

Seeded(f) == [k \in Key |-> IF k \in Seeds THEN SeedBody ELSE f[k]]

CrashAndRestart ==
    /\ restarts < MaxRestarts
    /\ restarts' = restarts + 1
    /\ buckets' = EnsureBuckets(buckets)
    /\ meta' = Seeded(meta) /\ data' = Seeded(data) /\ promised' = Seeded(promised)
    /\ req' = [c \in Clients |-> NoReq]
    /\ UNCHANGED <<uploads, wiped>>

-----------------------------------------------------------------------------
Nothing == [k \in Key |-> None]

Init ==
    /\ buckets = EnsureBuckets({})
    /\ meta = Seeded(Nothing) /\ data = Seeded(Nothing) /\ promised = Seeded(Nothing)
    /\ req = [c \in Clients |-> NoReq]
    /\ uploads = 0 /\ restarts = 0
    /\ raced = {} /\ wiped = {}

Continue(c) ==
    \/ PutMeta(c) \/ PutData(c) \/ ReadBody(c) \/ DeleteData(c)
    \/ ListObjects(c) \/ Cascade(c) \/ DropBucket(c)
    \/ WipeBuckets(c)

(* The bucket is looked up once, before the body is read; /download does not *)
(* look it up.                                                               *)
HandleUpload(c, k) == k[1] \in buckets /\ Upload(c, k)

HandleObject(c, k) ==
    \/ Download(c, k)
    \/ k[1] \in buckets /\ DeleteObject(c, k)

Start(c) ==
    \/ \E k \in Key : HandleUpload(c, k) \/ HandleObject(c, k)
    \/ \E b \in Buckets : DeleteBucket(c, b)
    \/ Reset(c)

(* The keys a call in progress is about, and whether it changes them. *)
About(c) ==
    IF req[c].op \in {"meta", "data", "body", "undata"} THEN {req[c].key}
    ELSE IF req[c].op \in {"list", "cascade", "drop"} THEN Of(req[c].bucket)
    ELSE IF req[c].op = "reset" THEN Key
    ELSE {}

Overlaps ==
    {k \in Key : \E c, d \in Clients :
        c # d /\ k \in About(c) \cap About(d) /\ {req[c].op, req[d].op} # {"body"}}

(* An upload that is alone makes good whatever became of the object before   *)
(* it; a crash cuts the writes in progress short.                            *)
Begun == {k \in Key : \E c \in Clients : Idle(c) /\ req'[c].op = "meta" /\ req'[c].key = k}

CutShort == UNION {About(c) : c \in {d \in Clients : req[d].op # "body"}}

Next ==
    \/ /\ \/ \E b \in Buckets : CreateBucket(b)
          \/ \E c \in Clients : Start(c) \/ Continue(c)
       /\ raced' = (raced \ Begun) \cup Overlaps'
    \/ /\ CrashAndRestart
       /\ raced' = raced \cup CutShort

Spec == Init /\ [][Next]_vars

-----------------------------------------------------------------------------
(* Properties. *)

TypeOK ==
    /\ buckets \subseteq Buckets /\ wiped \subseteq Buckets
    /\ meta \in [Key -> Body] /\ data \in [Key -> Body] /\ promised \in [Key -> Body]
    /\ req \in [Clients -> Request]
    /\ uploads \in 0..MaxUploads /\ restarts \in 0..MaxRestarts
    /\ raced \subseteq Key

Settled(k) == k \notin raced /\ \A c \in Clients : k \notin About(c)

(* An object with no call in progress is whole: the checksums, size and ETag *)
(* of its metadata are those of its body, and neither record is left without *)
(* the other (storeObject, deleteObject, deleteBucketAndObjects), whatever   *)
(* happened to other objects and buckets, and however often the process      *)
(* crashed or was reset in between.  Calls that overlapped on the object, or *)
(* a crash in the middle of one, may break it until the next upload.         *)
ObjectIsWhole == \A k \in Key : Settled(k) => meta[k] = data[k]

(* What the last answered upload of an object stored is what it holds until  *)
(* it is deleted, with or without a restart; a restart itself puts the       *)
(* seed file back.                                                           *)
UploadKept == \A k \in Key : Settled(k) /\ promised[k] # None => data[k] = promised[k]

(* A deleted bucket leaves no object behind that a bucket of the same name   *)
(* would show, unless /admin/reset deleted it.                               *)
NoGhostObject ==
    \A k \in Key : Settled(k) /\ meta[k] # None => k[1] \in buckets \cup wiped

(* A download whose object nobody changes meanwhile is answered, with the    *)
(* body its ETag describes.                                                  *)
DownloadIsWhole ==
    [][\A c \in Clients : ReadBody(c) /\ req[c].key \notin raced
            => data[req[c].key] = req[c].body]_vars

-----------------------------------------------------------------------------
(* The inductive invariant behind the four, key by key. *)

OverlapsKept == Overlaps \subseteq raced

(* A cascade is about its bucket, and half-way with one object at most. *)
CascadesOwn ==
    \A c \in Clients : req[c].op = "cascade" =>
        /\ req[c].keys \subseteq Of(req[c].bucket) /\ req[c].half \subseteq Of(req[c].bucket)
        /\ \A j, k \in req[c].half : j = k

(* How far a call has come with an object. *)
Reached(c, k) ==
    /\ req[c].op = "data" /\ req[c].key = k => meta[k] = req[c].body
    /\ req[c].op = "undata" /\ req[c].key = k => meta[k] = None /\ promised[k] = None
    /\ req[c].op = "body" /\ req[c].key = k => data[k] = req[c].body
    /\ req[c].op = "cascade" /\ k \in Of(req[c].bucket) =>
          /\ k \in req[c].half => meta[k] = None /\ promised[k] = None
          /\ meta[k] # None => k \in req[c].keys
    /\ req[c].op = "drop" /\ k \in Of(req[c].bucket) => meta[k] = None

Uploads(c, k) == req[c].op \in {"meta", "data"} /\ req[c].key = k

(* The metadata and the body may differ. *)
Changes(c, k) ==
    \/ Uploads(c, k)
    \/ req[c].op = "undata" /\ req[c].key = k
    \/ req[c].op = "cascade" /\ k \in req[c].half

Whole(k) == meta[k] = data[k] /\ (promised[k] # None => data[k] = promised[k])

Sound(k) ==
    /\ \A c \in Clients : Reached(c, k)
    /\ Whole(k) \/ \E c \in Clients : Changes(c, k)
    /\ meta[k] # None \/ (\E c \in Clients : Uploads(c, k)) => k[1] \in buckets \cup wiped

IInv == TypeOK /\ OverlapsKept /\ CascadesOwn /\ \A k \in Key : k \in raced \/ Sound(k)
=============================================================================
