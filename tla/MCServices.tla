----------------------------- MODULE MCServices -----------------------------
(***************************************************************************)
(* The REST services for TLC.  They share no state: a behaviour exercises  *)
(* one of them, chosen at the start, and the others stay as they began.    *)
(* KMS is extended and not instantiated.                                   *)
(***************************************************************************)
EXTENDS KMS, TLC

CONSTANTS Pair, d1, d2, t1, t2, b1, o1,
          MaxRestarts,  \* bound on the restarts of a service
          MaxVersions,  \* bound on the versions of Secret Manager
          Members,      \* bindings of an IAM policy
          MaxSerial,    \* bound on the fresh numbers of IAM
          Buckets, Objects,
          Seeds,        \* the objects of the seed directories
          MaxUploads,   \* bound on the uploads
          Labels,       \* timestamps of log entries, or projects
          MaxEntries,   \* bound on the entries written
          MaxLexemes,   \* bound on the length of a log filter
          Tables, Names, Physical,  \* the tables of BigQuery and their physical names
          MaxIdle,      \* free connections kept
          MaxRows       \* bound on the rows sent to insertAll

ASSUME ServicesAssumption ==
    /\ MaxRestarts \in Nat /\ MaxVersions \in Nat /\ MaxSerial \in Nat
    /\ MaxUploads \in Nat /\ MaxEntries \in Nat
    /\ Seeds \subseteq Buckets \X Objects

ASSUME BigQueryAssumption ==
    /\ Physical \in [Tables -> Names]
    /\ MaxIdle \in Nat \ {0} /\ MaxRows \in Nat
    /\ IsFiniteSet(Clients) /\ "nobody" \notin Clients

VARIABLES surface,   \* the service a behaviour exercises
          secrets, versions, verSeq, smReq, calls, smRestarts, granted, smRaced,
          accounts, keys, policies, iamReq, serial, shown, edited, iamRaced,
          datasets, tables, mu, pool, bqReq, rowsSent, kept, apart,
          buckets, meta, data, stReq, uploads, stRestarts, promised, stRaced, wiped,
          seq, entries, teReq, sent, teRestarts, answered,
          input, expects, clause, pred

Sm == INSTANCE SecretManager WITH
    Secrets <- Pair, req <- smReq, restarts <- smRestarts, raced <- smRaced

Iam == INSTANCE IAMAdmin WITH
    Accounts <- Pair, req <- iamReq, raced <- iamRaced

Bq == INSTANCE BigQuery WITH req <- bqReq, sent <- rowsSent

St == INSTANCE Storage WITH
    req <- stReq, restarts <- stRestarts, raced <- stRaced

Te == INSTANCE Telemetry WITH
    req <- teReq, restarts <- teRestarts

Lf == INSTANCE LogFilter

sm == <<secrets, versions, verSeq, smReq, calls, smRestarts, granted, smRaced>>
iam == <<accounts, keys, policies, iamReq, serial, shown, edited, iamRaced>>
bq == <<datasets, tables, mu, pool, bqReq, rowsSent, kept, apart>>
st == <<buckets, meta, data, stReq, uploads, stRestarts, promised, stRaced, wiped>>
te == <<seq, entries, teReq, sent, teRestarts, answered>>
lf == <<input, expects, clause, pred>>

ServicesInit ==
    /\ surface \in {"secretmanager", "kms", "iam", "bigquery", "storage", "telemetry", "filter"}
    /\ Sm!Init /\ Init /\ Iam!Init /\ Bq!Init /\ St!Init /\ Te!Init /\ Lf!Init

ServicesNext ==
    /\ UNCHANGED surface
    /\ \/ surface = "secretmanager" /\ Sm!Next /\ UNCHANGED <<vars, iam, bq, st, te, lf>>
       \/ surface = "kms" /\ Next /\ UNCHANGED <<sm, iam, bq, st, te, lf>>
       \/ surface = "iam" /\ Iam!Next /\ UNCHANGED <<sm, vars, bq, st, te, lf>>
       \/ surface = "bigquery" /\ Bq!Next /\ UNCHANGED <<sm, vars, iam, st, te, lf>>
       \/ surface = "storage" /\ St!Next /\ UNCHANGED <<sm, vars, iam, bq, te, lf>>
       \/ surface = "telemetry" /\ Te!Next /\ UNCHANGED <<sm, vars, iam, bq, st, lf>>
       \/ surface = "filter" /\ Lf!Next /\ UNCHANGED <<sm, vars, iam, bq, st, te>>

servicesVars == <<surface, sm, vars, iam, bq, st, te, lf>>

ServicesSpec == ServicesInit /\ [][ServicesNext]_servicesVars

MCSeeds == {<<b1, o1>>}

(* Two tables whose names make one physical name, as a.b__c and a__b.c do. *)
MCTables == {<<d1, t1>>, <<d2, t2>>}
MCPhysical == [t \in MCTables |-> "a__b__c"]

Symmetry == Permutations(Clients) \cup Permutations(Pair)

-----------------------------------------------------------------------------
(* Secret Manager: a version that was answered keeps its number and payload *)
(* while its secret is there, `latest` names the version added last, and    *)
(* DELETE of a secret takes the versions along.                             *)
SecretsKept ==
    /\ [](surface = "secretmanager" => Sm!TypeOK /\ Sm!VersionKept /\ Sm!NoOrphanVersion)
    /\ Sm!LatestIsNewest

(* IAM: DELETE of an account takes its keys along, policy edits that do not *)
(* overlap all count, and PATCH keeps the unique id and stores the display  *)
(* name it answers.                                                         *)
AccountsKept ==
    /\ [](surface = "iam" => Iam!TypeOK /\ Iam!NoOrphanKey /\ Iam!EditsAddUp)
    /\ Iam!PatchKept

(* BigQuery: a listed table has a physical table of its own, an inserted    *)
(* row stays until its table is dropped, and Service.mu and the connection  *)
(* pool are never waited for in a circle.                                   *)
TablesKept ==
    surface = "bigquery" => Bq!TypeOK /\ Bq!TableBacked /\ Bq!RowsKept /\ Bq!NoCircularWait

(* Cloud Storage: the metadata of an object describe its body, in the store *)
(* and in a download, an answered upload is what the object holds, and      *)
(* DELETE of a bucket takes its objects along.                              *)
ObjectsKept ==
    /\ [](surface = "storage" => St!TypeOK /\ St!ObjectIsWhole /\ St!UploadKept /\ St!NoGhostObject)
    /\ St!DownloadIsWhole

(* Logging and Monitoring: an answered entry or time series is not          *)
(* overwritten by a concurrent write, and a log filter is accepted exactly  *)
(* when it is in the documented subset and then selects what it means.      *)
LogsKept ==
    /\ surface = "telemetry" => Te!EntryKept
    /\ surface = "filter" => Lf!FilterAccepted /\ Lf!FilterHonoured
=============================================================================
