# gcp-local: a TLA+ verification project

gcp-local is one Go process that emulates Google Cloud services for local
development. It serves REST and gRPC from one port, keeps its resources in a
key/value store (memory or BoltDB) and its queues, timers, sessions and child
processes in memory. This directory models the parts of it that keep state and
run concurrently, model-checks them with TLC and proves most of what TLC checks of
their safety with TLAPS, for all values of the constants.

## 1. Inventory

Every request is served by a goroutine of its own. The services share the state
store (`internal/state`), whose `Get`, `Put`, `Delete` and `List` are each atomic
(one lock, or one BoltDB transaction) while a handler that makes several calls is
not. `/admin/reset` deletes keys behind the services' backs, and a shutdown stops
the services one after the other while HTTP is still served.

| Component | State | Operations | What is hard | What makes it correct |
|---|---|---|---|---|
| Pub/Sub queues | topics, subscriptions (store); queues with leases, two counters (memory) | create, put, delete; publish, pull, ack, modifyAckDeadline; REST, gRPC, StreamingPull, console | reads before the lock, leases that run out, late and repeated acks, concurrent publishers | no message is lost, a lease is exclusive, an ack id consumes only its own delivery, one order everywhere |
| Pub/Sub push | map name → cancel function, one goroutine per push subscription | startPusher, stopPusher, runPusher, Stop | store, map and goroutine change in separate steps; reset | one pusher per push subscription, delivery in the end, silence after Stop |
| Cloud Tasks | queues, tasks (store); a sequence, one goroutine per HTTP task | create, delete, dispatch with retries, Stop | delete by name, shutdown during back-off, restart | a dispatch deletes its own task, retries within the budget, tasks leave |
| Cloud Scheduler | jobs (store); map job → runner, goroutines with timers | post, delete, fire, Stop | post/post and post/delete races, reset, restart | one runner per job, the one of the stored version; it fires |
| Secret Manager | secrets, versions (store); a counter per secret | create, addVersion, delete with cascade | check, draw and put in three steps; restart | a version that was answered is kept; no version without a secret |
| Cloud Run/Functions | resources (store); map name → child process | create, invoke, delete, Stop | spawn with the lock released | no process without an owner |
| Firestore | documents (store); listeners with a bounded outbox and two goroutines each | create, update, delete, commit, Listen | broadcast inside or outside the lock, snapshot against live changes, a full outbox, closing a channel | nothing newest is missed, order, writers never wait for a client |
| Storage: resumable uploads | sessions with a buffer | start, chunk, status, single shot | repeated and late requests, a session used after it was finalised | the object is the file; the client can resume |
| Storage: buckets and objects | metadata and bodies, two records an object (store) | upload, download, delete, bucket delete, seeding | two Puts, two Gets, two Deletes without a lock; cascades; a crash between two of them | metadata describe the body, an answered upload stays, a deleted bucket leaves nothing |
| Cloud SQL: instances | records (store); map name → listener; accept loop, sessions and a database per listener | create, delete, start-up, Stop | check, start and put in three steps; Stop against a late session; restart | an open port has its instance, an instance its port, a session its database |
| Cloud SQL: protocol and text | statements and portals of a session; the text of a command | Parse, Bind, Execute, Close, Sync, Query; translation | statements replaced under a portal, errors in a batch; four scanners that each find quotes | Execute runs what was bound, one ReadyForQuery each, only code is rewritten |
| Cloud KMS | rings and keys (store) | create, encrypt, decrypt, reset | check-then-put of random material | a ciphertext stays readable |
| IAM, IAM admin | policies, accounts, keys (store) | read-modify-write of a policy, create, patch, delete with cascade | no etag check; overlapping calls | no edit is lost, no key without its account |
| BigQuery | two maps under a mutex; rows in a pool of SQLite connections | create and drop tables, insertAll, query | each connection is a database; a mutex taken while a connection is held; names that collide | a listed table is backed, rows stay, nobody waits in a circle |
| Logging, Monitoring | entries under a counter (store) | write, list with a filter | numbers drawn concurrently; a filter language | no entry is overwritten, a filter selects what it says |
| Command line, gateway | pid file, daemon process, port | start, stop, reset, shutdown | two daemons share one pid file; `start` probes a port | the pid file names the daemon that serves |
| State store, metadata, dashboard, config, TLS, stubs | a map under a lock, or none | | | |

`PROJECT.json` lists each of them with its status, and the hazards at their lines.

## 2. Modules

| Module | Models | State and actions |
|---|---|---|
| `PubSub` | `services/pubsub`: queues and leases | `req[c]` is what an API goroutine has read before it takes the lock; one action per critical section or store access. A queue is a set of entries whose `slot` is their place in the slice. `handed`, `acked`, `nacked`, `owed` are history variables |
| `AtLeastOnce` | the promise of a subscription | abstract: publish, deliver, acknowledge, nack, drop |
| `PubSubProofs` | | theorems about `PubSub` |
| `PubSubPush` | push delivery | `work[w]` is the w-th pusher goroutine with its program counter |
| `PubSubPushProofs` | | theorems about `PubSubPush` |
| `Tasks` | `services/tasks` | `disp[i]` is the goroutine of the i-th task created |
| `TasksProofs` | | theorems about `Tasks` |
| `Scheduler` | `services/scheduler` | `runs[w]` is the w-th runner, `jobs` the map |
| `SchedulerProofs` | | theorems about `Scheduler` |
| `SecretManager` | `services/secretmanager` | three steps for addVersion, four for delete, two namespaces for reset |
| `CloudRun` | `services/cloudrun` | `procs[k]` is the k-th process, `children` the map |
| `Firestore` | `services/firestore` | `wr` the mutations, `lst` the streams, `out` what a caller of `send` has yet to send |
| `FirestoreProofs` | | theorems about `Firestore` |
| `ResumableUpload` | `storage/objects.go`, sessions | `puts[i]` is the i-th PUT, found or not; the client is external |
| `ResumableUploadProofs` | | theorems about `ResumableUpload` |
| `Storage` | `storage/storage.go`, `objects.go`, `seed.go` | `meta` and `data` are the two records; `req[c]` is a call between two of its steps; `promised` is what the last answered upload stored |
| `KMS` | `services/kms` | a key is the number of its creation; `issued` are the ciphertexts that were answered |
| `ServicesProofs` | | theorems about `KMS`, and about `SecretManager`, `IAMAdmin`, `Storage`, `BigQuery`, `Telemetry` and `LogFilter` as `MCServices` composes them |
| `IAMAdmin` | `services/iamadmin`, `services/iam` | accounts, keys, policies; a client edits a policy by get, change, set |
| `BigQuery` | `services/bigquery` | `pool[i]` is a connection with its own database; `mu` is Service.mu |
| `Telemetry` | `services/logging`, `services/monitoring`: writing and listing | `seq`, `entries`; a request draws and puts entry by entry |
| `LogFilter` | `logging/filter.go` | the filter is read lexeme by lexeme; `expects` is what the parser wants next, `pred` what it has built |
| `CloudSQL` | `services/cloudsql`, the listeners of `pgwire` and `mysqlwire` | `lns[l]` is the l-th listener with its accept loop, sessions and database |
| `PgSession` | `pgwire/session.go`, `extended.go`, `simple.go` | `prepared` the statement objects, `stmts` and `portals` the names, `batch` what is left of a query |
| `PgText` | `pgwire/translate.go` | four scanners over one sequence of lexemes |
| `MySQLText` | `mysqlwire/translate.go`, the count of parameters | one scanner with the state of the column |
| `Lifecycle` | `cmd/gcp-local`, `internal/pidfile`, `Gateway.Run` | `proc[d]` is a daemon, `stop[k]` a `stop` command, `report[d]` what `start` said |
| `ServersProofs` | | theorems about `CloudRun`, `CloudSQL`, `PgSession`, `PgText`, `MySQLText` and `Lifecycle` as `MCServers` composes them |

Each `MC` module extends its component and adds the constants of the runs
(symmetry sets, model values); `MCCloudRun` adds a history of the processes that
`stopAll` found running. Four of them put several components side by side:
`MCTimers` (`Tasks`, `Scheduler`), `MCRetries` (`PubSubPush`, `ResumableUpload`),
`MCServices` and `MCServers`. In the code these components share no state but the
store, in which each has namespaces of its own; so a behaviour exercises one
component, chosen by `surface` at the start, and the others stay as they began (in
`MCRetries` the upload is over where it is not the subject). A component with a proof
module of its own is extended, so that TLC checks the definitions that are proved
about; where two are extended together, names that would clash carry a prefix in
`Scheduler` (`SchedulerInit`, `schedulerVars`, ...) and in `ResumableUpload`
(`UploadInit`, ...). `MCServices` extends `KMS` and `MCServers` `PubSub`, and they
instantiate the others. The properties of the instantiated components are conjoined
into one property for each (`SecretsKept` and so on). `MCServers` has two kinds of
surface for Pub/Sub: the fan-out of a topic to two subscriptions, and the leases of
one subscription, which names the surface. The constants of the parts that `ServersProofs` and
`ServicesProofs` are about are constants of `MCServers` and `MCServices`, so that the
theorems hold for all their values. A definition whose comment begins with "Mutant:"
is the faulty form of the definition below it; the specifications do not use it.

Abstractions common to all: a payload is a number, names are model values, an
HTTP answer is its class; JSON, logging and wording are left out; store errors
(a failing disk) do not happen. In `PubSub` the clock is a number that `Tick`
advances, and a deadline is a time of that clock. In the other modules time is
left open: a timer, a lease or a back-off ends at some point.

## 3. Runs

Passing runs (bounds are named in the cfg files):

| Run | Shows | Bounds |
|---|---|---|
| `push_safety` | one pusher, no silent drop, nothing posted after Stop | 1 subscription, 2 clients, 2 pushers, 2 messages, resets |
| `timers` | Cloud Tasks: own task, retry budget, nothing posted after Stop; tasks leave the store, Stop returns. Cloud Scheduler: one uncancelled runner per job; the runner is that of the stored job and fires; a cancelled runner ends | 1 queue, 2 clients, 2 tasks, 2 attempts, 1 restart; 1 job, 2 clients, 3 posts (a good, a bad and a good schedule in a row), resets, 1 restart |
| `firestore_listen` | the newest version is shown, creates and updates in order, writers never wait | 2 writers, all kinds of mutation, 1 stream with an outbox of 3, which a snapshot and one change overfill |
| `retries` | push delivery: a pusher for every push subscription, delivery, Stop returns. Upload: the buffer is a prefix, the object is the file, the upload ends | 1 subscription, 1 client, 2 pushers, 2 messages, pulls of 2, no reset; 4 chunks, 2 timeouts or broken bodies |
| `services` | what the services that answer from the store or SQLite have promised, they keep | 2 clients throughout; 2 secrets, 3 versions, 1 restart; 2 rings, 3 key materials; 2 accounts, 3 fresh numbers; 2 tables with one physical name, 2 idle connections, 2 rows; 1 bucket with a seeded and another object, 3 uploads, 1 crash; 2 labels, 4 entries, 1 restart; filters up to 7 lexemes (two predicates) |
| `servers` | Pub/Sub: no loss, exclusive leases, stale acks harmless, final nacks, one order, and the refinement of `AtLeastOnce`; what the parts with processes, sockets and sessions own, they find again | leases: 1 subscription, 2 clients, 1 message, 3 ack ids (publish and two deliveries), time 0..2 with a deadline of 1, so that leases expire, are extended, nacked and overtaken; fan-out: 2 subscriptions of a topic, 2 publishers, batches up to 2; 2 Cloud Run names, 2 clients, 3 processes that may fail or exit at any time; 2 SQL instances (1 configured), a caller beside the shutdown, 3 listeners, 1 restart; 2 names of statements and portals, 2 texts (1 rejected), 5 messages; texts up to 5 lexemes; 2 daemons on 2 ports, 1 `stop` |

What the joint properties consist of (each part is a definition of its module,
with its statement beside it; the type invariant of the module is conjoined):

| Property | Parts |
|---|---|
| `SecretsKept` | `VersionKept`, `NoOrphanVersion`, `LatestIsNewest` |
| `AccountsKept` | `NoOrphanKey`, `EditsAddUp`, `PatchKept` |
| `TablesKept` | `TableBacked`, `RowsKept`, `NoCircularWait` |
| `ObjectsKept` | `ObjectIsWhole`, `UploadKept`, `NoGhostObject`, `DownloadIsWhole` |
| `LogsKept` | `EntryKept`, `FilterAccepted`, `FilterHonoured` |
| `ListenersServed` | `SessionHasDatabase`, `NoLeakedListener`, `InstanceServed` |
| `SessionAnswers` | `PortalRunsBoundText`, `OneReadyEach` |
| `SQLTextKept` | `ParamOrder`, `TranslatesCode`, `SplitsCode`; `AutoIncrementPlaced`, `QuotedKept`, `ParamsCounted` |
| `DaemonIsFound` | `ServerInPidFile`, `NoStaleFile`, `StartedHasServed` |
| `PushInv`, `TasksInv`, `SchedulerInv`, `ListenInv`, `UploadInv` | `OnePusher`, `RetryBudget`, `OneRunner`, `LiveInOrder`, `BufferIsPrefix` |

The code is small in what it distinguishes: two clients and one restart reach
every pair of critical sections in every order, and each counter is allowed to
go once past the point where two users of it could meet. Five lexemes are two
quotes with something between them and one thing on each side; seven are two
predicates with AND between them. The runs switch the deadlock check off, because the
environment may stop calling and the counters are bounded; that nobody waits for ever
is what the liveness properties, `WriterNeverWaits` and `NoCircularWait` are for.

Runs that end in a violation; each shows a disagreement between the code and what
its comments say (see `findings`):

| Run | What happens |
|---|---|
| `tasks_shutdown` | the first request of a task is answered with a 5xx, the dispatch waits in its back-off, Stop cancels the context, and the task is deleted although it has an attempt left |
| `firestore_overflow` | a channel is closed twice: once for a full outbox, once when the client leaves |
| `cloudrun_shutdown` | `stopAll` runs while a child is waiting for its port: it is not in the map, is not ended, and is cached when nothing will stop it any more |
| `log_numbers` | `severity = 200`, which the grammar in the code's comments allows, is refused: the tokeniser takes no number without quotes |
| `pg_casts` | `stripCasts` removes the words behind the type of a cast as well: `a::int FROM t` loses `FROM t` |
| `pg_comments` | the semicolon of `/* ; */` ends a command: `splitCommands` knows only `--` comments |

### What the properties leave out, and why

Several properties hold only where calls do not get in each other's way, and the
models say exactly where that is. `raced`, a history variable of `Scheduler`,
`SecretManager`, `CloudRun`, `Storage`, `KMS`, `IAMAdmin`, `CloudSQL` and
`Lifecycle`, collects the names for which they did; the
specifications do not exclude those behaviours, the properties except the names.
Without the exception TLC shows:

* `Scheduler`: after a reset the runner of a deleted job goes on firing; after a
  restart the stored jobs have no runner; of two overlapping POSTs the older one
  may start its runner last.
* `SecretManager`: a version whose addVersion found the secret before a DELETE is
  stored after the cascade; after a restart the counter starts again and version 1
  is overwritten; a reset that meets a secret somebody else deleted stops and
  leaves versions without their secret.
* `CloudRun`: two first invocations of a name spawn two children and the handle of
  one is lost; an invocation that overlaps a DELETE of the name caches a child
  nobody will stop. What is cached behind `stopAll` is not excepted by `raced`:
  `NoLeakedChild` asks that a live child be cached, which it is, and no later Stop
  comes to end it. That the shutdown ends every child fails (`cloudrun_shutdown`).
* `Storage`: two uploads of one object, an upload and a deletion, or a crash between
  the two Puts leave metadata that describe another body, until the next upload; a
  reader between the Puts is answered with a body its ETag does not describe. A
  reset deletes the buckets (`wiped`) and not the objects, which a new bucket of the
  name shows again.
* `KMS`: of two creations of one key both pass the check and the second replaces the
  key, so that what was sealed with the first cannot be opened; a creation beside a
  reset leaves a key without its ring.
* `IAMAdmin`: two clients that read a policy before either writes it lose an edit,
  because `Set` does not look at the etag; a key created while its account is
  deleted stays.
* `CloudSQL`: two creations of one instance leave a listener nobody can stop; created
  instances keep their record over a restart and have no listener (`stale`); the
  accept loop reads `l.ln`, which Stop sets to nil, and the process panics
  (`panicked`): the properties speak of the runs where it did not.
* `Lifecycle`: of two daemons alive at once the pid file names the later one, and
  whichever ends first removes it. `StartedHasServed` says that some daemon served on
  the port: the probe of `start` cannot tell its own daemon from another one.

Other exceptions are stated in the properties themselves. `TableBacked` and
`RowsKept` hold while no two calls used the pool at the same time (`apart`): two that
do are given different `:memory:` databases, and a table created through one
connection does not exist in the other. `EntryKept` speaks of the entries since the
last start, because the counter begins again over the stored ones. `FilterHonoured`
leaves out a quoted number with a sign, which byte arithmetic turns into another
number, and `FilterAccepted` a number without quotes (`log_numbers`). `SplitsCode`
leaves out texts with a block comment, which `splitCommands` takes for code
(`pg_comments`). `ParamOrder` and `TranslatesCode` leave out comments of both kinds,
which none of the three passes knows, and `TranslatesCode` dollar quotes and two words
behind a cast (`pg_casts`): where the scanners disagree on what is code, the text is
not translated as Postgres reads it, and nothing is claimed. The reading takes the first
`*/` for the end of a block comment; in Postgres these nest.

Two more are a matter of the constants. With `MayReset` in `PubSubPush`,
`PushSubHasPusher` fails: the entry of a pusher that ended with its subscription stays
in the map and keeps the next one from starting. `push_safety` has resets and
`retries` has not; nor does `retries` have two clients, so that a deletion and a
creation that overlap are seen by `OnePusher` and not by `PushSubHasPusher`. With two `Endpoints` a PUT that changes the endpoint leaves the
pusher at the old one. With `RetrySingle` in `ResumableUpload`, `BufferIsPrefix` and
`ObjectIsFile` fail: a single-shot PUT that found the session before an earlier one
finalised it appends its body to the finished buffer. And in `Firestore` no property is
stated of the order between a snapshot and a change, or of the events of a commit: the
snapshot that is listed before a change may be sent after it, and a commit broadcasts
its changes before its deletes and after it released the lock.

## 4. Fairness

The liveness properties say that nothing waits for ever (`[]<>` of the state in which
it no longer waits). Weak fairness of a goroutine's next step stands for the Go scheduler. Strong fairness of
an exit (`PusherExit`, `RunnerExit`) stands for `select`, which chooses at random among
the ready cases and so does not ignore a closed channel for ever. HTTP calls return
because the clients have timeouts. Two assumptions are about the environment: an
endpoint that is posted to again and again answers 2xx in the end (`PushDelivers`), and
a client of an upload gives up only finitely often (`UploadEnds`). Nothing is assumed of
the time a task is scheduled for. `Firestore` has no fairness: that a writer never waits
is stated as a property of every state (`WriterNeverWaits`: its next step is enabled),
so that nothing need be assumed of the client reading its stream. `NoCircularWait` of
`BigQuery` asks the same of some call whenever calls are in progress, through `CanGoOn`,
which says of a call that what its next step waits for is there: a connection, or the
mutex. The guards of the steps use the same `CanTake` and `CanAnswer`, and TLC found it
equal to ENABLED of the steps. The components of `services` and `servers` have no
fairness either: what is asked of them is safety.

## 5. Proofs

Every theorem is about the specification with any value of its constants: any sets
of names and clients, any bounds. The bounds of the models (`MaxMsgs`, `MaxPosts`,
...) stay in the guards, but as arbitrary numbers. A property that a run checks and
a theorem states is one and the same definition.

| Module | Theorem | Property |
|---|---|---|
| `PubSubProofs` | `TypeCorrect` | `TypeOK` |
| | `AckIdsNameOneDelivery` | `AckNamesOneDelivery` |
| | `AtLeastOnceDelivery` | `NoLostMessage`: what is owed is queued or was acknowledged |
| | `NackKeepsMessage` | `NackIsFinal` |
| | `PublishOrder` | `SameOrderEverywhere` |
| | `LeaseIsExclusive` | `ExclusiveLease`, an action property |
| | `QueuesKeepPromise` | `KeepsPromise`, the refinement of `AtLeastOnce` |
| `PubSubPushProofs` | `OnePusherPerSub` | `PushInv` |
| | `NothingDropped` | `NoSilentDrop` |
| | `SilentAfterStop` | `NoPushAfterStop`, an action property |
| | `PushSubsAreServed` | `PushSubHasPusher`, where one client calls at a time and nothing is reset |
| `TasksProofs` | `BudgetKept` | `TasksInv` |
| | `DispatchDeletesItsOwn` | `DeletesOwnTask` |
| | `SilentAfterStop` | `NoPostAfterStop`, an action property |
| `SchedulerProofs` | `OneRunnerPerJob` | `SchedulerInv` |
| | `StoreAndRunnersAgree` | `RunnerMatchesStore` |
| `FirestoreProofs` | `LiveStreamInOrder` | `ListenInv` |
| | `SettledShowsNewest` | `NewestShown` |
| `ResumableUploadProofs` | `BufferStaysPrefix` | `UploadInv`, where a single-shot PUT is not retried |
| | `ObjectStaysFile` | `ObjectIsFile`, likewise |
| `ServicesProofs` | `KMSTypeCorrect` | the type invariant of `KMS` |
| | `CiphertextsStayReadable` | `CiphertextOpens` |
| | `ResetLeavesNoOrphan` | `KeyHasRing` |
| | `SecretsStayReadable` | `SecretsKept` (Secret Manager) |
| | `AccountsStayWhole` | `AccountsKept` (IAM) |
| | `ObjectsStayWhole` | `ObjectsKept` (Cloud Storage) |
| | `LogsStayKept` | `LogsKept` (Logging and Monitoring; log filters without unquoted numbers) |
| | `TablesStayKept` | `TablesKept` (BigQuery) |
| `ServersProofs` | `NoChildOutlivesItsUse` | `NoLeakedChild` (Cloud Run): a live child is cached; that somebody comes to end it after the shutdown is not claimed |
| | `InstancesAreServed` | `ListenersServed` (Cloud SQL) |
| | `SessionsAnswer` | `SessionAnswers` (PostgreSQL sessions) |
| | `SQLTextStaysKept` | `SQLTextKept` (SQL text of both engines; of Postgres, texts without what its parts leave out: block comments for the cuts, all comments for parameters, dollar quotes and two words behind a cast too for the rewriting) |
| | `PidFileNamesServer` | `DaemonIsFound` (command line) |

None of these properties is inductive. Each component's module ends with the
inductive invariant, `IInv` (`SchedulerIInv`, `UploadIInv`), a conjunction of named
parts with a comment each (those of `LogFilter`, `BigQuery`, `PgText` and `MySQLText` stand in the proof modules, as
`LfIInv`, `BqIInv`, `PgIInv` and `MyIInv`). TLC checked each of them before it was
proved. The proof modules have one lemma per action or group of actions that change the same
state. What the parts add, and why it is needed:

* `PubSub`: the counters are ahead of all numbers drawn from them, those still held
  by a publisher that has not got the lock included (`CountersAhead`,
  `PendingUnknown`, `BatchOrdered`); a queue holds a message once, and ids are unique
  across queues (`EntriesDistinct`); the id kept in an in-flight entry is that of its
  newest delivery and was not nacked (`LeaseBinding`), which is what makes a stale
  acknowledgement miss; what is owed but not queued was acknowledged through its
  newest delivery (`GoneWasAcked`). `ClocksBehind`, that the time a pull read before
  it got the lock is not in the future, is the fact behind `LeaseIsExclusive`: an old
  clock reading errs towards not handing out. The refinement maps the queues to sets
  of messages (`Outbox`), the entries in flight to leases (`Leases`), and the numbers
  drawn and no longer held by a publisher to what was published (`PublishedIDs`);
  each action of the code is then publish, deliver, acknowledge, nack or drop of
  `AtLeastOnce`, or a stutter.
* `PubSubPush`: a pusher that delivers holds published messages and acknowledges only
  what an endpoint accepted (`BatchHeld`); a call that cancels names a pusher that
  was started (`CancelsStarted`); nobody posts after Stop (`NobodyPosts`). For
  `PushSubsAreServed`, `Tended` adds that the entry of the map is the live goroutine
  of its subscription, or that the call in progress is about to start or stop it.
  That this needs one caller at a time and no reset (`Sequential`) is what the code
  does: of a deletion and a creation that overlap, either may come last in the map.
* `Tasks`: the loop variable of a dispatch counts the requests sent
  (`AttemptsCounted`), a running name was drawn in this life of the process
  (`NamesDrawn`), so that no later task takes it.
* `Scheduler`: runners and the calls about to start one are counted by the posts
  (`RunnersCounted`), entries of the map belong to their job (`FiledUnderItsJob`),
  and a job is in step with the store or has exactly one call that will bring it
  there (`StepPending`).
* `Firestore`: a goroutine sends only in the middle of its own work (`Busy`); a change
  made under the lock is broadcast by the holder, alone (`Locks`); versions of locked
  changes rise along the stream, then the outbox, then what a writer has still to
  tell (`Ordered`); and a stream that has lost nothing has been shown the newest
  version of a document, or has it in the outbox, or some goroutine is about to send
  it (`Arriving`).
* `ResumableUpload`: the buffer is the file up to some byte (`Contents`), a request
  carries the bytes its header names and that the server had asked for (`Carries`), a
  single-shot request is alone (`SingleAlone`), and requests are paid for by bytes
  that arrived and by timeouts (`Progress`, `Awaited`), which bounds their number.
* `KMS`: no creation is about to put a key that something was sealed with
  (`SealedKeyStays`; the look-up of the key fails before a creation gets that far);
  two creations of one key, or one beside a reset, are known in `raced`
  (`RacesKnown`), so that any other creation still has its ring (`CreatesInRing`); a
  reset that is alone finds everything it has listed (`WipesWhatIsThere`), so that it
  does not end early and a key whose ring is gone is still on its list
  (`OrphanIsDoomed`).
* `SecretManager`: the counter of a secret is ahead of its versions and of the number a
  call has drawn and not yet stored (`CountersAhead`, `DrawnOnce`), so that no number
  is given twice (`NamesUnique`); a call that adds is about a stored secret
  (`AddsToStored`); a deletion or a reset has all that is left of a secret on its list
  (`CascadesAll`, `WipesFind`, `Doomed`), so that a version without its secret is one
  that somebody is about to delete (`OrphansDoomed`).
* `IAMAdmin`: what a call read before its write is still stored (`StillSo`), and what a
  cascade or a reset has listed is still there to delete (`Finds`); a key without its
  account is on such a list (`Dooms`, `KeysDoomed`); the display name that was answered
  is the one stored (`ShownStored`).
* `Storage`: key by key, as `Sound` says: how far each call about the object has come
  (`Reached`: the metadata of an upload are there before its body is put, a download
  has read metadata of the body that is there, what a cascade has not listed is gone),
  and the two records agree or a call in progress will make them agree (`Whole`,
  `Changes`). A key that is not in `raced` has one such call at most, and an upload
  takes a key out of `raced` because it writes both records.
* `Telemetry`: a number that was drawn is below the counter and belongs to one entry,
  put or about to be put (`DrawnOnce`). Numbers are counted by the entries sent and
  still without one (`TeDrawsCounted`, in `ServicesProofs`).
* `LogFilter`: until the parser refuses, each lexeme is of the kind its place asks for
  and the predicates are those of the complete clauses (`LfReading`); what made it
  refuse, a lexeme out of place or a clause that `buildPredicate` does not take, stays
  in the filter (`LfRefused`), so that a filter which the grammar accepts is not
  refused however long it is. A number without quotes is out of place everywhere, as
  in the code, and outside of `WellFormed`.
* `BigQuery`: the mutex is held by the one call that creates or drops tables
  (`BqLocked`) and a busy connection is in the hands of one call (`BqConnected`).
  `NoCircularWait` follows from the two: the number of calls is finite, so a new
  connection can always be opened, and only a query waits for the mutex, whose holder
  never waits for a query. While no two calls have used the pool at once (`apart`)
  there is one open database, no two live tables have one physical name, and the
  database holds exactly the live tables and the rows that were kept (`BqSingle`,
  `BqApart`, `BqBacked`); a table that a DELETE has taken out of the map and not yet
  dropped is still live.
* `CloudRun`: a call between two critical sections is about a stored resource with no
  cached child and about a process it has spawned (`CallsAlone`), and a live child is
  cached or about to be (`ChildrenOwned`).
* `CloudSQL`: the database of a listener is closed after its loop and its sessions
  (`DatabaseLast`); what the map, a request or Stop names is a listener of that name
  (`NamesKept`); between the steps of a request that is alone the map has no entry for
  its name, or its own (`CallsAlone`); an open listener is in the map, or in the hands
  of a request or of Stop (`ListenersOwned`); an entry of the map is open and stored
  or about to be (`MapOpen`); a record has its entry or is being deleted
  (`RecordsServed`). A start over the old database is the same state as the first
  start behind the dead listeners (`Fresh`).
* `PgSession`: a portal points to the statement object it was bound to, which a later
  Parse of the name replaces and does not change (`PortalsBound`); the query in
  progress is the one not yet answered and has had no error while a command is left
  (`Answering`).
* `PgText`: each of the four passes stands where the reading of the command ends, in the
  texts it can read (`PgStand`: the splitter does not know block comments, the passes
  over parameters, casts and names no comments at all, the last two no dollar quotes),
  and each command is translated as Postgres
  would read it (`PgRight`). A reading is defined over a whole text; `PgReadsOn` and the
  lemmas about what grows with one more lexeme (`PgOrderGrows`, `PgOutputGrows`, ...)
  turn it into a step.
* `MySQLText`: input and output have the same view, that is region, depth, commas and
  parameters (`MyView`); the depths in the state are those of PRIMARY KEYs whose column has
  not ended (`MyHeld`), so that an AUTOINCREMENT stands behind one of its own column
  (`MyPlaced`); where the text has them all at one depth, the pass knows every such
  key (`MyKnown`) and an AUTO_INCREMENT has been placed or waits for its key
  (`MyMoved`); and the output without what was moved is what is wanted of the input
  (`MyKept(out) = MyWanted(input)`).
* `Lifecycle`: the file names a daemon that has written it and, where none was killed,
  is there to remove it (`FileWritten`); a `stop` removes the file only after the
  daemon it read is gone (`StopsWritten`); a daemon that has bound its port has
  served (`BindersServed`).

The readings of the two text modules are recursive functions over the text. That a
scan of one more lexeme is the old one and one step, and that a definition which
satisfies the equations of a scan is the scan, is proved by the least position where
two would differ (`LeastNumber`, from the well-foundedness of the numbers), and what
is wanted of a text through `FlattenAppend`, about the flattening of one more
sequence. The theorem is about texts of any length over the lexemes of the two modules,
with the antecedents that `ParamOrder`, `TranslatesCode`, `SplitsCode` and
`AutoIncrementPlaced` have.
`AutoIncrementPlaced` speaks of a PRIMARY KEY of the column, not of every one: with texts of
more lexemes than the run has, TLC refutes the stronger form for a column with two.

Where a property leaves out names in `raced`, `RacesKept` (in `Storage` `OverlapsKept`,
or the part that contains it) says that `raced` knows the calls that overlap now; the
argument for a name outside of it is that the call being stepped is the only one about
that name.

Assumptions on constants are the named `ASSUME`s: bounds are natural numbers;
`Clients` (where a proof counts the calls in progress), `Subs` and `Docs` are finite;
the name of the free lock is no writer and no writer is a stream; `Total`, `Chunk`,
`Cap`, the number of attempts and the limit of a pull are not 0. `InstancesAssumption`
says that a configuration of Cloud SQL names an instance once: `New` starts a
listener for each entry, and a second entry of the same name would replace the first
one in the map, which the model of `New` does not show. `SessionAssumption` says that
each text of a session has a number of parameters, `ServicesAssumption` that the bounds
of the services are natural numbers and seed files lie in buckets, `BigQueryAssumption`
that each table has a physical name and at least one idle connection is kept
(`database/sql` keeps two). Theorems with a
hypothesis have it because the property fails without it (section 3).

Only model-checked:

* liveness, because fairness is out of the prover's reach: `PushDelivers`,
  `StopReturns` and `TaskLeaves`, `JobFires` and `CancelledRunnerEnds`, `UploadEnds`,
  of the runs `timers` and `retries`;
* `WriterNeverWaits`, which is ENABLED of an action.

Every other property of a passing run is stated by a theorem. The properties of the
runs that end in a violation are false, and so are not proved.

## 6. Not modelled

* StreamingPull's loop, which applies the first of several deadlines to all ids;
  restarts of Pub/Sub: the queues and pushers are gone and nothing restores them.
* Firestore document targets, field masks, queries; several targets of a stream.
* BigQuery: the rewriting of SQL (regular expressions over names), column types and
  the formatting of results. `BigQuery` takes a statement as the table it is about.
* Cloud SQL: the handshake and the encoding of values; the MySQL protocol, which is a
  library that calls back into stateless functions, and the conversion of arguments.
* Logging: page size and the order of results.
* `env`, `status`, `gcloud-setup`, `trust`: they print, or call other programs.
* The state store as a module: it is a map whose operations the modules take as
  atomic steps. A store that fails (a full disk) is not modelled.
* Cron arithmetic, back-off durations, HTTP, TLS, cryptography: libraries.
* Metadata server, health, auth, observability, dashboard, configuration, Memorystore,
  Bigtable, Spanner: stateless handlers, start-up code or wrappers around library
  servers.

## 7. Plan

Done, in this order: `PubSub` with `AtLeastOnce` and the proofs; `PubSubPush`;
`Tasks`; `Scheduler`; `SecretManager`; `CloudRun`; `Firestore`; `ResumableUpload`;
`Storage`; `KMS` with its proofs; `IAMAdmin`; `BigQuery`; `Telemetry` and
`LogFilter`; `CloudSQL`, `PgSession`, `PgText`, `MySQLText`; `Lifecycle`; the
refinement proof; the proofs about `Tasks`, `Scheduler`, `PubSubPush`,
`ResumableUpload`, `Firestore`, `CloudRun`, `Lifecycle`, `CloudSQL`, `PgSession`,
`SecretManager`, `IAMAdmin`, `Storage`, `Telemetry`, `LogFilter`, `BigQuery`, `PgText`
and `MySQLText`.

Next:

1. `StreamingPull` over `PubSub`, and its restart.
2. The gateway's shutdown as a composition of the services' Stop with requests still
   coming in.
3. An atomic object store that `Storage` implements where calls do not overlap.
