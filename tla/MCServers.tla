----------------------------- MODULE MCServers ------------------------------
(***************************************************************************)
(* The parts that live in memory, queues, processes, listeners, sessions   *)
(* and the text they rewrite, for TLC.  They share no state: a behaviour   *)
(* exercises one of them, chosen at the start, and the others stay as they *)
(* began.  PubSub is extended and not instantiated, so that what TLC       *)
(* checks of it is what PubSubProofs proves.  It has two surfaces: the     *)
(* fan-out of two messages to two subscriptions, and, named by its         *)
(* subscription, the leases of the messages of one.                        *)
(***************************************************************************)
EXTENDS PubSub, TLC

CONSTANTS Pair, n1, Main, q1, q2,
          MaxChildren,  \* bound on the processes Cloud Run ever spawns
          Instances,    \* Cloud SQL instances
          Configured,   \* those of the configuration, in its order
          Callers,      \* goroutines that serve a call of Cloud SQL
          MaxListeners, \* bound on the listeners ever started
          MaxRestarts,  \* bound on the restarts of Cloud SQL
          Slots,        \* names of Postgres statements and portals
          Queries,      \* the texts of a session
          Rejected,     \* those sqlite rejects
          Params,       \* the highest parameter each refers to
          MaxMessages,  \* bound on the messages of a session
          MaxLexemes,   \* bound on the length of an SQL text
          Ports,        \* the ports daemons may be given
          Commands      \* `stop` commands that may run at once

ASSUME ServersAssumption == MaxChildren \in Nat

(* A configuration names an instance once; the shutdown is no request. *)
ASSUME InstancesAssumption ==
    /\ Configured \in Seq(Instances) /\ MaxListeners \in Nat /\ MaxRestarts \in Nat
    /\ \A i, j \in DOMAIN Configured : Configured[i] = Configured[j] => i = j
    /\ Len(Configured) <= MaxListeners
    /\ Main \notin Callers

ASSUME SessionAssumption == Params \in [Queries -> Nat]

VARIABLES surface,   \* the part a behaviour exercises
          resources, children, procs, runReq, runStopped, runRaced,
          stored, listeners, lns, sqlReq, sqlStopped, panicked, restarts, sqlRaced, stale,
          prepared, stmts, portals, batch, querying, pinned, messages, asked, ready, errors, bound, ran,
          pgInput, splits, rewrites, strips, replaces, commands,
          myInput, region, parenDepth, autoInc, primaryKey, out, params,
          port, proc, term, pidfile, stop, report, served, killed, raced

Run == INSTANCE CloudRun WITH
    Names <- Pair,
    stored <- resources, req <- runReq, stopped <- runStopped, raced <- runRaced

Sql == INSTANCE CloudSQL WITH
    Names <- Instances, Clients <- Callers,
    req <- sqlReq, stopped <- sqlStopped, raced <- sqlRaced

Pg == INSTANCE PgSession

PgSQL == INSTANCE PgText WITH input <- pgInput

MySQL == INSTANCE MySQLText WITH input <- myInput

Life == INSTANCE Lifecycle WITH Daemons <- Pair

run == <<resources, children, procs, runReq, runStopped, runRaced>>
sql == <<stored, listeners, lns, sqlReq, sqlStopped, panicked, restarts, sqlRaced, stale>>
pg == <<prepared, stmts, portals, batch, querying, pinned, messages, asked, ready, errors, bound, ran>>
pgsql == <<pgInput, splits, rewrites, strips, replaces, commands>>
mysql == <<myInput, region, parenDepth, autoInc, primaryKey, out, params>>
life == <<port, proc, term, pidfile, stop, report, served, killed, raced>>

(* Fan-out: nothing is pulled, and the clock stands. *)
FanOut == Next /\ now' = now /\ \A c \in Clients : req'[c].op # "pull"

(* Leases: the requests name subscription s and publish one message, and     *)
(* three ack ids are drawn.                                                  *)
LeasesOn(s) ==
    /\ Next
    /\ msgSeq' <= 1 /\ ackSeq' <= 3
    /\ \A c \in Clients :
          IF req'[c].op = "publish" THEN Len(req'[c].ids) + req'[c].left <= 1
          ELSE req'[c] # NoReq => req'[c].sub = s

ServersInit ==
    /\ surface \in {"run", "sql", "session", "pgsql", "mysql", "life", "fanout"} \cup Subs
    /\ Run!Init /\ Sql!Init /\ Pg!Init /\ PgSQL!Init /\ MySQL!Init /\ Init
    /\ Life!Init /\ (surface # "life" => port = [d \in Pair |-> CHOOSE p \in Ports : TRUE])

ServersNext ==
    /\ UNCHANGED surface
    /\ \/ surface = "run" /\ Run!Next /\ UNCHANGED <<sql, pg, pgsql, mysql, life, vars>>
       \/ surface = "sql" /\ Sql!Next /\ UNCHANGED <<run, pg, pgsql, mysql, life, vars>>
       \/ surface = "session" /\ Pg!Next /\ UNCHANGED <<run, sql, pgsql, mysql, life, vars>>
       \/ surface = "pgsql" /\ PgSQL!Next /\ UNCHANGED <<run, sql, pg, mysql, life, vars>>
       \/ surface = "mysql" /\ MySQL!Next /\ UNCHANGED <<run, sql, pg, pgsql, life, vars>>
       \/ surface = "life" /\ Life!Next /\ UNCHANGED <<run, sql, pg, pgsql, mysql, vars>>
       \/ surface = "fanout" /\ FanOut /\ UNCHANGED <<run, sql, pg, pgsql, mysql, life>>
       \/ surface \in Subs /\ LeasesOn(surface) /\ UNCHANGED <<run, sql, pg, pgsql, mysql, life>>

serversVars == <<surface, run, sql, pg, pgsql, mysql, life, vars>>

ServersSpec == ServersInit /\ [][ServersNext]_serversVars

(* One instance from the configuration; others are created by a call. *)
MCConfigured == <<n1>>

(* CreateSubscription makes the default of it, and REST PUT keeps it. *)
OddDeadline == {-1}
NackOrExtend == {0, 1}
DefaultPull == {0}

(* One text with a parameter, and one without. *)
MCParams == q1 :> 1 @@ q2 :> 0

Symmetry == Permutations(Clients) \cup Permutations(Pair)

-----------------------------------------------------------------------------
(* Cloud Run: when no call is in progress, a process that runs is the cached *)
(* child of a stored resource, where an invoke, a DELETE and a stopAll that  *)
(* is still to come find it, but for names two calls were about at once.     *)
(* stopAll has no successor: what is cached behind it is MCCloudRun's.       *)
NoLeakedChild == surface = "run" => Run!TypeOK /\ Run!NoLeakedChild

(* Cloud SQL: no session is served against a closed database, an open port  *)
(* belongs to a stored instance where DELETE and Stop find it, and a stored *)
(* instance is served on the port of its record.                            *)
ListenersServed ==
    surface = "sql" => Sql!TypeOK /\ Sql!SessionHasDatabase /\ Sql!NoLeakedListener /\ Sql!InstanceServed

(* PostgreSQL sessions: Execute runs the text its portal was bound to, and  *)
(* each message that asks for it has one ReadyForQuery, each batch at most  *)
(* one error.                                                               *)
SessionAnswers == Pg!PortalRunsBoundText /\ [](surface = "session" => Pg!OneReadyEach)

(* Cloud SQL text.  Postgres: without block comments, which no pass knows, a *)
(* query is cut where Postgres would cut it, whatever strings, dollar quotes *)
(* and line comments are in it; without comments of either kind, parameters  *)
(* are bound in the order of their placeholders; without dollar quotes and   *)
(* two words behind a cast besides, the three passes together rewrite code   *)
(* and nothing else.  MySQL: where the column of an AUTO_INCREMENT has       *)
(* parentheses of one depth, AUTOINCREMENT stands behind its PRIMARY KEY;    *)
(* what is quoted is kept, and as many parameters are counted as sqlite will *)
(* bind.                                                                     *)
SQLTextKept ==
    /\ surface = "pgsql" => PgSQL!ParamOrder /\ PgSQL!TranslatesCode /\ PgSQL!SplitsCode
    /\ surface = "mysql" => MySQL!AutoIncrementPlaced /\ MySQL!QuotedKept /\ MySQL!ParamsCounted

(* Command line: the pid file names the daemon that serves, daemons that    *)
(* end by themselves leave none, and what `start` reports has served.       *)
DaemonIsFound == surface = "life" => Life!ServerInPidFile /\ Life!NoStaleFile /\ Life!StartedHasServed
=============================================================================
