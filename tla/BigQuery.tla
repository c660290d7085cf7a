------------------------------ MODULE BigQuery ------------------------------
(***************************************************************************)
(* BigQuery: the maps datasets and tables under Service.mu, and the rows   *)
(* in SQLite behind a database/sql pool opened on ":memory:".  Each pooled *)
(* connection is a database of its own, so that two calls that use the     *)
(* pool at the same time see different tables.  Tables are created and     *)
(* dropped with mu held; insertAll and the queries release it before they  *)
(* use the pool, and a query takes it again while it holds a connection.   *)
(*                                                                         *)
(* The pool opens a connection when none is free, without a limit, keeps   *)
(* at most MaxIdle free ones and hands out any of them.  A table is a pair *)
(* of a dataset and an id, and its physical name is dataset__id, which two *)
(* tables may share.                                                       *)
(***************************************************************************)
EXTENDS Integers, FiniteSets, Functions

CONSTANTS Tables,     \* pairs of a dataset and a table id
          Names,      \* physical table names
          Physical,   \* the physical name of each table
          Clients,    \* goroutines that serve an API call
          MaxIdle,    \* free connections kept: database/sql keeps two
          MaxRows     \* bound on the rows sent to insertAll

VARIABLES datasets,  \* Service.datasets
          tables,    \* Service.tables: the tables of all datasets
          mu,        \* who holds Service.mu: a client or Nobody
          pool,      \* the connections: [state, db], db from existing names to rows
          req,       \* what the API goroutines are doing
          sent,      \* rows sent so far
          kept,      \* history: [table, row] inserted and not dropped since
          apart      \* history: whether two calls ever used the pool at once

vars == <<datasets, tables, mu, pool, req, sent, kept, apart>>

Nobody == "nobody"
NoReq == [op |-> "none"]
Slots == 1..Cardinality(Clients)
Rows == 1..MaxRows
Datasets == {t[1] : t \in Tables}
Empty == [n \in {} |-> {}]
Closed == [state |-> "closed", db |-> Empty]

Database == UNION {[N -> SUBSET Rows] : N \in SUBSET Names}

(* A drop and an insert hold what they have not done yet; conn is 0 between  *)
(* two uses of the pool.                                                     *)
Request ==
    {NoReq}
    \cup [op : {"create", "query"}, table : Tables, conn : Slots \cup {0}]
    \cup [op : {"drop"}, left : (SUBSET Tables) \ {{}}, conn : Slots \cup {0}]
    \cup [op : {"insert"}, table : Tables, left : (SUBSET Rows) \ {{}}, conn : Slots \cup {0}]

Idle(c) == req[c] = NoReq

Hold(c, r) == req' = [req EXCEPT ![c] = r]

InState(st) == {i \in Slots : pool[i].state = st}

Db(c) == pool[req[c].conn].db

-----------------------------------------------------------------------------
(* Mutant: the pool is limited to one connection. *)
CanTakeLimited(i) ==
    \/ i \in InState("free")
    \/ /\ InState("free") = {} /\ InState("busy") = {}
       /\ i \in InState("closed") /\ \A j \in InState("closed") : i <= j

(* database/sql, DB.conn: a free connection, or a new one where there is none: *)
(* another database.                                                           *)
CanTake(i) ==
    \/ i \in InState("free")
    \/ /\ InState("free") = {}
       /\ i \in InState("closed") /\ \A j \in InState("closed") : i <= j

TakeConn(i) ==
    /\ CanTake(i)
    /\ pool' = [pool EXCEPT ![i] = [state |-> "busy",
                                   db |-> IF i \in InState("free") THEN @.db ELSE Empty]]

(* database/sql, DB.putConn: beyond MaxIdle the connection is closed, and its *)
(* tables are gone.                                                           *)
PutConn(i, db) ==
    pool' = [pool EXCEPT ![i] = IF Cardinality(InState("free")) < MaxIdle
                                THEN [state |-> "free", db |-> db] ELSE Closed]

Acquire(c, i) ==
    /\ req[c].op \in {"create", "drop", "insert", "query"} /\ req[c].conn = 0
    /\ TakeConn(i)
    /\ Hold(c, [req[c] EXCEPT !.conn = i])
    /\ apart' = (apart \/ InState("busy") # {})
    /\ UNCHANGED <<datasets, tables, mu, sent, kept>>

-----------------------------------------------------------------------------
CreateDataset(d) ==
    /\ mu = Nobody
    /\ datasets' = datasets \cup {d}
    /\ UNCHANGED <<tables, mu, pool, req, sent, kept, apart>>

(* tableCollection, POST, up to the CREATE TABLE, under mu. *)
CreateTable(c, t) ==
    /\ Idle(c)
    /\ mu = Nobody
    /\ t[1] \in datasets /\ t \notin tables
    /\ mu' = c
    /\ Hold(c, [op |-> "create", table |-> t, conn |-> 0])
    /\ UNCHANGED <<datasets, tables, pool, sent, kept, apart>>

(* Mutant: the error of CREATE TABLE is ignored. *)
CreateSQLTableIgnored(c) ==
    /\ req[c].op = "create" /\ req[c].conn # 0
    /\ PutConn(req[c].conn, [n \in DOMAIN Db(c) \cup {Physical[req[c].table]} |->
                                IF n \in DOMAIN Db(c) THEN Db(c)[n] ELSE {}])
    /\ tables' = tables \cup {req[c].table}
    /\ mu' = Nobody
    /\ Hold(c, NoReq)
    /\ UNCHANGED <<datasets, sent, kept, apart>>

Created(db, n) == [m \in DOMAIN db \cup {n} |-> IF m = n THEN {} ELSE db[m]]

(* CREATE TABLE fails where the name exists, and then the map stays as it is. *)
CreateSQLTable(c) ==
    /\ req[c].op = "create" /\ req[c].conn # 0
    /\ LET n == Physical[req[c].table]
       IN \/ /\ n \in DOMAIN Db(c)
             /\ PutConn(req[c].conn, Db(c))
             /\ UNCHANGED tables
          \/ /\ n \notin DOMAIN Db(c)
             /\ PutConn(req[c].conn, Created(Db(c), n))
             /\ tables' = tables \cup {req[c].table}
    /\ mu' = Nobody
    /\ Hold(c, NoReq)
    /\ UNCHANGED <<datasets, sent, kept, apart>>

(* tableItem and datasetItem, DELETE: out of the map, then one DROP TABLE IF *)
(* EXISTS after the other, whose errors are ignored, all under mu.           *)
DropTables(c, ts) ==
    /\ mu = Nobody
    /\ mu' = c
    /\ tables' = tables \ ts
    /\ kept' = {k \in kept : k.table \notin ts}
    /\ Hold(c, [op |-> "drop", left |-> ts, conn |-> 0])

DeleteTable(c, t) ==
    /\ Idle(c)
    /\ t[1] \in datasets /\ t \in tables
    /\ DropTables(c, {t})
    /\ UNCHANGED <<datasets, pool, sent, apart>>

DeleteDataset(c, d) ==
    /\ Idle(c)
    /\ \E t \in tables : t[1] = d   \* without tables only the map changes
    /\ d \in datasets
    /\ datasets' = datasets \ {d}
    /\ DropTables(c, {t \in tables : t[1] = d})
    /\ UNCHANGED <<pool, sent, apart>>

DeleteEmptyDataset(d) ==
    /\ mu = Nobody
    /\ d \in datasets /\ \A t \in tables : t[1] # d
    /\ datasets' = datasets \ {d}
    /\ UNCHANGED <<tables, mu, pool, req, sent, kept, apart>>

(* Mutant: the physical table stays. *)
DropSQLTableForgotten(c) ==
    /\ req[c].op = "drop" /\ req[c].conn # 0
    /\ PutConn(req[c].conn, Db(c))
    /\ mu' = Nobody
    /\ Hold(c, NoReq)
    /\ UNCHANGED <<datasets, tables, sent, kept, apart>>

DropSQLTable(c) ==
    /\ req[c].op = "drop" /\ req[c].conn # 0
    /\ \E t \in req[c].left :
          /\ PutConn(req[c].conn, Restrict(Db(c), DOMAIN Db(c) \ {Physical[t]}))
          /\ LET left == req[c].left \ {t}
             IN /\ mu' = IF left = {} THEN Nobody ELSE mu
                /\ Hold(c, IF left = {} THEN NoReq ELSE [op |-> "drop", left |-> left, conn |-> 0])
    /\ UNCHANGED <<datasets, tables, sent, kept, apart>>

(* insertAll looks the table up under mu and then inserts row by row. *)
InsertAll(c, t, n) ==
    /\ Idle(c)
    /\ mu = Nobody
    /\ t \in tables
    /\ sent + n <= MaxRows
    /\ sent' = sent + n
    /\ Hold(c, [op |-> "insert", table |-> t, left |-> sent + 1 .. sent + n, conn |-> 0])
    /\ UNCHANGED <<datasets, tables, mu, pool, kept, apart>>

(* A row that fails ends the call with an error and leaves the rows before it. *)
InsertRow(c) ==
    /\ req[c].op = "insert" /\ req[c].conn # 0
    /\ LET t == req[c].table
           n == Physical[t]
           r == CHOOSE x \in req[c].left : \A y \in req[c].left : x <= y
       IN \/ /\ n \notin DOMAIN Db(c)
             /\ PutConn(req[c].conn, Db(c))
             /\ Hold(c, NoReq)
             /\ UNCHANGED kept
          \/ /\ n \in DOMAIN Db(c)
             /\ PutConn(req[c].conn, [Db(c) EXCEPT ![n] = @ \cup {r}])
             /\ Hold(c, IF req[c].left = {r} THEN NoReq
                        ELSE [req[c] EXCEPT !.left = @ \ {r}, !.conn = 0])
             /\ kept' = kept \cup {[table |-> u, row |-> r] : u \in tables \cap {t}}
    /\ UNCHANGED <<datasets, tables, mu, sent, apart>>

(* translateBQ takes and releases mu before the query, and fieldTypeIndex    *)
(* once the query has a connection, which it keeps while it waits.           *)
KnownDatasets == mu = Nobody

FieldTypeIndex == mu = Nobody

Query(c, t) ==
    /\ Idle(c)
    /\ KnownDatasets
    /\ Hold(c, [op |-> "query", table |-> t, conn |-> 0])
    /\ UNCHANGED <<datasets, tables, mu, pool, sent, kept, apart>>

CanAnswer(c) == Physical[req[c].table] \in DOMAIN Db(c) => FieldTypeIndex

ReadRows(c) ==
    /\ req[c].op = "query" /\ req[c].conn # 0
    /\ CanAnswer(c)
    /\ PutConn(req[c].conn, Db(c))
    /\ Hold(c, NoReq)
    /\ UNCHANGED <<datasets, tables, mu, sent, kept, apart>>

-----------------------------------------------------------------------------
Init ==
    /\ datasets = {} /\ tables = {}
    /\ mu = Nobody
    /\ pool = [i \in Slots |-> Closed]
    /\ req = [c \in Clients |-> NoReq]
    /\ sent = 0
    /\ kept = {} /\ apart = FALSE

Start(c) ==
    \/ \E t \in Tables : \/ CreateTable(c, t) \/ DeleteTable(c, t) \/ Query(c, t)
                         \/ \E n \in 1..2 : InsertAll(c, t, n)
    \/ \E d \in Datasets : DeleteDataset(c, d)

Continue(c) ==
    \/ \E i \in Slots : Acquire(c, i)
    \/ CreateSQLTable(c) \/ DropSQLTable(c) \/ InsertRow(c) \/ ReadRows(c)

Next ==
    \/ \E d \in Datasets : CreateDataset(d) \/ DeleteEmptyDataset(d)
    \/ \E c \in Clients : Start(c) \/ Continue(c)

Spec == Init /\ [][Next]_vars

-----------------------------------------------------------------------------
(* Properties. *)

TypeOK ==
    /\ datasets \subseteq Datasets
    /\ tables \subseteq {t \in Tables : t[1] \in datasets}
    /\ mu \in Clients \cup {Nobody}
    /\ pool \in [Slots -> [state : {"free", "busy", "closed"}, db : Database]]
    /\ req \in [Clients -> Request]
    /\ sent \in 0..MaxRows
    /\ kept \subseteq [table : Tables, row : Rows]
    /\ apart \in BOOLEAN

(* As long as no two calls used the pool at the same time, and mu is free,   *)
(* the map and SQLite agree: each listed table has a physical table that no  *)
(* other has, and a table that is not listed has none, so that it can be     *)
(* created again, whichever tables and datasets were created, refused and    *)
(* dropped before, and although names such as a.b__c and a__b.c collide.     *)
TableBacked ==
    mu = Nobody /\ ~apart =>
        /\ \A t, u \in tables : Physical[t] = Physical[u] => t = u
        /\ tables # {} => InState("closed") # Slots
        /\ \A i \in Slots \ InState("closed") :
               DOMAIN pool[i].db = {Physical[t] : t \in tables}

(* A row that insertAll inserted is in its table until the table is dropped, *)
(* also when the table was dropped and created again between the look-up and *)
(* the insert, and when a later row of the call fails.                       *)
RowsKept ==
    ~apart => \A k \in kept : \E i \in Slots :
        Physical[k.table] \in DOMAIN pool[i].db /\ k.row \in pool[i].db[Physical[k.table]]

(* c is not idle, and what its next step waits for is there: a connection,  *)
(* or mu for a query that has rows.                                         *)
CanGoOn(c) ==
    /\ ~Idle(c)
    /\ IF req[c].conn = 0 THEN \E i \in Slots : CanTake(i)
       ELSE req[c].op = "query" => CanAnswer(c)

(* Calls never wait for each other in a circle: a query that holds a         *)
(* connection waits for mu, and the holder of mu for a connection.           *)
NoCircularWait == (\A c \in Clients : Idle(c)) \/ \E c \in Clients : CanGoOn(c)
=============================================================================
