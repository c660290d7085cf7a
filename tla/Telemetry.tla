----------------------------- MODULE Telemetry ------------------------------
(***************************************************************************)
(* Logging and Monitoring: entries:write and timeSeries give every entry   *)
(* of a request the next number of an atomic counter and put it under      *)
(* <label>-<number>, where the label is the timestamp of a log entry, which *)
(* the client may choose, or the project of a time series.  The counter    *)
(* starts at 0 with the process; the namespace survives in BoltDB.         *)
(***************************************************************************)
EXTENDS Integers

CONSTANTS Labels,      \* timestamps, or projects
          Clients,     \* goroutines that serve an API call
          MaxEntries,  \* bound on the entries ever sent
          MaxRestarts  \* bound on restarts over the same database

VARIABLES seq,       \* Service.seq
          entries,   \* the namespace: the entry under each key, 0 for none
          req,       \* the entry each goroutine is about to draw a number for or to put
          sent,      \* entries sent so far: the content of the next
          restarts,  \* restarts so far
          answered   \* history: [key, entry] put since the last start

vars == <<seq, entries, req, sent, restarts, answered>>

Keys == Labels \X (1..MaxEntries)
NoReq == [op |-> "none"]

Request ==
    {NoReq}
    \cup [op : {"draw"}, label : Labels, entry : 1..MaxEntries]
    \cup [op : {"put"}, key : Keys, entry : 1..MaxEntries]

Hold(c, r) == req' = [req EXCEPT ![c] = r]

-----------------------------------------------------------------------------
(* A request arrives, or the loop over its entries goes on to the next. *)
NextEntry(c, label) ==
    /\ req[c] = NoReq
    /\ sent < MaxEntries
    /\ sent' = sent + 1
    /\ Hold(c, [op |-> "draw", label |-> label, entry |-> sent + 1])
    /\ UNCHANGED <<seq, entries, restarts, answered>>

(* Mutant: the number is read, and the counter raised by the put. *)
DrawReads(c) ==
    /\ req[c].op = "draw"
    /\ Hold(c, [op |-> "put", key |-> <<req[c].label, seq + 1>>, entry |-> req[c].entry])
    /\ UNCHANGED <<seq, entries, sent, restarts, answered>>

(* atomic.AddUint64. *)
Draw(c) ==
    /\ req[c].op = "draw"
    /\ seq' = seq + 1
    /\ Hold(c, [op |-> "put", key |-> <<req[c].label, seq + 1>>, entry |-> req[c].entry])
    /\ UNCHANGED <<entries, sent, restarts, answered>>

Put(c) ==
    /\ req[c].op = "put"
    /\ entries' = [entries EXCEPT ![req[c].key] = req[c].entry]
    /\ answered' = answered \cup {[key |-> req[c].key, entry |-> req[c].entry]}
    /\ Hold(c, NoReq)
    /\ UNCHANGED <<seq, sent, restarts>>

Restart ==
    /\ restarts < MaxRestarts
    /\ restarts' = restarts + 1
    /\ seq' = 0
    /\ req' = [c \in Clients |-> NoReq]
    /\ answered' = {}
    /\ UNCHANGED <<entries, sent>>

Init ==
    /\ seq = 0 /\ sent = 0 /\ restarts = 0
    /\ entries = [k \in Keys |-> 0]
    /\ req = [c \in Clients |-> NoReq]
    /\ answered = {}

Next ==
    \/ \E c \in Clients : (\E l \in Labels : NextEntry(c, l)) \/ Draw(c) \/ Put(c)
    \/ Restart

Spec == Init /\ [][Next]_vars

-----------------------------------------------------------------------------
(* entries:list without a filter reads the whole namespace, timeSeries the   *)
(* keys that begin with the project.                                         *)
HandleList == {entries[k] : k \in Keys} \ {0}

List(label) == {entries[k] : k \in {label} \X (1..MaxEntries)} \ {0}

(* An entry that was answered since the last start is still listed, by       *)
(* handleList and by list, whichever entries other requests drew numbers for *)
(* in between.  After a restart the counter starts over, and an entry of an  *)
(* earlier run may be replaced.                                              *)
EntryKept == \A a \in answered : a.entry \in HandleList \cap List(a.key[1])

-----------------------------------------------------------------------------
(* The parts of the inductive invariant behind it. *)

Shape ==
    /\ seq \in Nat /\ sent \in 0..MaxEntries
    /\ entries \in [Keys -> 0..MaxEntries]
    /\ req \in [Clients -> Request]
    /\ answered \subseteq [key : Keys, entry : 1..MaxEntries]

Drawing == {c \in Clients : req[c].op = "draw"}

(* A number that was drawn since the start belongs to one entry. *)
DrawnOnce ==
    /\ \A c \in Clients : req[c].op = "put" =>
          /\ req[c].key[2] <= seq
          /\ \A d \in Clients \ {c} : req[d].op = "put" => req[d].key # req[c].key
          /\ \A a \in answered : a.key # req[c].key
    /\ \A a \in answered : a.key[2] <= seq

AnsweredStored == \A a \in answered : entries[a.key] = a.entry
=============================================================================
