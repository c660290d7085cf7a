----------------------------- MODULE PgSession ------------------------------
(***************************************************************************)
(* A session of the Postgres front end (pgwire/session.go, extended.go,    *)
(* simple.go): the prepared statements and portals of one connection, and  *)
(* the messages it takes one at a time.  A statement is an object that a   *)
(* portal points to; Parse puts a new one under its name.  A simple query  *)
(* runs its commands one by one on the pinned connection.                  *)
(*                                                                         *)
(* A query stands for its translated text; Params gives the number of its  *)
(* parameters, and sqlite rejects those in Rejected.                       *)
(***************************************************************************)
EXTENDS Integers, Sequences, FiniteSets

CONSTANTS Slots,       \* names of statements and portals
          Queries,     \* texts
          Rejected,    \* the texts sqlite rejects
          Params,      \* the highest parameter each text refers to
          MaxMessages  \* bound on the messages of a session

VARIABLES prepared,  \* the preparedStmt objects, in the order of their Parse
          stmts,     \* session.stmts: an object, 0 for none
          portals,   \* session.portals: [stmt, args], stmt 0 for none
          batch,     \* the commands left of the simple query in progress
          querying,  \* whether handleQuery is running
          pinned,    \* whether conn1 is set
          messages,  \* messages received
          asked,     \* history: messages a client waits behind for ReadyForQuery
          ready,     \* history: ReadyForQuery sent
          errors,    \* history: ErrorResponse sent for the message in progress
          bound,     \* history: the text each portal was last bound to with success
          ran        \* history: [portal, text] of the last Execute that reached sqlite

vars == <<prepared, stmts, portals, batch, querying, pinned, messages, asked, ready, errors, bound, ran>>

NoPortal == [stmt |-> 0, args |-> 0]
Nothing == "nothing"
NotRun == [portal |-> Nothing, text |-> Nothing]

Texts == UNION {[1..n -> Queries] : n \in 0..2}

(* The session reads the next message: nothing else is in progress. *)
Receive ==
    /\ ~querying
    /\ messages < MaxMessages
    /\ messages' = messages + 1

-----------------------------------------------------------------------------
(* Mutant: Parse writes into the object its name has. *)
HandleParseInPlace(s, q) ==
    /\ Receive
    /\ IF stmts[s] = 0 THEN prepared' = Append(prepared, q) /\ stmts' = [stmts EXCEPT ![s] = Len(prepared) + 1]
       ELSE prepared' = [prepared EXCEPT ![stmts[s]] = q] /\ UNCHANGED stmts
    /\ errors' = 0
    /\ UNCHANGED <<portals, batch, querying, pinned, asked, ready, bound, ran>>

HandleParse(s, q) ==
    /\ Receive
    /\ prepared' = Append(prepared, q)
    /\ stmts' = [stmts EXCEPT ![s] = Len(prepared) + 1]
    /\ errors' = 0
    /\ UNCHANGED <<portals, batch, querying, pinned, asked, ready, bound, ran>>

(* A missing statement is an error, and the portal stays as it was. *)
HandleBind(p, s, n) ==
    /\ Receive
    /\ IF stmts[s] = 0 THEN errors' = 1 /\ UNCHANGED <<portals, bound>>
       ELSE /\ portals' = [portals EXCEPT ![p] = [stmt |-> stmts[s], args |-> n]]
            /\ bound' = [bound EXCEPT ![p] = prepared[stmts[s]]]
            /\ errors' = 0
    /\ UNCHANGED <<prepared, stmts, batch, querying, pinned, asked, ready, ran>>

HandleDescribe(known) ==
    /\ Receive
    /\ errors' = IF known THEN 0 ELSE 1
    /\ UNCHANGED <<prepared, stmts, portals, batch, querying, pinned, asked, ready, bound, ran>>

(* Execute expands the parameters, takes the pinned connection and runs the  *)
(* text of the portal's statement.                                           *)
HandleExecute(p) ==
    /\ Receive
    /\ LET text == prepared[portals[p].stmt]
       IN IF portals[p].stmt = 0 \/ Params[text] > portals[p].args
            THEN errors' = 1 /\ UNCHANGED <<pinned, ran>>
            ELSE /\ pinned' = TRUE
                 /\ ran' = [portal |-> p, text |-> text]
                 /\ errors' = IF text \in Rejected THEN 1 ELSE 0
    /\ UNCHANGED <<prepared, stmts, portals, batch, querying, asked, ready, bound>>

(* The context was cancelled by Stop, so that no connection can be pinned. *)
ExecuteUnpinned(p) ==
    /\ Receive /\ ~pinned /\ portals[p].stmt # 0
    /\ errors' = 1
    /\ UNCHANGED <<prepared, stmts, portals, batch, querying, pinned, asked, ready, bound, ran>>

HandleSync ==
    /\ Receive
    /\ asked' = asked + 1 /\ ready' = ready + 1
    /\ errors' = 0
    /\ UNCHANGED <<prepared, stmts, portals, batch, querying, pinned, bound, ran>>

(* Closing a statement leaves the portals that point to it. *)
HandleClose(kind, s) ==
    /\ Receive
    /\ IF kind = "S" THEN stmts' = [stmts EXCEPT ![s] = 0] /\ UNCHANGED portals
       ELSE portals' = [portals EXCEPT ![s] = NoPortal] /\ UNCHANGED stmts
    /\ errors' = 0
    /\ UNCHANGED <<prepared, batch, querying, pinned, asked, ready, bound, ran>>

(* A message the session does not know: an error, and ReadyForQuery. *)
Unsupported ==
    /\ Receive
    /\ asked' = asked + 1 /\ ready' = ready + 1
    /\ errors' = 1
    /\ UNCHANGED <<prepared, stmts, portals, batch, querying, pinned, bound, ran>>

-----------------------------------------------------------------------------
(* handleQuery: no command is answered at once; otherwise the connection is  *)
(* pinned and the loop begins.                                               *)
HandleQuery(cmds) ==
    /\ Receive
    /\ asked' = asked + 1
    /\ errors' = 0
    /\ IF cmds = <<>> THEN ready' = ready + 1 /\ UNCHANGED <<batch, querying, pinned>>
       ELSE batch' = cmds /\ querying' = TRUE /\ pinned' = TRUE /\ UNCHANGED ready
    /\ UNCHANGED <<prepared, stmts, portals, bound, ran>>

QueryUnpinned ==
    /\ Receive /\ ~pinned
    /\ asked' = asked + 1 /\ ready' = ready + 1
    /\ errors' = 1
    /\ UNCHANGED <<prepared, stmts, portals, batch, querying, pinned, bound, ran>>

(* The rest of the batch: an error is a break. *)
CommandsLeft == IF Head(batch) \in Rejected THEN <<>> ELSE Tail(batch)

(* execSelect or execNonSelect on the next command. *)
RunCommand ==
    /\ querying /\ batch # <<>>
    /\ batch' = CommandsLeft
    /\ errors' = errors + IF Head(batch) \in Rejected THEN 1 ELSE 0
    /\ UNCHANGED <<prepared, stmts, portals, querying, pinned, messages, asked, ready, bound, ran>>

(* Mutant: a batch that failed is not followed by ReadyForQuery. *)
EndQueryAfterSuccess ==
    /\ querying /\ batch = <<>>
    /\ querying' = FALSE
    /\ ready' = ready + IF errors = 0 THEN 1 ELSE 0
    /\ UNCHANGED <<prepared, stmts, portals, batch, pinned, messages, asked, errors, bound, ran>>

EndQuery ==
    /\ querying /\ batch = <<>>
    /\ querying' = FALSE
    /\ ready' = ready + 1
    /\ UNCHANGED <<prepared, stmts, portals, batch, pinned, messages, asked, errors, bound, ran>>

Init ==
    /\ prepared = <<>>
    /\ stmts = [s \in Slots |-> 0]
    /\ portals = [p \in Slots |-> NoPortal]
    /\ batch = <<>> /\ querying = FALSE /\ pinned = FALSE
    /\ messages = 0 /\ asked = 0 /\ ready = 0 /\ errors = 0
    /\ bound = [p \in Slots |-> Nothing]
    /\ ran = NotRun

Next ==
    \/ \E s \in Slots, q \in Queries : HandleParse(s, q)
    \/ \E p, s \in Slots, n \in 0..1 : HandleBind(p, s, n)
    \/ \E s \in Slots : HandleDescribe(stmts[s] # 0) \/ HandleDescribe(portals[s] # NoPortal)
    \/ \E p \in Slots : HandleExecute(p) \/ ExecuteUnpinned(p)
    \/ HandleSync \/ Unsupported
    \/ \E kind \in {"S", "P"}, s \in Slots : HandleClose(kind, s)
    \/ \E cmds \in Texts : HandleQuery(cmds)
    \/ QueryUnpinned
    \/ RunCommand \/ EndQuery

Spec == Init /\ [][Next]_vars

-----------------------------------------------------------------------------
(* Execute runs the text that its portal was bound to, as it was parsed      *)
(* then, however often the statement was parsed again or closed since, and   *)
(* only with the parameters it refers to.                                    *)
PortalRunsBoundText ==
    [][ran' # ran => /\ ran'.text = bound[ran'.portal]
                     /\ Params[ran'.text] <= portals[ran'.portal].args]_vars

(* A client that waits for ReadyForQuery behind Sync, a query or a message   *)
(* the session does not know gets exactly one, whatever failed before it,    *)
(* and "a single ErrorResponse aborts the rest of the batch" (simple.go:14). *)
OneReadyEach ==
    /\ ~querying => ready = asked
    /\ errors <= 1

-----------------------------------------------------------------------------
(* The inductive invariant behind the two. *)

Shape ==
    /\ prepared \in Seq(Queries)
    /\ stmts \in [Slots -> 0..Len(prepared)]
    /\ portals \in [Slots -> [stmt : 0..Len(prepared), args : Nat]]
    /\ DOMAIN bound = Slots
    /\ batch \in Seq(Queries) /\ querying \in BOOLEAN
    /\ asked \in Nat /\ ready \in Nat /\ errors \in 0..1

(* A portal points to the text it was bound to. *)
PortalsBound ==
    \A p \in Slots : portals[p].stmt # 0 => bound[p] = prepared[portals[p].stmt]

(* The query in progress is the one that is not yet answered, and has had no *)
(* error as long as a command is left.                                       *)
Answering ==
    /\ asked = ready + IF querying THEN 1 ELSE 0
    /\ querying /\ batch # <<>> => errors = 0

IInv == Shape /\ PortalsBound /\ Answering
=============================================================================
