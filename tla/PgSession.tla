------------------------------ MODULE PgSession ------------------------------
(***************************************************************************)
(* One PostgreSQL connection (pgwire/conn.go, conn_extended.go): startup,  *)
(* simple queries, and the extended protocol with one statement name and   *)
(* one portal name.  A client may send its messages without waiting.       *)
(***************************************************************************)
EXTENDS Statements

CONSTANTS
  PgClients, \* PostgreSQL clients, which are sessions too
  NoSQL,     \* no text: an empty query, a name that is not known
  MaxReplies \* bound on the replies of an extended cycle

VARIABLES
  pg,     \* per client the connection and its connHandler
  pgNotes \* per client, for the properties: the replies since the last
          \* ReadyForQuery, the queries and Syncs without one, the text bound

pgVars == <<pg, pgNotes>>

NoMessage == [kind |-> "none"]
NoConnection == [pc |-> "away", got |-> NoMessage, extErr |-> FALSE,
                 stmt |-> NoSQL, portal |-> NoSQL, sql |-> NoSQL]
NoNotes == [replies |-> <<>>, unanswered |-> 0, bound |-> NoSQL]

PgInit == /\ pg = [p \in PgClients |-> NoConnection]
          /\ pgNotes = [p \in PgClients |-> NoNotes]

Handling == {"startup", "negotiated", "ready", "got", "query", "execute"}
\* The handler is done with its message.
ToPc(p, pc) == pg' = [pg EXCEPT ![p].pc = pc, ![p].got = NoMessage]
Back(p) == [pg[p] EXCEPT !.pc = "ready", !.got = NoMessage]
Reply(p, r) == pgNotes' = [pgNotes EXCEPT ![p].replies = Append(@, r)]
\* ReadyForQuery.
Ready(p) == pgNotes' = [pgNotes EXCEPT ![p].replies = <<>>, ![p].unanswered = @ - 1]

\* handleStartup, after an SSLRequest perhaps.
Startup(p) ==
  /\ \/ pg[p].pc = "startup" /\ \E next \in {"ready", "negotiated"} : ToPc(p, next)
     \/ pg[p].pc = "negotiated" /\ ToPc(p, "ready")
  /\ UNCHANGED <<pgNotes, statementVars>>

\* queryLoop receives a message.
Receive(p, m) ==
  /\ pg[p].pc = "ready"
  /\ m.kind \in {"sync", "query"} \/ Len(pgNotes[p].replies) < MaxReplies
  /\ pg' = [pg EXCEPT ![p].pc = "got", ![p].got = m]
  /\ pgNotes' = [pgNotes EXCEPT ![p].unanswered = @ + (IF m.kind \in {"sync", "query"} THEN 1 ELSE 0)]
  /\ UNCHANGED statementVars

Got(p, kind) == pg[p].pc = "got" /\ pg[p].got.kind = kind

\* dispatchMessage drops these until a Sync after an error.
HandleDropped(p) ==
  /\ pg[p].pc = "got" /\ pg[p].got.kind \in {"parse", "bind", "describe", "execute"}
  /\ pg[p].extErr
  /\ ToPc(p, "ready")
  /\ UNCHANGED <<pgNotes, statementVars>>

Handled(p, kind) == Got(p, kind) /\ ~pg[p].extErr

\* What was named is not there.
ObjectMissing(p) ==
  /\ pg' = [pg EXCEPT ![p] = [Back(p) EXCEPT !.extErr = TRUE]]
  /\ Reply(p, "missing")

HandleParse(p) ==
  /\ Handled(p, "parse")
  /\ pg' = [pg EXCEPT ![p] = [Back(p) EXCEPT !.stmt = pg[p].got.sql]]
  /\ Reply(p, "parsed")
  /\ UNCHANGED statementVars

\* Faulty variant: the error is sent and forgotten.
HandleBindOnce(p) ==
  /\ Handled(p, "bind")
  /\ IF pg[p].stmt = NoSQL THEN ToPc(p, "ready") /\ Reply(p, "missing")
     ELSE /\ pg' = [pg EXCEPT ![p] = [Back(p) EXCEPT !.portal = pg[p].stmt]]
          /\ pgNotes' = [pgNotes EXCEPT ![p].replies = Append(@, "bound"),
                                        ![p].bound = pg[p].stmt]
  /\ UNCHANGED statementVars

\* The portal gets the statement's text as it is now.
HandleBind(p) ==
  /\ Handled(p, "bind")
  /\ IF pg[p].stmt = NoSQL THEN ObjectMissing(p)
     ELSE /\ pg' = [pg EXCEPT ![p] = [Back(p) EXCEPT !.portal = pg[p].stmt]]
          /\ pgNotes' = [pgNotes EXCEPT ![p].replies = Append(@, "bound"),
                                        ![p].bound = pg[p].stmt]
  /\ UNCHANGED statementVars

HandleDescribe(p) ==
  /\ Handled(p, "describe")
  /\ IF (IF pg[p].got.portal THEN pg[p].portal ELSE pg[p].stmt) = NoSQL THEN ObjectMissing(p)
     ELSE ToPc(p, "ready") /\ Reply(p, "described")
  /\ UNCHANGED statementVars

\* Close is handled after an error too, and closing a statement leaves portals.
HandleClose(p) ==
  /\ Got(p, "close")
  /\ pg' = [pg EXCEPT ![p] = IF pg[p].got.portal THEN [Back(p) EXCEPT !.portal = NoSQL]
                              ELSE [Back(p) EXCEPT !.stmt = NoSQL]]
  /\ Reply(p, "closed")
  /\ UNCHANGED statementVars

HandleExecute(p) ==
  /\ Handled(p, "execute")
  /\ IF pg[p].portal = NoSQL THEN ObjectMissing(p) /\ UNCHANGED statementVars
     ELSE /\ Begin(p, pg[p].portal)
          /\ pg' = [pg EXCEPT ![p] = [Back(p) EXCEPT !.pc = "execute", !.sql = pg[p].portal]]
          /\ UNCHANGED pgNotes

\* A Query is handled after an error too.
HandleQuery(p) ==
  /\ Got(p, "query")
  /\ IF pg[p].got.sql = NoSQL
     THEN ToPc(p, "ready") /\ Ready(p) /\ UNCHANGED statementVars
     ELSE ToPc(p, "query") /\ Begin(p, pg[p].got.sql) /\ UNCHANGED pgNotes

HandleSync(p) ==
  /\ Got(p, "sync")
  /\ pg' = [pg EXCEPT ![p] = [Back(p) EXCEPT !.extErr = FALSE]]
  /\ Ready(p)
  /\ UNCHANGED statementVars

\* Faulty variant: a failing query is answered with its error only.
ResultShort(p) ==
  /\ task[p].pc \in {"ok", "error"}
  /\ pg[p].pc \in {"query", "execute"}
  /\ pg' = [pg EXCEPT ![p] = [Back(p) EXCEPT !.sql = NoSQL]]
  /\ IF pg[p].pc = "query" /\ task[p].pc = "ok" THEN Ready(p) ELSE Reply(p, task[p].pc)
  /\ task' = [task EXCEPT ![p] = NoTask]
  /\ before' = [before EXCEPT ![p] = Empty] /\ others' = [others EXCEPT ![p] = {}]
  /\ UNCHANGED <<rows, open, faults>>

\* ExecuteSQL returns.  After a failing Execute the next messages are handled.
Result(p) ==
  /\ task[p].pc \in {"ok", "error"}
  /\ pg[p].pc \in {"query", "execute"}
  /\ pg' = [pg EXCEPT ![p] = [Back(p) EXCEPT !.sql = NoSQL]]
  /\ IF pg[p].pc = "query" THEN Ready(p) ELSE Reply(p, task[p].pc)
  /\ task' = [task EXCEPT ![p] = NoTask]
  /\ before' = [before EXCEPT ![p] = Empty] /\ others' = [others EXCEPT ![p] = {}]
  /\ UNCHANGED <<rows, open, faults>>

\* The handler takes a step that waits for nobody.
PgHandle(p) ==
  \/ HandleDropped(p) \/ HandleParse(p) \/ HandleBind(p) \/ HandleDescribe(p)
  \/ HandleClose(p) \/ HandleExecute(p) \/ HandleQuery(p) \/ HandleSync(p) \/ Result(p)

-----------------------------------------------------------------------------
\* Every Query and every Sync is answered by one ReadyForQuery before the next
\* message is read, so a client that sends ahead can match answers to requests.
\* From the error of a missing statement or portal to the ReadyForQuery nothing is
\* answered but Close ("messages are dropped until Sync", dispatchMessage), and an
\* Execute runs the text its portal was bound to, even when Parse has replaced the
\* statement or Close has removed it (handleBind).
PgAnswers ==
  \A p \in PgClients :
    LET r == pgNotes[p].replies IN
    /\ pg[p].pc = "ready" => pgNotes[p].unanswered = 0
    /\ \A i, j \in DOMAIN r : i < j /\ r[i] = "missing" => r[j] = "closed"
    /\ pg[p].pc = "execute" => pg[p].sql = pgNotes[p].bound /\ "missing" \notin Range(r)
=============================================================================
