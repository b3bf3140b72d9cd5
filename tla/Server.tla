-------------------------------- MODULE Server --------------------------------
(***************************************************************************)
(* The server's front ends and its life (server.go, tcp_handler.go,        *)
(* pgwire/server.go): TCP, HTTP and PostgreSQL clients whose handlers run  *)
(* statements, a table created and dropped while others work, whose        *)
(* engine has a scheduler, and Stop.                                       *)
(***************************************************************************)
EXTENDS PgSession

CONSTANTS
  TcpClients, HttpClients,
  MaxConnections, \* TCP connections at a time, 0 for no limit
  PgMaxConns,
  Loads           \* what the clients ask for (a bound)

ASSUME ServerAssumption ==
  /\ Sessions = TcpClients \cup HttpClients \cup PgClients
  /\ TcpClients \cap HttpClients = {} /\ PgClients \cap (TcpClients \cup HttpClients) = {}
  /\ IsFiniteSet(TcpClients) /\ IsFiniteSet(PgClients)
  /\ {"accept", "ended"} \cap Sessions = {}
  /\ MaxConnections \in Nat /\ PgMaxConns \in Nat /\ MaxFaults \in Nat

Operations == {"insert", "write", "delete", "update", "create", "drop"}

\* A statement on the table, or on the one that is created.
IsStatement(st) ==
  /\ st.op \in Operations
  /\ st.op \in {"insert", "write"} => st.rows \in Seq(Rows)
  /\ st.op \in {"delete", "update"} => st.where.col \in {"id", "v"} /\ st.where.lit \in Int
  /\ st.op = "update" => st.set.col \in {"id", "v"} /\ st.set.add \in Int

\* A text is one of the statements modelled, or no text.
ASSUME LoadsAssumption ==
  \A l \in Loads :
    /\ l.max \in Nat /\ \A T \in l.tables : IsTable(T)
    /\ \A st \in l.menu : IsStatement(st)
    /\ \A m \in l.messages :
         m.kind \in {"parse", "query"} => m.sql = NoSQL \/ IsStatement(m.sql)

VARIABLES
  load,       \* the load of this behaviour
  begun,      \* statements begun
  tcp,        \* per TCP client: how far its connection is
  acceptor,   \* acceptTCP: "accept", the client it has accepted, or "ended"
  tracked,    \* Server.conns
  cut,        \* connections that Stop has closed
  connCount,
  pgAcceptor, \* acceptLoop, likewise
  pgSlots,    \* taken slots of the semaphore
  stop,       \* how far Stop is
  created,    \* the engine of the table that CREATE TABLE makes
  late        \* History variable: its Close came before its scheduler was known

tcpVars == <<tcp, acceptor, tracked, cut, connCount>>
pgServerVars == <<pgAcceptor, pgSlots>>
connectionVars == <<tcpVars, pgServerVars, pgVars>>
lifeVars == <<stop, created, late>>
serverVars == <<statementVars, connectionVars, lifeVars, load, begun>>

NoEngine == [registered |-> FALSE, life |-> "none", loop |-> "off", published |-> FALSE,
             halt |-> FALSE, closer |-> "none"]

FreshConnections ==
  /\ tcp = [c \in TcpClients |-> "away"] /\ acceptor = "accept"
  /\ tracked = {} /\ cut = {} /\ connCount = 0
  /\ pgAcceptor = "accept" /\ pgSlots = 0

Init ==
  /\ load \in Loads /\ begun = 0
  /\ StatementsInit(load.tables) /\ PgInit
  /\ FreshConnections
  /\ stop = "no" /\ created = NoEngine /\ late = FALSE

\* A client asks for a statement.
Ask(s, st) ==
  /\ s \in load.clients /\ begun < load.max
  /\ begun' = begun + 1
  /\ Begin(s, st)

\* The response of a statement is taken.
Take(s) ==
  /\ task[s].pc \in {"ok", "error"}
  /\ task' = [task EXCEPT ![s] = NoTask]
  /\ before' = [before EXCEPT ![s] = Empty] /\ others' = [others EXCEPT ![s] = {}]
  /\ UNCHANGED <<rows, open, faults>>

-----------------------------------------------------------------------------
(* TCP *)

\* Listeners that Stop has closed.
TcpListening == stop \in {"no", "begun"}
Done == stop # "no"

Dial(c) ==
  /\ c \in load.clients /\ tcp[c] = "away" /\ TcpListening
  /\ tcp' = [tcp EXCEPT ![c] = "dialed"]
  /\ UNCHANGED <<acceptor, tracked, cut, connCount, pgServerVars, pgVars, statementVars,
                 lifeVars, load, begun>>

Accept(c) ==
  /\ acceptor = "accept" /\ tcp[c] = "dialed" /\ TcpListening
  /\ acceptor' = c
  /\ UNCHANGED <<tcp, tracked, cut, connCount, pgServerVars, pgVars, statementVars,
                 lifeVars, load, begun>>

\* Faulty variant: one connection too many.
TooManyByOne == MaxConnections > 0 /\ connCount > MaxConnections
TooMany == MaxConnections > 0 /\ connCount >= MaxConnections

\* The limit, and the handler's goroutine.
AcceptNext(c) ==
  /\ acceptor = c
  /\ acceptor' = "accept"
  /\ IF TooMany THEN tcp' = [tcp EXCEPT ![c] = "gone"] /\ UNCHANGED connCount
     ELSE tcp' = [tcp EXCEPT ![c] = "started"] /\ connCount' = connCount + 1
  /\ UNCHANGED <<tracked, cut, pgServerVars, pgVars, statementVars, lifeVars, load, begun>>

\* Accept fails: the listener is closed, or an error that is not transient ends
\* the loop although the server goes on.
AcceptEnds ==
  /\ acceptor = "accept"
  /\ \/ ~TcpListening /\ UNCHANGED statementVars
     \/ Fault /\ UNCHANGED <<rows, open, task, before, others>>
  /\ acceptor' = "ended"
  /\ UNCHANGED <<tcp, tracked, cut, connCount, pgServerVars, pgVars, lifeVars, load, begun>>

Track(c) ==
  /\ tcp[c] = "started"
  /\ tcp' = [tcp EXCEPT ![c] = "top"]
  /\ tracked' = tracked \cup {c}
  /\ UNCHANGED <<acceptor, cut, connCount, pgServerVars, pgVars, statementVars,
                 lifeVars, load, begun>>

\* The deferred calls of handleTCPConn.
HandlerEnds(c) ==
  /\ tcp' = [tcp EXCEPT ![c] = "gone"]
  /\ tracked' = tracked \ {c}
  /\ connCount' = connCount - 1

HandlerNext(c) == tcp' = [tcp EXCEPT ![c] = "top"] /\ UNCHANGED <<tracked, connCount>>

\* Faulty variant: the handler relies on its connection being closed.
HandlerTopAlways(c) ==
  /\ tcp[c] = "top"
  /\ tcp' = [tcp EXCEPT ![c] = "reading"]
  /\ UNCHANGED <<tracked, connCount, acceptor, cut, pgServerVars, pgVars, statementVars,
                 lifeVars, load, begun>>

\* The top of the loop: done is looked at.
HandlerTop(c) ==
  /\ tcp[c] = "top"
  /\ IF Done THEN HandlerEnds(c)
     ELSE tcp' = [tcp EXCEPT ![c] = "reading"] /\ UNCHANGED <<tracked, connCount>>
  /\ UNCHANGED <<acceptor, cut, pgServerVars, pgVars, statementVars, lifeVars, load, begun>>

\* A request, read ahead perhaps before the connection was closed; the answer can
\* no longer be written then.
Ping(c) ==
  /\ tcp[c] = "reading" /\ c \in load.clients
  /\ IF c \in cut THEN HandlerEnds(c) ELSE HandlerNext(c)
  /\ UNCHANGED <<acceptor, cut, pgServerVars, pgVars, statementVars, lifeVars, load, begun>>

TcpRequest(c) ==
  /\ tcp[c] = "reading"
  /\ \E st \in load.menu : Ask(c, st)
  /\ tcp' = [tcp EXCEPT ![c] = "running"]
  /\ UNCHANGED <<acceptor, tracked, cut, connCount, pgServerVars, pgVars, lifeVars, load>>

TcpRespond(c) ==
  /\ tcp[c] = "running"
  /\ Take(c)
  /\ IF c \in cut THEN HandlerEnds(c) ELSE HandlerNext(c)
  /\ UNCHANGED <<acceptor, cut, pgServerVars, pgVars, lifeVars, load, begun>>

\* The client leaves, is silent for 30 s, or Stop has closed the connection.
ReadFails(c) ==
  /\ tcp[c] = "reading"
  /\ HandlerEnds(c)
  /\ UNCHANGED <<acceptor, cut, pgServerVars, pgVars, statementVars, lifeVars, load, begun>>

-----------------------------------------------------------------------------
(* HTTP *)

\* Until httpServer.Close.
HttpServing == stop \in {"no", "begun", "tcpClosed"}

HttpRequest(h) ==
  /\ HttpServing
  /\ \E st \in load.menu : Ask(h, st)
  /\ UNCHANGED <<connectionVars, lifeVars, load>>

\* httpServer.Close waits for no handler, nor does Stop.
HttpRespond(h) == Take(h) /\ UNCHANGED <<connectionVars, lifeVars, load, begun>>

-----------------------------------------------------------------------------
(* The PostgreSQL listener *)

PgListening == stop \in {"no", "begun", "tcpClosed", "httpClosed"}

PgDial(p) ==
  /\ p \in load.clients /\ pg[p].pc = "away" /\ PgListening
  /\ ToPc(p, "dialed")
  /\ UNCHANGED <<pgNotes, tcpVars, pgServerVars, statementVars, lifeVars, load, begun>>

PgAccept(p) ==
  /\ pgAcceptor = "accept" /\ pg[p].pc = "dialed" /\ PgListening
  /\ pgAcceptor' = p
  /\ UNCHANGED <<pgSlots, tcpVars, pgVars, statementVars, lifeVars, load, begun>>

\* acquireConnSlot, and the handler's goroutine.
PgAcceptNext(p) ==
  /\ pgAcceptor = p
  /\ pgAcceptor' = "accept"
  /\ IF PgMaxConns > 0 /\ pgSlots >= PgMaxConns
     THEN ToPc(p, "gone") /\ UNCHANGED pgSlots
     ELSE ToPc(p, "startup") /\ pgSlots' = pgSlots + 1
  /\ UNCHANGED <<pgNotes, tcpVars, statementVars, lifeVars, load, begun>>

\* acceptLoop goes on after every error, until Stop.
PgAcceptEnds ==
  /\ pgAcceptor = "accept" /\ ~PgListening
  /\ pgAcceptor' = "ended"
  /\ UNCHANGED <<pgSlots, tcpVars, pgVars, statementVars, lifeVars, load, begun>>

PgMessage(p) ==
  /\ \E m \in load.messages : Receive(p, m)
  /\ UNCHANGED <<tcpVars, pgServerVars, lifeVars, load, begun>>

\* Terminate, a client that leaves, or five minutes of silence.
PgEnds(p) ==
  /\ pg[p].pc \in {"startup", "negotiated", "ready"}
  /\ pg' = [pg EXCEPT ![p] = [NoConnection EXCEPT !.pc = "gone"]]
  /\ pgNotes' = [pgNotes EXCEPT ![p] = NoNotes]
  /\ pgSlots' = pgSlots - 1
  /\ UNCHANGED <<tcpVars, pgAcceptor, statementVars, lifeVars, load, begun>>

\* The statements a client's messages bring count as those of the others.
PgStep(p) ==
  /\ Startup(p) \/ PgHandle(p)
  /\ begun' = begun + (IF Running(p)' /\ ~Running(p) THEN 1 ELSE 0)
  /\ begun' <= load.max
  /\ UNCHANGED <<tcpVars, pgServerVars, lifeVars, load>>

-----------------------------------------------------------------------------
(* The engine of a new table, and its scheduler *)

\* createLSMTable, once: engine, routing table and catalog (module Tables), then
\* StartScheduler, whose goroutines run before the engine knows them.
CreateEngine(s) ==
  /\ task[s].pc = "create"
  /\ IF created.life = "none"
     THEN created' = [created EXCEPT !.life = "open", !.registered = TRUE] /\ Goto(s, "start")
     ELSE Goto(s, "error") /\ UNCHANGED created
  /\ UNCHANGED <<rows, open, faults, before, others, connectionVars, stop, late, load, begun>>

StartLoops(s) ==
  /\ task[s].pc = "start"
  /\ created' = [created EXCEPT !.loop = "idle"]
  /\ Goto(s, "publish")
  /\ UNCHANGED <<rows, open, faults, before, others, connectionVars, stop, late, load, begun>>

PublishScheduler(s) ==
  /\ task[s].pc = "publish"
  /\ created' = [created EXCEPT !.published = TRUE]
  /\ Goto(s, "ok")
  /\ UNCHANGED <<rows, open, faults, before, others, connectionVars, stop, late, load, begun>>

\* runLoop: a tick flushes or compacts; stopCh ends the loop.
Tick ==
  /\ \/ created.loop = "idle" /\ created' = [created EXCEPT !.loop = "busy"]
     \/ created.loop = "busy" /\ created' = [created EXCEPT !.loop = "idle"]
     \/ created.loop = "idle" /\ created.halt /\ created' = [created EXCEPT !.loop = "off"]
  /\ UNCHANGED <<statementVars, connectionVars, stop, late, load, begun>>

Starting == \E s \in Sessions : task[s].pc \in {"start", "publish"}

\* Faulty variant: the scheduler is forgotten, not stopped.
TakeSchedulerOnly(by) ==
  /\ created' = [created EXCEPT !.registered = FALSE, !.life = "closing", !.published = FALSE,
                                !.closer = by]
  /\ late' = (late \/ (~created.published /\ Starting))

\* The engine leaves the routing table; Close takes its scheduler, if it has one,
\* and closes stopCh.
TakeScheduler(by) ==
  /\ created' = [created EXCEPT !.registered = FALSE, !.life = "closing", !.published = FALSE,
                                !.halt = created.published, !.closer = by]
  /\ late' = (late \/ (~created.published /\ Starting))

\* Close has waited for the scheduler that it took.
EngineClosed == created.halt => created.loop = "off"

DropEngine(s) ==
  /\ task[s].pc = "drop"
  /\ IF created.registered THEN TakeScheduler(s) /\ Goto(s, "closing")
     ELSE Goto(s, "error") /\ UNCHANGED <<created, late>>
  /\ UNCHANGED <<rows, open, faults, before, others, connectionVars, stop, load, begun>>

DropEnds(s) ==
  /\ task[s].pc = "closing" /\ EngineClosed
  /\ created' = [created EXCEPT !.life = "closed"]
  /\ Goto(s, "ok")
  /\ UNCHANGED <<rows, open, faults, before, others, connectionVars, stop, late, load, begun>>

-----------------------------------------------------------------------------
(* Stop *)

StopStep(from, to) ==
  /\ stop = from /\ stop' = to
  /\ UNCHANGED <<late, load, begun>>

\* close(done).
StopBegins ==
  /\ load.stops
  /\ StopStep("no", "begun")
  /\ UNCHANGED <<created, statementVars, connectionVars>>

\* Connections that were not accepted are reset with their listener.
CloseTcpListener ==
  /\ StopStep("begun", "tcpClosed")
  /\ tcp' = [c \in TcpClients |->
               IF tcp[c] = "dialed" /\ acceptor # c THEN "gone" ELSE tcp[c]]
  /\ UNCHANGED <<acceptor, tracked, cut, connCount, pgServerVars, pgVars, created,
                 statementVars>>

CloseHttp ==
  /\ StopStep("tcpClosed", "httpClosed")
  /\ UNCHANGED <<created, statementVars, connectionVars>>

\* pgServer.Stop: its listener is closed.
ClosePgListener ==
  /\ StopStep("httpClosed", "pgClosed")
  /\ pg' = [p \in PgClients |->
              IF pg[p].pc = "dialed" /\ pgAcceptor # p THEN [pg[p] EXCEPT !.pc = "gone"]
              ELSE pg[p]]
  /\ UNCHANGED <<pgNotes, tcpVars, pgServerVars, created, statementVars>>

\* It waits for its handlers, which nobody tells to end.
PgWaited ==
  /\ StopStep("pgClosed", "pgStopped")
  /\ pgAcceptor = "ended" /\ \A p \in PgClients : pg[p].pc \in {"away", "gone"}
  /\ UNCHANGED <<created, statementVars, connectionVars>>

CloseAllConns ==
  /\ StopStep("pgStopped", "waiting")
  /\ cut' = tracked /\ tracked' = {}
  /\ UNCHANGED <<tcp, acceptor, connCount, pgServerVars, pgVars, created, statementVars>>

\* Faulty variant: the connections that are tracked are waited for.
HandlersTracked == tracked = {}
\* wg.Wait: the accept loop and the handlers.
HandlersEnded == acceptor = "ended" /\ \A c \in TcpClients : tcp[c] \in {"away", "gone"}

\* closeAll takes the routing table and closes what is in it.
CloseTables ==
  /\ stop = "waiting" /\ stop' = "closing"
  /\ HandlersEnded
  /\ open' = FALSE
  /\ IF created.registered THEN TakeScheduler("Stop") ELSE UNCHANGED <<created, late>>
  /\ UNCHANGED <<rows, task, faults, before, others, connectionVars, load, begun>>

\* And the default engine is closed.
StopEndsNow ==
  /\ StopStep("closing", "stopped")
  /\ IF created.closer = "Stop"
     THEN EngineClosed /\ created' = [created EXCEPT !.life = "closed"]
     ELSE UNCHANGED created
  /\ UNCHANGED <<statementVars, connectionVars>>

StopNext ==
  CloseTcpListener \/ CloseHttp \/ ClosePgListener \/ PgWaited \/ CloseAllConns
  \/ CloseTables \/ StopEndsNow

-----------------------------------------------------------------------------
\* The process is killed, and started again.  What returned calls wrote is there
\* (module Durable says when it is not).
Crash ==
  /\ load.crashes /\ stop = "no" /\ created = NoEngine
  /\ Fault
  /\ task' = [s \in Sessions |-> NoTask]
  /\ before' = [s \in Sessions |-> Empty] /\ others' = [s \in Sessions |-> {}]
  /\ tcp' = [c \in TcpClients |-> "away"] /\ acceptor' = "accept"
  /\ tracked' = {} /\ cut' = {} /\ connCount' = 0
  /\ pg' = [p \in PgClients |-> NoConnection] /\ pgNotes' = [p \in PgClients |-> NoNotes]
  /\ pgAcceptor' = "accept" /\ pgSlots' = 0
  /\ UNCHANGED <<rows, open, lifeVars, load, begun>>

TcpStep(c) ==
  Accept(c) \/ AcceptNext(c) \/ Track(c) \/ HandlerTop(c) \/ TcpRespond(c) \/ ReadFails(c)

\* Session s's statement takes a step.
StatementStep(s) ==
  \/ DataStep(s) /\ UNCHANGED <<connectionVars, lifeVars, load, begun>>
  \/ CreateEngine(s) \/ StartLoops(s) \/ PublishScheduler(s) \/ DropEngine(s) \/ DropEnds(s)

Refused(s) == CallFails(s) /\ UNCHANGED <<connectionVars, lifeVars, load, begun>>

Next ==
  \/ \E c \in TcpClients : Dial(c) \/ Ping(c) \/ TcpRequest(c) \/ TcpStep(c)
  \/ AcceptEnds
  \/ \E h \in HttpClients : HttpRequest(h) \/ HttpRespond(h)
  \/ \E p \in PgClients : PgDial(p) \/ PgAccept(p) \/ PgAcceptNext(p) \/ PgMessage(p)
                          \/ PgStep(p) \/ PgEnds(p)
  \/ PgAcceptEnds
  \/ \E s \in Sessions : StatementStep(s) \/ Refused(s)
  \/ Tick
  \/ StopBegins \/ StopNext
  \/ Crash

\* Goroutines go on, deadlines pass, and clients need not do anything.
Fairness ==
  /\ \A c \in TcpClients : WF_serverVars(TcpStep(c))
  /\ WF_serverVars(AcceptEnds /\ ~TcpListening)
  /\ \A h \in HttpClients : WF_serverVars(HttpRespond(h))
  /\ \A p \in PgClients : /\ WF_serverVars(PgAccept(p) \/ PgAcceptNext(p) \/ PgStep(p))
                          /\ WF_serverVars(PgEnds(p))
  /\ WF_serverVars(PgAcceptEnds)
  /\ \A s \in Sessions : WF_serverVars(StatementStep(s))
  /\ SF_serverVars(Tick /\ created'.loop = "off")
  /\ WF_serverVars(Tick)
  /\ WF_serverVars(StopNext)

Spec == Init /\ [][Next]_serverVars /\ Fairness

-----------------------------------------------------------------------------
(* Properties *)

\* Types; a row is stored under the text of its primary key, in JSON only for the
\* numbers that /write stores so (buildPrimaryKeyFromValues, convertWriteRow);
\* and the connections are counted: connCount and the semaphore have one for each
\* handler, whoever ended and in which order, and stay within their limits.
ServerTypeOK ==
  /\ \A k \in DOMAIN rows : rows[k].id = k.id /\ (k.json => k.id \in JsonDiffers)
  /\ open \in BOOLEAN /\ faults \in 0..MaxFaults /\ begun \in 0..load.max
  /\ \A c \in TcpClients :
       tcp[c] \in {"away", "dialed", "started", "top", "reading", "running", "gone"}
  /\ acceptor \in TcpClients \cup {"accept", "ended"}
  /\ pgAcceptor \in PgClients \cup {"accept", "ended"}
  /\ connCount = Cardinality({c \in TcpClients : tcp[c] \in {"started", "top", "reading", "running"}})
  /\ MaxConnections > 0 => connCount <= MaxConnections
  /\ pgSlots = Cardinality({p \in PgClients : pg[p].pc \in Handling})
  /\ PgMaxConns > 0 => pgSlots <= PgMaxConns

\* "Close the tables' engines first, then the default engine", with no connection
\* left (Stop): when a table's engine is closed, no TCP or PostgreSQL handler runs,
\* so none of their statements meets a closed engine, whatever was being accepted
\* when Stop began.  HTTP handlers may: nobody waits for them.
StorageClosedLast ==
  ~open => /\ \A s \in TcpClients \cup PgClients : task[s].pc = "idle"
           /\ acceptor = "ended" /\ pgAcceptor = "ended"
           /\ connCount = 0 /\ pgSlots = 0

\* The scheduler of an engine that was closed has ended, so no goroutine keeps
\* ticking on a closed engine, by DROP TABLE or Stop; unless the Close came before
\* the CREATE's StartScheduler had published it (StartScheduler, Engine.Close).
SchedulersEnd == created.life = "closed" => created.loop = "off" \/ late

\* Stop ends, whatever TCP and HTTP clients do, in whatever step it finds the
\* handlers; unless a PostgreSQL client goes on asking, which keeps its handler
\* from ending (Stop, handleTCPConn, pgwire Server.Stop).
StopEnds ==
  \/ []<>(\E p \in PgClients : pg[p].pc = "got")
  \/ stop = "begun" ~> stop = "stopped"
=============================================================================
