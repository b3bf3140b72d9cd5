---------------------------- MODULE ServerProofs ----------------------------
(***************************************************************************)
(* Proofs about modules PgSession and Server, for any number of clients,   *)
(* any statements and messages and any limits: engines are closed after    *)
(* the handlers, schedulers end with their engines, and the PostgreSQL     *)
(* protocol stays in step.                                                 *)
(***************************************************************************)
EXTENDS Server, FiniteSetTheorems, TLAPS

(* The parts of the inductive invariant                                    *)

TaskShape == DOMAIN task = Sessions /\ \A s \in Sessions : "pc" \in DOMAIN task[s]

TcpLive == {"started", "top", "reading", "running"}
LiveTcp(t) == {c \in TcpClients : t[c] \in TcpLive}

\* A TCP connection is where its handler, the acceptor and Stop say it is.
TcpSound ==
  /\ tcp \in [TcpClients -> TcpLive \cup {"away", "dialed", "gone"}]
  /\ acceptor \in TcpClients \cup {"accept", "ended"}
  /\ acceptor \in TcpClients => tcp[acceptor] = "dialed"
  /\ connCount = Cardinality(LiveTcp(tcp))
  /\ \A c \in TcpClients : task[c].pc # "idle" => tcp[c] = "running"
  /\ stop \in {"closing", "stopped"} =>
       acceptor = "ended" /\ \A c \in TcpClients : tcp[c] \in {"away", "gone"}

ConnFields == {"pc", "got", "extErr", "stmt", "portal", "sql"}
NoteFields == {"replies", "unanswered", "bound"}
IsText(x) == x = NoSQL \/ IsStatement(x)

Replies == {"parsed", "bound", "described", "closed", "ok", "error", "missing"}
\* The replies r of a cycle: after the error of a missing object only Close is answered.
Orderly(r) == /\ r \in Seq(Replies)
              /\ \A i, j \in DOMAIN r : i < j /\ r[i] = "missing" => r[j] = "closed"
NoneMissing(r) == \A i \in DOMAIN r : r[i] # "missing"

\* A connection c and what its client has seen, n: Query and Sync are unanswered while
\* they are handled, and a portal has the text it was bound to.
InSync(c, n) ==
  /\ DOMAIN c = ConnFields /\ DOMAIN n = NoteFields
  /\ IsText(c.stmt) /\ IsText(c.portal)
  /\ c.pc = "got" /\ c.got.kind \in {"parse", "query"} => IsText(c.got.sql)
  /\ Orderly(n.replies)
  /\ c.extErr \/ NoneMissing(n.replies)
  /\ n.unanswered = IF c.pc = "query" \/ (c.pc = "got" /\ c.got.kind \in {"sync", "query"})
                    THEN 1 ELSE 0
  /\ c.portal # NoSQL => c.portal = n.bound
  /\ c.pc = "execute" => ~c.extErr /\ c.sql = n.bound

PgInSync ==
  /\ DOMAIN pg = PgClients /\ DOMAIN pgNotes = PgClients
  /\ \A p \in PgClients : InSync(pg[p], pgNotes[p])

LivePg(f) == {p \in PgClients : f[p].pc \in Handling}

\* A PostgreSQL connection is where its handler, the acceptor and Stop say it is.
PgSound ==
  /\ pgAcceptor \in PgClients \cup {"accept", "ended"}
  /\ pgAcceptor \in PgClients => pg[pgAcceptor].pc = "dialed"
  /\ pgSlots = Cardinality(LivePg(pg))
  /\ \A p \in PgClients : task[p].pc # "idle" => pg[p].pc \in {"query", "execute"}
  /\ stop \in {"pgStopped", "waiting", "closing", "stopped"} =>
       pgAcceptor = "ended" /\ \A p \in PgClients : pg[p].pc \in {"away", "gone"}

-----------------------------------------------------------------------------
(* How a statement moves                                                   *)

\* Only the task of s changes, to a program counter in P.
Moves1(s, P) == /\ TaskShape'
                /\ task'[s].pc \in P
                /\ \A t \in Sessions \ {s} : task'[t] = task[t]

Calls == {"check", "store", "fetch", "unlink", "put"}

\* A statement goes to the step pc.
LEMMA GotoTask ==
  ASSUME TaskShape, NEW s \in Sessions, NEW pc, Goto(s, pc)
  PROVE  Moves1(s, {pc})
BY DEF TaskShape, Goto, Moves1

\* A session that has no statement gets one.
LEMMA BeginTask ==
  ASSUME TaskShape, NEW s \in Sessions, NEW st, Begin(s, st)
  PROVE  Moves1(s, {FirstStep(st)}) /\ task[s].pc = "idle"
BY DEF TaskShape, Begin, NoTask, Moves1

\* A response that is taken leaves the session without a statement.
LEMMA EndTask ==
  ASSUME TaskShape, NEW s \in Sessions, task' = [task EXCEPT ![s] = NoTask]
  PROVE  Moves1(s, {"idle"})
BY DEF TaskShape, NoTask, Moves1

\* After a row comes the next one's first call, or the end.
LEMMA RowSteps == \A t : RowStep(t) \in Calls \cup {"ok"}
BY DEF RowStep, Calls

\* A call of a statement leads to another call or to its end.
LEMMA DataTask ==
  ASSUME TaskShape, NEW s \in Sessions, DataStep(s) \/ CallFails(s)
  PROVE  Moves1(s, Calls \cup {"ok", "error"}) /\ task[s].pc \in Calls
<1> USE DEF Calls, Moves1
<1>1. CASE StoreBatch(s)
  BY <1>1, GotoTask DEF StoreBatch
<1>2. CASE CheckInsert(s)
  <2>1. CASE Goto(s, "error") \/ Goto(s, "store")
    BY <1>2, <2>1, GotoTask DEF CheckInsert
  <2>2. CASE task' = [task EXCEPT ![s].at = @ + 1]
    BY <1>2, <2>2 DEF TaskShape, CheckInsert
  <2> QED BY <1>2, <2>1, <2>2 DEF CheckInsert
<1>3. CASE Fetch(s)
  <2>0. PICK found \in Found(task[s].stmt.where) :
          task' = [task EXCEPT ![s] = Continue([task[s] EXCEPT !.todo = found])]
    BY <1>3 DEF Fetch
  <2> DEFINE t0 == [task[s] EXCEPT !.todo = found]
  <2>1. task' = [task EXCEPT ![s] = [t0 EXCEPT !.pc = RowStep(t0)]]
    BY <2>0 DEF Continue
  <2>2. "pc" \in DOMAIN t0
    BY DEF TaskShape
  <2>3. RowStep(t0) \in Calls \cup {"ok"}
    BY RowSteps
  <2> HIDE DEF t0
  <2> QED BY <1>3, <2>1, <2>2, <2>3 DEF TaskShape, Fetch
<1>4. CASE CheckMove(s)
  BY <1>4, GotoTask DEF CheckMove
<1>5. CASE Unlink(s) \/ PutRow(s)
  <2> DEFINE t0 == [task[s] EXCEPT !.todo = Tail(@)]
  <2>1. "pc" \in DOMAIN t0
    BY DEF TaskShape
  <2>2. RowStep(t0) \in Calls \cup {"ok"}
    BY RowSteps
  <2>3. CASE task' = [task EXCEPT ![s] = [t0 EXCEPT !.pc = RowStep(t0)]]
    <3> HIDE DEF t0
    <3> QED BY <1>5, <2>1, <2>2, <2>3 DEF TaskShape, Unlink, PutRow
  <2>4. CASE task' = [task EXCEPT ![s] = [task[s] EXCEPT !.pc = "put"]]
    BY <1>5, <2>4 DEF TaskShape, Unlink, PutRow
  <2>5. CASE Goto(s, "error")
    BY <1>5, <2>5, GotoTask DEF Unlink, PutRow
  <2> QED BY <1>5, <2>3, <2>4, <2>5 DEF Unlink, PutRow, Continue
<1>6. CASE CallFails(s)
  BY <1>6, GotoTask DEF CallFails
<1> QED BY <1>1, <1>2, <1>3, <1>4, <1>5, <1>6 DEF DataStep

-----------------------------------------------------------------------------
(* Counting connections                                                    *)

\* One handler more.
LEMMA LiveUp ==
  ASSUME ServerAssumption, NEW c \in TcpClients, TcpSound, tcp[c] \notin TcpLive,
         NEW pc \in TcpLive, tcp' = [tcp EXCEPT ![c] = pc]
  PROVE  Cardinality(LiveTcp(tcp')) = Cardinality(LiveTcp(tcp)) + 1
<1>1. LiveTcp(tcp') = LiveTcp(tcp) \cup {c}
  BY DEF LiveTcp, TcpSound
<1>2. IsFiniteSet(LiveTcp(tcp)) /\ c \notin LiveTcp(tcp)
  BY FS_Subset DEF LiveTcp, ServerAssumption
<1> QED BY <1>1, <1>2, FS_AddElement

\* One handler less.
LEMMA LiveDown ==
  ASSUME ServerAssumption, NEW c \in TcpClients, TcpSound, tcp[c] \in TcpLive,
         tcp' = [tcp EXCEPT ![c] = "gone"]
  PROVE  Cardinality(LiveTcp(tcp')) = Cardinality(LiveTcp(tcp)) - 1
<1>1. LiveTcp(tcp') = LiveTcp(tcp) \ {c}
  BY DEF LiveTcp, TcpSound, TcpLive
<1>2. IsFiniteSet(LiveTcp(tcp)) /\ c \in LiveTcp(tcp)
  BY FS_Subset DEF LiveTcp, ServerAssumption
<1> QED BY <1>1, <1>2, FS_RemoveElement

\* A handler moves on and stays one.
LEMMA LiveSame ==
  ASSUME NEW c \in TcpClients, TcpSound, NEW pc, tcp' = [tcp EXCEPT ![c] = pc],
         tcp[c] \in TcpLive <=> pc \in TcpLive
  PROVE  LiveTcp(tcp') = LiveTcp(tcp)
BY DEF LiveTcp, TcpSound

-----------------------------------------------------------------------------
(* TCP connections stay sound                                              *)

\* The sessions of TCP clients that have a statement have none they did not have.
TcpTasksKept == \A c \in TcpClients : task'[c].pc # "idle" => task[c].pc # "idle"

TcpAssumptions == ServerAssumption /\ TaskShape /\ TcpSound

\* One connection moves on; its handler lives as long as it did.
LEMMA TcpMove ==
  ASSUME TcpAssumptions, NEW c \in TcpClients,
         NEW pc \in TcpLive \cup {"away", "dialed", "gone"},
         tcp' = [tcp EXCEPT ![c] = pc], tcp[c] \in TcpLive <=> pc \in TcpLive,
         connCount' = connCount, acceptor' = acceptor, stop' = stop,
         acceptor = c => pc = "dialed",
         stop \in {"closing", "stopped"} => pc \in {"away", "gone"},
         \A d \in TcpClients \ {c} : task'[d].pc # "idle" => task[d].pc # "idle",
         task'[c].pc # "idle" => pc = "running"
  PROVE  TcpSound'
<1>1. LiveTcp(tcp') = LiveTcp(tcp)
  BY LiveSame DEF TcpAssumptions
<1> QED BY <1>1 DEF TcpSound, TcpAssumptions

\* A handler ends: its connection is counted no more.
LEMMA TcpEnd ==
  ASSUME TcpAssumptions, NEW c \in TcpClients, tcp[c] \in TcpLive, HandlerEnds(c),
         acceptor' = acceptor, stop' = stop,
         \A d \in TcpClients \ {c} : task'[d].pc # "idle" => task[d].pc # "idle",
         task'[c].pc = "idle"
  PROVE  TcpSound'
<1>1. Cardinality(LiveTcp(tcp')) = Cardinality(LiveTcp(tcp)) - 1
  BY LiveDown DEF TcpAssumptions, HandlerEnds
<1> QED BY <1>1 DEF TcpSound, TcpAssumptions, HandlerEnds, TcpLive

\* Nothing of TCP changes.
LEMMA TcpFrame ==
  ASSUME TcpSound, tcp' = tcp, acceptor' = acceptor, connCount' = connCount, TcpTasksKept,
         stop' \in {"closing", "stopped"} => stop \in {"closing", "stopped"}
  PROVE  TcpSound'
BY DEF TcpSound, TcpTasksKept, LiveTcp

\* Every step of a TCP client, its connection or its handler keeps TcpSound.
LEMMA TcpActions ==
  ASSUME TcpAssumptions, NEW c \in TcpClients,
         Dial(c) \/ Ping(c) \/ TcpRequest(c) \/ TcpStep(c)
  PROVE  TcpSound'
<1> USE DEF statementVars, lifeVars, connectionVars, tcpVars
<1>0. c \in Sessions
  BY DEF TcpAssumptions, ServerAssumption
<1>1. CASE Dial(c)
  BY <1>1, TcpMove DEF Dial, TcpListening, TcpSound, TcpAssumptions, TcpLive
<1>2. CASE Accept(c)
  BY <1>2 DEF Accept, TcpSound, TcpAssumptions, LiveTcp, TcpListening
<1>3. CASE AcceptNext(c)
  <2>1. tcp[c] = "dialed" /\ task[c].pc = "idle" /\ stop \notin {"closing", "stopped"}
    BY <1>3, <1>0 DEF AcceptNext, TcpSound, TcpAssumptions, ServerAssumption
  <2>2. CASE TooMany
    <3>1. LiveTcp(tcp') = LiveTcp(tcp)
      BY <1>3, <2>1, <2>2, LiveSame DEF AcceptNext, TcpAssumptions, TcpLive
    <3> QED BY <1>3, <2>1, <2>2, <3>1 DEF AcceptNext, TcpSound, TcpAssumptions, ServerAssumption
  <2>3. CASE ~TooMany
    <3>1. Cardinality(LiveTcp(tcp')) = Cardinality(LiveTcp(tcp)) + 1
      BY <1>3, <2>1, <2>3, LiveUp DEF AcceptNext, TcpAssumptions, TcpLive
    <3> QED BY <1>3, <2>1, <2>3, <3>1 DEF AcceptNext, TcpSound, TcpAssumptions,
            ServerAssumption, TcpLive
  <2> QED BY <2>2, <2>3
<1>4. CASE Track(c)
  BY <1>4, TcpMove DEF Track, TcpSound, TcpAssumptions, TcpLive
<1>5. CASE HandlerTop(c)
  <2>1. task[c].pc = "idle"
    BY <1>5 DEF HandlerTop, TcpSound, TcpAssumptions
  <2>2. CASE Done
    BY <1>5, <2>1, <2>2, TcpEnd DEF HandlerTop, TcpLive
  <2>3. CASE ~Done
    BY <1>5, <2>1, <2>3, TcpMove DEF HandlerTop, TcpSound, TcpAssumptions, TcpLive
  <2> QED BY <2>2, <2>3
<1>6. CASE Ping(c) \/ ReadFails(c)
  <2>1. task[c].pc = "idle" /\ tcp[c] = "reading"
    BY <1>6 DEF Ping, ReadFails, TcpSound, TcpAssumptions
  <2>2. CASE HandlerEnds(c)
    BY <1>6, <2>1, <2>2, TcpEnd DEF Ping, ReadFails, TcpLive
  <2>3. CASE HandlerNext(c)
    BY <1>6, <2>1, <2>3, TcpMove DEF Ping, ReadFails, HandlerNext, TcpSound, TcpAssumptions, TcpLive
  <2> QED BY <1>6, <2>2, <2>3 DEF Ping, ReadFails
<1>7. CASE TcpRequest(c)
  <2>1. \A d \in TcpClients \ {c} : task'[d] = task[d]
    BY <1>7, <1>0, BeginTask DEF TcpRequest, Ask, Moves1, TcpAssumptions, ServerAssumption
  <2> QED BY <1>7, <2>1, TcpMove DEF TcpRequest, TcpSound, TcpAssumptions, TcpLive
<1>8. CASE TcpRespond(c)
  <2>1. /\ \A d \in TcpClients \ {c} : task'[d] = task[d]
        /\ task'[c].pc = "idle"
    BY <1>8, <1>0, EndTask DEF TcpRespond, Take, Moves1, TcpAssumptions, ServerAssumption
  <2>2. CASE HandlerEnds(c)
    BY <1>8, <2>1, <2>2, TcpEnd DEF TcpRespond, TcpLive
  <2>3. CASE HandlerNext(c)
    BY <1>8, <2>1, <2>3, TcpMove DEF TcpRespond, HandlerNext, TcpSound, TcpAssumptions, TcpLive
  <2> QED BY <1>8, <2>2, <2>3 DEF TcpRespond
<1> QED BY <1>1, <1>2, <1>3, <1>4, <1>5, <1>6, <1>7, <1>8 DEF TcpStep

-----------------------------------------------------------------------------
(* The PostgreSQL protocol stays in step                                   *)

\* A connection, and notes, by their fields.
IsConn(c, pc, got, extErr, stmt, portal, sql) ==
  /\ DOMAIN c = ConnFields
  /\ c.pc = pc /\ c.got = got /\ c.extErr = extErr
  /\ c.stmt = stmt /\ c.portal = portal /\ c.sql = sql
IsNote(n, replies, unanswered, bound) ==
  /\ DOMAIN n = NoteFields
  /\ n.replies = replies /\ n.unanswered = unanswered /\ n.bound = bound

\* What the update of a field does to the others.
LEMMA Updated ==
  ASSUME NEW c, DOMAIN c = ConnFields, NEW x
  PROVE  /\ IsConn([c EXCEPT !.pc = x], x, c.got, c.extErr, c.stmt, c.portal, c.sql)
         /\ IsConn([c EXCEPT !.got = x], c.pc, x, c.extErr, c.stmt, c.portal, c.sql)
         /\ IsConn([c EXCEPT !.extErr = x], c.pc, c.got, x, c.stmt, c.portal, c.sql)
         /\ IsConn([c EXCEPT !.stmt = x], c.pc, c.got, c.extErr, x, c.portal, c.sql)
         /\ IsConn([c EXCEPT !.portal = x], c.pc, c.got, c.extErr, c.stmt, x, c.sql)
         /\ IsConn([c EXCEPT !.sql = x], c.pc, c.got, c.extErr, c.stmt, c.portal, x)
BY DEF ConnFields, IsConn

\* A handler that is done: the message is gone, the objects stay.
LEMMA BackConn ==
  ASSUME NEW p \in PgClients, DOMAIN pg[p] = ConnFields
  PROVE  IsConn(Back(p), "ready", NoMessage, pg[p].extErr, pg[p].stmt, pg[p].portal, pg[p].sql)
BY DEF ConnFields, Back, IsConn

\* Only the connection of p changes, and its notes.
OnlyPg(p) == DOMAIN pg' = PgClients /\ \A q \in PgClients \ {p} : pg'[q] = pg[q]
OnlyNotes(p) == DOMAIN pgNotes' = PgClients /\ \A q \in PgClients \ {p} : pgNotes'[q] = pgNotes[q]

\* ToPc, by fields.
LEMMA ToPcConn ==
  ASSUME PgInSync, NEW p \in PgClients, NEW x, ToPc(p, x)
  PROVE  /\ OnlyPg(p)
         /\ IsConn(pg'[p], x, NoMessage, pg[p].extErr, pg[p].stmt, pg[p].portal, pg[p].sql)
<1>1. DOMAIN pg = PgClients /\ DOMAIN pg[p] = ConnFields
  BY DEF PgInSync, InSync
<1> QED BY <1>1 DEF ToPc, ConnFields, IsConn, OnlyPg

\* The connection of p is replaced.
LEMMA PutConn ==
  ASSUME PgInSync, NEW p \in PgClients, NEW c, pg' = [pg EXCEPT ![p] = c]
  PROVE  OnlyPg(p) /\ pg'[p] = c
BY DEF PgInSync, OnlyPg

\* A reply, by fields.
LEMMA ReplyNote ==
  ASSUME PgInSync, NEW p \in PgClients, NEW r, Reply(p, r)
  PROVE  /\ OnlyNotes(p)
         /\ IsNote(pgNotes'[p], Append(pgNotes[p].replies, r), pgNotes[p].unanswered,
                   pgNotes[p].bound)
<1>1. DOMAIN pgNotes = PgClients /\ DOMAIN pgNotes[p] = NoteFields
  BY DEF PgInSync, InSync
<1> QED BY <1>1 DEF Reply, NoteFields, IsNote, OnlyNotes

\* ReadyForQuery, by fields.
LEMMA ReadyNote ==
  ASSUME PgInSync, NEW p \in PgClients, Ready(p)
  PROVE  /\ OnlyNotes(p)
         /\ IsNote(pgNotes'[p], <<>>, pgNotes[p].unanswered - 1, pgNotes[p].bound)
<1>1. DOMAIN pgNotes = PgClients /\ DOMAIN pgNotes[p] = NoteFields
  BY DEF PgInSync, InSync
<1> QED BY <1>1 DEF Ready, NoteFields, IsNote, OnlyNotes

\* A reply more: Orderly says what may follow the error of a missing object.
LEMMA OneMore ==
  ASSUME NEW r, NEW x \in Replies, Orderly(r), x = "closed" \/ NoneMissing(r)
  PROVE  /\ Orderly(Append(r, x))
         /\ x # "missing" /\ NoneMissing(r) => NoneMissing(Append(r, x))
BY DEF Orderly, NoneMissing, Replies

\* The fields of a connection that is in step.
LEMMA InSyncNow ==
  ASSUME PgInSync, NEW p \in PgClients
  PROVE  InSync(pg[p], pgNotes[p])
BY DEF PgInSync

\* Nothing is replied.
LEMMA SameNote ==
  ASSUME PgInSync, NEW p \in PgClients, pgNotes' = pgNotes
  PROVE  /\ OnlyNotes(p)
         /\ IsNote(pgNotes'[p], pgNotes[p].replies, pgNotes[p].unanswered, pgNotes[p].bound)
BY DEF PgInSync, InSync, OnlyNotes, IsNote

\* Only p's connection changes, stays in step, and is at one of the steps P.
PgTo(p, P) ==
  /\ OnlyPg(p) /\ OnlyNotes(p)
  /\ InSync(pg'[p], pgNotes'[p]) /\ pg'[p].pc \in P

\* A message is received, one of those the load allows.
LEMMA ReceiveInSync ==
  ASSUME PgInSync, LoadsAssumption, load \in Loads, NEW p \in PgClients, NEW m \in load.messages,
         Receive(p, m)
  PROVE  PgTo(p, {"got"})
<1>1. InSync(pg[p], pgNotes[p])
  BY InSyncNow
<1>2. /\ OnlyPg(p)
      /\ IsConn(pg'[p], "got", m, pg[p].extErr, pg[p].stmt, pg[p].portal, pg[p].sql)
  <2>1. DOMAIN pg = PgClients /\ DOMAIN pg[p] = ConnFields
    BY DEF PgInSync, InSync
  <2> QED BY <2>1 DEF Receive, ConnFields, IsConn, OnlyPg
<1>3. /\ OnlyNotes(p)
      /\ IsNote(pgNotes'[p], pgNotes[p].replies,
                pgNotes[p].unanswered + (IF m.kind \in {"sync", "query"} THEN 1 ELSE 0),
                pgNotes[p].bound)
  <2>1. DOMAIN pgNotes = PgClients /\ DOMAIN pgNotes[p] = NoteFields
    BY DEF PgInSync, InSync
  <2> QED BY <2>1 DEF Receive, NoteFields, IsNote, OnlyNotes
<1>4. m.kind \in {"parse", "query"} => IsText(m.sql)
  BY DEF LoadsAssumption, IsText
<1>5. pg[p].pc = "ready"
  BY DEF Receive
<1> QED BY <1>1, <1>2, <1>3, <1>4, <1>5 DEF PgTo, InSync, IsConn, IsNote

\* The startup of a connection.
LEMMA StartupInSync ==
  ASSUME PgInSync, NEW p \in PgClients, Startup(p)
  PROVE  PgTo(p, {"ready", "negotiated"})
<1>1. InSync(pg[p], pgNotes[p])
  BY InSyncNow
<1>2. PICK x \in {"ready", "negotiated"} : ToPc(p, x)
  BY DEF Startup
<1>3. /\ OnlyPg(p)
      /\ IsConn(pg'[p], x, NoMessage, pg[p].extErr, pg[p].stmt, pg[p].portal, pg[p].sql)
  BY <1>2, ToPcConn
<1>4. /\ OnlyNotes(p)
      /\ IsNote(pgNotes'[p], pgNotes[p].replies, pgNotes[p].unanswered, pgNotes[p].bound)
  BY SameNote DEF Startup
<1>5. pg[p].pc \in {"startup", "negotiated"}
  BY DEF Startup
<1> QED BY <1>1, <1>3, <1>4, <1>5 DEF PgTo, InSync, IsConn, IsNote

\* The error of a missing object starts the error state.
LEMMA MissingInSync ==
  ASSUME PgInSync, NEW p \in PgClients, ObjectMissing(p), ~pg[p].extErr,
         pg[p].pc = "got", pg[p].got.kind \in {"bind", "describe", "execute"}
  PROVE  PgTo(p, {"ready"})
<1>1. InSync(pg[p], pgNotes[p])
  BY InSyncNow
<1>2. /\ OnlyPg(p)
      /\ IsConn(pg'[p], "ready", NoMessage, TRUE, pg[p].stmt, pg[p].portal, pg[p].sql)
  <2>1. IsConn(Back(p), "ready", NoMessage, pg[p].extErr, pg[p].stmt, pg[p].portal, pg[p].sql)
    BY <1>1, BackConn DEF InSync
  <2>2. IsConn([Back(p) EXCEPT !.extErr = TRUE], "ready", NoMessage, TRUE, pg[p].stmt,
               pg[p].portal, pg[p].sql)
    BY <2>1, Updated DEF IsConn
  <2> QED BY <2>2, PutConn DEF ObjectMissing
<1>3. /\ OnlyNotes(p)
      /\ IsNote(pgNotes'[p], Append(pgNotes[p].replies, "missing"), pgNotes[p].unanswered,
                pgNotes[p].bound)
  BY ReplyNote DEF ObjectMissing
<1>4. Orderly(Append(pgNotes[p].replies, "missing"))
  BY <1>1, OneMore DEF InSync, Replies
<1> QED BY <1>1, <1>2, <1>3, <1>4 DEF PgTo, InSync, IsConn, IsNote

\* A handler that answers with r and has changed the connection to c.
LEMMA RepliedInSync ==
  ASSUME PgInSync, NEW p \in PgClients, NEW r \in Replies \ {"missing"}, Reply(p, r),
         pg[p].pc \in {"got", "execute"},
         pg[p].pc = "got" => pg[p].got.kind \notin {"sync", "query"},
         r = "closed" \/ ~pg[p].extErr,
         NEW stmt, NEW portal, NEW sql, IsText(stmt), IsText(portal),
         portal # NoSQL => portal = pgNotes[p].bound,
         OnlyPg(p), IsConn(pg'[p], "ready", NoMessage, pg[p].extErr, stmt, portal, sql)
  PROVE  PgTo(p, {"ready"})
<1>1. InSync(pg[p], pgNotes[p])
  BY InSyncNow
<1>2. /\ OnlyNotes(p)
      /\ IsNote(pgNotes'[p], Append(pgNotes[p].replies, r), pgNotes[p].unanswered,
                pgNotes[p].bound)
  BY ReplyNote
<1>3. /\ Orderly(Append(pgNotes[p].replies, r))
      /\ pg[p].extErr \/ NoneMissing(Append(pgNotes[p].replies, r))
  BY <1>1, OneMore DEF InSync
<1> QED BY <1>1, <1>2, <1>3 DEF PgTo, InSync, IsConn, IsNote

\* A handler that sends ReadyForQuery.
LEMMA ReadyInSync ==
  ASSUME PgInSync, NEW p \in PgClients, Ready(p), NEW extErr, NEW sql,
         pg[p].pc = "query" \/ (pg[p].pc = "got" /\ pg[p].got.kind \in {"sync", "query"}),
         OnlyPg(p), IsConn(pg'[p], "ready", NoMessage, extErr, pg[p].stmt, pg[p].portal, sql)
  PROVE  PgTo(p, {"ready"})
<1>1. InSync(pg[p], pgNotes[p])
  BY InSyncNow
<1>2. OnlyNotes(p) /\ IsNote(pgNotes'[p], <<>>, 0, pgNotes[p].bound)
  BY <1>1, ReadyNote DEF InSync, IsNote
<1>3. Orderly(<<>>) /\ NoneMissing(<<>>)
  BY DEF Orderly, NoneMissing
<1> QED BY <1>1, <1>2, <1>3 DEF PgTo, InSync, IsConn, IsNote

\* Bind gives the portal the text the statement has now.
LEMMA BindInSync ==
  ASSUME PgInSync, NEW p \in PgClients, HandleBind(p)
  PROVE  PgTo(p, {"ready"})
<1>1. InSync(pg[p], pgNotes[p])
  BY InSyncNow
<1>2. CASE ObjectMissing(p)
  BY <1>2, MissingInSync DEF HandleBind, Handled, Got
<1>3. CASE ~ObjectMissing(p)
  <2>1. IsConn([Back(p) EXCEPT !.portal = pg[p].stmt], "ready", NoMessage, pg[p].extErr,
               pg[p].stmt, pg[p].stmt, pg[p].sql)
    <3>1. IsConn(Back(p), "ready", NoMessage, pg[p].extErr, pg[p].stmt, pg[p].portal, pg[p].sql)
      BY <1>1, BackConn DEF InSync
    <3> QED BY <3>1, Updated DEF IsConn
  <2>2. /\ OnlyPg(p)
        /\ IsConn(pg'[p], "ready", NoMessage, pg[p].extErr, pg[p].stmt, pg[p].stmt, pg[p].sql)
    BY <1>3, <2>1, PutConn DEF HandleBind
  <2>3. /\ OnlyNotes(p)
        /\ IsNote(pgNotes'[p], Append(pgNotes[p].replies, "bound"), pgNotes[p].unanswered,
                  pg[p].stmt)
    <3>1. DOMAIN pgNotes = PgClients /\ DOMAIN pgNotes[p] = NoteFields
      BY <1>1 DEF PgInSync, InSync
    <3> QED BY <1>3, <3>1 DEF HandleBind, NoteFields, IsNote, OnlyNotes
  <2>4. pg[p].pc = "got" /\ pg[p].got.kind = "bind" /\ ~pg[p].extErr
    BY DEF HandleBind, Handled, Got
  <2>5. /\ Orderly(Append(pgNotes[p].replies, "bound"))
        /\ NoneMissing(Append(pgNotes[p].replies, "bound"))
    BY <1>1, <2>4, OneMore DEF InSync, Replies
  <2> QED BY <1>1, <2>2, <2>3, <2>4, <2>5 DEF PgTo, InSync, IsConn, IsNote
<1> QED BY <1>2, <1>3

\* Execute runs the portal's text, if the portal is there.
LEMMA ExecuteInSync ==
  ASSUME PgInSync, NEW p \in PgClients, HandleExecute(p)
  PROVE  \/ PgTo(p, {"ready"}) /\ UNCHANGED statementVars
         \/ PgTo(p, {"execute"}) /\ Begin(p, pg[p].portal) /\ pg[p].portal # NoSQL
<1>1. InSync(pg[p], pgNotes[p])
  BY InSyncNow
<1>2. CASE pg[p].portal = NoSQL
  BY <1>2, MissingInSync DEF HandleExecute, Handled, Got
<1>3. CASE pg[p].portal # NoSQL
  <2>1. IsConn(Back(p), "ready", NoMessage, pg[p].extErr, pg[p].stmt, pg[p].portal, pg[p].sql)
    BY <1>1, BackConn DEF InSync
  <2>2. PICK c : /\ IsConn(c, "execute", NoMessage, pg[p].extErr, pg[p].stmt, pg[p].portal,
                           pg[p].portal)
                 /\ pg' = [pg EXCEPT ![p] = c]
    <3>1. LET c == [Back(p) EXCEPT !.pc = "execute", !.sql = pg[p].portal]
          IN IsConn(c, "execute", NoMessage, pg[p].extErr, pg[p].stmt, pg[p].portal, pg[p].portal)
      BY <2>1 DEF IsConn, ConnFields
    <3> QED BY <1>3, <3>1 DEF HandleExecute
  <2>3. OnlyPg(p) /\ pg'[p] = c
    BY <2>2, PutConn
  <2>4. /\ OnlyNotes(p)
        /\ IsNote(pgNotes'[p], pgNotes[p].replies, pgNotes[p].unanswered, pgNotes[p].bound)
    BY <1>3, SameNote DEF HandleExecute
  <2>5. pg[p].pc = "got" /\ pg[p].got.kind = "execute" /\ ~pg[p].extErr
    BY DEF HandleExecute, Handled, Got
  <2>6. PgTo(p, {"execute"})
    BY <1>1, <1>3, <2>2, <2>3, <2>4, <2>5 DEF PgTo, InSync, IsConn, IsNote
  <2> QED BY <1>3, <2>6 DEF HandleExecute
<1> QED BY <1>2, <1>3

\* Query runs its text, or is answered at once when it is empty.
LEMMA QueryInSync ==
  ASSUME PgInSync, NEW p \in PgClients, HandleQuery(p)
  PROVE  \/ PgTo(p, {"ready"}) /\ UNCHANGED statementVars
         \/ PgTo(p, {"query"}) /\ Begin(p, pg[p].got.sql) /\ pg[p].got.sql # NoSQL
<1>1. InSync(pg[p], pgNotes[p])
  BY InSyncNow
<1>2. CASE pg[p].got.sql = NoSQL
  BY <1>2, ToPcConn, ReadyInSync DEF HandleQuery, Got
<1>3. CASE pg[p].got.sql # NoSQL
  <2>1. /\ OnlyPg(p)
        /\ IsConn(pg'[p], "query", NoMessage, pg[p].extErr, pg[p].stmt, pg[p].portal, pg[p].sql)
    BY <1>3, ToPcConn DEF HandleQuery
  <2>2. /\ OnlyNotes(p)
        /\ IsNote(pgNotes'[p], pgNotes[p].replies, pgNotes[p].unanswered, pgNotes[p].bound)
    BY <1>3, SameNote DEF HandleQuery
  <2>3. PgTo(p, {"query"})
    BY <1>1, <2>1, <2>2 DEF PgTo, InSync, IsConn, IsNote, HandleQuery, Got
  <2> QED BY <1>3, <2>3 DEF HandleQuery
<1> QED BY <1>2, <1>3

\* The result of a statement is sent.
LEMMA ResultInSync ==
  ASSUME PgInSync, NEW p \in PgClients, Result(p)
  PROVE  PgTo(p, {"ready"})
<1>1. InSync(pg[p], pgNotes[p])
  BY InSyncNow
<1>2. IsConn([Back(p) EXCEPT !.sql = NoSQL], "ready", NoMessage, pg[p].extErr, pg[p].stmt,
             pg[p].portal, NoSQL)
  <2>1. IsConn(Back(p), "ready", NoMessage, pg[p].extErr, pg[p].stmt, pg[p].portal, pg[p].sql)
    BY <1>1, BackConn DEF InSync
  <2> QED BY <2>1, Updated DEF IsConn
<1>3. /\ OnlyPg(p)
      /\ IsConn(pg'[p], "ready", NoMessage, pg[p].extErr, pg[p].stmt, pg[p].portal, NoSQL)
  BY <1>2, PutConn DEF Result
<1>4. CASE pg[p].pc = "query"
  BY <1>3, <1>4, ReadyInSync DEF Result
<1>5. CASE pg[p].pc = "execute"
  <2>1. task[p].pc \in Replies \ {"missing"}
    BY DEF Result, Replies
  <2>2. Reply(p, task[p].pc)
    BY <1>5 DEF Result
  <2> QED BY <1>1, <1>3, <1>5, <2>1, <2>2, RepliedInSync DEF InSync
<1> QED BY <1>4, <1>5 DEF Result

\* The handlers that run no statement.
LEMMA ObjectsInSync ==
  ASSUME PgInSync, NEW p \in PgClients,
         HandleDropped(p) \/ HandleParse(p) \/ HandleDescribe(p) \/ HandleClose(p) \/ HandleSync(p)
  PROVE  PgTo(p, {"ready"})
<1>1. InSync(pg[p], pgNotes[p])
  BY InSyncNow
<1>2. IsConn(Back(p), "ready", NoMessage, pg[p].extErr, pg[p].stmt, pg[p].portal, pg[p].sql)
  BY <1>1, BackConn DEF InSync
<1>3. CASE HandleDropped(p)
  <2>1. /\ OnlyPg(p)
        /\ IsConn(pg'[p], "ready", NoMessage, pg[p].extErr, pg[p].stmt, pg[p].portal, pg[p].sql)
    BY <1>3, ToPcConn DEF HandleDropped
  <2>2. /\ OnlyNotes(p)
        /\ IsNote(pgNotes'[p], pgNotes[p].replies, pgNotes[p].unanswered, pgNotes[p].bound)
    BY <1>3, SameNote DEF HandleDropped
  <2> QED BY <1>1, <1>3, <2>1, <2>2 DEF PgTo, InSync, IsConn, IsNote, HandleDropped
<1>4. CASE HandleParse(p)
  <2>1. IsConn([Back(p) EXCEPT !.stmt = pg[p].got.sql], "ready", NoMessage, pg[p].extErr,
               pg[p].got.sql, pg[p].portal, pg[p].sql)
    BY <1>2, Updated DEF IsConn
  <2>2. /\ OnlyPg(p)
        /\ IsConn(pg'[p], "ready", NoMessage, pg[p].extErr, pg[p].got.sql, pg[p].portal, pg[p].sql)
    BY <1>4, <2>1, PutConn DEF HandleParse
  <2>3. "parsed" \in Replies \ {"missing"} /\ IsText(pg[p].got.sql)
    BY <1>1, <1>4 DEF Replies, InSync, HandleParse, Handled, Got
  <2> QED BY <1>1, <1>4, <2>2, <2>3, RepliedInSync DEF InSync, HandleParse, Handled, Got
<1>5. CASE HandleDescribe(p)
  <2>1. CASE ObjectMissing(p)
    BY <1>5, <2>1, MissingInSync DEF HandleDescribe, Handled, Got
  <2>2. CASE ~ObjectMissing(p)
    <3>1. /\ OnlyPg(p)
          /\ IsConn(pg'[p], "ready", NoMessage, pg[p].extErr, pg[p].stmt, pg[p].portal, pg[p].sql)
      BY <1>5, <2>2, ToPcConn DEF HandleDescribe
    <3>2. "described" \in Replies \ {"missing"}
      BY DEF Replies
    <3> QED BY <1>1, <1>5, <2>2, <3>1, <3>2, RepliedInSync DEF InSync, HandleDescribe, Handled, Got
  <2> QED BY <2>1, <2>2
<1>6. CASE HandleClose(p)
  <2>1. /\ IsConn([Back(p) EXCEPT !.portal = NoSQL], "ready", NoMessage, pg[p].extErr,
                  pg[p].stmt, NoSQL, pg[p].sql)
        /\ IsConn([Back(p) EXCEPT !.stmt = NoSQL], "ready", NoMessage, pg[p].extErr,
                  NoSQL, pg[p].portal, pg[p].sql)
    BY <1>2, Updated DEF IsConn
  <2>2. "closed" \in Replies \ {"missing"} /\ IsText(NoSQL)
    BY DEF Replies, IsText
  <2>3. CASE pg[p].got.portal
    <3>1. /\ OnlyPg(p)
          /\ IsConn(pg'[p], "ready", NoMessage, pg[p].extErr, pg[p].stmt, NoSQL, pg[p].sql)
      BY <1>6, <2>1, <2>3, PutConn DEF HandleClose
    <3> QED BY <1>1, <1>6, <2>2, <3>1, RepliedInSync DEF InSync, HandleClose, Got
  <2>4. CASE ~pg[p].got.portal
    <3>1. /\ OnlyPg(p)
          /\ IsConn(pg'[p], "ready", NoMessage, pg[p].extErr, NoSQL, pg[p].portal, pg[p].sql)
      BY <1>6, <2>1, <2>4, PutConn DEF HandleClose
    <3> QED BY <1>1, <1>6, <2>2, <3>1, RepliedInSync DEF InSync, HandleClose, Got
  <2> QED BY <2>3, <2>4
<1>7. CASE HandleSync(p)
  <2>1. IsConn([Back(p) EXCEPT !.extErr = FALSE], "ready", NoMessage, FALSE, pg[p].stmt,
               pg[p].portal, pg[p].sql)
    BY <1>2, Updated DEF IsConn
  <2>2. /\ OnlyPg(p)
        /\ IsConn(pg'[p], "ready", NoMessage, FALSE, pg[p].stmt, pg[p].portal, pg[p].sql)
    BY <1>7, <2>1, PutConn DEF HandleSync
  <2> QED BY <1>7, <2>2, ReadyInSync DEF HandleSync, Got
<1> QED BY <1>3, <1>4, <1>5, <1>6, <1>7

\* What a step of the handler does to the statement it may run.
LEMMA HandleInSync ==
  ASSUME PgInSync, NEW p \in PgClients, PgHandle(p)
  PROVE  \/ PgTo(p, {"ready"}) /\ pg[p].pc = "got" /\ UNCHANGED statementVars
         \/ PgTo(p, {"ready"}) /\ pg[p].pc \in {"query", "execute"} /\ Take(p)
         \/ /\ PgTo(p, {"query", "execute"}) /\ pg[p].pc = "got"
            /\ \E st : IsStatement(st) /\ Begin(p, st)
<1>1. InSync(pg[p], pgNotes[p])
  BY InSyncNow
<1>2. CASE Result(p)
  BY <1>2, ResultInSync DEF Result, Take
<1>3. CASE HandleBind(p)
  BY <1>3, BindInSync DEF HandleBind, Handled, Got
<1>4. CASE HandleExecute(p)
  <2>1. pg[p].pc = "got"
    BY <1>4 DEF HandleExecute, Handled, Got
  <2>2. pg[p].portal # NoSQL => IsStatement(pg[p].portal)
    BY <1>1 DEF InSync, IsText
  <2> QED BY <1>4, <2>1, <2>2, ExecuteInSync DEF PgTo
<1>5. CASE HandleQuery(p)
  <2>1. pg[p].pc = "got" /\ pg[p].got.kind = "query"
    BY <1>5 DEF HandleQuery, Got
  <2>2. pg[p].got.sql # NoSQL => IsStatement(pg[p].got.sql)
    BY <1>1, <2>1 DEF InSync, IsText
  <2> QED BY <1>5, <2>1, <2>2, QueryInSync DEF PgTo
<1>6. CASE HandleDropped(p) \/ HandleParse(p) \/ HandleDescribe(p) \/ HandleClose(p)
           \/ HandleSync(p)
  BY <1>6, ObjectsInSync DEF HandleDropped, HandleParse, HandleDescribe, HandleClose, HandleSync,
     Handled, Got
<1> QED BY <1>2, <1>3, <1>4, <1>5, <1>6 DEF PgHandle

-----------------------------------------------------------------------------
(* PostgreSQL connections stay sound                                       *)

PgAssumptions == ServerAssumption /\ TaskShape /\ PgInSync /\ PgSound

\* One connection moves and stays in step: all are.
LEMMA OneInSync ==
  ASSUME PgInSync, NEW p \in PgClients, NEW P, PgTo(p, P)
  PROVE  PgInSync'
BY DEF PgInSync, PgTo, OnlyPg, OnlyNotes

\* One PostgreSQL handler more.
LEMMA PgLiveUp ==
  ASSUME PgAssumptions, NEW p \in PgClients, OnlyPg(p), pg[p].pc \notin Handling,
         pg'[p].pc \in Handling
  PROVE  Cardinality(LivePg(pg')) = Cardinality(LivePg(pg)) + 1
<1>1. LivePg(pg') = LivePg(pg) \cup {p}
  BY DEF LivePg, OnlyPg
<1>2. IsFiniteSet(LivePg(pg)) /\ p \notin LivePg(pg)
  BY FS_Subset DEF LivePg, ServerAssumption, PgAssumptions
<1> QED BY <1>1, <1>2, FS_AddElement

\* One less.
LEMMA PgLiveDown ==
  ASSUME PgAssumptions, NEW p \in PgClients, OnlyPg(p), pg[p].pc \in Handling,
         pg'[p].pc \notin Handling
  PROVE  Cardinality(LivePg(pg')) = Cardinality(LivePg(pg)) - 1
<1>1. LivePg(pg') = LivePg(pg) \ {p}
  BY DEF LivePg, OnlyPg
<1>2. IsFiniteSet(LivePg(pg)) /\ p \in LivePg(pg)
  BY FS_Subset DEF LivePg, ServerAssumption, PgAssumptions
<1> QED BY <1>1, <1>2, FS_RemoveElement

\* One moves on and stays a handler.
LEMMA PgLiveSame ==
  ASSUME NEW p \in PgClients, OnlyPg(p), pg[p].pc \in Handling <=> pg'[p].pc \in Handling
  PROVE  LivePg(pg') = LivePg(pg)
BY DEF LivePg, OnlyPg

\* Sessions but s have no statement that they did not have.
NoneBegins(s) == \A t \in Sessions \ {s} : task'[t].pc # "idle" => task[t].pc # "idle"

\* A handler moves on.
LEMMA PgMove ==
  ASSUME PgAssumptions, NEW p \in PgClients, NEW P \in SUBSET Handling, PgTo(p, P),
         pg[p].pc \in Handling, UNCHANGED <<pgServerVars, stop>>, NoneBegins(p),
         task'[p].pc # "idle" => pg'[p].pc \in {"query", "execute"}
  PROVE  PgInSync' /\ PgSound'
<1>1. PgInSync'
  BY OneInSync DEF PgAssumptions
<1>2. OnlyPg(p) /\ pg'[p].pc \in Handling
  BY DEF PgTo
<1>3. LivePg(pg') = LivePg(pg)
  BY <1>2, PgLiveSame
<1>4. pg[p].pc \notin {"dialed", "away", "gone"} /\ PgClients \subseteq Sessions
  BY DEF Handling, PgAssumptions, ServerAssumption
<1> QED BY <1>1, <1>2, <1>3, <1>4 DEF PgSound, PgAssumptions, pgServerVars, NoneBegins, OnlyPg

\* Nothing of PostgreSQL changes.
LEMMA PgFrame ==
  ASSUME PgAssumptions, UNCHANGED <<pgServerVars, pgVars>>,
         \A p \in PgClients : task'[p].pc # "idle" => task[p].pc # "idle",
         LET P == {"pgStopped", "waiting", "closing", "stopped"} IN stop' \in P => stop \in P
  PROVE  PgInSync' /\ PgSound'
BY DEF PgAssumptions, PgSound, PgInSync, pgServerVars, pgVars, LivePg

\* Messages and the handlers' steps keep PgSound and PgInSync.
LEMMA PgActions ==
  ASSUME PgAssumptions, LoadsAssumption, load \in Loads, NEW p \in PgClients,
         PgMessage(p) \/ PgStep(p)
  PROVE  PgInSync' /\ PgSound'
<1> USE DEF PgAssumptions, statementVars, lifeVars, pgServerVars
<1>0. p \in Sessions
  BY DEF ServerAssumption
<1>1. pg[p].pc = "got" \/ pg[p].pc \in {"startup", "negotiated", "ready"} => task[p].pc = "idle"
  BY DEF PgSound
<1>2. CASE PgMessage(p)
  <2>1. PICK m \in load.messages : Receive(p, m)
    BY <1>2 DEF PgMessage
  <2>2. PgTo(p, {"got"})
    BY <2>1, ReceiveInSync
  <2>3. pg[p].pc = "ready" /\ task' = task
    BY <2>1 DEF Receive
  <2> QED BY <1>1, <1>2, <2>2, <2>3, PgMove DEF PgMessage, Handling, NoneBegins
<1>3. CASE Startup(p) /\ PgStep(p)
  <2>1. PgTo(p, {"ready", "negotiated"})
    BY <1>3, StartupInSync
  <2>2. pg[p].pc \in {"startup", "negotiated"} /\ task' = task
    BY <1>3 DEF Startup
  <2> QED BY <1>1, <1>3, <2>1, <2>2, PgMove DEF PgStep, Handling, NoneBegins
<1>4. CASE PgHandle(p) /\ PgStep(p)
  <2>1. CASE PgTo(p, {"ready"}) /\ pg[p].pc = "got" /\ UNCHANGED statementVars
    BY <1>1, <1>4, <2>1, PgMove DEF PgStep, Handling, NoneBegins
  <2>2. CASE PgTo(p, {"ready"}) /\ pg[p].pc \in {"query", "execute"} /\ Take(p)
    <3>1. Moves1(p, {"idle"})
      BY <1>0, <2>2, EndTask DEF Take
    <3> QED BY <1>4, <2>2, <3>1, PgMove DEF PgStep, Handling, NoneBegins, Moves1
  <2>3. CASE /\ PgTo(p, {"query", "execute"}) /\ pg[p].pc = "got"
             /\ \E st : IsStatement(st) /\ Begin(p, st)
    <3>1. PICK st : Begin(p, st)
      BY <2>3
    <3>2. Moves1(p, {FirstStep(st)})
      BY <1>0, <3>1, BeginTask
    <3>3. pg'[p].pc \in {"query", "execute"}
      BY <2>3 DEF PgTo
    <3> QED BY <1>4, <2>3, <3>2, <3>3, PgMove DEF PgStep, Handling, NoneBegins, Moves1
  <2> QED BY <1>4, <2>1, <2>2, <2>3, HandleInSync
<1> QED BY <1>2, <1>3, <1>4 DEF PgStep

\* A connection comes or goes; nothing is under way on it.
LEMMA ComesInSync ==
  ASSUME PgInSync, NEW p \in PgClients, NEW pc \in {"dialed", "gone", "startup"}, ToPc(p, pc),
         pgNotes' = pgNotes, pg[p].pc \in {"away", "dialed"}
  PROVE  PgTo(p, {pc}) /\ PgInSync'
<1>1. InSync(pg[p], pgNotes[p])
  BY InSyncNow
<1>2. /\ OnlyPg(p)
      /\ IsConn(pg'[p], pc, NoMessage, pg[p].extErr, pg[p].stmt, pg[p].portal, pg[p].sql)
  BY ToPcConn
<1>3. /\ OnlyNotes(p)
      /\ IsNote(pgNotes'[p], pgNotes[p].replies, pgNotes[p].unanswered, pgNotes[p].bound)
  BY SameNote
<1>4. PgTo(p, {pc})
  BY <1>1, <1>2, <1>3 DEF PgTo, InSync, IsConn, IsNote
<1> QED BY <1>4, OneInSync

\* A connection that nobody uses, or that has ended.
LEMMA UnusedInSync ==
  InSync(NoConnection, NoNotes) /\ InSync([NoConnection EXCEPT !.pc = "gone"], NoNotes)
<1>1. /\ IsConn(NoConnection, "away", NoMessage, FALSE, NoSQL, NoSQL, NoSQL)
      /\ IsConn([NoConnection EXCEPT !.pc = "gone"], "gone", NoMessage, FALSE, NoSQL, NoSQL, NoSQL)
  BY DEF NoConnection, IsConn, ConnFields
<1>2. IsNote(NoNotes, <<>>, 0, NoSQL) /\ Orderly(<<>>) /\ NoneMissing(<<>>)
  BY DEF NoNotes, IsNote, NoteFields, Orderly, NoneMissing
<1> QED BY <1>1, <1>2 DEF InSync, IsConn, IsNote, IsText

\* So do connections that come and go.
LEMMA PgComesAndGoes ==
  ASSUME PgAssumptions, NEW p \in PgClients,
         PgDial(p) \/ PgAccept(p) \/ PgAcceptNext(p) \/ PgEnds(p)
  PROVE  PgInSync' /\ PgSound'
<1> USE DEF PgAssumptions, statementVars, lifeVars, pgServerVars, pgVars
<1>0. /\ p \in Sessions /\ p \notin {"accept", "ended"}
      /\ pg[p].pc \notin {"query", "execute"} => task[p].pc = "idle"
  BY DEF ServerAssumption, PgSound
<1>1. CASE PgDial(p)
  <2>1. PgTo(p, {"dialed"}) /\ PgInSync'
    BY <1>1, ComesInSync DEF PgDial
  <2>2. LivePg(pg') = LivePg(pg)
    BY <1>1, <2>1, PgLiveSame DEF PgTo, PgDial, Handling
  <2> QED BY <1>0, <1>1, <2>1, <2>2 DEF PgDial, PgSound, PgTo, OnlyPg, PgListening
<1>2. CASE PgAccept(p)
  BY <1>0, <1>2 DEF PgAccept, PgSound, PgInSync, PgListening
<1>3. CASE PgAcceptNext(p)
  <2>1. pg[p].pc = "dialed" /\ stop \notin {"pgStopped", "waiting", "closing", "stopped"}
    BY <1>0, <1>3 DEF PgAcceptNext, PgSound
  <2>2. CASE PgMaxConns > 0 /\ pgSlots >= PgMaxConns
    <3>1. PgTo(p, {"gone"}) /\ PgInSync'
      BY <1>3, <2>1, <2>2, ComesInSync DEF PgAcceptNext
    <3>2. LivePg(pg') = LivePg(pg)
      BY <2>1, <3>1, PgLiveSame DEF PgTo, Handling
    <3>3. \A q \in PgClients \ {p} : pg'[q] = pg[q]
      BY <3>1 DEF PgTo, OnlyPg
    <3> QED BY <1>0, <1>3, <2>1, <2>2, <3>1, <3>2, <3>3 DEF PgAcceptNext, PgSound, ServerAssumption
  <2>3. CASE ~(PgMaxConns > 0 /\ pgSlots >= PgMaxConns)
    <3>1. PgTo(p, {"startup"}) /\ PgInSync'
      BY <1>3, <2>1, <2>3, ComesInSync DEF PgAcceptNext
    <3>2. Cardinality(LivePg(pg')) = Cardinality(LivePg(pg)) + 1
      BY <2>1, <3>1, PgLiveUp DEF PgTo, Handling
    <3>3. \A q \in PgClients \ {p} : pg'[q] = pg[q]
      BY <3>1 DEF PgTo, OnlyPg
    <3> QED BY <1>0, <1>3, <2>1, <2>3, <3>1, <3>2, <3>3 DEF PgAcceptNext, PgSound, ServerAssumption
  <2> QED BY <2>2, <2>3
<1>4. CASE PgEnds(p)
  <2>1. InSync([NoConnection EXCEPT !.pc = "gone"], NoNotes)
    BY UnusedInSync
  <2>2. OnlyPg(p) /\ pg'[p] = [NoConnection EXCEPT !.pc = "gone"]
    BY <1>4, PutConn DEF PgEnds
  <2>3. OnlyNotes(p) /\ pgNotes'[p] = NoNotes
    BY <1>4 DEF PgEnds, OnlyNotes, PgInSync
  <2>4. pg'[p].pc = "gone"
    BY <2>2 DEF NoConnection
  <2>5. PgTo(p, {"gone"})
    BY <2>1, <2>2, <2>3, <2>4 DEF PgTo
  <2>6. Cardinality(LivePg(pg')) = Cardinality(LivePg(pg)) - 1
    BY <1>4, <2>2, <2>4, PgLiveDown DEF PgEnds, Handling
  <2>7. \A q \in PgClients \ {p} : pg'[q] = pg[q]
    BY <2>2 DEF OnlyPg
  <2> QED BY <1>0, <1>4, <2>4, <2>5, <2>6, <2>7, OneInSync DEF PgEnds, PgSound
<1> QED BY <1>1, <1>2, <1>3, <1>4

\* Connections that were not accepted go with their listener.
LEMMA PgListenerCloses ==
  ASSUME PgAssumptions, ClosePgListener
  PROVE  PgInSync' /\ PgSound'
<1> USE DEF PgAssumptions
<1>1. ASSUME NEW p \in PgClients
      PROVE  /\ InSync(pg'[p], pgNotes'[p]) /\ pgNotes'[p] = pgNotes[p]
             /\ \/ pg'[p] = pg[p]
                \/ pg[p].pc = "dialed" /\ pgAcceptor # p /\ pg'[p].pc = "gone"
  <2>1. pgNotes'[p] = pgNotes[p] /\ InSync(pg[p], pgNotes[p])
    BY DEF ClosePgListener, PgInSync
  <2>2. CASE pg[p].pc = "dialed" /\ pgAcceptor # p
    <3>1. pg'[p] = [pg[p] EXCEPT !.pc = "gone"]
      BY <2>2 DEF ClosePgListener
    <3>2. IsConn([pg[p] EXCEPT !.pc = "gone"], "gone", pg[p].got, pg[p].extErr, pg[p].stmt,
                 pg[p].portal, pg[p].sql)
      BY <2>1, Updated DEF InSync
    <3>3. InSync(pg'[p], pgNotes[p])
      BY <2>1, <2>2, <3>1, <3>2 DEF InSync, IsConn
    <3>4. pg'[p].pc = "gone"
      BY <3>1, <3>2 DEF IsConn
    <3> QED BY <2>1, <2>2, <3>3, <3>4
  <2>3. CASE ~(pg[p].pc = "dialed" /\ pgAcceptor # p)
    BY <2>1, <2>3 DEF ClosePgListener
  <2> QED BY <2>2, <2>3
<1>2. DOMAIN pg' = PgClients /\ DOMAIN pgNotes' = PgClients
  BY DEF ClosePgListener, PgInSync
<1>3. LivePg(pg') = LivePg(pg)
  BY <1>1 DEF LivePg, Handling
<1>4. /\ UNCHANGED <<task, pgAcceptor, pgSlots>> /\ stop = "httpClosed" /\ stop' = "pgClosed"
  BY DEF ClosePgListener, StopStep, statementVars, pgServerVars
<1> QED BY <1>1, <1>2, <1>3, <1>4 DEF PgInSync, PgSound

-----------------------------------------------------------------------------
(* Schedulers end with their engines                                       *)

EngineFields == {"registered", "life", "loop", "published", "halt", "closer"}
IsEngine(e, registered, life, loop, published, halt, closer) ==
  /\ DOMAIN e = EngineFields
  /\ e.registered = registered /\ e.life = life /\ e.loop = loop
  /\ e.published = published /\ e.halt = halt /\ e.closer = closer

Starts(s) == task[s].pc \in {"start", "publish"}
Closes(s) == task[s].pc = "closing"

\* While the engine is open its scheduler is known or one CREATE is starting it; a Close
\* that has not told it to end came too early.
SchedulerSound ==
  /\ DOMAIN created = EngineFields
  /\ created.published \in BOOLEAN /\ created.halt \in BOOLEAN
  /\ created.life \in {"none", "open", "closing", "closed"}
  /\ created.registered => created.life = "open"
  /\ created.life = "none" =>
       /\ created.loop = "off" /\ ~created.published /\ ~created.halt
       /\ \A s \in Sessions : ~Starts(s)
  /\ created.life \in {"none", "open"} =>
       created.closer # "Stop" /\ \A s \in Sessions : ~Closes(s)
  /\ \A s, t \in Sessions : Starts(s) /\ Starts(t) => s = t
  /\ created.published \/ created.halt => \A s \in Sessions : ~Starts(s)
  /\ created.life = "open" => created.published \/ \E s \in Sessions : Starts(s)
  /\ created.life \in {"closing", "closed"} /\ ~created.halt => late
  /\ created.life = "closed" /\ created.halt => created.loop = "off"

\* Sessions whose statement is neither starting a scheduler nor closing an engine.
Quiet == {"idle", "check", "store", "fetch", "unlink", "put", "create", "drop", "ok", "error"}

\* The engine stays, and statements that are not about it move on.
LEMMA SchedulerFrame ==
  ASSUME SchedulerSound, created' = created, late' = late,
         \A s \in Sessions :
           task'[s].pc = task[s].pc \/ (task[s].pc \in Quiet /\ task'[s].pc \in Quiet)
  PROVE  SchedulerSound'
BY DEF SchedulerSound, Starts, Closes, Quiet

\* What the updates of an engine do to its fields.
LEMMA EngineUpdated ==
  ASSUME SchedulerSound
  PROVE  /\ IsEngine([created EXCEPT !.life = "open", !.registered = TRUE],
                     TRUE, "open", created.loop, created.published, created.halt, created.closer)
         /\ \A x : IsEngine([created EXCEPT !.loop = x], created.registered, created.life, x,
                            created.published, created.halt, created.closer)
         /\ IsEngine([created EXCEPT !.published = TRUE], created.registered, created.life,
                     created.loop, TRUE, created.halt, created.closer)
         /\ IsEngine([created EXCEPT !.life = "closed"], created.registered, "closed",
                     created.loop, created.published, created.halt, created.closer)
         /\ \A by : IsEngine([created EXCEPT !.registered = FALSE, !.life = "closing",
                                !.published = FALSE, !.halt = created.published, !.closer = by],
                             FALSE, "closing", created.loop, FALSE, created.published, by)
<1>1. DOMAIN created = EngineFields
  BY DEF SchedulerSound
<1> QED BY <1>1 DEF IsEngine, EngineFields

\* CREATE TABLE makes the engine, starts its scheduler and then lets it be known.
LEMMA CreateSound ==
  ASSUME TaskShape, SchedulerSound, NEW s \in Sessions,
         CreateEngine(s) \/ StartLoops(s) \/ PublishScheduler(s)
  PROVE  SchedulerSound'
<1> USE DEF Starts, Closes
<1>1. CASE CreateEngine(s) /\ created.life = "none"
  <2>1. Moves1(s, {"start"}) /\ task[s].pc = "create" /\ late' = late
    BY <1>1, GotoTask DEF CreateEngine
  <2>2. IsEngine(created', TRUE, "open", created.loop, created.published, created.halt,
                 created.closer)
    BY <1>1, EngineUpdated DEF CreateEngine
  <2> QED BY <1>1, <2>1, <2>2 DEF SchedulerSound, IsEngine, Moves1
<1>2. CASE CreateEngine(s) /\ created.life # "none"
  <2>1. Moves1(s, {"error"}) /\ task[s].pc = "create" /\ UNCHANGED <<created, late>>
    BY <1>2, GotoTask DEF CreateEngine
  <2> QED BY <2>1, SchedulerFrame DEF Moves1, Quiet
<1>3. CASE StartLoops(s)
  <2>1. Moves1(s, {"publish"}) /\ task[s].pc = "start" /\ late' = late
    BY <1>3, GotoTask DEF StartLoops
  <2>2. IsEngine(created', created.registered, created.life, "idle", created.published,
                 created.halt, created.closer)
    BY <1>3, EngineUpdated DEF StartLoops
  <2> QED BY <2>1, <2>2 DEF SchedulerSound, IsEngine, Moves1
<1>4. CASE PublishScheduler(s)
  <2>1. Moves1(s, {"ok"}) /\ task[s].pc = "publish" /\ late' = late
    BY <1>4, GotoTask DEF PublishScheduler
  <2>2. IsEngine(created', created.registered, created.life, created.loop, TRUE,
                 created.halt, created.closer)
    BY <1>4, EngineUpdated DEF PublishScheduler
  <2>3. \A t \in Sessions : ~Starts(t)'
    BY <2>1 DEF SchedulerSound, Moves1
  <2> QED BY <2>1, <2>2, <2>3 DEF SchedulerSound, IsEngine, Moves1
<1> QED BY <1>1, <1>2, <1>3, <1>4 DEF CreateEngine

\* An open engine is closed, by DROP TABLE or Stop.
LEMMA TakeSound ==
  ASSUME SchedulerSound, NEW by, TakeScheduler(by), created.life = "open",
         \A s \in Sessions : Starts(s)' <=> Starts(s)
  PROVE  SchedulerSound'
<1>1. IsEngine(created', FALSE, "closing", created.loop, FALSE, created.published, by)
  BY EngineUpdated DEF TakeScheduler
<1>2. ~created.published => late'
  BY DEF SchedulerSound, TakeScheduler, Starting, Starts
<1> QED BY <1>1, <1>2 DEF SchedulerSound, IsEngine

\* The engine is closed when its scheduler has ended.
LEMMA CloseSound ==
  ASSUME SchedulerSound, created.life \in {"closing", "closed"}, EngineClosed, late' = late,
         created' = [created EXCEPT !.life = "closed"],
         \A s \in Sessions : Starts(s)' <=> Starts(s)
  PROVE  SchedulerSound'
<1>1. IsEngine(created', created.registered, "closed", created.loop, created.published,
               created.halt, created.closer)
  BY EngineUpdated
<1> QED BY <1>1 DEF SchedulerSound, IsEngine, EngineClosed

\* DROP TABLE closes the engine, or finds none.
LEMMA DropSound ==
  ASSUME TaskShape, SchedulerSound, NEW s \in Sessions, DropEngine(s) \/ DropEnds(s)
  PROVE  SchedulerSound'
<1>1. CASE DropEngine(s) /\ created.registered
  <2>1. Moves1(s, {"closing"}) /\ task[s].pc = "drop"
    BY <1>1, GotoTask DEF DropEngine
  <2>2. TakeScheduler(s) /\ created.life = "open"
    BY <1>1 DEF DropEngine, SchedulerSound
  <2>3. \A t \in Sessions : Starts(t)' <=> Starts(t)
    BY <2>1 DEF Moves1, Starts
  <2> QED BY <2>2, <2>3, TakeSound
<1>2. CASE DropEngine(s) /\ ~created.registered
  <2>1. Moves1(s, {"error"}) /\ task[s].pc = "drop" /\ UNCHANGED <<created, late>>
    BY <1>2, GotoTask DEF DropEngine
  <2> QED BY <2>1, SchedulerFrame DEF Moves1, Quiet
<1>3. CASE DropEnds(s)
  <2>1. Moves1(s, {"ok"}) /\ task[s].pc = "closing"
    BY <1>3, GotoTask DEF DropEnds
  <2>2. created.life \in {"closing", "closed"}
    BY <2>1 DEF SchedulerSound, Closes
  <2>3. \A t \in Sessions : Starts(t)' <=> Starts(t)
    BY <2>1 DEF Moves1, Starts
  <2> QED BY <1>3, <2>2, <2>3, CloseSound DEF DropEnds
<1> QED BY <1>1, <1>2, <1>3

\* The scheduler ticks, or ends when it is told to.
LEMMA TickSound ==
  ASSUME SchedulerSound, Tick
  PROVE  SchedulerSound'
<1>1. PICK x \in {"busy", "idle", "off"} : created' = [created EXCEPT !.loop = x]
  BY DEF Tick
<1>2. IsEngine(created', created.registered, created.life, x, created.published, created.halt,
               created.closer)
  BY <1>1, EngineUpdated
<1>3. created.loop # "off" /\ UNCHANGED <<task, late>>
  BY DEF Tick, statementVars
<1> QED BY <1>2, <1>3 DEF SchedulerSound, IsEngine, Starts, Closes

-----------------------------------------------------------------------------
(* The inductive invariant                                                 *)

\* An engine is closed when Stop has come to it.
OpenUntilClosing == ~open => stop \in {"closing", "stopped"}

ServerInv == /\ load \in Loads /\ TaskShape /\ TcpSound /\ PgInSync /\ PgSound
             /\ SchedulerSound /\ OpenUntilClosing

\* At most the statement of s changes, which is not about the engine of the table.
Works(s) == \/ task' = task
            \/ Moves1(s, Quiet) /\ task[s].pc \in Quiet

\* Such a statement leaves the scheduler's invariant as it is.
LEMMA WorksFrame ==
  ASSUME ServerInv, NEW s \in Sessions, Works(s), UNCHANGED <<created, late>>
  PROVE  TaskShape' /\ SchedulerSound'
<1>1. TaskShape'
  BY DEF ServerInv, Works, Moves1, TaskShape
<1>2. \A t \in Sessions :
        task'[t].pc = task[t].pc \/ (task[t].pc \in Quiet /\ task'[t].pc \in Quiet)
  BY DEF Works, Moves1
<1> QED BY <1>1, <1>2, SchedulerFrame DEF ServerInv

\* At most the statement of s changes.
OnlyTask(s) == \A t \in Sessions \ {s} : task'[t] = task[t]

\* And the other sessions' statements.
LEMMA WorksOnly ==
  ASSUME NEW s \in Sessions, Works(s)
  PROVE  OnlyTask(s)
BY DEF Works, OnlyTask, Moves1

\* Steps of other sessions, and of statements under way, keep TcpSound.
LEMMA TcpElsewhere ==
  ASSUME ServerAssumption, ServerInv, NEW s \in Sessions, OnlyTask(s),
         s \notin TcpClients \/ task[s].pc # "idle" \/ task' = task,
         UNCHANGED <<tcp, acceptor, connCount>>,
         stop' \in {"closing", "stopped"} => stop \in {"closing", "stopped"}
  PROVE  TcpSound'
<1>1. TcpClients \subseteq Sessions
  BY DEF ServerAssumption
<1>2. TcpTasksKept
  BY <1>1 DEF TcpTasksKept, OnlyTask
<1> QED BY <1>2, TcpFrame DEF ServerInv

\* And what is said of PostgreSQL connections.
LEMMA PgElsewhere ==
  ASSUME ServerAssumption, ServerInv, NEW s \in Sessions, OnlyTask(s),
         s \notin PgClients \/ task[s].pc # "idle" \/ task' = task,
         UNCHANGED <<pgServerVars, pgVars>>,
         LET P == {"pgStopped", "waiting", "closing", "stopped"} IN stop' \in P => stop \in P
  PROVE  PgInSync' /\ PgSound'
<1>1. PgClients \subseteq Sessions
  BY DEF ServerAssumption
<1>2. \A p \in PgClients : task'[p].pc # "idle" => task[p].pc # "idle"
  BY <1>1 DEF OnlyTask
<1> QED BY <1>2, PgFrame DEF ServerInv, PgAssumptions

\* A statement begins.
LEMMA BeginWorks ==
  ASSUME TaskShape, NEW s \in Sessions, NEW st, IsStatement(st), Begin(s, st)
  PROVE  Works(s) /\ UNCHANGED open
<1>1. FirstStep(st) \in Quiet
  BY DEF FirstStep, IsStatement, Operations, Quiet
<1> QED BY <1>1, BeginTask DEF Works, Moves1, Begin, Quiet

\* The response of a statement is taken.
LEMMA TakeWorks ==
  ASSUME TaskShape, NEW s \in Sessions, task[s].pc \in {"ok", "error"},
         task' = [task EXCEPT ![s] = NoTask]
  PROVE  Works(s)
BY EndTask DEF Works, Moves1, Quiet

\* What the steps of a TCP client may do to statements.
LEMMA TcpWorks ==
  ASSUME ServerAssumption, LoadsAssumption, ServerInv, NEW c \in TcpClients,
         Dial(c) \/ Ping(c) \/ TcpRequest(c) \/ TcpStep(c)
  PROVE  Works(c) /\ UNCHANGED <<open, created, late, stop, load, pgServerVars, pgVars>>
<1> USE DEF statementVars, lifeVars, pgServerVars, pgVars
<1>0. c \in Sessions /\ TaskShape /\ load \in Loads
  BY DEF ServerAssumption, ServerInv
<1>1. CASE TcpRequest(c)
  <2>1. PICK st \in load.menu : Begin(c, st)
    BY <1>1 DEF TcpRequest, Ask
  <2> QED BY <1>0, <1>1, <2>1, BeginWorks DEF TcpRequest, Ask, LoadsAssumption
<1>2. CASE TcpRespond(c)
  BY <1>0, <1>2, TakeWorks DEF TcpRespond, Take
<1>3. CASE Dial(c) \/ Ping(c) \/ Accept(c) \/ AcceptNext(c) \/ Track(c) \/ HandlerTop(c)
           \/ ReadFails(c)
  BY <1>3 DEF Dial, Ping, Accept, AcceptNext, Track, HandlerTop, ReadFails, Works
<1> QED BY <1>1, <1>2, <1>3 DEF TcpStep

\* What the steps of a PostgreSQL client may do to statements.
LEMMA PgWorks ==
  ASSUME ServerAssumption, LoadsAssumption, ServerInv, NEW p \in PgClients,
         PgDial(p) \/ PgAccept(p) \/ PgAcceptNext(p) \/ PgMessage(p) \/ PgStep(p) \/ PgEnds(p)
  PROVE  Works(p) /\ UNCHANGED <<open, created, late, stop, load, tcp, acceptor, connCount>>
<1> USE DEF statementVars, lifeVars, tcpVars
<1>0. p \in Sessions /\ TaskShape /\ PgInSync
  BY DEF ServerAssumption, ServerInv
<1>1. CASE PgHandle(p) /\ PgStep(p)
  <2>1. CASE UNCHANGED statementVars
    BY <1>1, <2>1 DEF PgStep, Works
  <2>2. CASE Take(p)
    BY <1>0, <1>1, <2>2, TakeWorks DEF PgStep, Take
  <2>3. CASE \E st : IsStatement(st) /\ Begin(p, st)
    BY <1>0, <1>1, <2>3, BeginWorks DEF PgStep
  <2> QED BY <1>0, <1>1, <2>1, <2>2, <2>3, HandleInSync
<1>2. CASE Startup(p) /\ PgStep(p)
  BY <1>2 DEF Startup, PgStep, Works
<1>3. CASE PgMessage(p)
  BY <1>3 DEF PgMessage, Receive, Works
<1>4. CASE PgDial(p) \/ PgAccept(p) \/ PgAcceptNext(p) \/ PgEnds(p)
  BY <1>4 DEF PgDial, PgAccept, PgAcceptNext, PgEnds, Works
<1> QED BY <1>1, <1>2, <1>3, <1>4 DEF PgStep

\* The invariant holds when the server starts.
LEMMA ServerInit ==
  ASSUME ServerAssumption, Init
  PROVE  ServerInv
<1> USE DEF Init
<1>1. task = [s \in Sessions |-> NoTask] /\ open = TRUE
  BY DEF StatementsInit
<1>2. TaskShape
  BY <1>1 DEF TaskShape, NoTask
<1>3. \A s \in Sessions : task[s].pc = "idle"
  BY <1>1 DEF NoTask
<1>4. TcpClients \subseteq Sessions /\ PgClients \subseteq Sessions
  BY DEF ServerAssumption
<1>5. TcpSound
  <2>1. LiveTcp(tcp) = {}
    BY DEF FreshConnections, LiveTcp, TcpLive
  <2> QED BY <1>3, <1>4, <2>1, FS_EmptySet DEF TcpSound, FreshConnections, ServerAssumption
<1>6. \A p \in PgClients : pg[p] = NoConnection /\ pgNotes[p] = NoNotes
  BY DEF PgInit
<1>7. PgInSync
  <2>1. InSync(NoConnection, NoNotes)
    BY UnusedInSync
  <2> QED BY <1>6, <2>1 DEF PgInSync, PgInit
<1>8. PgSound
  <2>1. \A p \in PgClients : pg[p].pc = "away"
    BY <1>6 DEF NoConnection
  <2>2. LivePg(pg) = {}
    BY <2>1 DEF LivePg, Handling
  <2> QED BY <1>3, <1>4, <2>1, <2>2, FS_EmptySet DEF PgSound, FreshConnections, ServerAssumption
<1>9. SchedulerSound
  BY <1>3 DEF SchedulerSound, NoEngine, EngineFields, Starts, Closes
<1> QED BY <1>1, <1>2, <1>5, <1>7, <1>8, <1>9 DEF ServerInv, OpenUntilClosing

\* It is kept by TCP.
LEMMA TcpStepInv ==
  ASSUME ServerAssumption, LoadsAssumption, ServerInv, NEW c \in TcpClients,
         Dial(c) \/ Ping(c) \/ TcpRequest(c) \/ TcpStep(c)
  PROVE  ServerInv'
<1>1. c \in Sessions /\ c \notin PgClients
  BY DEF ServerAssumption
<1>2. Works(c) /\ UNCHANGED <<open, created, late, stop, load, pgServerVars, pgVars>>
  BY TcpWorks
<1>3. TaskShape' /\ SchedulerSound'
  BY <1>1, <1>2, WorksFrame
<1>4. PgInSync' /\ PgSound'
  BY <1>1, <1>2, WorksOnly, PgElsewhere
<1>5. TcpSound'
  BY TcpActions DEF TcpAssumptions, ServerInv
<1> QED BY <1>2, <1>3, <1>4, <1>5 DEF ServerInv, OpenUntilClosing

\* It is kept by PostgreSQL clients and handlers.
LEMMA PgStepInv ==
  ASSUME ServerAssumption, LoadsAssumption, ServerInv, NEW p \in PgClients,
         PgDial(p) \/ PgAccept(p) \/ PgAcceptNext(p) \/ PgMessage(p) \/ PgStep(p) \/ PgEnds(p)
  PROVE  ServerInv'
<1>1. p \in Sessions /\ p \notin TcpClients
  BY DEF ServerAssumption
<1>2. Works(p) /\ UNCHANGED <<open, created, late, stop, load, tcp, acceptor, connCount>>
  BY PgWorks
<1>3. TaskShape' /\ SchedulerSound'
  BY <1>1, <1>2, WorksFrame
<1>4. TcpSound'
  BY <1>1, <1>2, WorksOnly, TcpElsewhere
<1>5. PgInSync' /\ PgSound'
  BY PgActions, PgComesAndGoes DEF PgAssumptions, ServerInv
<1> QED BY <1>2, <1>3, <1>4, <1>5 DEF ServerInv, OpenUntilClosing

\* HTTP handlers run statements, and nobody counts them.
LEMMA HttpInv ==
  ASSUME ServerAssumption, LoadsAssumption, ServerInv, NEW h \in HttpClients,
         HttpRequest(h) \/ HttpRespond(h)
  PROVE  ServerInv'
<1>1. h \in Sessions /\ h \notin TcpClients /\ h \notin PgClients
  BY DEF ServerAssumption
<1>2. UNCHANGED <<connectionVars, lifeVars, load>>
  BY DEF HttpRequest, HttpRespond
<1>3. Works(h) /\ UNCHANGED open
  <2>1. CASE HttpRequest(h)
    <3>1. PICK st \in load.menu : Begin(h, st)
      BY <2>1 DEF HttpRequest, Ask
    <3> QED BY <1>1, <3>1, BeginWorks DEF ServerInv, LoadsAssumption
  <2>2. CASE HttpRespond(h)
    BY <1>1, <2>2, TakeWorks DEF HttpRespond, Take, ServerInv
  <2> QED BY <2>1, <2>2
<1> USE DEF connectionVars, lifeVars, tcpVars
<1>4. TaskShape' /\ SchedulerSound'
  BY <1>1, <1>2, <1>3, WorksFrame
<1>5. TcpSound'
  BY <1>1, <1>2, <1>3, WorksOnly, TcpElsewhere
<1>6. PgInSync' /\ PgSound'
  BY <1>1, <1>2, <1>3, WorksOnly, PgElsewhere
<1> QED BY <1>2, <1>3, <1>4, <1>5, <1>6 DEF ServerInv, OpenUntilClosing

\* A statement takes a step, or a call of it is refused.
LEMMA StatementInv ==
  ASSUME ServerAssumption, ServerInv, NEW s \in Sessions, StatementStep(s) \/ Refused(s)
  PROVE  ServerInv'
<1>1. UNCHANGED <<connectionVars, stop, load, open>>
  BY DEF StatementStep, Refused, CreateEngine, StartLoops, PublishScheduler, DropEngine, DropEnds,
     lifeVars, DataStep, CallFails, CheckInsert, StoreBatch, Fetch, CheckMove, Unlink, PutRow
<1>2. OnlyTask(s) /\ task[s].pc # "idle" /\ TaskShape' /\ SchedulerSound'
  <2>1. CASE (DataStep(s) \/ CallFails(s)) /\ UNCHANGED lifeVars
    <3>1. Works(s)
      BY <2>1, DataTask DEF Works, Moves1, Calls, Quiet, ServerInv
    <3> QED BY <2>1, <3>1, WorksFrame, WorksOnly, DataTask DEF lifeVars, Calls, ServerInv
  <2>2. CASE CreateEngine(s) \/ StartLoops(s) \/ PublishScheduler(s)
    <3>1. (\E pc : Goto(s, pc)) /\ task[s].pc # "idle"
      BY <2>2 DEF CreateEngine, StartLoops, PublishScheduler
    <3> QED BY <2>2, <3>1, GotoTask, CreateSound DEF OnlyTask, Moves1, ServerInv
  <2>3. CASE DropEngine(s) \/ DropEnds(s)
    <3>1. (\E pc : Goto(s, pc)) /\ task[s].pc # "idle"
      BY <2>3 DEF DropEngine, DropEnds
    <3> QED BY <2>3, <3>1, GotoTask, DropSound DEF OnlyTask, Moves1, ServerInv
  <2> QED BY <2>1, <2>2, <2>3 DEF StatementStep, Refused
<1> USE DEF connectionVars, tcpVars
<1>3. TcpSound'
  BY <1>1, <1>2, TcpElsewhere
<1>4. PgInSync' /\ PgSound'
  BY <1>1, <1>2, PgElsewhere
<1> QED BY <1>1, <1>2, <1>3, <1>4 DEF ServerInv, OpenUntilClosing

\* Stop's steps before the tables, each of which waits for something.
LEMMA StopInv ==
  ASSUME ServerAssumption, ServerInv,
         StopBegins \/ CloseTcpListener \/ CloseHttp \/ ClosePgListener \/ PgWaited \/ CloseAllConns
  PROVE  ServerInv'
<1> USE DEF ServerInv, StopStep, statementVars, connectionVars, tcpVars
<1>1. UNCHANGED <<open, created, late, load, task>> /\ stop' \notin {"closing", "stopped"} /\ open
  BY DEF StopBegins, CloseTcpListener, CloseHttp, ClosePgListener, PgWaited, CloseAllConns,
     OpenUntilClosing
<1>2. TaskShape' /\ SchedulerSound' /\ OpenUntilClosing'
  BY <1>1, SchedulerFrame DEF TaskShape, OpenUntilClosing
<1>3. TcpClients \subseteq Sessions /\ PgClients \subseteq Sessions
  BY DEF ServerAssumption
<1>4. TcpSound'
  <2>1. CASE CloseTcpListener
    <3>1. LiveTcp(tcp') = LiveTcp(tcp)
      BY <2>1 DEF CloseTcpListener, LiveTcp, TcpLive
    <3> QED BY <1>1, <2>1, <3>1 DEF CloseTcpListener, TcpSound
  <2>2. CASE ~CloseTcpListener
    <3>1. UNCHANGED <<tcp, acceptor, connCount>>
      BY <2>2 DEF StopBegins, CloseHttp, ClosePgListener, PgWaited, CloseAllConns
    <3> QED BY <1>1, <3>1, TcpFrame DEF TcpTasksKept
  <2> QED BY <2>1, <2>2
<1>5. PgInSync' /\ PgSound'
  <2>1. CASE ClosePgListener
    BY <2>1, PgListenerCloses DEF PgAssumptions
  <2>2. CASE PgWaited
    BY <1>1, <2>2 DEF PgWaited, PgSound, PgInSync, LivePg, pgVars, pgServerVars
  <2>3. CASE StopBegins \/ CloseTcpListener \/ CloseHttp \/ CloseAllConns
    <3>1. UNCHANGED <<pgServerVars, pgVars>>
      BY <2>3 DEF StopBegins, CloseTcpListener, CloseHttp, CloseAllConns
    <3>2. LET P == {"pgStopped", "waiting", "closing", "stopped"} IN stop' \in P => stop \in P
      BY <2>3 DEF StopBegins, CloseTcpListener, CloseHttp, CloseAllConns
    <3> QED BY <1>1, <3>1, <3>2, PgFrame DEF PgAssumptions
  <2> QED BY <2>1, <2>2, <2>3
<1> QED BY <1>1, <1>2, <1>4, <1>5

\* The tables are closed when the handlers have ended, and then the default engine.
LEMMA CloseTablesInv ==
  ASSUME ServerAssumption, ServerInv, CloseTables
  PROVE  ServerInv'
<1> USE DEF ServerInv, CloseTables, connectionVars, tcpVars
<1>1. SchedulerSound'
  <2>1. CASE created.registered
    <3>1. created.life = "open" /\ \A s \in Sessions : Starts(s)' <=> Starts(s)
      BY <2>1 DEF SchedulerSound, Starts
    <3> QED BY <2>1, <3>1, TakeSound
  <2>2. CASE ~created.registered
    BY <2>2, SchedulerFrame
  <2> QED BY <2>1, <2>2
<1>2. TcpSound'
  BY DEF TcpSound, HandlersEnded, LiveTcp
<1>3. PgInSync' /\ PgSound'
  BY PgFrame DEF PgAssumptions
<1> QED BY <1>1, <1>2, <1>3 DEF TaskShape, OpenUntilClosing

\* Stop's last step closes the engine that Stop took.
LEMMA StopEndsInv ==
  ASSUME ServerAssumption, ServerInv, StopEndsNow
  PROVE  ServerInv'
<1> USE DEF ServerInv, StopEndsNow, StopStep, statementVars, connectionVars, tcpVars
<1>1. SchedulerSound'
  <2>1. CASE created.closer = "Stop"
    <3>1. created.life \in {"closing", "closed"}
      BY <2>1 DEF SchedulerSound
    <3>2. \A s \in Sessions : Starts(s)' <=> Starts(s)
      BY DEF Starts
    <3> QED BY <2>1, <3>1, <3>2, CloseSound
  <2>2. CASE created.closer # "Stop"
    BY <2>2, SchedulerFrame
  <2> QED BY <2>1, <2>2
<1>2. TcpSound'
  BY TcpFrame DEF TcpTasksKept
<1>3. PgInSync' /\ PgSound'
  BY PgFrame DEF PgAssumptions
<1> QED BY <1>1, <1>2, <1>3 DEF TaskShape, OpenUntilClosing

\* After a crash the server starts without connections and statements.
LEMMA CrashInv ==
  ASSUME ServerAssumption, ServerInv, Crash
  PROVE  ServerInv'
<1> USE DEF ServerInv, Crash
<1>1. /\ TaskShape' /\ \A s \in Sessions : task'[s].pc = "idle"
      /\ UNCHANGED <<created, late, open, stop, load>> /\ stop = "no"
  BY DEF TaskShape, NoTask, lifeVars
<1>2. TcpClients \subseteq Sessions /\ PgClients \subseteq Sessions
  BY DEF ServerAssumption
<1>3. TcpSound'
  <2>1. LiveTcp(tcp') = {}
    BY DEF LiveTcp, TcpLive
  <2> QED BY <1>1, <1>2, <2>1, FS_EmptySet DEF TcpSound, ServerAssumption
<1>4. \A p \in PgClients : pg'[p] = NoConnection /\ pgNotes'[p] = NoNotes
  OBVIOUS
<1>5. PgInSync'
  <2>1. InSync(NoConnection, NoNotes)
    BY UnusedInSync
  <2> QED BY <1>4, <2>1 DEF PgInSync
<1>6. PgSound'
  <2>1. \A p \in PgClients : pg'[p].pc = "away"
    BY <1>4 DEF NoConnection
  <2>2. LivePg(pg') = {}
    BY <2>1 DEF LivePg, Handling
  <2> QED BY <1>1, <1>2, <2>1, <2>2, FS_EmptySet DEF PgSound, ServerAssumption
<1>7. SchedulerSound'
  <2>1. created.life = "none"
    BY DEF NoEngine
  <2> QED BY <1>1, <2>1 DEF SchedulerSound, Starts, Closes
<1> QED BY <1>1, <1>3, <1>5, <1>6, <1>7 DEF OpenUntilClosing

\* Every step keeps the invariant.
LEMMA ServerStep ==
  ASSUME ServerAssumption, LoadsAssumption, ServerInv, [Next]_serverVars
  PROVE  ServerInv'
<1> USE DEF statementVars, connectionVars, tcpVars, pgServerVars, pgVars, lifeVars
<1>1. CASE \E c \in TcpClients : Dial(c) \/ Ping(c) \/ TcpRequest(c) \/ TcpStep(c)
  BY <1>1, TcpStepInv
<1>2. CASE AcceptEnds
  <2>1. UNCHANGED <<task, open, load, tcp, connCount, stop, created, late, pg, pgNotes,
                    pgAcceptor, pgSlots>> /\ acceptor' = "ended"
    BY <1>2 DEF AcceptEnds
  <2>2. TcpSound'
    BY <2>1 DEF TcpSound, ServerInv, LiveTcp, ServerAssumption
  <2>3. PgInSync' /\ PgSound'
    BY <2>1, PgFrame DEF PgAssumptions, ServerInv
  <2> QED BY <2>1, <2>2, <2>3, SchedulerFrame DEF ServerInv, TaskShape, OpenUntilClosing
<1>3. CASE \E h \in HttpClients : HttpRequest(h) \/ HttpRespond(h)
  BY <1>3, HttpInv
<1>4. CASE \E p \in PgClients : PgDial(p) \/ PgAccept(p) \/ PgAcceptNext(p) \/ PgMessage(p)
                                \/ PgStep(p) \/ PgEnds(p)
  BY <1>4, PgStepInv
<1>5. CASE PgAcceptEnds
  <2>1. UNCHANGED <<task, open, load, tcp, connCount, stop, created, late, pg, pgNotes,
                    acceptor, pgSlots>> /\ pgAcceptor' = "ended"
    BY <1>5 DEF PgAcceptEnds
  <2>2. TcpSound'
    BY <2>1, TcpFrame DEF TcpTasksKept, ServerInv
  <2>3. PgInSync' /\ PgSound'
    BY <2>1 DEF PgSound, PgInSync, ServerInv, LivePg, ServerAssumption
  <2> QED BY <2>1, <2>2, <2>3, SchedulerFrame DEF ServerInv, TaskShape, OpenUntilClosing
<1>6. CASE \E s \in Sessions : StatementStep(s) \/ Refused(s)
  BY <1>6, StatementInv
<1>7. CASE Tick
  <2>1. UNCHANGED <<task, open, load, tcp, connCount, stop, late, pg, pgNotes, acceptor,
                    pgAcceptor, pgSlots>>
    BY <1>7 DEF Tick
  <2>2. TcpSound'
    BY <2>1, TcpFrame DEF TcpTasksKept, ServerInv
  <2>3. PgInSync' /\ PgSound'
    BY <2>1, PgFrame DEF PgAssumptions, ServerInv
  <2> QED BY <1>7, <2>1, <2>2, <2>3, TickSound DEF ServerInv, TaskShape, OpenUntilClosing
<1>8. CASE StopBegins \/ StopNext
  BY <1>8, StopInv, CloseTablesInv, StopEndsInv DEF StopNext
<1>9. CASE Crash
  BY <1>9, CrashInv
<1>10. CASE UNCHANGED serverVars
  <2>1. UNCHANGED <<task, open, load, tcp, connCount, stop, created, late, pg, pgNotes, acceptor,
                    pgAcceptor, pgSlots>>
    BY <1>10 DEF serverVars
  <2>2. TcpSound'
    BY <2>1, TcpFrame DEF TcpTasksKept, ServerInv
  <2>3. PgInSync' /\ PgSound'
    BY <2>1, PgFrame DEF PgAssumptions, ServerInv
  <2> QED BY <2>1, <2>2, <2>3, SchedulerFrame DEF ServerInv, TaskShape, OpenUntilClosing
<1> QED BY <1>1, <1>2, <1>3, <1>4, <1>5, <1>6, <1>7, <1>8, <1>9, <1>10 DEF Next

\* The inductive invariant holds in every state of every behaviour.
THEOREM ServerInvariant == Spec => []ServerInv
<1>1. Init => ServerInv
  BY ServerInit, ServerAssumption
<1>2. ServerInv /\ [Next]_serverVars => ServerInv'
  BY ServerStep, ServerAssumption, LoadsAssumption
<1> QED BY <1>1, <1>2, PTL DEF Spec

-----------------------------------------------------------------------------
(* The properties                                                          *)

\* A table's engine is closed when no TCP or PostgreSQL handler runs, for any number of
\* clients and any limits (Stop, acceptTCP, pgwire Server.Stop).
THEOREM StorageLast == Spec => []StorageClosedLast
<1>1. ServerInv => StorageClosedLast
  <2> SUFFICES ASSUME ServerInv, ~open PROVE StorageClosedLast
    BY DEF StorageClosedLast
  <2>1. stop \in {"closing", "stopped"}
    BY DEF ServerInv, OpenUntilClosing
  <2>2. /\ acceptor = "ended" /\ LiveTcp(tcp) = {}
        /\ \A c \in TcpClients : task[c].pc = "idle"
    BY <2>1 DEF ServerInv, TcpSound, LiveTcp, TcpLive
  <2>3. /\ pgAcceptor = "ended" /\ LivePg(pg) = {}
        /\ \A p \in PgClients : task[p].pc = "idle"
    BY <2>1 DEF ServerInv, PgSound, LivePg, Handling
  <2>4. connCount = 0 /\ pgSlots = 0
    BY <2>2, <2>3, FS_EmptySet DEF ServerInv, TcpSound, PgSound
  <2> QED BY <2>2, <2>3, <2>4 DEF StorageClosedLast
<1> QED BY <1>1, ServerInvariant, PTL

\* The scheduler of a closed engine has ended, or its Close came before the CREATE had let
\* it be known, for any number of sessions (StartScheduler, Engine.Close).
THEOREM SchedulersStop == Spec => []SchedulersEnd
<1>1. ServerInv => SchedulersEnd
  BY DEF ServerInv, SchedulerSound, SchedulersEnd
<1> QED BY <1>1, ServerInvariant, PTL

\* Every Query and Sync has its ReadyForQuery, after the error of a missing object only
\* Close is answered until then, and an Execute runs the text its portal was bound to, for
\* any messages in any order and number (queryLoop, dispatchMessage, handleBind).
THEOREM PgInStep == Spec => []PgAnswers
<1>1. ServerInv => PgAnswers
  <2> SUFFICES ASSUME ServerInv, NEW p \in PgClients
               PROVE  /\ pg[p].pc = "ready" => pgNotes[p].unanswered = 0
                      /\ \A i, j \in DOMAIN pgNotes[p].replies :
                           i < j /\ pgNotes[p].replies[i] = "missing"
                             => pgNotes[p].replies[j] = "closed"
                      /\ pg[p].pc = "execute" =>
                           /\ pg[p].sql = pgNotes[p].bound
                           /\ "missing" \notin Range(pgNotes[p].replies)
    BY DEF PgAnswers
  <2>1. InSync(pg[p], pgNotes[p])
    BY InSyncNow DEF ServerInv
  <2> QED BY <2>1 DEF InSync, Orderly, NoneMissing, Range
<1> QED BY <1>1, ServerInvariant, PTL
=============================================================================
