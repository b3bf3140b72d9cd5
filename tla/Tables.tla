------------------------------- MODULE Tables -------------------------------
(***************************************************************************)
(* The server's tables: the catalog with its file (catalog.go), the        *)
(* engines by table name (routingAdapter), and the statements that use     *)
(* them, CREATE TABLE, DROP TABLE, INSERT and the /write call, which run   *)
(* concurrently and share no lock beyond those of the catalog and of the   *)
(* routing table.  A step is what happens under one of these locks, or one *)
(* call to an engine.                                                      *)
(*                                                                         *)
(* An engine is its directory, whether it is open, and the rows a reader   *)
(* finds in it, each given by the table it was written for.  A directory   *)
(* keeps what opening it brings back: module Durable is about that.  Here  *)
(* a logged row is kept, unless two engines are open on the directory.     *)
(***************************************************************************)
EXTENDS FiniteSets, Functions, Naturals

CONSTANTS
  Tables,     \* table names
  Clients,    \* client threads
  Keys,       \* primary keys
  Statements, \* per table the kinds of statements there are
  EngineIds,  \* engines there can be at a time, besides the default one
  Default,    \* the default engine
  NoEngine, NoTable,
  MaxFaults,  \* bound on the failures of file operations
  MaxRestarts \* bound on the crashes of the process

ASSUME TablesAssumption ==
  /\ IsFiniteSet(Clients) /\ IsFiniteSet(Tables) /\ IsFiniteSet(EngineIds)
  /\ Cardinality(Tables) <= Cardinality(EngineIds) \* a restart may open all of them
  /\ MaxFaults \in Nat /\ MaxRestarts \in Nat
  /\ Default \notin EngineIds /\ NoEngine \notin EngineIds \cup {Default}
  /\ NoTable \notin Tables
  /\ Statements \in [Tables -> SUBSET {"lsm", "memory", "drop", "insert", "write"}]

VARIABLES
  catalog,  \* Catalog.db: per table its engine kind, or "absent"
  file,     \* catalog.json
  lsm, mem, \* routingAdapter.lsmEngines, memEngines
  engines,  \* the engines
  dirs,     \* table directories that exist
  disk,     \* per directory the rows an engine opened on it finds
  session,  \* per client: how far its statement is
  faults, restarts,
  \* History variables, read by the properties only.
  owed,     \* per table the keys of acknowledged rows
  crossed,  \* tables with CREATEs or DROPs that crossed, or a failed persist
  shared    \* directories that had two open engines

mapVars == <<lsm, mem>>
diskVars == <<dirs, disk>>
noteVars == <<owed, crossed, shared>>
tablesVars == <<catalog, file, mapVars, engines, diskVars, session, faults,
                restarts, noteVars>>

\* Faulty variant: the tables share a directory.
DirOfAll(t) == <<"tables">>
DirOf(t) == <<"tables", t>>
RootDir == <<"root">>
Memory == <<"memory">>
Dirs == {RootDir} \cup {DirOf(t) : t \in Tables}

NoRows == [k \in Keys |-> NoTable]
OpenedOn(d) == [home |-> d, open |-> TRUE, rows |-> disk[d]]
Closed == [home |-> Memory, open |-> FALSE, rows |-> NoRows]

Idle == [pc |-> "idle", stmt |-> "none", table |-> NoTable, key |-> NoTable,
         engine |-> NoEngine, owe |-> FALSE]

Init ==
  /\ catalog = [t \in Tables |-> "absent"] /\ file = catalog
  /\ lsm = [t \in Tables |-> NoEngine] /\ mem = lsm
  /\ disk = [d \in Dirs |-> NoRows] /\ dirs = {}
  /\ engines = [e \in EngineIds \cup {Default} |->
                  IF e = Default THEN OpenedOn(RootDir) ELSE Closed]
  /\ session = [c \in Clients |-> Idle]
  /\ faults = 0 /\ restarts = 0
  /\ owed = [t \in Tables |-> {}] /\ crossed = {} /\ shared = {}

-----------------------------------------------------------------------------
(* Engines *)

\* Where a statement on table t goes.
EngineFor(t) ==
  IF lsm[t] # NoEngine THEN lsm[t]
  ELSE IF mem[t] # NoEngine THEN mem[t] ELSE Default

Unused(e) ==
  /\ ~engines[e].open
  /\ \A t \in Tables : e \notin {lsm[t], mem[t]}
  /\ \A c \in Clients : session[c].engine # e

NewId == CHOOSE e \in EngineIds : Unused(e)

\* Another engine is open on directory d.
InUse(d, e) == \E o \in EngineIds \ {e} : engines[o].open /\ engines[o].home = d

\* What directory d may hold when it should hold rows: an engine beside e may
\* cut the log, write over its records, or replace a segment file.
Kept(d, e, rows) ==
  IF InUse(d, e)
  THEN {[k \in Keys |-> IF k \in lost THEN NoTable ELSE rows[k]] : lost \in SUBSET Keys}
  ELSE {rows}

DiskBecomes(d, e, rows) == \E r \in Kept(d, e, rows) : disk' = [disk EXCEPT ![d] = r]

Goto(c, pc) == session' = [session EXCEPT ![c].pc = pc]
Done(c) == session' = [session EXCEPT ![c] = Idle]
Hold(c, pc, e) == session' = [session EXCEPT ![c].pc = pc, ![c].engine = e]

\* A file operation fails.
Fault == faults < MaxFaults /\ faults' = faults + 1

-----------------------------------------------------------------------------
(* CREATE TABLE and DROP TABLE *)

DDL == {"lsm", "memory", "drop"}
Running(stmt, t) == {c \in Clients : session[c].stmt = stmt /\ session[c].table = t}

\* A CREATE or DROP crosses those of another kind on its table.
Crossing(stmt, t) == \E other \in DDL \ {stmt} : Running(other, t) # {}

Begin(c, stmt, t, k, pc) ==
  /\ session[c] = Idle
  /\ session' = [session EXCEPT ![c] = [Idle EXCEPT !.pc = pc, !.stmt = stmt,
                   !.table = t, !.key = k, !.owe = stmt \notin DDL]]
  /\ crossed' = IF stmt \in DDL /\ Crossing(stmt, t) THEN crossed \cup {t} ELSE crossed
  /\ UNCHANGED <<catalog, file, mapVars, engines, diskVars, faults, restarts,
                 owed, shared>>

\* There are engines left for the CREATEs that are about to open one (a bound).
EnginesLeft ==
  Cardinality({c \in Clients : session[c].stmt \in {"lsm", "memory"}
                               /\ session[c].engine = NoEngine})
    < Cardinality({e \in EngineIds : Unused(e)})

BeginCreate(c, stmt, t) ==
  /\ catalog[t] = "absent"
  /\ EnginesLeft
  /\ Begin(c, stmt, t, NoTable, IF stmt = "lsm" THEN "open" ELSE "register")

BeginDrop(c, t) ==
  /\ catalog[t] # "absent"
  /\ Begin(c, "drop", t, NoTable, "unregisterLSM")

\* Faulty variant: the engine is opened on the directory of the server.
OpenEngineAtRoot(c) ==
  /\ session[c].pc = "open"
  /\ engines' = [engines EXCEPT ![NewId] = OpenedOn(RootDir)]
  /\ Hold(c, "register", NewId)
  /\ UNCHANGED <<catalog, file, mapVars, diskVars, faults, restarts, noteVars>>

\* storage.NewEngine on the table's directory.
OpenEngine(c) ==
  LET d == DirOf(session[c].table) IN
  /\ session[c].pc = "open"
  /\ engines' = [engines EXCEPT ![NewId] = OpenedOn(d)]
  /\ Hold(c, "register", NewId)
  /\ dirs' = dirs \cup {session[c].table}
  /\ DiskBecomes(d, NewId, disk[d])
  /\ shared' = IF InUse(d, NewId) THEN shared \cup {d} ELSE shared
  /\ UNCHANGED <<catalog, file, mapVars, faults, restarts, owed, crossed>>

\* NewEngine fails, perhaps when it has made the directory.
OpenFails(c) ==
  /\ session[c].pc = "open"
  /\ Fault
  /\ dirs' \in {dirs, dirs \cup {session[c].table}}
  /\ Done(c)
  /\ UNCHANGED <<catalog, file, mapVars, engines, disk, restarts, noteVars>>

\* Faulty variants: an engine that cannot be registered is not closed, or the
\* CREATE rolls back what it has not registered.
RegisterLSMUnclosed(c) ==
  LET t == session[c].table IN
  /\ session[c].pc = "register" /\ session[c].stmt = "lsm"
  /\ IF lsm[t] = NoEngine
     THEN lsm' = [lsm EXCEPT ![t] = session[c].engine] /\ Hold(c, "catalog", NoEngine)
     ELSE Done(c) /\ UNCHANGED lsm
  /\ UNCHANGED <<catalog, file, mem, engines, diskVars, faults, restarts, noteVars>>

RegisterLSMRollback(c) ==
  LET t == session[c].table IN
  /\ session[c].pc = "register" /\ session[c].stmt = "lsm"
  /\ IF lsm[t] = NoEngine
     THEN lsm' = [lsm EXCEPT ![t] = session[c].engine] /\ Hold(c, "catalog", NoEngine)
     ELSE Hold(c, "rollback", NoEngine) /\ UNCHANGED lsm
  /\ UNCHANGED <<catalog, file, mem, engines, diskVars, faults, restarts, noteVars>>

RegisterLSM(c) ==
  LET t == session[c].table IN
  /\ session[c].pc = "register" /\ session[c].stmt = "lsm"
  /\ IF lsm[t] = NoEngine
     THEN lsm' = [lsm EXCEPT ![t] = session[c].engine] /\ Hold(c, "catalog", NoEngine)
     ELSE Goto(c, "close") /\ UNCHANGED lsm
  /\ UNCHANGED <<catalog, file, mem, engines, diskVars, faults, restarts, noteVars>>

\* A memory engine that cannot be registered is left to the garbage collector.
RegisterMemory(c) ==
  LET t == session[c].table IN
  /\ session[c].pc = "register" /\ session[c].stmt = "memory"
  /\ IF mem[t] = NoEngine
     THEN /\ engines' = [engines EXCEPT ![NewId] =
                           [home |-> Memory, open |-> TRUE, rows |-> NoRows]]
          /\ mem' = [mem EXCEPT ![t] = NewId]
          /\ Goto(c, "catalog")
     ELSE Done(c) /\ UNCHANGED <<engines, mem>>
  /\ UNCHANGED <<catalog, file, lsm, diskVars, faults, restarts, noteVars>>

\* Catalog.persist writes the whole catalog, or fails and leaves the file.
Persist(t) ==
  \/ file' = catalog' /\ UNCHANGED <<faults, crossed>>
  \/ Fault /\ crossed' = crossed \cup {t} /\ UNCHANGED file

\* Faulty variant: an error of the catalog is returned at once.
CatalogCreateKeeps(c) ==
  LET t == session[c].table IN
  /\ session[c].pc = "catalog"
  /\ Done(c)
  /\ \/ UNCHANGED <<catalog, file, faults, crossed>>
     \/ /\ catalog[t] = "absent"
        /\ catalog' = [catalog EXCEPT ![t] = session[c].stmt]
        /\ Persist(t)
  /\ UNCHANGED <<mapVars, engines, diskVars, restarts, owed, shared>>

\* Catalog.CreateTable.  The name may exist, or the schema be refused (any CREATE
\* may have one that is).  A table stays in the catalog when persist fails.
CatalogCreate(c) ==
  LET t == session[c].table IN
  /\ session[c].pc = "catalog"
  /\ \/ Goto(c, "rollback") /\ UNCHANGED <<catalog, file, faults, crossed>>
     \/ /\ catalog[t] = "absent"
        /\ catalog' = [catalog EXCEPT ![t] = session[c].stmt]
        /\ Persist(t)
        /\ IF file' = catalog' THEN Done(c) ELSE Goto(c, "rollback")
  /\ UNCHANGED <<mapVars, engines, diskVars, restarts, owed, shared>>

\* unregisterLSMEngine and unregisterMemoryEngine take the engine that is
\* registered, whoever registered it, and close it without the lock.
TakeLSM(c, none, close) ==
  LET t == session[c].table IN
  /\ IF lsm[t] = NoEngine THEN none /\ UNCHANGED lsm
     ELSE Hold(c, close, lsm[t]) /\ lsm' = [lsm EXCEPT ![t] = NoEngine]
  /\ UNCHANGED <<catalog, file, mem, engines, diskVars, faults, restarts, noteVars>>

TakeMemory(c, none, close) ==
  LET t == session[c].table IN
  /\ IF mem[t] = NoEngine THEN none /\ UNCHANGED mem
     ELSE Hold(c, close, mem[t]) /\ mem' = [mem EXCEPT ![t] = NoEngine]
  /\ UNCHANGED <<catalog, file, lsm, engines, diskVars, faults, restarts, noteVars>>

Rollback(c) ==
  /\ session[c].pc = "rollback"
  /\ \/ session[c].stmt = "lsm" /\ TakeLSM(c, Done(c), "close")
     \/ session[c].stmt = "memory" /\ TakeMemory(c, Done(c), "close")

UnregisterLSM(c) ==
  /\ session[c].pc = "unregisterLSM"
  /\ TakeLSM(c, Goto(c, "unregisterMemory"), "closeLSM")

UnregisterMemory(c) ==
  /\ session[c].pc = "unregisterMemory"
  /\ TakeMemory(c, Goto(c, "dropCatalog"), "closeMemory")

Closing == {"close", "closeLSM", "closeMemory"}

\* Close of the engine that was taken.  A closed memory engine has lost its
\* rows, a closed LSM engine can still be read.
CloseEngine(c) ==
  LET e == session[c].engine
      d == engines[e].home IN
  /\ session[c].pc \in Closing
  /\ IF d = Memory
     THEN engines' = [engines EXCEPT ![e] = Closed] /\ UNCHANGED disk
     ELSE /\ engines' = [engines EXCEPT ![e].open = FALSE]
          /\ DiskBecomes(d, e, disk[d])
  /\ CASE session[c].pc = "close" -> Done(c)
       [] session[c].pc = "closeLSM" -> Hold(c, "unregisterMemory", NoEngine)
       [] session[c].pc = "closeMemory" -> Hold(c, "dropCatalog", NoEngine)
  /\ UNCHANGED <<catalog, file, mapVars, dirs, faults, restarts, noteVars>>

\* Catalog.DropTable.  The directory and its files stay.  Statements that run
\* have seen a table that is no longer there.
DropCatalog(c) ==
  LET t == session[c].table IN
  /\ session[c].pc = "dropCatalog"
  /\ session' = [d \in Clients |->
                   IF d = c THEN Idle
                   ELSE IF session[d].table = t THEN [session[d] EXCEPT !.owe = FALSE]
                   ELSE session[d]]
  /\ owed' = [owed EXCEPT ![t] = {}]
  /\ IF catalog[t] = "absent"
     THEN UNCHANGED <<catalog, file, faults, crossed>>
     ELSE catalog' = [catalog EXCEPT ![t] = "absent"] /\ Persist(t)
  /\ UNCHANGED <<mapVars, engines, diskVars, restarts, shared>>

-----------------------------------------------------------------------------
(* INSERT, which looks for the key first, and /write, which does not *)

BeginStore(c, stmt, t, k) ==
  /\ catalog[t] # "absent"
  /\ Begin(c, stmt, t, k, "route")

Route(c) ==
  /\ session[c].pc = "route"
  /\ Hold(c, IF session[c].stmt = "insert" THEN "check" ELSE "store",
          EngineFor(session[c].table))
  /\ UNCHANGED <<catalog, file, mapVars, engines, diskVars, faults, restarts, noteVars>>

\* checkPKConflict.  Get does not find a row while a flush holds it (Engine), in
\* Close too.
CheckKey(c) ==
  LET e == session[c].engine
      found == engines[e].rows[session[c].key] # NoTable IN
  /\ session[c].pc = "check"
  /\ \/ found /\ Done(c)
     \/ (~found \/ engines[e].home # Memory) /\ Goto(c, "store")
  /\ UNCHANGED <<catalog, file, mapVars, engines, diskVars, faults, restarts, noteVars>>

\* The row reaches the directory, if the engine has one.
Logged(e, k, t) ==
  LET d == engines[e].home IN
  IF d = Memory THEN UNCHANGED disk
  ELSE DiskBecomes(d, e, [disk[d] EXCEPT ![k] = t])

\* WriteBatch.  A closed engine returns an error.  The row is owed if the table
\* is the one the statement saw, and no DROP of it is under way.
Store(c) ==
  LET t == session[c].table
      e == session[c].engine
      k == session[c].key IN
  /\ session[c].pc = "store"
  /\ Done(c)
  /\ IF engines[e].open
     THEN /\ engines' = [engines EXCEPT ![e].rows[k] = t]
          /\ Logged(e, k, t)
          /\ owed' = IF session[c].owe /\ Running("drop", t) = {}
                     THEN [owed EXCEPT ![t] = @ \cup {k}] ELSE owed
     ELSE UNCHANGED <<engines, disk, owed>>
  /\ UNCHANGED <<catalog, file, mapVars, dirs, faults, restarts, crossed, shared>>

\* The record is in the log when the sync fails: an error, and no row yet.
StoreFails(c) ==
  LET e == session[c].engine IN
  /\ session[c].pc = "store"
  /\ engines[e].open /\ engines[e].home # Memory
  /\ Fault
  /\ Logged(e, session[c].key, session[c].table)
  /\ Done(c)
  /\ UNCHANGED <<catalog, file, mapVars, engines, dirs, restarts, noteVars>>

-----------------------------------------------------------------------------
(* A crash of the process, and NewServer *)

\* Faulty variant: only tables without a directory get one.
RecoveredNew == {t \in Tables : file[t] = "lsm" /\ t \notin dirs}

\* recoverLSMEngines: the tables that get an engine of their own.
Recovered == {t \in Tables : file[t] = "lsm" /\ t \in dirs}

RecoveredAs == CHOOSE id \in Injection(Recovered, EngineIds) : TRUE

\* Memory tables have lost their rows, and use the default engine from now on.
Restart ==
  /\ restarts < MaxRestarts
  /\ restarts' = restarts + 1
  /\ catalog' = file
  /\ lsm' = [t \in Tables |-> IF t \in Recovered THEN RecoveredAs[t] ELSE NoEngine]
  /\ engines' = [e \in EngineIds \cup {Default} |->
       IF e = Default THEN OpenedOn(RootDir)
       ELSE IF \E t \in Recovered : RecoveredAs[t] = e
       THEN OpenedOn(DirOf(CHOOSE t \in Recovered : RecoveredAs[t] = e)) ELSE Closed]
  /\ mem' = [t \in Tables |-> NoEngine]
  /\ session' = [c \in Clients |-> Idle]
  /\ owed' = [t \in Tables |-> IF file[t] = "lsm" THEN owed[t] ELSE {}]
  /\ crossed' = {t \in crossed : file[t] # "absent"} \cup {t \in Tables : file[t] = "memory"}
  /\ UNCHANGED <<file, diskVars, faults, shared>>

Statement(c) ==
  \/ \E t \in Tables :
       \/ \E stmt \in {"lsm", "memory"} \cap Statements[t] : BeginCreate(c, stmt, t)
       \/ "drop" \in Statements[t] /\ BeginDrop(c, t)
       \/ \E k \in Keys, stmt \in {"insert", "write"} \cap Statements[t] :
            BeginStore(c, stmt, t, k)
  \/ OpenEngine(c) \/ OpenFails(c) \/ RegisterLSM(c) \/ RegisterMemory(c)
  \/ CatalogCreate(c) \/ Rollback(c) \/ CloseEngine(c)
  \/ UnregisterLSM(c) \/ UnregisterMemory(c) \/ DropCatalog(c)
  \/ Route(c) \/ CheckKey(c) \/ Store(c) \/ StoreFails(c)

Next == Restart \/ \E c \in Clients : Statement(c)

Spec == Init /\ [][Next]_tablesVars

-----------------------------------------------------------------------------
(* Properties *)

\* Types, and that the routing table sends a table's statements to an engine of
\* the table's directory or to one in memory (tableDataDir, createMemoryTable).
TablesTypeOK ==
  /\ catalog \in [Tables -> {"absent", "lsm", "memory"}]
  /\ file \in [Tables -> {"absent", "lsm", "memory"}]
  /\ lsm \in [Tables -> EngineIds \cup {NoEngine}]
  /\ mem \in [Tables -> EngineIds \cup {NoEngine}]
  /\ engines \in [EngineIds \cup {Default} ->
                  [home : Dirs \cup {Memory}, open : BOOLEAN,
                   rows : [Keys -> Tables \cup {NoTable}]]]
  /\ disk \in [Dirs -> [Keys -> Tables \cup {NoTable}]]
  /\ \A t \in Tables :
       /\ lsm[t] # NoEngine => engines[lsm[t]].home = DirOf(t)
       /\ mem[t] # NoEngine => engines[mem[t]].home = Memory
  /\ dirs \subseteq Tables /\ crossed \subseteq Tables /\ shared \subseteq Dirs
  /\ owed \in [Tables -> SUBSET Keys]
  /\ faults \in 0..MaxFaults /\ restarts \in 0..MaxRestarts

\* The statements that have engine e, and must register or close it.
Holders(e) ==
  {c \in Clients : /\ session[c].engine = e
                   /\ session[c].pc \in Closing \cup {"register"}}

\* An open engine has one owner, a closed one has none: the routing table under
\* one name, or the one statement that is about to register or close it.  So no
\* engine leaks with its log file, none is closed twice, and a statement is
\* never routed to a closed one, whatever CREATEs and DROPs cross
\* (createLSMTable, createMemoryTable, handleDropTable).
EnginesAccounted ==
  /\ engines[Default].open
  /\ \A e \in EngineIds :
       Cardinality({t \in Tables : lsm[t] = e}) + Cardinality({t \in Tables : mem[t] = e})
         + Cardinality(Holders(e)) = IF engines[e].open THEN 1 ELSE 0

\* When no CREATE or DROP of a table runs, a name that is not in the catalog has
\* no engine: a CREATE that was refused has rolled back.  Otherwise every later
\* CREATE of the name would be told that the table exists (registerLSMEngine,
\* registerMemoryEngine); that does happen when a DROP crosses another one with a
\* CREATE after it.
NoOrphanEngine ==
  \A t \in Tables \ crossed :
    catalog[t] = "absent" /\ (\A stmt \in DDL : Running(stmt, t) = {})
      => lsm[t] = NoEngine /\ mem[t] = NoEngine

\* A table's engines and directory hold rows written for that table only,
\* although a row does not name its table (engineForTable, tableDataDir).
NoForeignRows ==
  \A t \in Tables :
    /\ \A e \in {lsm[t], mem[t]} \ {NoEngine}, k \in Keys :
         engines[e].rows[k] \in {t, NoTable}
    /\ \A k \in Keys : disk[DirOf(t)][k] \in {t, NoTable}

\* "The engine is ready when the table becomes visible" (createLSMTable): a table
\* of the catalog is in the file and is routed to an open engine of its own kind,
\* unless a DROP of it runs, CREATEs or DROPs of it crossed, or a persist failed.
LiveTableReady ==
  \A t \in Tables \ crossed :
    catalog[t] # "absent" /\ Running("drop", t) = {} =>
      /\ file[t] = catalog[t]
      /\ EngineFor(t) = IF catalog[t] = "lsm" THEN lsm[t] ELSE mem[t]
      /\ EngineFor(t) # Default

\* A row of an acknowledged INSERT or /write is where the statements that come
\* now look for it, and for an LSM table still there after a crash, even one in
\* the middle of a DROP, unless a DROP runs now, statements crossed as above, or
\* two engines were open on the directory (handleInsert, recoverLSMEngines).
AckedRowsReachable ==
  \A t \in Tables \ crossed : DirOf(t) \notin shared /\ Running("drop", t) = {} =>
    \A k \in owed[t] : engines[EngineFor(t)].rows[k] = t

\* A table that CREATE TABLE has just made visible is empty, since DROP TABLE
\* "removes all data, indexes and segment files of the table"
\* (doc/sql-reference.md 2.2).  The code leaves the directory.
CreatedEmpty ==
  [][\A t \in Tables :
       catalog[t] = "absent" /\ catalog'[t] = "lsm"
         => engines[lsm[t]].rows = NoRows]_tablesVars
=============================================================================
