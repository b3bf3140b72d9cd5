---------------------------- MODULE TablesProofs ----------------------------
(***************************************************************************)
(* Proofs about module Tables, for any tables, clients, keys, statements   *)
(* and failures, and any number of crashes: who owns an engine, whose rows *)
(* it holds, and, as long as CREATEs and DROPs of different kinds have not *)
(* crossed, that a table of the catalog is ready and its acknowledged rows *)
(* are found.                                                              *)
(***************************************************************************)
EXTENDS Tables, FiniteSetTheorems, FunctionTheorems, TLAPS

(* The inductive invariant.                                                *)

\* The steps of a statement, by what it is and whether it has an engine.
Shaped(s) ==
  /\ s.pc = "idle" => s = Idle
  /\ s.pc # "idle" => s.table \in Tables
  /\ s.pc = "open" => s.stmt = "lsm" /\ s.engine = NoEngine
  /\ s.pc = "register" => \/ s.stmt = "lsm" /\ s.engine \in EngineIds
                          \/ s.stmt = "memory" /\ s.engine = NoEngine
  /\ s.pc \in {"catalog", "rollback"} => s.stmt \in {"lsm", "memory"} /\ s.engine = NoEngine
  /\ s.pc = "close" => s.stmt \in {"lsm", "memory"} /\ s.engine \in EngineIds
  /\ s.pc \in {"unregisterLSM", "unregisterMemory", "dropCatalog"}
       => s.stmt = "drop" /\ s.engine = NoEngine
  /\ s.pc \in {"closeLSM", "closeMemory"} => s.stmt = "drop" /\ s.engine \in EngineIds
  /\ s.pc \in {"route", "check", "store"} => s.stmt \in {"insert", "write"} /\ s.key \in Keys
  /\ s.pc = "route" => s.engine = NoEngine
  /\ s.pc \in {"check", "store"} => s.engine \in EngineIds \cup {Default}
  /\ s.stmt \in DDL => ~ s.owe

Steps == {"idle", "open", "register", "catalog", "rollback", "close", "unregisterLSM",
          "closeLSM", "unregisterMemory", "closeMemory", "dropCatalog", "route", "check", "store"}

Session == [pc : Steps, stmt : DDL \cup {"insert", "write", "none"},
            table : Tables \cup {NoTable}, key : Keys \cup {NoTable},
            engine : EngineIds \cup {Default, NoEngine}, owe : BOOLEAN]

SessionsShaped == session \in [Clients -> Session] /\ \A c \in Clients : Shaped(session[c])

StateTypes ==
  /\ catalog \in [Tables -> {"absent", "lsm", "memory"}]
  /\ file \in [Tables -> {"absent", "lsm", "memory"}]
  /\ lsm \in [Tables -> EngineIds \cup {NoEngine}]
  /\ mem \in [Tables -> EngineIds \cup {NoEngine}]
  /\ engines \in [EngineIds \cup {Default} ->
                  [home : Dirs \cup {Memory}, open : BOOLEAN,
                   rows : [Keys -> Tables \cup {NoTable}]]]
  /\ disk \in [Dirs -> [Keys -> Tables \cup {NoTable}]]
  /\ dirs \subseteq Tables /\ crossed \subseteq Tables /\ shared \subseteq Dirs
  /\ owed \in [Tables -> SUBSET Keys]
  /\ faults \in 0..MaxFaults /\ restarts \in 0..MaxRestarts

\* The routing table and a CREATE that has just opened an engine agree with the
\* engine's directory.
Homes ==
  /\ engines[Default].open /\ engines[Default].home = RootDir
  /\ \A t \in Tables : /\ lsm[t] # NoEngine => engines[lsm[t]].home = DirOf(t)
                       /\ mem[t] # NoEngine => engines[mem[t]].home = Memory
  /\ \A c \in Clients : session[c].pc = "register" /\ session[c].stmt = "lsm"
                          => engines[session[c].engine].home = DirOf(session[c].table)

Registered(e) == \E t \in Tables : lsm[t] = e \/ mem[t] = e

\* An engine is open exactly if somebody owns it, and has one owner at most.
OneOwner ==
  \A e \in EngineIds :
    /\ engines[e].open <=> Registered(e) \/ Holders(e) # {}
    /\ Registered(e) => Holders(e) = {}
    /\ \A c, d \in Holders(e) : c = d

\* Whoever refers to an engine does so for one table, and its rows are of that table.
Uses(e, t) == \/ lsm[t] = e
              \/ mem[t] = e
              \/ \E c \in Clients : session[c].engine = e /\ session[c].table = t
OneTable ==
  \A e \in EngineIds, t \in Tables : Uses(e, t) =>
    /\ engines[e].home \in {DirOf(t), Memory}
    /\ \A k \in Keys : engines[e].rows[k] \in {t, NoTable}
    /\ \A u \in Tables : Uses(e, u) => u = t

DirRows == \A t \in Tables, k \in Keys : disk[DirOf(t)][k] \in {t, NoTable}

\* There is an engine for every CREATE that is going to open one (the bound).
Opening == {c \in Clients : \/ session[c].pc = "open"
                            \/ session[c].pc = "register" /\ session[c].stmt = "memory"}
UnusedIds == {e \in EngineIds : Unused(e)}
EnginesSuffice == Cardinality(Opening) <= Cardinality(UnusedIds)

\* A restart finds the directory of every LSM table.
DirsMade ==
  /\ \A t \in Tables : catalog[t] = "lsm" \/ file[t] = "lsm" => t \in dirs
  /\ \A c \in Clients : session[c].stmt = "lsm" /\ session[c].pc # "open"
                          => session[c].table \in dirs

\* Two open engines on one directory are noticed.
OneOpen ==
  \A e, o \in EngineIds :
    e # o /\ engines[e].open /\ engines[o].open /\ engines[e].home = engines[o].home
      => engines[e].home \in shared \cup {Memory}

NoDrop(t) == Running("drop", t) = {}

\* CREATEs that are registered and not in the catalog.
Registrants(t) ==
  {c \in Clients : session[c].table = t /\ session[c].pc \in {"catalog", "rollback"}}

\* The statements on t do not cross: they are of one kind, the file has what the
\* catalog has, and a table that is in the catalog, or about to be, is registered
\* once, under its kind.
Uncrossed(t) ==
  /\ \A a, b \in DDL : Running(a, t) # {} /\ Running(b, t) # {} => a = b
  /\ file[t] = catalog[t]
  /\ \A c, d \in Registrants(t) : c = d
  /\ \A c \in Registrants(t) : /\ catalog[t] = "absent"
                               /\ session[c].stmt = "lsm" => lsm[t] # NoEngine
                               /\ session[c].stmt = "memory" => mem[t] # NoEngine
  /\ catalog[t] = "absent" /\ Registrants(t) = {} => lsm[t] = NoEngine /\ mem[t] = NoEngine
  /\ NoDrop(t) => /\ catalog[t] = "lsm" => lsm[t] # NoEngine /\ mem[t] = NoEngine
                  /\ catalog[t] = "memory" => lsm[t] = NoEngine /\ mem[t] # NoEngine
  /\ \A c \in Running("lsm", t) : catalog[t] # "memory" /\ mem[t] = NoEngine
  /\ \A c \in Running("memory", t) : catalog[t] # "lsm" /\ lsm[t] = NoEngine
  /\ \A c \in Running("drop", t) :
       /\ session[c].pc # "unregisterLSM" => lsm[t] = NoEngine
       /\ session[c].pc \in {"closeMemory", "dropCatalog"} => mem[t] = NoEngine

\* What is owed, or is going to be, is of a table that exists.
OwedExist ==
  /\ \A c \in Clients : session[c].owe => catalog[session[c].table] # "absent"
  /\ \A t \in Tables : owed[t] # {} => catalog[t] # "absent"

\* A row that is going to be owed goes to where it will be looked for.
Routed(t) ==
  NoDrop(t) => \A c \in Clients :
    session[c].table = t /\ session[c].owe /\ session[c].pc \in {"check", "store"}
      => session[c].engine = EngineFor(t)

\* What is owed is in the engine and, for an LSM table, in its directory, also while a
\* DROP runs.
OwedKept(t) ==
  DirOf(t) \notin shared =>
    \A k \in owed[t] : /\ NoDrop(t) => engines[EngineFor(t)].rows[k] = t
                       /\ catalog[t] = "lsm" => disk[DirOf(t)][k] = t

EngineInv == /\ SessionsShaped
             /\ StateTypes
             /\ Homes
             /\ OneOwner
             /\ OneTable
             /\ DirRows
             /\ EnginesSuffice
             /\ DirsMade
             /\ OneOpen

Tame(t) == Uncrossed(t) /\ Routed(t) /\ OwedKept(t)

TablesInv == /\ EngineInv
             /\ OwedExist
             /\ \A t \in Tables \ crossed : Tame(t)

-----------------------------------------------------------------------------
(* Lemmas about directories, statements and the choice of an engine *)

\* The directories of two tables, the server's and "no directory" differ.
LEMMA DirFacts ==
  /\ RootDir \in Dirs /\ Memory \notin Dirs /\ RootDir # Memory
  /\ \A t \in Tables : /\ DirOf(t) \in Dirs /\ DirOf(t) # RootDir /\ DirOf(t) # Memory
                       /\ \A u \in Tables : DirOf(t) = DirOf(u) => t = u
BY DEF Dirs, DirOf, RootDir, Memory

\* The statement of client c goes on: at step p, with engine e.
Moved(c, p, e) ==
  /\ session'[c].pc = p /\ session'[c].engine = e
  /\ session'[c].stmt = session[c].stmt /\ session'[c].table = session[c].table
  /\ session'[c].key = session[c].key /\ session'[c].owe = session[c].owe
  /\ \A d \in Clients \ {c} : session'[d] = session[d]
Ended(c) == session'[c] = Idle /\ \A d \in Clients \ {c} : session'[d] = session[d]

\* What Goto, Hold and Done make of the sessions.
LEMMA SessionMoves ==
  ASSUME session \in [Clients -> Session], NEW c \in Clients
  PROVE  /\ \A p \in Steps : Goto(c, p) => /\ session' \in [Clients -> Session]
                                           /\ Moved(c, p, session[c].engine)
         /\ \A p \in Steps, e \in EngineIds \cup {Default, NoEngine} :
              Hold(c, p, e) => session' \in [Clients -> Session] /\ Moved(c, p, e)
         /\ Done(c) => session' \in [Clients -> Session] /\ Ended(c)
<1>1. ASSUME NEW p \in Steps, Goto(c, p)
      PROVE  session' \in [Clients -> Session] /\ Moved(c, p, session[c].engine)
  BY <1>1 DEF Goto, Moved, Session
<1>2. ASSUME NEW p \in Steps, NEW e \in EngineIds \cup {Default, NoEngine}, Hold(c, p, e)
      PROVE  session' \in [Clients -> Session] /\ Moved(c, p, e)
  BY <1>2 DEF Hold, Moved, Session
<1>3. ASSUME Done(c)
      PROVE  session' \in [Clients -> Session] /\ Ended(c)
  <2>1. Idle \in Session
    BY DEF Idle, Session, Steps
  <2> QED BY <1>3, <2>1 DEF Done, Ended
<1> QED BY <1>1, <1>2, <1>3

\* A CREATE that is going to open an engine finds one.
LEMMA NewIdUnused ==
  ASSUME EnginesSuffice, Opening # {}
  PROVE  NewId \in EngineIds /\ Unused(NewId)
<1>1. IsFiniteSet(Opening) /\ IsFiniteSet(UnusedIds)
  BY TablesAssumption, FS_Subset DEF Opening, UnusedIds
<1>2. Cardinality(Opening) \in Nat /\ Cardinality(Opening) # 0 /\ Cardinality(UnusedIds) \in Nat
  BY <1>1, FS_CardinalityType, FS_EmptySet
<1>3. Cardinality(UnusedIds) # 0
  BY <1>2 DEF EnginesSuffice
<1>4. UnusedIds # {}
  BY <1>3, FS_EmptySet
<1>5. \E e \in EngineIds : Unused(e)
  BY <1>4 DEF UnusedIds
<1> QED BY <1>5 DEF NewId

\* What a write may leave of a directory is a row that was to be there, or none.
LEMMA KeptRows ==
  ASSUME NEW d \in Dirs, NEW e, NEW r, disk \in [Dirs -> [Keys -> Tables \cup {NoTable}]],
         r \in [Keys -> Tables \cup {NoTable}], DiskBecomes(d, e, r)
  PROVE  /\ disk' \in [Dirs -> [Keys -> Tables \cup {NoTable}]]
         /\ \A f \in Dirs \ {d} : disk'[f] = disk[f]
         /\ \A k \in Keys : disk'[d][k] \in {r[k], NoTable}
         /\ ~ InUse(d, e) => disk'[d] = r
<1>1. PICK x \in Kept(d, e, r) : disk' = [disk EXCEPT ![d] = x]
  BY DEF DiskBecomes
<1>2. x \in [Keys -> Tables \cup {NoTable}] /\ \A k \in Keys : x[k] \in {r[k], NoTable}
  BY <1>1 DEF Kept
<1>3. ~ InUse(d, e) => x = r
  BY <1>1 DEF Kept
<1> QED BY <1>1, <1>2, <1>3

\* A restart gives every table that is recovered an engine of its own.
LEMMA RecoveredInjects == RecoveredAs \in Injection(Recovered, EngineIds)
<1>1. IsFiniteSet(Recovered) /\ Cardinality(Recovered) <= Cardinality(Tables)
  BY TablesAssumption, FS_Subset DEF Recovered
<1> DEFINE m == Cardinality(Recovered)
           n == Cardinality(EngineIds)
<1>2. /\ m \in Nat /\ ExistsBijection(1..m, Recovered)
      /\ n \in Nat /\ ExistsBijection(1..n, EngineIds)
      /\ Cardinality(Tables) \in Nat
  BY <1>1, TablesAssumption, FS_CardinalityType
<1>3. m <= n
  BY <1>1, <1>2, TablesAssumption
<1> HIDE DEF m, n
<1>4. ExistsBijection(Recovered, 1..m)
  BY <1>2, Fun_ExistsBijSymmetric
<1>5. PICK g \in Bijection(Recovered, 1..m), h \in Bijection(1..n, EngineIds) : TRUE
  BY <1>2, <1>4 DEF ExistsBijection
<1>6. /\ g \in [Recovered -> 1..m] /\ \A t, u \in Recovered : g[t] = g[u] => t = u
      /\ h \in [1..n -> EngineIds] /\ \A i, j \in 1..n : h[i] = h[j] => i = j
  BY <1>5, Fun_BijectionProperties
<1> DEFINE f == [t \in Recovered |-> h[g[t]]]
<1>7. \A t \in Recovered : g[t] \in 1..n
  BY <1>2, <1>3, <1>6
<1>8. f \in [Recovered -> EngineIds] /\ \A t, u \in Recovered : f[t] = f[u] => t = u
  BY <1>6, <1>7
<1>9. f \in Injection(Recovered, EngineIds)
  BY <1>8 DEF Injection, IsInjective
<1> QED BY <1>9 DEF RecoveredAs

\* What a restart makes of the routing table and of the engines.
LEMMA RestartEngines ==
  ASSUME Restart
  PROVE  /\ \A t \in Recovered : /\ lsm'[t] \in EngineIds /\ engines'[lsm'[t]] = OpenedOn(DirOf(t))
                                 /\ \A u \in Tables : lsm'[u] = lsm'[t] => u = t
         /\ \A t \in Tables \ Recovered : lsm'[t] = NoEngine
         /\ \A e \in EngineIds : engines'[e] = Closed \/ \E t \in Recovered : lsm'[t] = e
         /\ engines'[Default] = OpenedOn(RootDir)
         /\ DOMAIN engines' = EngineIds \cup {Default}
<1>1. /\ RecoveredAs \in [Recovered -> EngineIds]
      /\ \A t, u \in Recovered : RecoveredAs[t] = RecoveredAs[u] => t = u
  BY RecoveredInjects DEF Injection, IsInjective
<1>2. \A t \in Tables : lsm'[t] = IF t \in Recovered THEN RecoveredAs[t] ELSE NoEngine
  BY DEF Restart
<1>3. Recovered \subseteq Tables /\ NoEngine \notin EngineIds /\ Default \notin EngineIds
  BY TablesAssumption DEF Recovered
<1> DEFINE Of(e) == CHOOSE t \in Recovered : RecoveredAs[t] = e
<1>4. engines' = [e \in EngineIds \cup {Default} |->
         IF e = Default THEN OpenedOn(RootDir)
         ELSE IF \E t \in Recovered : RecoveredAs[t] = e
         THEN OpenedOn(DirOf(Of(e))) ELSE Closed]
  BY DEF Restart
<1>5. \A t \in Recovered : Of(RecoveredAs[t]) = t
  BY <1>1
<1> HIDE DEF Of
<1>6. ASSUME NEW t \in Recovered
      PROVE  /\ lsm'[t] \in EngineIds /\ engines'[lsm'[t]] = OpenedOn(DirOf(t))
             /\ \A u \in Tables : lsm'[u] = lsm'[t] => u = t
  <2>1. lsm'[t] = RecoveredAs[t] /\ lsm'[t] \in EngineIds
    BY <1>1, <1>2, <1>3
  <2>2. engines'[RecoveredAs[t]] = OpenedOn(DirOf(Of(RecoveredAs[t])))
    BY <1>3, <1>4, <2>1
  <2>3. \A u \in Tables : lsm'[u] = lsm'[t] => u = t
    BY <1>1, <1>2, <1>3, <2>1
  <2> QED BY <1>5, <2>1, <2>2, <2>3
<1>7. \A e \in EngineIds : engines'[e] = Closed \/ \E t \in Recovered : lsm'[t] = e
  BY <1>2, <1>3, <1>4
<1> QED BY <1>2, <1>4, <1>6, <1>7

-----------------------------------------------------------------------------
(* The steps: the sessions *)

\* An engine that the routing table gives.
LEMMA EngineForType ==
  ASSUME StateTypes, NEW t \in Tables
  PROVE  EngineFor(t) \in EngineIds \cup {Default}
BY DEF StateTypes, EngineFor

\* A session moves from a step to another one that suits its statement and engine.
LEMMA ShapeMoved ==
  ASSUME SessionsShaped, NEW c \in Clients, NEW p, NEW e, Moved(c, p, e),
         session' \in [Clients -> Session], Shaped(session'[c])
  PROVE  SessionsShaped'
BY DEF SessionsShaped, Moved

\* A statement that ends leaves an idle session.
LEMMA ShapeEnded ==
  ASSUME SessionsShaped, NEW c \in Clients, Ended(c), session' \in [Clients -> Session]
  PROVE  SessionsShaped'
<1>1. Shaped(Idle)
  BY DEF Shaped, Idle, DDL
<1> QED BY <1>1 DEF SessionsShaped, Ended

\* A new statement.
LEMMA BeginShape ==
  ASSUME SessionsShaped, NEW c \in Clients, NEW stmt \in DDL \cup {"insert", "write"},
         NEW t \in Tables, NEW k \in Keys \cup {NoTable}, NEW p \in Steps, Begin(c, stmt, t, k, p),
         \/ stmt = "lsm" /\ p = "open"
         \/ stmt = "memory" /\ p = "register"
         \/ stmt = "drop" /\ p = "unregisterLSM"
         \/ stmt \in {"insert", "write"} /\ p = "route" /\ k \in Keys
  PROVE  /\ SessionsShaped'
         /\ session[c] = Idle
         /\ session'[c].pc = p /\ session'[c].stmt = stmt /\ session'[c].table = t
         /\ session'[c].engine = NoEngine /\ (session'[c].owe => stmt \notin DDL)
         /\ \A d \in Clients \ {c} : session'[d] = session[d]
         /\ crossed' = IF stmt \in DDL /\ Crossing(stmt, t) THEN crossed \cup {t} ELSE crossed
         /\ UNCHANGED <<catalog, file, lsm, mem, engines, dirs, disk, faults, restarts,
                        owed, shared>>
<1> DEFINE s == [Idle EXCEPT !.pc = p, !.stmt = stmt, !.table = t, !.key = k,
                             !.owe = stmt \notin DDL]
<1>1. /\ s.pc = p /\ s.stmt = stmt /\ s.table = t /\ s.key = k /\ s.engine = NoEngine
      /\ s.owe <=> stmt \notin DDL
  BY DEF Idle
<1>2. s \in Session /\ Shaped(s)
  <2>1. Idle \in Session
    BY DEF Idle, Session, Steps
  <2>2. s \in Session
    BY <2>1 DEF Session
  <2>3. Shaped(s)
    BY <1>1 DEF Shaped, DDL
  <2> QED BY <2>2, <2>3
<1>3. session' = [session EXCEPT ![c] = s]
  BY DEF Begin
<1>4. session \in [Clients -> Session] /\ \A d \in Clients : Shaped(session[d])
  BY DEF SessionsShaped
<1> HIDE DEF s
<1>5. session' \in [Clients -> Session] /\ session'[c] = s
      /\ \A d \in Clients \ {c} : session'[d] = session[d]
  BY <1>2, <1>3, <1>4
<1>6. SessionsShaped'
  BY <1>2, <1>4, <1>5 DEF SessionsShaped
<1>7. /\ session'[c].pc = p /\ session'[c].stmt = stmt /\ session'[c].table = t
      /\ session'[c].engine = NoEngine /\ (session'[c].owe => stmt \notin DDL)
  BY <1>1, <1>5
<1> QED BY <1>5, <1>6, <1>7 DEF Begin, mapVars, diskVars

\* DROP TABLE changes what the statements on its table are owed.
LEMMA DropCatalogSessions ==
  ASSUME SessionsShaped, NEW c \in Clients, DropCatalog(c)
  PROVE  /\ SessionsShaped'
         /\ session'[c] = Idle
         /\ \A d \in Clients \ {c} :
              /\ session'[d].pc = session[d].pc /\ session'[d].stmt = session[d].stmt
              /\ session'[d].table = session[d].table /\ session'[d].engine = session[d].engine
              /\ session'[d].owe <=> session[d].owe /\ session[d].table # session[c].table
<1>1. session \in [Clients -> Session] /\ \A d \in Clients : Shaped(session[d])
  BY DEF SessionsShaped
<1>2. Idle \in Session /\ Shaped(Idle)
  BY DEF Idle, Session, Steps, Shaped, DDL
<1> DEFINE r(d) == [session[d] EXCEPT !.owe = FALSE]
<1>3. \A d \in Clients : /\ r(d) \in Session /\ r(d).pc = session[d].pc
                         /\ r(d).stmt = session[d].stmt /\ r(d).table = session[d].table
                         /\ r(d).engine = session[d].engine /\ r(d).key = session[d].key
                         /\ r(d).owe = FALSE
  BY <1>1 DEF Session
<1>4. \A d \in Clients : session[d].pc # "idle" => Shaped(r(d))
  BY <1>1, <1>3 DEF Shaped
<1>5. \A d \in Clients : session'[d] = IF d = c THEN Idle
                                       ELSE IF session[d].table = session[c].table THEN r(d)
                                       ELSE session[d]
  BY DEF DropCatalog
<1> HIDE DEF r
<1>6. session[c].table \in Tables /\ NoTable \notin Tables
  BY <1>1, TablesAssumption DEF DropCatalog, Shaped
<1>7. \A d \in Clients : session[d].table = session[c].table => session[d].pc # "idle"
  BY <1>1, <1>6 DEF Shaped, Idle
<1>8. session' \in [Clients -> Session]
  BY <1>1, <1>2, <1>3 DEF DropCatalog, r
<1>9. SessionsShaped'
  BY <1>1, <1>2, <1>4, <1>5, <1>7, <1>8 DEF SessionsShaped
<1>10. \A d \in Clients : session[d].owe \in BOOLEAN
  BY <1>1 DEF Session
<1> QED BY <1>3, <1>5, <1>9, <1>10

-----------------------------------------------------------------------------
(* The steps: who owns an engine, and whose rows it has *)

\* The other statements do not move.
Others(c) ==
  \A d \in Clients \ {c} :
    /\ session'[d].pc = session[d].pc /\ session'[d].stmt = session[d].stmt
    /\ session'[d].table = session[d].table /\ session'[d].engine = session[d].engine

\* A step of c that neither opens nor closes an engine, nor gives one another owner.
Quiet(c) ==
  /\ Others(c)
  /\ lsm' = lsm /\ mem' = mem /\ shared' = shared
  /\ \A e \in EngineIds \cup {Default} : /\ engines'[e].home = engines[e].home
                                         /\ engines'[e].open <=> engines[e].open
  /\ \A e \in EngineIds : c \notin Holders(e) /\ c \notin Holders(e)'
  /\ \A e \in EngineIds, t \in Tables :
       session'[c].engine = e /\ session'[c].table = t => Uses(e, t)
  /\ \A e \in EngineIds, k \in Keys :
       \/ engines'[e].rows[k] = engines[e].rows[k]
       \/ /\ session[c].table \in Tables /\ Uses(e, session[c].table)
          /\ engines'[e].rows[k] = session[c].table

\* Ownership, homes and rows after such a step.
LEMMA QuietInv ==
  ASSUME EngineInv, NEW c \in Clients, Quiet(c), SessionsShaped', StateTypes'
  PROVE  Homes' /\ OneOwner' /\ OneTable' /\ OneOpen'
<1>1. \A d \in Clients \ {c} :
        /\ session'[d].pc = session[d].pc /\ session'[d].stmt = session[d].stmt
        /\ session'[d].table = session[d].table /\ session'[d].engine = session[d].engine
  BY DEF Quiet, Others
<1>2. /\ lsm' = lsm /\ mem' = mem /\ shared' = shared
      /\ \A e \in EngineIds \cup {Default} : /\ engines'[e].home = engines[e].home
                                             /\ engines'[e].open <=> engines[e].open
  BY DEF Quiet
<1>3. \A e \in EngineIds : Holders(e)' = Holders(e)
  BY <1>1 DEF Quiet, Holders
<1>4. \A e \in EngineIds : Registered(e)' <=> Registered(e)
  BY <1>2 DEF Registered
<1>5. OneOwner'
  BY <1>2, <1>3, <1>4 DEF EngineInv, OneOwner
<1>6. \A e \in EngineIds, t \in Tables : Uses(e, t)' => Uses(e, t)
  BY <1>1, <1>2 DEF Quiet, Uses
<1>7. ASSUME NEW e \in EngineIds, NEW t \in Tables, Uses(e, t)'
      PROVE  /\ engines'[e].home \in {DirOf(t), Memory}
             /\ \A k \in Keys : engines'[e].rows[k] \in {t, NoTable}
             /\ \A u \in Tables : Uses(e, u)' => u = t
  <2>1. Uses(e, t)
    BY <1>6, <1>7
  <2>2. \A u \in Tables : Uses(e, u) => u = t
    BY <2>1 DEF EngineInv, OneTable
  <2>3. \A k \in Keys : engines[e].rows[k] \in {t, NoTable}
    BY <2>1 DEF EngineInv, OneTable
  <2>4. \A k \in Keys : engines'[e].rows[k] \in {t, NoTable}
    <3> TAKE k \in Keys
    <3> QED BY <2>2, <2>3 DEF Quiet
  <2> QED BY <1>2, <1>6, <2>1, <2>2, <2>4 DEF EngineInv, OneTable
<1>8. OneTable'
  BY <1>7 DEF OneTable
<1>9. Homes'
  <2>1. \A d \in Clients : session'[d].pc = "register" /\ session'[d].stmt = "lsm"
          => engines'[session'[d].engine].home = DirOf(session'[d].table)
    <3> TAKE d \in Clients
    <3>1. Shaped(session'[d])
      BY DEF SessionsShaped
    <3> HAVE session'[d].pc = "register" /\ session'[d].stmt = "lsm"
    <3>2. session'[d].engine \in EngineIds
      BY <3>1 DEF Shaped
    <3>3. d # c
      BY <3>2 DEF Quiet, Holders
    <3> QED BY <1>1, <1>2, <3>2, <3>3 DEF EngineInv, Homes
  <2> QED BY <1>2, <2>1 DEF EngineInv, Homes, StateTypes
<1>10. OneOpen'
  BY <1>2 DEF EngineInv, OneOpen
<1> QED BY <1>5, <1>8, <1>9, <1>10

\* No CREATE more is going to open an engine, and none less is left.
LEMMA SufficeLess ==
  ASSUME EnginesSuffice, Opening' \subseteq Opening, UnusedIds \subseteq UnusedIds'
  PROVE  EnginesSuffice'
<1>1. IsFiniteSet(Opening) /\ IsFiniteSet(UnusedIds')
  BY TablesAssumption, FS_Subset DEF Opening, UnusedIds
<1>2. /\ Cardinality(Opening') <= Cardinality(Opening)
      /\ Cardinality(UnusedIds) <= Cardinality(UnusedIds')
      /\ IsFiniteSet(Opening') /\ IsFiniteSet(UnusedIds)
  BY <1>1, FS_Subset
<1> DEFINE a == Cardinality(Opening)
           b == Cardinality(UnusedIds)
           x == Cardinality(Opening')
           y == Cardinality(UnusedIds')
<1>3. a \in Nat /\ b \in Nat /\ x \in Nat /\ y \in Nat
  BY <1>1, <1>2, FS_CardinalityType
<1>4. a <= b /\ x <= a /\ b <= y
  BY <1>2 DEF EnginesSuffice
<1>5. \A i, j, k, l \in Nat : i <= j /\ j <= k /\ k <= l => i <= l
  OBVIOUS
<1> HIDE DEF a, b, x, y
<1>6. x <= y
  BY <1>3, <1>4, <1>5
<1> QED BY <1>6 DEF EnginesSuffice, x, y

\* A CREATE that was going to open an engine takes one that was left.
LEMMA SufficeOne ==
  ASSUME EnginesSuffice, NEW c \in Opening, NEW n \in UnusedIds,
         Opening' \subseteq Opening \ {c}, UnusedIds \ {n} \subseteq UnusedIds'
  PROVE  EnginesSuffice'
<1>1. IsFiniteSet(Opening) /\ IsFiniteSet(UnusedIds) /\ IsFiniteSet(UnusedIds')
  BY TablesAssumption, FS_Subset DEF Opening, UnusedIds
<1>2. /\ IsFiniteSet(Opening \ {c}) /\ Cardinality(Opening \ {c}) = Cardinality(Opening) - 1
      /\ IsFiniteSet(UnusedIds \ {n})
      /\ Cardinality(UnusedIds \ {n}) = Cardinality(UnusedIds) - 1
  BY <1>1, FS_RemoveElement
<1>3. /\ Cardinality(Opening') <= Cardinality(Opening \ {c})
      /\ Cardinality(UnusedIds \ {n}) <= Cardinality(UnusedIds')
      /\ IsFiniteSet(Opening')
  BY <1>1, <1>2, FS_Subset
<1> DEFINE a == Cardinality(Opening)
           b == Cardinality(UnusedIds)
           x == Cardinality(Opening')
           y == Cardinality(UnusedIds')
<1>4. a \in Nat /\ b \in Nat /\ x \in Nat /\ y \in Nat
  BY <1>1, <1>3, FS_CardinalityType
<1>5. a <= b /\ x <= a - 1 /\ b - 1 <= y
  BY <1>2, <1>3 DEF EnginesSuffice
<1>6. \A i, j, k, l \in Nat : i <= j - 1 /\ j <= k /\ k - 1 <= l => i <= l
  OBVIOUS
<1> HIDE DEF a, b, x, y
<1>7. x <= y
  BY <1>4, <1>5, <1>6
<1> QED BY <1>7 DEF EnginesSuffice, x, y

\* A quiet step leaves as many engines as it found.
LEMMA QuietStep ==
  ASSUME EngineInv, NEW c \in Clients, Quiet(c), SessionsShaped', StateTypes', DirRows',
         DirsMade', Opening' \subseteq Opening
  PROVE  EngineInv'
<1>1. UnusedIds \subseteq UnusedIds'
  <2>1. ASSUME NEW e \in EngineIds, Unused(e)
        PROVE  Unused(e)'
    <3>1. session'[c].engine # e
      <4>1. SUFFICES ASSUME session'[c].engine = e PROVE FALSE
        OBVIOUS
      <4>2. Shaped(session'[c])
        BY DEF SessionsShaped
      <4>3. session'[c].table \in Tables
        BY <4>1, <4>2, TablesAssumption DEF Shaped, Idle
      <4>4. Uses(e, session'[c].table)
        BY <4>1, <4>3 DEF Quiet
      <4> QED BY <2>1, <4>3, <4>4 DEF Unused, Uses
    <3> QED BY <2>1, <3>1 DEF Unused, Quiet, Others
  <2> QED BY <2>1 DEF UnusedIds
<1>2. EnginesSuffice'
  BY <1>1, SufficeLess DEF EngineInv
<1>3. Homes' /\ OneOwner' /\ OneTable' /\ OneOpen'
  BY QuietInv
<1> QED BY <1>2, <1>3 DEF EngineInv

\* A step of a statement that changes neither engines nor routing table.
LEMMA MoveQuiet ==
  ASSUME EngineInv, NEW c \in Clients, NEW p, NEW e,
         \/ Moved(c, p, e) /\ (e = session[c].engine \/ e = NoEngine)
         \/ Ended(c),
         lsm' = lsm, mem' = mem, shared' = shared, engines' = engines,
         session[c].engine = NoEngine \/ session[c].pc \notin Closing \cup {"register"},
         session'[c].engine = NoEngine \/ session'[c].pc \notin Closing \cup {"register"}
  PROVE  Quiet(c)
<1>1. Others(c)
  BY DEF Moved, Ended, Others
<1>2. \A f \in EngineIds : c \notin Holders(f) /\ c \notin Holders(f)'
  BY TablesAssumption DEF Holders
<1>3. \A f \in EngineIds, t \in Tables :
        session'[c].engine = f /\ session'[c].table = t => Uses(f, t)
  BY TablesAssumption DEF Moved, Ended, Idle, Uses
<1> QED BY <1>1, <1>2, <1>3 DEF Quiet

\* The sessions' shape before a step, as facts about one statement.
LEMMA OneShaped ==
  ASSUME EngineInv, NEW c \in Clients
  PROVE  session[c] \in Session /\ Shaped(session[c]) /\ session \in [Clients -> Session]
BY DEF EngineInv, SessionsShaped

\* The directories a table must have, when the sessions do not reach another step of
\* CREATE TABLE and catalog and file do not change.
LEMMA DirsKept ==
  ASSUME EngineInv, dirs \subseteq dirs', catalog' = catalog, file' = file,
         \A d \in Clients : session'[d].stmt = "lsm" =>
           /\ session[d].stmt = "lsm" /\ session'[d].table = session[d].table
           /\ session'[d].pc # "open" => session[d].pc # "open"
  PROVE  DirsMade'
BY DEF EngineInv, DirsMade

\* A statement asks the routing table for an engine, and keeps it until it stores.
LEMMA RouteInv ==
  ASSUME EngineInv, NEW c \in Clients, Route(c)
  PROVE  /\ EngineInv' /\ session[c].pc = "route" /\ session[c].table \in Tables
         /\ session[c].stmt \in {"insert", "write"}
         /\ session'[c].pc \in {"check", "store"}
         /\ Moved(c, session'[c].pc, EngineFor(session[c].table))
         /\ UNCHANGED <<catalog, file, lsm, mem, engines, disk, owed, crossed, shared>>
<1>1. session[c] \in Session /\ Shaped(session[c]) /\ session \in [Clients -> Session]
  BY OneShaped
<1> DEFINE t == session[c].table
           p == IF session[c].stmt = "insert" THEN "check" ELSE "store"
           e == EngineFor(t)
<1>2. t \in Tables /\ e \in EngineIds \cup {Default} /\ p \in Steps
  BY <1>1, EngineForType DEF Route, Shaped, EngineInv, Steps
<1>3. session' \in [Clients -> Session] /\ Moved(c, p, e)
  BY <1>1, <1>2, SessionMoves DEF Route
<1>4. e # NoEngine
  BY <1>2, TablesAssumption
<1>5. e # Default => lsm[t] = e \/ mem[t] = e
  BY DEF EngineFor
<1> HIDE DEF e
<1>6. /\ session'[c].pc \in {"check", "store"} /\ session'[c].engine = e
      /\ session'[c].stmt = session[c].stmt /\ session'[c].table = t
      /\ session'[c].key = session[c].key /\ session'[c].owe = session[c].owe
  BY <1>3 DEF Moved
<1>7. Shaped(session'[c])
  BY <1>1, <1>2, <1>6 DEF Route, Shaped
<1>8. SessionsShaped' /\ Others(c)
  BY <1>3, <1>7, ShapeMoved DEF EngineInv, Moved, Others
<1>9. /\ catalog' = catalog /\ file' = file /\ lsm' = lsm /\ mem' = mem /\ engines' = engines
      /\ dirs' = dirs /\ disk' = disk /\ UNCHANGED <<faults, restarts, owed, crossed, shared>>
  BY DEF Route, mapVars, diskVars, noteVars
<1>10. Quiet(c)
  <2>1. \A f \in EngineIds : c \notin Holders(f) /\ c \notin Holders(f)'
    BY <1>6 DEF Route, Holders, Closing
  <2>2. \A f \in EngineIds, u \in Tables :
          session'[c].engine = f /\ session'[c].table = u => Uses(f, u)
    BY <1>5, <1>6, TablesAssumption DEF Uses
  <2> QED BY <1>8, <1>9, <2>1, <2>2 DEF Quiet
<1>11. StateTypes' /\ DirRows'
  BY <1>9 DEF EngineInv, StateTypes, DirRows
<1>12. DirsMade'
  <2>1. session[c].stmt # "lsm"
    BY <1>1 DEF Route, Shaped
  <2> QED BY <1>6, <1>8, <1>9, <2>1, DirsKept DEF Others
<1>13. Opening' \subseteq Opening
  BY <1>6, <1>8 DEF Opening, Others
<1>14. EngineInv'
  BY <1>8, <1>10, <1>11, <1>12, <1>13, QuietStep
<1>15. session[c].pc = "route" /\ session[c].stmt \in {"insert", "write"}
  BY <1>1 DEF Route, Shaped
<1>16. Moved(c, session'[c].pc, e)
  BY <1>3 DEF Moved
<1> QED BY <1>2, <1>6, <1>9, <1>14, <1>15, <1>16 DEF e

\* A statement that goes on, or ends, and changes neither engines, routing table,
\* catalog nor directories.
LEMMA PlainInv ==
  ASSUME EngineInv, NEW c \in Clients, NEW p \in Steps \ {"open", "register"}, NEW e,
         \/ Moved(c, p, e) /\ (e = session[c].engine \/ e = NoEngine)
         \/ Ended(c),
         SessionsShaped', StateTypes', session[c].pc # "open" \/ Ended(c),
         catalog' = catalog, file' = file, lsm' = lsm, mem' = mem, engines' = engines,
         dirs \subseteq dirs', disk' = disk, shared' = shared,
         session[c].engine = NoEngine \/ session[c].pc \notin Closing \cup {"register"},
         session'[c].engine = NoEngine \/ session'[c].pc \notin Closing \cup {"register"}
  PROVE  EngineInv' /\ Others(c)
<1>1. Quiet(c) /\ Others(c)
  BY MoveQuiet DEF Quiet
<1>2. DirRows'
  BY DEF EngineInv, DirRows
<1>3. DirsMade'
  <2>1. \A d \in Clients : session'[d].stmt = "lsm" =>
          /\ session[d].stmt = "lsm" /\ session'[d].table = session[d].table
          /\ session'[d].pc # "open" => session[d].pc # "open"
    BY <1>1 DEF Others, Moved, Ended, Idle
  <2> QED BY <2>1, DirsKept
<1>4. Opening' \subseteq Opening
  BY <1>1 DEF Opening, Others, Moved, Ended, Idle
<1> QED BY <1>1, <1>2, <1>3, <1>4, QuietStep

\* An INSERT finds its key and ends, or goes on to store.
LEMMA CheckKeyInv ==
  ASSUME EngineInv, NEW c \in Clients, CheckKey(c)
  PROVE  /\ EngineInv' /\ session[c].pc = "check" /\ session[c].stmt \in {"insert", "write"}
         /\ Ended(c) \/ Moved(c, "store", session[c].engine)
         /\ UNCHANGED <<catalog, file, lsm, mem, engines, disk, owed, crossed, shared>>
<1>1. session[c] \in Session /\ Shaped(session[c]) /\ session \in [Clients -> Session]
  BY OneShaped
<1>2. "store" \in Steps
  BY DEF Steps
<1>3. /\ session' \in [Clients -> Session]
      /\ Ended(c) \/ Moved(c, "store", session[c].engine)
  BY <1>1, <1>2, SessionMoves DEF CheckKey
<1>4. ASSUME Moved(c, "store", session[c].engine)
      PROVE  Shaped(session'[c])
  <2>1. session[c].pc = "check"
    BY DEF CheckKey
  <2>2. /\ session'[c].pc = "store" /\ session'[c].engine = session[c].engine
        /\ session'[c].stmt = session[c].stmt /\ session'[c].table = session[c].table
        /\ session'[c].key = session[c].key /\ session'[c].owe = session[c].owe
    BY <1>4 DEF Moved
  <2> QED BY <1>1, <2>1, <2>2 DEF Shaped
<1>5. SessionsShaped'
  BY <1>3, <1>4, ShapeMoved, ShapeEnded DEF EngineInv
<1>6. /\ catalog' = catalog /\ file' = file /\ lsm' = lsm /\ mem' = mem /\ engines' = engines
      /\ dirs' = dirs /\ disk' = disk /\ UNCHANGED <<faults, restarts, owed, crossed, shared>>
  BY DEF CheckKey, mapVars, diskVars, noteVars
<1>7. StateTypes'
  BY <1>6 DEF EngineInv, StateTypes
<1>8. /\ session[c].pc \notin Closing \cup {"register", "open"}
      /\ session'[c].pc \notin Closing \cup {"register"}
  BY <1>3 DEF CheckKey, Closing, Moved, Ended, Idle
<1>9. EngineInv'
  BY <1>2, <1>3, <1>5, <1>6, <1>7, <1>8, PlainInv
<1>10. session[c].pc = "check" /\ session[c].stmt \in {"insert", "write"}
  BY <1>1 DEF CheckKey, Shaped
<1> QED BY <1>3, <1>6, <1>9, <1>10

\* A CREATE whose engine does not open ends; the directory may have been made.
LEMMA OpenFailsInv ==
  ASSUME EngineInv, NEW c \in Clients, OpenFails(c)
  PROVE  /\ EngineInv' /\ Ended(c) /\ session[c].pc = "open" /\ session[c].stmt = "lsm"
         /\ session[c].table \in Tables
         /\ UNCHANGED <<catalog, file, lsm, mem, engines, disk, owed, crossed, shared>>
<1>1. session[c] \in Session /\ Shaped(session[c]) /\ session \in [Clients -> Session]
  BY OneShaped
<1>2. session' \in [Clients -> Session] /\ Ended(c)
  BY <1>1, SessionMoves DEF OpenFails
<1>3. SessionsShaped'
  BY <1>2, ShapeEnded DEF EngineInv
<1>4. /\ catalog' = catalog /\ file' = file /\ lsm' = lsm /\ mem' = mem /\ engines' = engines
      /\ disk' = disk /\ UNCHANGED <<restarts, owed, crossed, shared>>
      /\ faults < MaxFaults /\ faults' = faults + 1
      /\ dirs' \in {dirs, dirs \cup {session[c].table}}
  BY DEF OpenFails, Fault, mapVars, noteVars
<1>5. StateTypes'
  <2>1. session[c].table \in Tables
    BY <1>1 DEF OpenFails, Shaped
  <2>2. faults' \in 0..MaxFaults
    BY <1>4, TablesAssumption DEF EngineInv, StateTypes
  <2> QED BY <1>4, <2>1, <2>2 DEF EngineInv, StateTypes
<1>6. session[c].engine = NoEngine /\ session'[c].engine = NoEngine
  BY <1>1, <1>2 DEF OpenFails, Shaped, Ended, Idle
<1>7. "idle" \in Steps \ {"open", "register"} /\ dirs \subseteq dirs'
  BY <1>4 DEF Steps
<1>8. EngineInv'
  BY <1>2, <1>3, <1>4, <1>5, <1>6, <1>7, PlainInv
<1>9. session[c].pc = "open" /\ session[c].stmt = "lsm" /\ session[c].table \in Tables
  BY <1>1 DEF OpenFails, Shaped
<1> QED BY <1>2, <1>4, <1>8, <1>9

\* A CREATE or DROP that finds no engine where it looks for one goes on or ends.
LEMMA NoneInv ==
  ASSUME EngineInv, NEW c \in Clients,
         NEW p \in {"catalog", "rollback", "unregisterMemory", "dropCatalog"},
         \/ Ended(c)
         \/ Moved(c, p, session[c].engine) /\ Shaped(session'[c]),
         session' \in [Clients -> Session], session[c].engine = NoEngine,
         session[c].pc # "open",
         UNCHANGED <<catalog, file, lsm, mem, engines, dirs, disk, faults, restarts, owed,
                     crossed, shared>>
  PROVE  EngineInv' /\ Others(c)
<1>1. SessionsShaped'
  BY ShapeMoved, ShapeEnded DEF EngineInv
<1>2. StateTypes'
  BY DEF EngineInv, StateTypes
<1>3. p \in Steps \ {"open", "register"}
  BY DEF Steps
<1>4. session'[c].engine = NoEngine
  BY DEF Moved, Ended, Idle
<1> QED BY <1>1, <1>2, <1>3, <1>4, PlainInv

\* What CREATE TABLE does in the catalog: refused, visible, or visible and not
\* persisted.
LEMMA CatalogCreateInv ==
  ASSUME EngineInv, NEW c \in Clients, CatalogCreate(c)
  PROVE  /\ EngineInv' /\ Others(c)
         /\ Ended(c) \/ Moved(c, "rollback", session[c].engine)
         /\ session[c].pc = "catalog" /\ session[c].stmt \in {"lsm", "memory"}
         /\ session[c].table \in Tables
         /\ \A t \in Tables \ {session[c].table} : catalog'[t] = catalog[t]
         /\ UNCHANGED <<lsm, mem, engines, dirs, disk, owed, shared>>
         /\ \/ /\ UNCHANGED <<catalog, file, faults, crossed>>
               /\ Moved(c, "rollback", session[c].engine)
            \/ /\ catalog[session[c].table] = "absent"
               /\ catalog'[session[c].table] = session[c].stmt
               /\ file' = catalog' /\ crossed' = crossed /\ Ended(c)
            \/ /\ catalog[session[c].table] = "absent"
               /\ catalog'[session[c].table] = session[c].stmt
               /\ file' = file /\ crossed' = crossed \cup {session[c].table}
<1> DEFINE t == session[c].table
<1>1. session[c] \in Session /\ Shaped(session[c]) /\ session \in [Clients -> Session]
  BY OneShaped
<1>2. /\ session[c].pc = "catalog" /\ session[c].stmt \in {"lsm", "memory"} /\ t \in Tables
      /\ session[c].engine = NoEngine
  BY <1>1 DEF CatalogCreate, Shaped
<1>3. "rollback" \in Steps
  BY DEF Steps
<1>4. /\ session' \in [Clients -> Session]
      /\ Ended(c) \/ Moved(c, "rollback", session[c].engine)
  BY <1>1, <1>3, SessionMoves DEF CatalogCreate
<1>5. /\ UNCHANGED <<lsm, mem, engines, dirs, disk, restarts, owed, shared>>
      /\ \/ /\ UNCHANGED <<catalog, file, faults, crossed>>
            /\ Moved(c, "rollback", session[c].engine)
         \/ /\ catalog[t] = "absent" /\ catalog' = [catalog EXCEPT ![t] = session[c].stmt]
            /\ file' = catalog' /\ crossed' = crossed /\ Ended(c) /\ faults' = faults
         \/ /\ catalog[t] = "absent" /\ catalog' = [catalog EXCEPT ![t] = session[c].stmt]
            /\ file' = file /\ crossed' = crossed \cup {t}
            /\ faults < MaxFaults /\ faults' = faults + 1
  BY <1>1, <1>3, SessionMoves DEF CatalogCreate, Persist, Fault, mapVars, diskVars
<1>6. ASSUME Moved(c, "rollback", session[c].engine)
      PROVE  Shaped(session'[c])
  BY <1>1, <1>2, <1>6 DEF Shaped, Moved
<1>7. SessionsShaped'
  BY <1>4, <1>6, ShapeMoved, ShapeEnded DEF EngineInv
<1>8. StateTypes'
  <2>1. faults' \in 0..MaxFaults
    BY <1>5, TablesAssumption DEF EngineInv, StateTypes
  <2>2. /\ catalog' \in [Tables -> {"absent", "lsm", "memory"}]
        /\ file' \in [Tables -> {"absent", "lsm", "memory"}] /\ crossed' \subseteq Tables
    BY <1>2, <1>5 DEF EngineInv, StateTypes
  <2> QED BY <1>5, <2>1, <2>2 DEF EngineInv, StateTypes
<1>9. DirRows'
  BY <1>5 DEF EngineInv, DirRows
<1>10. Quiet(c) /\ Others(c)
  <2>1. session'[c].engine = NoEngine
    BY <1>2, <1>4 DEF Moved, Ended, Idle
  <2> QED BY <1>2, <1>4, <1>5, <2>1, MoveQuiet DEF Quiet
<1>11. DirsMade'
  <2>1. \A d \in Clients : session[d].stmt = "lsm" /\ session[d].pc # "open"
          => session[d].table \in dirs
    BY DEF EngineInv, DirsMade
  <2>2. \A d \in Clients : session'[d].stmt = "lsm" /\ session'[d].pc # "open"
          => session'[d].table \in dirs
    BY <1>2, <1>4, <2>1 DEF Moved, Ended, Idle
  <2>3. session[c].stmt = "lsm" => t \in dirs
    BY <1>2, <2>1
  <2>4. \A u \in Tables : catalog'[u] = "lsm" \/ file'[u] = "lsm" => u \in dirs
    BY <1>2, <1>5, <2>3 DEF EngineInv, DirsMade, StateTypes
  <2> QED BY <1>5, <2>2, <2>4 DEF DirsMade
<1>12. Opening' \subseteq Opening
  BY <1>2, <1>4 DEF Opening, Moved, Ended, Idle
<1>13. EngineInv'
  BY <1>7, <1>8, <1>9, <1>10, <1>11, <1>12, QuietStep
<1>14. /\ \A u \in Tables \ {t} : catalog'[u] = catalog[u]
       /\ catalog' # catalog => catalog'[t] = session[c].stmt
  BY <1>2, <1>5 DEF EngineInv, StateTypes
<1>15. catalog' = [catalog EXCEPT ![t] = session[c].stmt] => catalog'[t] = session[c].stmt
  BY <1>2 DEF EngineInv, StateTypes
<1> QED BY <1>2, <1>4, <1>5, <1>10, <1>13, <1>14, <1>15

\* What DROP TABLE does in the catalog: nothing, or the table is gone, in the file too or
\* not.
LEMMA DropCatalogInv ==
  ASSUME EngineInv, NEW c \in Clients, DropCatalog(c)
  PROVE  /\ EngineInv' /\ Others(c) /\ session'[c] = Idle
         /\ session[c].pc = "dropCatalog" /\ session[c].stmt = "drop"
         /\ session[c].table \in Tables
         /\ \A d \in Clients \ {c} :
              session'[d].owe <=> session[d].owe /\ session[d].table # session[c].table
         /\ owed'[session[c].table] = {}
         /\ \A t \in Tables \ {session[c].table} : owed'[t] = owed[t] /\ catalog'[t] = catalog[t]
         /\ catalog'[session[c].table] = "absent"
         /\ UNCHANGED <<lsm, mem, engines, dirs, disk, shared>>
         /\ \/ catalog' = catalog /\ file' = file /\ crossed' = crossed
            \/ file' = catalog' /\ crossed' = crossed
            \/ file' = file /\ crossed' = crossed \cup {session[c].table}
<1> DEFINE t == session[c].table
<1>1. session[c] \in Session /\ Shaped(session[c]) /\ session \in [Clients -> Session]
  BY OneShaped
<1>2. /\ session[c].pc = "dropCatalog" /\ session[c].stmt = "drop" /\ t \in Tables
      /\ session[c].engine = NoEngine
  BY <1>1 DEF DropCatalog, Shaped
<1>3. /\ SessionsShaped' /\ session'[c] = Idle
      /\ \A d \in Clients \ {c} :
           /\ session'[d].pc = session[d].pc /\ session'[d].stmt = session[d].stmt
           /\ session'[d].table = session[d].table /\ session'[d].engine = session[d].engine
           /\ session'[d].owe <=> session[d].owe /\ session[d].table # t
  BY DropCatalogSessions DEF EngineInv
<1>4. /\ UNCHANGED <<lsm, mem, engines, dirs, disk, restarts, shared>>
      /\ owed' = [owed EXCEPT ![t] = {}]
      /\ \/ catalog[t] = "absent" /\ UNCHANGED <<catalog, file, faults, crossed>>
         \/ /\ catalog' = [catalog EXCEPT ![t] = "absent"]
            /\ file' = catalog' /\ crossed' = crossed /\ faults' = faults
         \/ /\ catalog' = [catalog EXCEPT ![t] = "absent"]
            /\ file' = file /\ crossed' = crossed \cup {t}
            /\ faults < MaxFaults /\ faults' = faults + 1
  BY DEF DropCatalog, Persist, Fault, mapVars, diskVars
<1>5. StateTypes'
  <2>1. faults' \in 0..MaxFaults
    BY <1>4, TablesAssumption DEF EngineInv, StateTypes
  <2>2. /\ catalog' \in [Tables -> {"absent", "lsm", "memory"}]
        /\ file' \in [Tables -> {"absent", "lsm", "memory"}] /\ crossed' \subseteq Tables
        /\ owed' \in [Tables -> SUBSET Keys]
    BY <1>2, <1>4 DEF EngineInv, StateTypes
  <2> QED BY <1>4, <2>1, <2>2 DEF EngineInv, StateTypes
<1>6. DirRows'
  BY <1>4 DEF EngineInv, DirRows
<1>7. Others(c)
  BY <1>3 DEF Others
<1>8. Quiet(c)
  <2>1. session'[c].engine = NoEngine
    BY <1>3 DEF Idle
  <2>2. \A e \in EngineIds : c \notin Holders(e) /\ c \notin Holders(e)'
    BY <1>2, <2>1, TablesAssumption DEF Holders
  <2> QED BY <1>4, <1>7, <2>1, <2>2, TablesAssumption DEF Quiet
<1>9. /\ owed'[t] = {} /\ catalog'[t] = "absent"
      /\ \A u \in Tables \ {t} : owed'[u] = owed[u] /\ catalog'[u] = catalog[u]
  BY <1>2, <1>4 DEF EngineInv, StateTypes
<1>10. DirsMade'
  <2>1. \A u \in Tables : catalog'[u] = "lsm" \/ file'[u] = "lsm"
                            => catalog[u] = "lsm" \/ file[u] = "lsm"
    BY <1>4, <1>9
  <2> QED BY <1>3, <1>4, <2>1 DEF EngineInv, DirsMade, Idle
<1>11. Opening' \subseteq Opening
  BY <1>3 DEF Opening, Idle
<1>12. EngineInv'
  BY <1>3, <1>5, <1>6, <1>8, <1>10, <1>11, QuietStep
<1> QED BY <1>2, <1>3, <1>4, <1>7, <1>9, <1>12

\* The directory that a row of table t reaches is the server's or that of t.
LEMMA LoggedRows ==
  ASSUME EngineInv, NEW e \in EngineIds \cup {Default}, NEW k \in Keys, NEW t \in Tables,
         e \in EngineIds => Uses(e, t), Logged(e, k, t)
  PROVE  /\ disk' \in [Dirs -> [Keys -> Tables \cup {NoTable}]] /\ DirRows'
         /\ \A f \in Dirs \ {engines[e].home} : disk'[f] = disk[f]
         /\ engines[e].home \in {DirOf(t), RootDir, Memory}
         /\ engines[e].home \in Dirs =>
              /\ \A j \in Keys : disk'[engines[e].home][j]
                                   \in {IF j = k THEN t ELSE disk[engines[e].home][j], NoTable}
              /\ ~ InUse(engines[e].home, e) =>
                   \A j \in Keys : disk'[engines[e].home][j]
                                     = IF j = k THEN t ELSE disk[engines[e].home][j]
<1> DEFINE d == engines[e].home
<1>1. disk \in [Dirs -> [Keys -> Tables \cup {NoTable}]] /\ d \in Dirs \cup {Memory}
  BY DEF EngineInv, StateTypes
<1>2. d \in {DirOf(t), RootDir, Memory}
  BY DEF EngineInv, Homes, OneTable
<1>3. CASE d = Memory
  <2>1. disk' = disk /\ Memory \notin Dirs
    BY <1>3, DirFacts DEF Logged
  <2> QED BY <1>1, <1>2, <1>3, <2>1 DEF EngineInv, DirRows
<1>4. CASE d # Memory
  <2> DEFINE r == [disk[d] EXCEPT ![k] = t]
  <2>1. d \in Dirs /\ DiskBecomes(d, e, r)
    BY <1>1, <1>4 DEF Logged
  <2>2. /\ r \in [Keys -> Tables \cup {NoTable}]
        /\ \A j \in Keys : r[j] = IF j = k THEN t ELSE disk[d][j]
    BY <1>1, <2>1
  <2> HIDE DEF r, d
  <2>3. /\ disk' \in [Dirs -> [Keys -> Tables \cup {NoTable}]]
        /\ \A f \in Dirs \ {d} : disk'[f] = disk[f]
        /\ \A j \in Keys : disk'[d][j] \in {r[j], NoTable}
        /\ ~ InUse(d, e) => disk'[d] = r
    BY <1>1, <2>1, <2>2, KeptRows
  <2>4. DirRows'
    <3> SUFFICES ASSUME NEW u \in Tables, NEW j \in Keys
                 PROVE  disk'[DirOf(u)][j] \in {u, NoTable}
      BY DEF DirRows
    <3>1. disk[DirOf(u)][j] \in {u, NoTable}
      BY DEF EngineInv, DirRows
    <3>2. d = DirOf(u) => t = u
      BY <1>2, DirFacts
    <3> QED BY <2>2, <2>3, <3>1, <3>2, DirFacts
  <2> QED BY <1>2, <2>2, <2>3, <2>4 DEF d
<1> QED BY <1>3, <1>4

\* A row is stored, or the engine that was to store it is closed.
LEMMA StoreInv ==
  ASSUME EngineInv, NEW c \in Clients, Store(c)
  PROVE  /\ EngineInv' /\ Ended(c) /\ session[c].pc = "store"
         /\ session[c].stmt \in {"insert", "write"}
         /\ session[c].table \in Tables /\ session[c].key \in Keys
         /\ session[c].engine \in EngineIds \cup {Default}
         /\ UNCHANGED <<catalog, file, lsm, mem, crossed, shared>>
<1> DEFINE t == session[c].table
           e == session[c].engine
           k == session[c].key
<1>1. session[c] \in Session /\ Shaped(session[c]) /\ session \in [Clients -> Session]
  BY OneShaped
<1>2. /\ session[c].stmt \in {"insert", "write"}
      /\ session[c].pc = "store" /\ t \in Tables /\ e \in EngineIds \cup {Default} /\ k \in Keys
  BY <1>1 DEF Store, Shaped
<1>3. session' \in [Clients -> Session] /\ Ended(c)
  BY <1>1, SessionMoves DEF Store
<1>4. SessionsShaped'
  BY <1>3, ShapeEnded DEF EngineInv
<1>5. /\ UNCHANGED <<catalog, file, lsm, mem, dirs, faults, restarts, crossed, shared>>
      /\ \/ /\ engines' = [engines EXCEPT ![e].rows[k] = t] /\ Logged(e, k, t)
            /\ owed' \in {owed, [owed EXCEPT ![t] = @ \cup {k}]}
         \/ UNCHANGED <<engines, disk, owed>>
  BY DEF Store, mapVars
<1>6. e \in EngineIds => Uses(e, t)
  BY DEF Uses
<1> HIDE DEF t, e, k
<1>7. /\ \A f \in EngineIds \cup {Default} : /\ engines'[f].home = engines[f].home
                                             /\ engines'[f].open <=> engines[f].open
                                             /\ \A j \in Keys :
                                                  \/ engines'[f].rows[j] = engines[f].rows[j]
                                                  \/ f = e /\ engines'[f].rows[j] = t
      /\ engines' \in [EngineIds \cup {Default} ->
                        [home : Dirs \cup {Memory}, open : BOOLEAN,
                         rows : [Keys -> Tables \cup {NoTable}]]]
  <2>1. engines \in [EngineIds \cup {Default} ->
                      [home : Dirs \cup {Memory}, open : BOOLEAN,
                       rows : [Keys -> Tables \cup {NoTable}]]]
    BY DEF EngineInv, StateTypes
  <2> QED BY <1>2, <1>5, <2>1
<1>8. /\ disk' \in [Dirs -> [Keys -> Tables \cup {NoTable}]] /\ DirRows'
  <2>1. Logged(e, k, t) => disk' \in [Dirs -> [Keys -> Tables \cup {NoTable}]] /\ DirRows'
    BY <1>2, <1>6, LoggedRows
  <2>2. disk' = disk => disk' \in [Dirs -> [Keys -> Tables \cup {NoTable}]] /\ DirRows'
    BY DEF EngineInv, StateTypes, DirRows
  <2> QED BY <1>5, <2>1, <2>2
<1>9. StateTypes'
  <2>1. owed' \in [Tables -> SUBSET Keys]
    BY <1>2, <1>5 DEF EngineInv, StateTypes
  <2> QED BY <1>5, <1>7, <1>8, <2>1 DEF EngineInv, StateTypes
<1>10. Others(c)
  BY <1>3 DEF Ended, Others
<1>11. Quiet(c)
  <2>1. session'[c].engine = NoEngine
    BY <1>3 DEF Ended, Idle
  <2>2. \A f \in EngineIds : c \notin Holders(f) /\ c \notin Holders(f)'
    BY <1>2, <2>1, TablesAssumption DEF Holders, Closing
  <2>3. \A f \in EngineIds, j \in Keys :
          \/ engines'[f].rows[j] = engines[f].rows[j]
          \/ /\ session[c].table \in Tables /\ Uses(f, session[c].table)
             /\ engines'[f].rows[j] = session[c].table
    BY <1>2, <1>6, <1>7 DEF t
  <2> QED BY <1>5, <1>7, <1>10, <2>1, <2>2, <2>3, TablesAssumption DEF Quiet
<1>12. DirsMade' /\ Opening' \subseteq Opening
  BY <1>3, <1>5 DEF EngineInv, DirsMade, Opening, Ended, Idle
<1>13. EngineInv'
  BY <1>4, <1>8, <1>9, <1>11, <1>12, QuietStep
<1> QED BY <1>2, <1>3, <1>5, <1>13 DEF t, e, k

\* A record reaches the log, and the row does not reach the table.
LEMMA StoreFailsInv ==
  ASSUME EngineInv, NEW c \in Clients, StoreFails(c)
  PROVE  /\ EngineInv' /\ Ended(c) /\ session[c].pc = "store"
         /\ session[c].stmt \in {"insert", "write"}
         /\ session[c].table \in Tables /\ session[c].key \in Keys
         /\ session[c].engine \in EngineIds \cup {Default}
         /\ UNCHANGED <<catalog, file, lsm, mem, engines, owed, crossed, shared>>
<1> DEFINE t == session[c].table
           e == session[c].engine
           k == session[c].key
<1>1. session[c] \in Session /\ Shaped(session[c]) /\ session \in [Clients -> Session]
  BY OneShaped
<1>2. /\ session[c].stmt \in {"insert", "write"}
      /\ session[c].pc = "store" /\ t \in Tables /\ e \in EngineIds \cup {Default} /\ k \in Keys
  BY <1>1 DEF StoreFails, Shaped
<1>3. session' \in [Clients -> Session] /\ Ended(c)
  BY <1>1, SessionMoves DEF StoreFails
<1>4. SessionsShaped'
  BY <1>3, ShapeEnded DEF EngineInv
<1>5. /\ UNCHANGED <<catalog, file, lsm, mem, engines, dirs, restarts, owed, crossed, shared>>
      /\ Logged(e, k, t) /\ faults < MaxFaults /\ faults' = faults + 1
  BY DEF StoreFails, Fault, mapVars, noteVars
<1>6. e \in EngineIds => Uses(e, t)
  BY DEF Uses
<1>7. /\ disk' \in [Dirs -> [Keys -> Tables \cup {NoTable}]] /\ DirRows'
  BY <1>2, <1>5, <1>6, LoggedRows
<1>8. StateTypes'
  <2>1. faults' \in 0..MaxFaults
    BY <1>5, TablesAssumption DEF EngineInv, StateTypes
  <2> QED BY <1>5, <1>7, <2>1 DEF EngineInv, StateTypes
<1>9. Quiet(c)
  <2>1. /\ session[c].pc \notin Closing \cup {"register"}
        /\ session'[c].pc \notin Closing \cup {"register"}
    BY <1>2, <1>3 DEF Closing, Ended, Idle
  <2> QED BY <1>3, <1>5, <2>1, MoveQuiet
<1>10. DirsMade' /\ Opening' \subseteq Opening
  BY <1>3, <1>5 DEF EngineInv, DirsMade, Opening, Ended, Idle
<1>11. EngineInv'
  BY <1>4, <1>7, <1>8, <1>9, <1>10, QuietStep
<1> QED BY <1>2, <1>3, <1>5, <1>11

\* A new statement.
LEMMA BeginQuiet ==
  ASSUME EngineInv, NEW c \in Clients, session[c] = Idle, Others(c), session'[c].engine = NoEngine,
         session'[c].stmt = "lsm" => session'[c].pc = "open",
         SessionsShaped', StateTypes',
         UNCHANGED <<catalog, file, lsm, mem, engines, dirs, disk, shared>>
  PROVE  /\ Quiet(c) /\ DirRows' /\ DirsMade'
         /\ UnusedIds \subseteq UnusedIds'
         /\ Opening \subseteq Opening' /\ Opening' \subseteq Opening \cup {c}
<1>1. Quiet(c)
  <2>1. \A f \in EngineIds : c \notin Holders(f) /\ c \notin Holders(f)'
    BY TablesAssumption DEF Holders, Idle
  <2> QED BY <2>1, TablesAssumption DEF Quiet
<1>2. DirRows' /\ DirsMade'
  BY DEF EngineInv, DirRows, DirsMade, Others
<1>3. UnusedIds \subseteq UnusedIds'
  BY TablesAssumption DEF UnusedIds, Unused, Others
<1>4. Opening \subseteq Opening' /\ Opening' \subseteq Opening \cup {c}
  BY DEF Opening, Others, Idle
<1> QED BY <1>1, <1>2, <1>3, <1>4

\* A CREATE begins while there is an engine left for it.
LEMMA BeginCreateInv ==
  ASSUME EngineInv, NEW c \in Clients, NEW t \in Tables, NEW stmt \in {"lsm", "memory"},
         BeginCreate(c, stmt, t)
  PROVE  /\ EngineInv' /\ Others(c) /\ catalog[t] = "absent" /\ session[c] = Idle
         /\ session'[c].stmt = stmt /\ session'[c].table = t /\ session'[c].engine = NoEngine
         /\ ~ session'[c].owe /\ session'[c].pc \in {"open", "register"}
         /\ \A d \in Clients \ {c} : session'[d] = session[d]
         /\ crossed' = IF Crossing(stmt, t) THEN crossed \cup {t} ELSE crossed
         /\ UNCHANGED <<catalog, file, lsm, mem, engines, dirs, disk, owed, shared>>
<1> DEFINE p == IF stmt = "lsm" THEN "open" ELSE "register"
<1>1. /\ catalog[t] = "absent" /\ EnginesLeft /\ Begin(c, stmt, t, NoTable, p)
      /\ stmt \in DDL /\ p \in Steps
      /\ \/ stmt = "lsm" /\ p = "open"
         \/ stmt = "memory" /\ p = "register"
  BY DEF BeginCreate, DDL, Steps
<1>2. /\ SessionsShaped'
      /\ session[c] = Idle
      /\ session'[c].pc = p /\ session'[c].stmt = stmt /\ session'[c].table = t
      /\ session'[c].engine = NoEngine /\ (session'[c].owe => stmt \notin DDL)
      /\ \A d \in Clients \ {c} : session'[d] = session[d]
      /\ crossed' = IF stmt \in DDL /\ Crossing(stmt, t) THEN crossed \cup {t} ELSE crossed
      /\ UNCHANGED <<catalog, file, lsm, mem, engines, dirs, disk, faults, restarts,
                     owed, shared>>
  BY <1>1, BeginShape DEF EngineInv
<1>3. StateTypes'
  BY <1>2 DEF EngineInv, StateTypes
<1>4. Others(c)
  BY <1>2 DEF Others
<1>5. stmt = "lsm" => p = "open"
  OBVIOUS
<1>6. /\ Quiet(c) /\ DirRows' /\ DirsMade'
      /\ UnusedIds \subseteq UnusedIds'
      /\ Opening \subseteq Opening' /\ Opening' \subseteq Opening \cup {c}
  BY <1>2, <1>3, <1>4, <1>5, BeginQuiet
<1>7. EnginesSuffice'
  <2> DEFINE S == {d \in Clients : session[d].stmt \in {"lsm", "memory"}
                                     /\ session[d].engine = NoEngine}
  <2>1. Cardinality(S) < Cardinality(UnusedIds)
    BY <1>1 DEF EnginesLeft, UnusedIds
  <2>2. Opening \subseteq S
    <3> SUFFICES ASSUME NEW d \in Opening PROVE d \in S
      OBVIOUS
    <3>1. Shaped(session[d])
      BY DEF EngineInv, SessionsShaped, Opening
    <3> QED BY <3>1 DEF Opening, Shaped
  <2>3. c \notin S
    BY <1>2 DEF Idle
  <2>4. IsFiniteSet(S) /\ IsFiniteSet(UnusedIds') /\ IsFiniteSet(UnusedIds)
    BY TablesAssumption, FS_Subset DEF UnusedIds
  <2>5. IsFiniteSet(S \cup {c}) /\ Cardinality(S \cup {c}) = Cardinality(S) + 1
    BY <2>3, <2>4, FS_AddElement
  <2>6. Opening' \subseteq S \cup {c}
    BY <1>6, <2>2
  <2>7. /\ Cardinality(Opening') <= Cardinality(S \cup {c}) /\ IsFiniteSet(Opening')
        /\ Cardinality(UnusedIds) <= Cardinality(UnusedIds')
    BY <1>6, <2>4, <2>5, <2>6, FS_Subset
  <2> DEFINE a == Cardinality(S)
             b == Cardinality(UnusedIds)
             x == Cardinality(Opening')
             y == Cardinality(UnusedIds')
  <2>8. a \in Nat /\ b \in Nat /\ x \in Nat /\ y \in Nat
    BY <2>4, <2>7, FS_CardinalityType
  <2>9. a < b /\ x <= a + 1 /\ b <= y
    BY <2>1, <2>5, <2>7
  <2>10. \A i, j, k, l \in Nat : i <= j + 1 /\ j < k /\ k <= l => i <= l
    OBVIOUS
  <2> HIDE DEF a, b, x, y
  <2>11. x <= y
    BY <2>8, <2>9, <2>10
  <2> QED BY <2>11 DEF EnginesSuffice, x, y
<1>8. Homes' /\ OneOwner' /\ OneTable' /\ OneOpen'
  BY <1>2, <1>3, <1>6, QuietInv
<1>9. EngineInv'
  BY <1>2, <1>3, <1>6, <1>7, <1>8 DEF EngineInv
<1>10. p \in {"open", "register"} /\ stmt \in DDL
  BY DEF DDL
<1> QED BY <1>1, <1>2, <1>4, <1>9, <1>10

\* A DROP begins.
LEMMA BeginDropInv ==
  ASSUME EngineInv, NEW c \in Clients, NEW t \in Tables, BeginDrop(c, t)
  PROVE  /\ EngineInv' /\ Others(c) /\ catalog[t] # "absent" /\ session[c] = Idle
         /\ session'[c].stmt = "drop" /\ session'[c].table = t /\ session'[c].engine = NoEngine
         /\ ~ session'[c].owe /\ session'[c].pc = "unregisterLSM"
         /\ \A d \in Clients \ {c} : session'[d] = session[d]
         /\ crossed' = IF Crossing("drop", t) THEN crossed \cup {t} ELSE crossed
         /\ UNCHANGED <<catalog, file, lsm, mem, engines, dirs, disk, owed, shared>>
<1>1. /\ catalog[t] # "absent" /\ Begin(c, "drop", t, NoTable, "unregisterLSM")
      /\ "drop" \in DDL /\ "unregisterLSM" \in Steps
  BY DEF BeginDrop, DDL, Steps
<1>2. /\ SessionsShaped'
      /\ session[c] = Idle
      /\ session'[c].pc = "unregisterLSM" /\ session'[c].stmt = "drop" /\ session'[c].table = t
      /\ session'[c].engine = NoEngine /\ (session'[c].owe => "drop" \notin DDL)
      /\ \A d \in Clients \ {c} : session'[d] = session[d]
      /\ crossed' = IF "drop" \in DDL /\ Crossing("drop", t) THEN crossed \cup {t} ELSE crossed
      /\ UNCHANGED <<catalog, file, lsm, mem, engines, dirs, disk, faults, restarts,
                     owed, shared>>
  BY <1>1, BeginShape DEF EngineInv
<1>3. StateTypes'
  BY <1>2 DEF EngineInv, StateTypes
<1>4. Others(c)
  BY <1>2 DEF Others
<1>5. Quiet(c) /\ DirRows' /\ DirsMade' /\ Opening' \subseteq Opening \cup {c}
  BY <1>2, <1>3, <1>4, BeginQuiet
<1>6. Opening' \subseteq Opening
  BY <1>2, <1>5 DEF Opening
<1>7. EngineInv'
  BY <1>2, <1>3, <1>5, <1>6, QuietStep
<1> QED BY <1>1, <1>2, <1>4, <1>7

\* An INSERT or /write begins, on a table it sees.
LEMMA BeginStoreInv ==
  ASSUME EngineInv, NEW c \in Clients, NEW t \in Tables, NEW k \in Keys,
         NEW stmt \in {"insert", "write"}, BeginStore(c, stmt, t, k)
  PROVE  /\ EngineInv' /\ Others(c) /\ catalog[t] # "absent" /\ session[c] = Idle
         /\ session'[c].stmt = stmt /\ session'[c].table = t /\ session'[c].engine = NoEngine
         /\ session'[c].pc = "route"
         /\ \A d \in Clients \ {c} : session'[d] = session[d]
         /\ UNCHANGED <<catalog, file, lsm, mem, engines, dirs, disk, owed, crossed, shared>>
<1>1. /\ catalog[t] # "absent" /\ Begin(c, stmt, t, k, "route")
      /\ stmt \notin DDL /\ "route" \in Steps
  BY DEF BeginStore, DDL, Steps
<1>2. /\ SessionsShaped'
      /\ session[c] = Idle
      /\ session'[c].pc = "route" /\ session'[c].stmt = stmt /\ session'[c].table = t
      /\ session'[c].engine = NoEngine /\ (session'[c].owe => stmt \notin DDL)
      /\ \A d \in Clients \ {c} : session'[d] = session[d]
      /\ crossed' = IF stmt \in DDL /\ Crossing(stmt, t) THEN crossed \cup {t} ELSE crossed
      /\ UNCHANGED <<catalog, file, lsm, mem, engines, dirs, disk, faults, restarts,
                     owed, shared>>
  BY <1>1, BeginShape DEF EngineInv
<1>3. StateTypes'
  BY <1>1, <1>2 DEF EngineInv, StateTypes
<1>4. Others(c)
  BY <1>2 DEF Others
<1>5. Quiet(c) /\ DirRows' /\ DirsMade' /\ Opening' \subseteq Opening \cup {c}
  BY <1>2, <1>3, <1>4, BeginQuiet
<1>6. Opening' \subseteq Opening
  BY <1>2, <1>5 DEF Opening
<1>7. EngineInv'
  BY <1>2, <1>3, <1>5, <1>6, QuietStep
<1> QED BY <1>1, <1>2, <1>4, <1>7

\* An engine that is registered has its table's directory, and one owner as before; one
\* that is not is about to be closed.
LEMMA RegisterLSMInv ==
  ASSUME EngineInv, NEW c \in Clients, RegisterLSM(c)
  PROVE  /\ EngineInv' /\ Others(c) /\ session[c].pc = "register" /\ session[c].stmt = "lsm"
         /\ session[c].table \in Tables /\ session[c].engine \in EngineIds
         /\ \/ /\ lsm[session[c].table] = NoEngine
               /\ lsm' = [lsm EXCEPT ![session[c].table] = session[c].engine]
               /\ Moved(c, "catalog", NoEngine)
            \/ lsm' = lsm /\ Moved(c, "close", session[c].engine)
         /\ UNCHANGED <<catalog, file, mem, engines, dirs, disk, owed, crossed, shared>>
<1>1. session[c] \in Session /\ Shaped(session[c]) /\ session \in [Clients -> Session]
  BY OneShaped
<1>0. PICK t \in Tables, e \in EngineIds : t = session[c].table /\ e = session[c].engine
  BY <1>1 DEF RegisterLSM, Shaped
<1>2. /\ session[c].pc = "register" /\ session[c].stmt = "lsm"
      /\ session[c].table = t /\ session[c].engine = e
  BY <1>0 DEF RegisterLSM
<1>3. "catalog" \in Steps /\ "close" \in Steps
  BY DEF Steps
<1>4. /\ UNCHANGED <<catalog, file, mem, engines, dirs, disk, faults, restarts, owed, crossed,
                     shared>>
      /\ session' \in [Clients -> Session]
      /\ \/ /\ lsm[t] = NoEngine /\ lsm' = [lsm EXCEPT ![t] = e]
            /\ Moved(c, "catalog", NoEngine)
         \/ lsm' = lsm /\ Moved(c, "close", e)
  BY <1>1, <1>2, <1>3, SessionMoves DEF RegisterLSM, diskVars, noteVars
<1>5. /\ session'[c].pc \in {"catalog", "close"} /\ session'[c].stmt = "lsm"
      /\ session'[c].table = t /\ session'[c].owe = session[c].owe
      /\ \A d \in Clients \ {c} : session'[d] = session[d]
      /\ session'[c].pc = "catalog" => session'[c].engine = NoEngine
      /\ session'[c].pc = "close" => session'[c].engine = e
  BY <1>2, <1>4 DEF Moved
<1>6. Shaped(session'[c])
  BY <1>1, <1>2, <1>5 DEF Shaped
<1>7. SessionsShaped' /\ Others(c)
  BY <1>4, <1>5, <1>6 DEF EngineInv, SessionsShaped, Others
<1>8. \/ /\ lsm' = [lsm EXCEPT ![t] = e] /\ lsm[t] = NoEngine
         /\ session'[c].pc = "catalog" /\ session'[c].engine = NoEngine
      \/ lsm' = lsm /\ session'[c].pc = "close" /\ session'[c].engine = e
  BY <1>4 DEF Moved
<1>19. lsm \in [Tables -> EngineIds \cup {NoEngine}]
  BY DEF EngineInv, StateTypes
<1>9. \A f \in EngineIds : f # e => /\ Registered(f)' <=> Registered(f)
                                    /\ Holders(f)' = Holders(f)
  <2>1. \A f \in EngineIds : f # e => Holders(f)' = Holders(f)
    BY <1>2, <1>5, <1>8, TablesAssumption DEF Holders
  <2> QED BY <1>2, <1>4, <1>8, <1>19, <2>1, TablesAssumption DEF Registered
<1>10. OneOwner'
  <2>1. c \in Holders(e)
    BY <1>2 DEF Holders
  <2>2. engines[e].open /\ ~ Registered(e) /\ Holders(e) = {c}
    BY <1>2, <2>1 DEF EngineInv, OneOwner
  <2>3. CASE lsm' = lsm /\ session'[c].pc = "close" /\ session'[c].engine = e
    <3>1. Holders(e)' = {c}
      BY <1>5, <2>2, <2>3 DEF Holders, Closing
    <3>2. ~ Registered(e)'
      BY <1>4, <2>2, <2>3 DEF Registered
    <3> QED BY <1>4, <1>9, <2>2, <3>1, <3>2 DEF EngineInv, OneOwner
  <2>4. CASE /\ lsm' = [lsm EXCEPT ![t] = e] /\ lsm[t] = NoEngine
             /\ session'[c].pc = "catalog" /\ session'[c].engine = NoEngine
    <3>1. Holders(e)' = {}
      BY <1>2, <1>5, <2>2, <2>4, TablesAssumption DEF Holders
    <3>2. Registered(e)'
      BY <1>19, <2>4 DEF Registered
    <3> QED BY <1>4, <1>9, <2>2, <3>1, <3>2 DEF EngineInv, OneOwner
  <2> QED BY <1>8, <2>3, <2>4
<1>11. Uses(e, t)
  BY <1>2 DEF Uses
<1>12. OneTable'
  <2>1. \A f \in EngineIds, u \in Tables : Uses(f, u)' => Uses(f, u)
    BY <1>2, <1>4, <1>5, <1>8, <1>11, <1>19, TablesAssumption DEF Uses
  <2> QED BY <1>4, <2>1 DEF EngineInv, OneTable
<1>13. Homes'
  <2>1. engines[e].home = DirOf(t)
    BY <1>2 DEF EngineInv, Homes
  <2>2. \A u \in Tables : \/ lsm'[u] = lsm[u]
                          \/ u = t /\ lsm'[u] = e
    BY <1>8, <1>19
  <2>3. \A d \in Clients : session'[d].pc = "register" => d # c
    BY <1>5
  <2> QED BY <1>4, <1>5, <2>1, <2>2, <2>3 DEF EngineInv, Homes
<1>14. OneOpen' /\ DirRows'
  BY <1>4 DEF EngineInv, OneOpen, DirRows
<1>15. StateTypes'
  BY <1>2, <1>4, <1>8 DEF EngineInv, StateTypes
<1>16. DirsMade'
  BY <1>2, <1>4, <1>5 DEF EngineInv, DirsMade
<1>17. EnginesSuffice'
  <2>1. Opening' \subseteq Opening
    BY <1>5 DEF Opening
  <2>2. ASSUME NEW f \in EngineIds, Unused(f)
        PROVE  Unused(f)'
    <3>1. f # e
      BY <1>2, <2>2 DEF Unused
    <3>2. session'[c].engine # f
      BY <1>5, <3>1, TablesAssumption
    <3>3. \A u \in Tables : lsm'[u] = lsm[u] \/ lsm'[u] = e
      BY <1>8, <1>19
    <3> QED BY <1>4, <1>5, <2>2, <3>1, <3>2, <3>3 DEF Unused
  <2> QED BY <2>1, <2>2, SufficeLess DEF EngineInv, UnusedIds
<1>18. EngineInv'
  BY <1>7, <1>10, <1>12, <1>13, <1>14, <1>15, <1>16, <1>17 DEF EngineInv
<1> QED BY <1>2, <1>4, <1>7, <1>18

\* CREATE TABLE opens an engine that nobody refers to, and owns it.
LEMMA OpenEngineInv ==
  ASSUME EngineInv, NEW c \in Clients, OpenEngine(c)
  PROVE  /\ EngineInv' /\ Others(c) /\ session[c].pc = "open" /\ session[c].stmt = "lsm"
         /\ session[c].table \in Tables
         /\ \E n \in EngineIds :
              /\ Unused(n) /\ Moved(c, "register", n)
              /\ \A e \in EngineIds \cup {Default} : e # n => engines'[e] = engines[e]
              /\ ~ InUse(DirOf(session[c].table), n) => disk' = disk
         /\ \A t \in Tables : DirOf(t) \notin shared' => disk'[DirOf(t)] = disk[DirOf(t)]
         /\ shared \subseteq shared'
         /\ UNCHANGED <<catalog, file, lsm, mem, owed, crossed>>
<1>1. session[c] \in Session /\ Shaped(session[c]) /\ session \in [Clients -> Session]
  BY OneShaped
<1>2. session[c].pc = "open" /\ session[c].stmt = "lsm" /\ session[c].engine = NoEngine
  BY <1>1 DEF OpenEngine, Shaped
<1>3. PICK t \in Tables, d \in Dirs : t = session[c].table /\ d = DirOf(t)
  BY <1>1, DirFacts DEF OpenEngine, Shaped
<1>4. c \in Opening
  BY <1>2 DEF Opening
<1>5. PICK n \in EngineIds : n = NewId /\ Unused(n)
  BY <1>4, NewIdUnused DEF EngineInv
<1>6. "register" \in Steps /\ n # NoEngine /\ n # Default
  BY TablesAssumption DEF Steps
<1>7. /\ engines' = [engines EXCEPT ![n] = OpenedOn(d)]
      /\ session' \in [Clients -> Session] /\ Moved(c, "register", n)
      /\ dirs' = dirs \cup {t} /\ DiskBecomes(d, n, disk[d])
      /\ shared' = IF InUse(d, n) THEN shared \cup {d} ELSE shared
      /\ UNCHANGED <<catalog, file, lsm, mem, faults, restarts, owed, crossed>>
  BY <1>1, <1>3, <1>5, <1>6, SessionMoves DEF OpenEngine, mapVars
<1>8. /\ session'[c].pc = "register" /\ session'[c].stmt = "lsm" /\ session'[c].engine = n
      /\ session'[c].table = t /\ session'[c].owe = session[c].owe
      /\ \A f \in Clients \ {c} : session'[f] = session[f]
  BY <1>2, <1>3, <1>7 DEF Moved
<1>9. SessionsShaped' /\ Others(c)
  <2>1. Shaped(session'[c])
    BY <1>1, <1>2, <1>3, <1>8 DEF Shaped
  <2> QED BY <1>7, <1>8, <2>1 DEF EngineInv, SessionsShaped, Others
<1>10. /\ engines \in [EngineIds \cup {Default} ->
                       [home : Dirs \cup {Memory}, open : BOOLEAN,
                        rows : [Keys -> Tables \cup {NoTable}]]]
       /\ disk \in [Dirs -> [Keys -> Tables \cup {NoTable}]]
  BY DEF EngineInv, StateTypes
<1>11. /\ engines'[n].home = d /\ engines'[n].open /\ engines'[n].rows = disk[d]
       /\ \A e \in EngineIds \cup {Default} : e # n => engines'[e] = engines[e]
       /\ engines' \in [EngineIds \cup {Default} ->
                        [home : Dirs \cup {Memory}, open : BOOLEAN,
                         rows : [Keys -> Tables \cup {NoTable}]]]
  BY <1>7, <1>10 DEF OpenedOn
<1>12. /\ disk' \in [Dirs -> [Keys -> Tables \cup {NoTable}]]
       /\ \A f \in Dirs \ {d} : disk'[f] = disk[f]
       /\ \A k \in Keys : disk'[d][k] \in {disk[d][k], NoTable}
       /\ ~ InUse(d, n) => disk'[d] = disk[d]
  BY <1>7, <1>10, KeptRows
<1>13. DirRows'
  <2> SUFFICES ASSUME NEW u \in Tables, NEW k \in Keys
               PROVE  disk'[DirOf(u)][k] \in {u, NoTable}
    BY DEF DirRows
  <2>1. disk[DirOf(u)][k] \in {u, NoTable} /\ DirOf(u) \in Dirs
    BY DirFacts DEF EngineInv, DirRows
  <2> QED BY <1>12, <2>1
<1>14. \A f \in EngineIds : f # n => /\ Holders(f)' = Holders(f)
                                     /\ Registered(f)' <=> Registered(f)
  BY <1>2, <1>7, <1>8, TablesAssumption DEF Holders, Registered
<1>15. OneOwner'
  <2>1. ~ Registered(n)' /\ Holders(n)' = {c}
    BY <1>5, <1>7, <1>8 DEF Registered, Holders, Unused
  <2>2. \A f \in EngineIds : /\ engines[f].open <=> Registered(f) \/ Holders(f) # {}
                             /\ Registered(f) => Holders(f) = {}
                             /\ \A x, y \in Holders(f) : x = y
    BY DEF EngineInv, OneOwner
  <2>3. ASSUME NEW f \in EngineIds
        PROVE  /\ engines'[f].open <=> Registered(f)' \/ Holders(f)' # {}
               /\ Registered(f)' => Holders(f)' = {}
               /\ \A x, y \in Holders(f)' : x = y
    <3>1. CASE f = n
      BY <1>11, <2>1, <3>1
    <3>2. CASE f # n
      BY <1>11, <1>14, <2>2, <3>2
    <3> QED BY <3>1, <3>2
  <2> QED BY <2>3 DEF OneOwner
<1>16. OneTable'
  <2> SUFFICES ASSUME NEW e \in EngineIds, NEW u \in Tables, Uses(e, u)'
               PROVE  /\ engines'[e].home \in {DirOf(u), Memory}
                      /\ \A k \in Keys : engines'[e].rows[k] \in {u, NoTable}
                      /\ \A v \in Tables : Uses(e, v)' => v = u
    BY DEF OneTable
  <2>1. CASE e = n
    <3>1. \A v \in Tables : Uses(e, v)' => v = t
      BY <1>5, <1>7, <1>8, <2>1 DEF Uses, Unused
    <3>2. \A k \in Keys : disk[DirOf(t)][k] \in {t, NoTable}
      BY DEF EngineInv, DirRows
    <3> QED BY <1>3, <1>11, <2>1, <3>1, <3>2
  <2>2. CASE e # n
    <3>1. \A v \in Tables : Uses(e, v)' => Uses(e, v)
      BY <1>7, <1>8, <2>2 DEF Uses
    <3> QED BY <1>11, <2>2, <3>1 DEF EngineInv, OneTable
  <2> QED BY <2>1, <2>2
<1>17. Homes'
  <2>1. /\ engines'[Default] = engines[Default]
        /\ \A u \in Tables : lsm[u] # n /\ mem[u] # n
    BY <1>5, <1>6, <1>11 DEF Unused
  <2>2. \A u \in Tables : /\ lsm[u] \in EngineIds \cup {NoEngine}
                          /\ mem[u] \in EngineIds \cup {NoEngine}
    BY DEF EngineInv, StateTypes
  <2>3. ASSUME NEW f \in Clients, session'[f].pc = "register", session'[f].stmt = "lsm"
        PROVE  engines'[session'[f].engine].home = DirOf(session'[f].table)
    <3>1. CASE f = c
      BY <1>3, <1>8, <1>11, <3>1
    <3>2. CASE f # c
      <4>1. session[f].pc = "register" /\ session[f].stmt = "lsm" /\ session'[f] = session[f]
        BY <1>8, <2>3, <3>2
      <4>2. session[f].engine \in EngineIds /\ session[f].engine # n
        BY <1>5, <4>1 DEF EngineInv, SessionsShaped, Shaped, Unused
      <4> QED BY <1>11, <4>1, <4>2 DEF EngineInv, Homes
    <3> QED BY <3>1, <3>2
  <2> QED BY <1>7, <1>11, <2>1, <2>2, <2>3 DEF EngineInv, Homes
<1>18. OneOpen'
  <2> SUFFICES ASSUME NEW e \in EngineIds, NEW o \in EngineIds, e # o, engines'[e].open,
                      engines'[o].open, engines'[e].home = engines'[o].home
               PROVE  engines'[e].home \in shared' \cup {Memory}
    BY DEF OneOpen
  <2>1. CASE e = n
    <3>1. engines[o].open /\ engines[o].home = d
      BY <1>11, <2>1
    <3>2. InUse(d, n)
      BY <2>1, <3>1 DEF InUse
    <3> QED BY <1>7, <1>11, <2>1, <3>2
  <2>2. CASE o = n
    <3>1. engines[e].open /\ engines[e].home = d
      BY <1>11, <2>2
    <3>2. InUse(d, n)
      BY <2>2, <3>1 DEF InUse
    <3> QED BY <1>7, <1>11, <2>2, <3>2
  <2>3. CASE e # n /\ o # n
    BY <1>7, <1>11, <2>3 DEF EngineInv, OneOpen
  <2> QED BY <2>1, <2>2, <2>3
<1>19. StateTypes'
  BY <1>3, <1>7, <1>11, <1>12 DEF EngineInv, StateTypes
<1>20. DirsMade'
  BY <1>7, <1>8 DEF EngineInv, DirsMade
<1>21. EnginesSuffice'
  <2>1. Opening' \subseteq Opening \ {c} /\ n \in UnusedIds
    BY <1>5, <1>8 DEF Opening, UnusedIds
  <2>2. \A f \in EngineIds : f # n /\ Unused(f) => Unused(f)'
    BY <1>7, <1>8, <1>11 DEF Unused
  <2>3. UnusedIds \ {n} \subseteq UnusedIds'
    BY <2>2 DEF UnusedIds
  <2> QED BY <1>4, <2>1, <2>3, SufficeOne DEF EngineInv
<1>22. EngineInv'
  BY <1>9, <1>13, <1>15, <1>16, <1>17, <1>18, <1>19, <1>20, <1>21 DEF EngineInv
<1>23. ~ InUse(d, n) => disk' = disk
  <2>1. \A f \in Dirs : ~ InUse(d, n) => disk'[f] = disk[f]
    BY <1>12
  <2> QED BY <1>10, <1>12, <2>1
<1>24. \A u \in Tables : DirOf(u) \notin shared' => disk'[DirOf(u)] = disk[DirOf(u)]
  BY <1>7, <1>12, DirFacts
<1> QED BY <1>2, <1>3, <1>5, <1>7, <1>9, <1>11, <1>22, <1>23, <1>24

\* A memory engine is made and registered in one step, or the CREATE is refused.
LEMMA RegisterMemoryInv ==
  ASSUME EngineInv, NEW c \in Clients, RegisterMemory(c)
  PROVE  /\ EngineInv' /\ Others(c) /\ session[c].pc = "register" /\ session[c].stmt = "memory"
         /\ session[c].table \in Tables
         /\ \/ Ended(c) /\ mem' = mem /\ engines' = engines
            \/ \E n \in EngineIds :
                 /\ Unused(n) /\ Moved(c, "catalog", NoEngine)
                 /\ mem[session[c].table] = NoEngine
                 /\ mem' = [mem EXCEPT ![session[c].table] = n]
                 /\ \A e \in EngineIds \cup {Default} : e # n => engines'[e] = engines[e]
         /\ UNCHANGED <<catalog, file, lsm, dirs, disk, owed, crossed, shared>>
<1>1. session[c] \in Session /\ Shaped(session[c]) /\ session \in [Clients -> Session]
  BY OneShaped
<1>2. session[c].pc = "register" /\ session[c].stmt = "memory" /\ session[c].engine = NoEngine
  BY <1>1 DEF RegisterMemory, Shaped
<1>3. PICK t \in Tables : t = session[c].table
  BY <1>1 DEF RegisterMemory, Shaped
<1>4. c \in Opening
  BY <1>2 DEF Opening
<1>5. PICK n \in EngineIds : n = NewId /\ Unused(n)
  BY <1>4, NewIdUnused DEF EngineInv
<1>6. "catalog" \in Steps /\ n # NoEngine /\ n # Default
  BY TablesAssumption DEF Steps
<1>7. UNCHANGED <<catalog, file, lsm, dirs, disk, faults, restarts, owed, crossed, shared>>
  BY DEF RegisterMemory, diskVars, noteVars
<1>8. CASE mem[t] # NoEngine
  <2>1. session' \in [Clients -> Session] /\ Ended(c) /\ mem' = mem /\ engines' = engines
    BY <1>1, <1>3, <1>8, SessionMoves DEF RegisterMemory
  <2>2. UNCHANGED <<catalog, file, lsm, mem, engines, dirs, disk, faults, restarts, owed,
                    crossed, shared>>
    BY <1>7, <2>1
  <2>3. "catalog" \in {"catalog", "rollback", "unregisterMemory", "dropCatalog"}
    OBVIOUS
  <2>4. EngineInv' /\ Others(c)
    BY <1>2, <2>1, <2>2, <2>3, NoneInv
  <2> QED BY <1>2, <1>3, <1>7, <2>1, <2>4
<1>9. CASE mem[t] = NoEngine
  <2>1. /\ engines' = [engines EXCEPT ![n] = [home |-> Memory, open |-> TRUE, rows |-> NoRows]]
        /\ mem' = [mem EXCEPT ![t] = n]
        /\ session' \in [Clients -> Session] /\ Moved(c, "catalog", NoEngine)
    BY <1>1, <1>2, <1>3, <1>5, <1>6, <1>9, SessionMoves DEF RegisterMemory
  <2>2. /\ session'[c].pc = "catalog" /\ session'[c].stmt = "memory"
        /\ session'[c].engine = NoEngine
        /\ session'[c].table = t /\ session'[c].owe = session[c].owe
        /\ \A f \in Clients \ {c} : session'[f] = session[f]
    BY <1>2, <1>3, <2>1 DEF Moved
  <2>3. SessionsShaped' /\ Others(c)
    <3>1. Shaped(session'[c])
      BY <1>1, <1>2, <1>3, <2>2 DEF Shaped
    <3> QED BY <2>1, <2>2, <3>1 DEF EngineInv, SessionsShaped, Others
  <2>4. /\ engines \in [EngineIds \cup {Default} ->
                        [home : Dirs \cup {Memory}, open : BOOLEAN,
                         rows : [Keys -> Tables \cup {NoTable}]]]
        /\ lsm \in [Tables -> EngineIds \cup {NoEngine}]
        /\ mem \in [Tables -> EngineIds \cup {NoEngine}]
    BY DEF EngineInv, StateTypes
  <2>5. NoRows \in [Keys -> Tables \cup {NoTable}] /\ \A k \in Keys : NoRows[k] = NoTable
    BY DEF NoRows
  <2>6. /\ engines'[n].home = Memory /\ engines'[n].open /\ engines'[n].rows = NoRows
        /\ \A e \in EngineIds \cup {Default} : e # n => engines'[e] = engines[e]
        /\ engines' \in [EngineIds \cup {Default} ->
                         [home : Dirs \cup {Memory}, open : BOOLEAN,
                          rows : [Keys -> Tables \cup {NoTable}]]]
    BY <2>1, <2>4, <2>5
  <2>7. /\ mem'[t] = n /\ \A u \in Tables \ {t} : mem'[u] = mem[u]
        /\ mem' \in [Tables -> EngineIds \cup {NoEngine}]
        /\ \A u \in Tables : lsm[u] # n /\ mem[u] # n
        /\ \A f \in Clients : session[f].engine # n
    BY <1>5, <2>1, <2>4 DEF Unused
  <2>8. \A f \in EngineIds : f # n => /\ Holders(f)' = Holders(f)
                                      /\ Registered(f)' <=> Registered(f)
    <3> TAKE f \in EngineIds
    <3> HAVE f # n
    <3>1. Holders(f)' = Holders(f)
      BY <1>2, <2>2, TablesAssumption DEF Holders
    <3>2. \A u \in Tables : mem'[u] = f <=> mem[u] = f
      BY <1>9, <2>7, TablesAssumption
    <3>3. Registered(f)' <=> Registered(f)
      BY <1>7, <3>2 DEF Registered
    <3> QED BY <3>1, <3>3
  <2>9. OneOwner'
    <3>1. Registered(n)' /\ Holders(n)' = {}
      BY <1>6, <2>2, <2>7 DEF Registered, Holders
    <3>2. \A f \in EngineIds : /\ engines[f].open <=> Registered(f) \/ Holders(f) # {}
                               /\ Registered(f) => Holders(f) = {}
                               /\ \A x, y \in Holders(f) : x = y
      BY DEF EngineInv, OneOwner
    <3>3. ASSUME NEW f \in EngineIds
          PROVE  /\ engines'[f].open <=> Registered(f)' \/ Holders(f)' # {}
                 /\ Registered(f)' => Holders(f)' = {}
                 /\ \A x, y \in Holders(f)' : x = y
      <4>1. CASE f = n
        BY <2>6, <3>1, <4>1
      <4>2. CASE f # n
        BY <2>6, <2>8, <3>2, <4>2
      <4> QED BY <4>1, <4>2
    <3> QED BY <3>3 DEF OneOwner
  <2>10. OneTable'
    <3> SUFFICES ASSUME NEW e \in EngineIds, NEW u \in Tables, Uses(e, u)'
                 PROVE  /\ engines'[e].home \in {DirOf(u), Memory}
                        /\ \A k \in Keys : engines'[e].rows[k] \in {u, NoTable}
                        /\ \A v \in Tables : Uses(e, v)' => v = u
      BY DEF OneTable
    <3>1. CASE e = n
      <4>1. \A v \in Tables : Uses(e, v)' => v = t
        BY <1>6, <1>7, <2>2, <2>7, <3>1 DEF Uses
      <4> QED BY <2>5, <2>6, <3>1, <4>1
    <3>2. CASE e # n
      <4>1. \A v \in Tables : Uses(e, v)' => Uses(e, v)
        BY <1>7, <2>2, <2>7, <3>2, TablesAssumption DEF Uses
      <4> QED BY <2>6, <3>2, <4>1 DEF EngineInv, OneTable
    <3> QED BY <3>1, <3>2
  <2>11. Homes'
    <3>1. /\ engines'[Default] = engines[Default]
      BY <1>6, <2>6
    <3>2. \A u \in Tables : /\ lsm'[u] # NoEngine => engines'[lsm'[u]].home = DirOf(u)
                            /\ mem'[u] # NoEngine => engines'[mem'[u]].home = Memory
      BY <1>7, <2>4, <2>6, <2>7 DEF EngineInv, Homes
    <3>3. ASSUME NEW f \in Clients, session'[f].pc = "register", session'[f].stmt = "lsm"
          PROVE  engines'[session'[f].engine].home = DirOf(session'[f].table)
      <4>1. session[f].pc = "register" /\ session[f].stmt = "lsm" /\ session'[f] = session[f]
        BY <2>2, <3>3
      <4>2. session[f].engine \in EngineIds /\ session[f].engine # n
        BY <2>7, <4>1 DEF EngineInv, SessionsShaped, Shaped
      <4> QED BY <2>6, <4>1, <4>2 DEF EngineInv, Homes
    <3> QED BY <3>1, <3>2, <3>3 DEF EngineInv, Homes
  <2>12. OneOpen'
    BY <1>7, <2>6 DEF EngineInv, OneOpen
  <2>13. StateTypes'
    BY <1>7, <2>6, <2>7 DEF EngineInv, StateTypes
  <2>14. DirsMade' /\ DirRows'
    BY <1>7, <2>2 DEF EngineInv, DirsMade, DirRows
  <2>15. EnginesSuffice'
    <3>1. Opening' \subseteq Opening \ {c} /\ n \in UnusedIds
      BY <1>5, <2>2 DEF Opening, UnusedIds
    <3>2. \A f \in EngineIds : f # n /\ Unused(f) => Unused(f)'
      BY <1>7, <2>2, <2>6, <2>7, TablesAssumption DEF Unused
    <3>3. UnusedIds \ {n} \subseteq UnusedIds'
      BY <3>2 DEF UnusedIds
    <3> QED BY <1>4, <3>1, <3>3, SufficeOne DEF EngineInv
  <2>16. EngineInv'
    BY <2>3, <2>9, <2>10, <2>11, <2>12, <2>13, <2>14, <2>15 DEF EngineInv
  <2> QED BY <1>2, <1>3, <1>5, <1>7, <1>9, <2>1, <2>3, <2>6, <2>16
<1> QED BY <1>8, <1>9

\* A registered engine passes to the statement that is going to close it.
LEMMA TakeInv ==
  ASSUME EngineInv, NEW c \in Clients, NEW t \in Tables, NEW e \in EngineIds,
         NEW p \in Closing, session[c].table = t, session[c].engine = NoEngine,
         session[c].pc # "open", session[c].pc # "register",
         Moved(c, p, e), Shaped(session'[c]), session' \in [Clients -> Session],
         \/ lsm[t] = e /\ lsm' = [lsm EXCEPT ![t] = NoEngine] /\ mem' = mem
         \/ mem[t] = e /\ mem' = [mem EXCEPT ![t] = NoEngine] /\ lsm' = lsm,
         UNCHANGED <<catalog, file, engines, dirs, disk, faults, restarts, owed, crossed, shared>>
  PROVE  EngineInv' /\ Others(c)
<1>1. /\ session'[c].pc = p /\ session'[c].engine = e /\ session'[c].table = t
      /\ session'[c].stmt = session[c].stmt /\ p # "register" /\ p # "open"
      /\ \A d \in Clients \ {c} : session'[d] = session[d]
  BY DEF Moved, Closing
<1>2. SessionsShaped' /\ Others(c)
  BY <1>1, ShapeMoved DEF EngineInv, Others
<1>3. /\ lsm \in [Tables -> EngineIds \cup {NoEngine}]
      /\ mem \in [Tables -> EngineIds \cup {NoEngine}]
  BY DEF EngineInv, StateTypes
<1>4. /\ \A u \in Tables : /\ lsm'[u] \in {lsm[u], NoEngine}
                           /\ mem'[u] \in {mem[u], NoEngine}
                           /\ u # t => lsm'[u] = lsm[u] /\ mem'[u] = mem[u]
      /\ \A f \in EngineIds : f # e => /\ lsm'[t] = f <=> lsm[t] = f
                                       /\ mem'[t] = f <=> mem[t] = f
      /\ lsm[t] = e \/ mem[t] = e
  BY <1>3, TablesAssumption
<1>5. Uses(e, t) /\ Registered(e)
  BY <1>4 DEF Uses, Registered
<1>6. lsm'[t] # e /\ mem'[t] # e
  <2>1. ~ (lsm[t] = e /\ mem[t] = e)
    BY DirFacts, TablesAssumption DEF EngineInv, Homes
  <2> QED BY <1>3, <2>1, TablesAssumption
<1>7. ~ Registered(e)'
  <2>1. \A u \in Tables : Uses(e, u) => u = t
    BY <1>5 DEF EngineInv, OneTable
  <2>2. \A u \in Tables : u # t => lsm[u] # e /\ mem[u] # e
    BY <2>1 DEF Uses
  <2> QED BY <1>4, <1>6, <2>2 DEF Registered
<1>8. Holders(e)' = {c}
  <2>1. Holders(e) = {}
    BY <1>5 DEF EngineInv, OneOwner
  <2> QED BY <1>1, <2>1 DEF Holders
<1>9. \A f \in EngineIds : f # e => /\ Holders(f)' = Holders(f)
                                    /\ Registered(f)' <=> Registered(f)
  <2> TAKE f \in EngineIds
  <2> HAVE f # e
  <2>1. Holders(f)' = Holders(f)
    BY <1>1, TablesAssumption DEF Holders
  <2>2. Registered(f)' <=> Registered(f)
    BY <1>4 DEF Registered
  <2> QED BY <2>1, <2>2
<1>10. OneOwner'
  <2>1. \A f \in EngineIds : /\ engines[f].open <=> Registered(f) \/ Holders(f) # {}
                             /\ Registered(f) => Holders(f) = {}
                             /\ \A x, y \in Holders(f) : x = y
    BY DEF EngineInv, OneOwner
  <2>2. ASSUME NEW f \in EngineIds
        PROVE  /\ engines'[f].open <=> Registered(f)' \/ Holders(f)' # {}
               /\ Registered(f)' => Holders(f)' = {}
               /\ \A x, y \in Holders(f)' : x = y
    <3>1. CASE f = e
      BY <1>5, <1>7, <1>8, <2>1, <3>1
    <3>2. CASE f # e
      BY <1>9, <2>1, <3>2
    <3> QED BY <3>1, <3>2
  <2> QED BY <2>2 DEF OneOwner
<1>11. \A f \in EngineIds, u \in Tables : Uses(f, u)' => Uses(f, u)
  BY <1>1, <1>4, <1>5, TablesAssumption DEF Uses
<1>12. OneTable'
  BY <1>11 DEF EngineInv, OneTable
<1>13. Homes'
  BY <1>1, <1>4 DEF EngineInv, Homes
<1>14. OneOpen' /\ DirRows' /\ DirsMade'
  BY <1>1 DEF EngineInv, OneOpen, DirRows, DirsMade
<1>15. StateTypes'
  BY DEF EngineInv, StateTypes
<1>16. EnginesSuffice'
  <2>1. Opening' \subseteq Opening
    BY <1>1 DEF Opening
  <2>2. ASSUME NEW f \in EngineIds, Unused(f)
        PROVE  Unused(f)'
    <3>1. f # e
      BY <1>4, <2>2 DEF Unused
    <3> QED BY <1>1, <1>4, <2>2, <3>1, TablesAssumption DEF Unused
  <2> QED BY <2>1, <2>2, SufficeLess DEF EngineInv, UnusedIds
<1> QED BY <1>2, <1>10, <1>12, <1>13, <1>14, <1>15, <1>16 DEF EngineInv

\* The step of a CREATE that rolls back, of either kind of table.
LEMMA RollbackInv ==
  ASSUME EngineInv, NEW c \in Clients, Rollback(c)
  PROVE  /\ EngineInv' /\ Others(c) /\ session[c].pc = "rollback"
         /\ session[c].table \in Tables
         /\ session[c].stmt = "lsm" =>
              /\ mem' = mem
              /\ \/ lsm[session[c].table] = NoEngine /\ lsm' = lsm /\ Ended(c)
                 \/ /\ lsm' = [lsm EXCEPT ![session[c].table] = NoEngine]
                    /\ lsm[session[c].table] # NoEngine
                    /\ Moved(c, "close", lsm[session[c].table])
         /\ session[c].stmt = "memory" =>
              /\ lsm' = lsm
              /\ \/ mem[session[c].table] = NoEngine /\ mem' = mem /\ Ended(c)
                 \/ /\ mem' = [mem EXCEPT ![session[c].table] = NoEngine]
                    /\ mem[session[c].table] # NoEngine
                    /\ Moved(c, "close", mem[session[c].table])
         /\ session[c].stmt \in {"lsm", "memory"}
         /\ UNCHANGED <<catalog, file, engines, dirs, disk, owed, crossed, shared>>
<1>1. session[c] \in Session /\ Shaped(session[c]) /\ session \in [Clients -> Session]
  BY OneShaped
<1>2. PICK t \in Tables : t = session[c].table
  BY <1>1 DEF Rollback, Shaped
<1>3. /\ session[c].pc = "rollback" /\ session[c].stmt \in {"lsm", "memory"}
      /\ session[c].engine = NoEngine
  BY <1>1 DEF Rollback, Shaped
<1>4. UNCHANGED <<catalog, file, engines, dirs, disk, faults, restarts, owed, crossed, shared>>
  BY DEF Rollback, TakeLSM, TakeMemory, diskVars, noteVars
<1>5. /\ lsm[t] \in EngineIds \cup {NoEngine} /\ mem[t] \in EngineIds \cup {NoEngine}
      /\ "close" \in Steps /\ "close" \in Closing
  BY DEF EngineInv, StateTypes, Steps, Closing
<1>6. \/ session[c].stmt = "lsm" /\ TakeLSM(c, Done(c), "close")
      \/ session[c].stmt = "memory" /\ TakeMemory(c, Done(c), "close")
  BY DEF Rollback
<1>7. CASE /\ session[c].stmt = "lsm" /\ lsm[t] = NoEngine
           /\ Done(c) /\ lsm' = lsm /\ mem' = mem
  <2>1. session' \in [Clients -> Session] /\ Ended(c)
    BY <1>1, <1>7, SessionMoves
  <2>2. UNCHANGED <<catalog, file, lsm, mem, engines, dirs, disk, faults, restarts, owed,
                    crossed, shared>>
    BY <1>4, <1>7
  <2>3. EngineInv' /\ Others(c)
    BY <1>3, <2>1, <2>2, NoneInv
  <2> QED BY <1>2, <1>3, <1>4, <1>7, <2>1, <2>3
<1>8. CASE /\ session[c].stmt = "memory" /\ mem[t] = NoEngine
           /\ Done(c) /\ lsm' = lsm /\ mem' = mem
  <2>1. session' \in [Clients -> Session] /\ Ended(c)
    BY <1>1, <1>8, SessionMoves
  <2>2. UNCHANGED <<catalog, file, lsm, mem, engines, dirs, disk, faults, restarts, owed,
                    crossed, shared>>
    BY <1>4, <1>8
  <2>3. EngineInv' /\ Others(c)
    BY <1>3, <2>1, <2>2, NoneInv
  <2> QED BY <1>2, <1>3, <1>4, <1>8, <2>1, <2>3
<1>9. \A e \in EngineIds : Hold(c, "close", e) =>
        /\ session' \in [Clients -> Session] /\ Moved(c, "close", e) /\ Shaped(session'[c])
  <2> TAKE e \in EngineIds
  <2> HAVE Hold(c, "close", e)
  <2>1. session' \in [Clients -> Session] /\ Moved(c, "close", e)
    BY <1>1, <1>5, SessionMoves
  <2>2. Shaped(session'[c])
    BY <1>1, <1>2, <1>3, <2>1 DEF Shaped, Moved
  <2> QED BY <2>1, <2>2
<1>10. CASE /\ session[c].stmt = "lsm" /\ lsm[t] # NoEngine /\ mem' = mem
            /\ Hold(c, "close", lsm[t]) /\ lsm' = [lsm EXCEPT ![t] = NoEngine]
  <2>1. PICK e \in EngineIds : e = lsm[t]
    BY <1>5, <1>10
  <2>2. session' \in [Clients -> Session] /\ Moved(c, "close", e) /\ Shaped(session'[c])
    BY <1>9, <1>10, <2>1
  <2>3. EngineInv' /\ Others(c)
    BY <1>2, <1>3, <1>4, <1>5, <1>10, <2>1, <2>2, TakeInv
  <2> QED BY <1>2, <1>3, <1>4, <1>10, <2>1, <2>2, <2>3
<1>11. CASE /\ session[c].stmt = "memory" /\ mem[t] # NoEngine /\ lsm' = lsm
            /\ Hold(c, "close", mem[t]) /\ mem' = [mem EXCEPT ![t] = NoEngine]
  <2>1. PICK e \in EngineIds : e = mem[t]
    BY <1>5, <1>11
  <2>2. session' \in [Clients -> Session] /\ Moved(c, "close", e) /\ Shaped(session'[c])
    BY <1>9, <1>11, <2>1
  <2>3. EngineInv' /\ Others(c)
    BY <1>2, <1>3, <1>4, <1>5, <1>11, <2>1, <2>2, TakeInv
  <2> QED BY <1>2, <1>3, <1>4, <1>11, <2>1, <2>2, <2>3
<1>12. \/ /\ session[c].stmt = "lsm" /\ lsm[t] = NoEngine
          /\ Done(c) /\ lsm' = lsm /\ mem' = mem
       \/ /\ session[c].stmt = "memory" /\ mem[t] = NoEngine
          /\ Done(c) /\ lsm' = lsm /\ mem' = mem
       \/ /\ session[c].stmt = "lsm" /\ lsm[t] # NoEngine /\ mem' = mem
          /\ Hold(c, "close", lsm[t]) /\ lsm' = [lsm EXCEPT ![t] = NoEngine]
       \/ /\ session[c].stmt = "memory" /\ mem[t] # NoEngine /\ lsm' = lsm
          /\ Hold(c, "close", mem[t]) /\ mem' = [mem EXCEPT ![t] = NoEngine]
  BY <1>2, <1>6 DEF TakeLSM, TakeMemory
<1> QED BY <1>7, <1>8, <1>10, <1>11, <1>12

\* The first of the two steps of a DROP that take the table's engines.
LEMMA UnregisterLSMInv ==
  ASSUME EngineInv, NEW c \in Clients, UnregisterLSM(c)
  PROVE  /\ EngineInv' /\ Others(c) /\ session[c].pc = "unregisterLSM"
         /\ session[c].stmt = "drop" /\ session[c].table \in Tables
         /\ \/ /\ lsm[session[c].table] = NoEngine /\ lsm' = lsm
               /\ Moved(c, "unregisterMemory", NoEngine)
            \/ /\ lsm[session[c].table] # NoEngine
               /\ lsm' = [lsm EXCEPT ![session[c].table] = NoEngine]
               /\ Moved(c, "closeLSM", lsm[session[c].table])
         /\ UNCHANGED <<catalog, file, mem, engines, dirs, disk, owed, crossed, shared>>
<1>1. session[c] \in Session /\ Shaped(session[c]) /\ session \in [Clients -> Session]
  BY OneShaped
<1>2. PICK t \in Tables : t = session[c].table
  BY <1>1 DEF UnregisterLSM, Shaped
<1>3. /\ session[c].pc = "unregisterLSM" /\ session[c].stmt = "drop"
      /\ session[c].engine = NoEngine
  BY <1>1 DEF UnregisterLSM, Shaped
<1>4. UNCHANGED <<catalog, file, mem, engines, dirs, disk, faults, restarts, owed, crossed,
                  shared>>
  BY DEF UnregisterLSM, TakeLSM, diskVars, noteVars
<1>5. /\ lsm[t] \in EngineIds \cup {NoEngine}
      /\ "closeLSM" \in Steps /\ "closeLSM" \in Closing /\ "unregisterMemory" \in Steps
  BY DEF EngineInv, StateTypes, Steps, Closing
<1>6. \/ lsm[t] = NoEngine /\ Goto(c, "unregisterMemory") /\ lsm' = lsm
      \/ lsm[t] # NoEngine /\ Hold(c, "closeLSM", lsm[t]) /\ lsm' = [lsm EXCEPT ![t] = NoEngine]
  BY <1>2 DEF UnregisterLSM, TakeLSM
<1>7. CASE lsm[t] = NoEngine /\ Goto(c, "unregisterMemory") /\ lsm' = lsm
  <2>1. session' \in [Clients -> Session] /\ Moved(c, "unregisterMemory", NoEngine)
    BY <1>1, <1>3, <1>5, <1>7, SessionMoves
  <2>2. Shaped(session'[c])
    BY <1>1, <1>2, <1>3, <2>1 DEF Shaped, Moved
  <2>3. UNCHANGED <<catalog, file, lsm, mem, engines, dirs, disk, faults, restarts, owed,
                    crossed, shared>>
    BY <1>4, <1>7
  <2>4. "unregisterMemory" \in {"catalog", "rollback", "unregisterMemory", "dropCatalog"}
    OBVIOUS
  <2>5. EngineInv' /\ Others(c)
    BY <1>3, <2>1, <2>2, <2>3, <2>4, NoneInv
  <2> QED BY <1>2, <1>3, <1>4, <1>7, <2>1, <2>5
<1>8. CASE /\ lsm[t] # NoEngine /\ Hold(c, "closeLSM", lsm[t])
           /\ lsm' = [lsm EXCEPT ![t] = NoEngine]
  <2>1. PICK e \in EngineIds : e = lsm[t]
    BY <1>5, <1>8
  <2>2. session' \in [Clients -> Session] /\ Moved(c, "closeLSM", e)
    BY <1>1, <1>5, <1>8, <2>1, SessionMoves
  <2>3. Shaped(session'[c])
    BY <1>1, <1>2, <1>3, <2>2 DEF Shaped, Moved
  <2>4. EngineInv' /\ Others(c)
    BY <1>2, <1>3, <1>4, <1>5, <1>8, <2>1, <2>2, <2>3, TakeInv
  <2> QED BY <1>2, <1>3, <1>4, <1>8, <2>1, <2>2, <2>4
<1> QED BY <1>6, <1>7, <1>8

\* The second one takes the memory engine.
LEMMA UnregisterMemoryInv ==
  ASSUME EngineInv, NEW c \in Clients, UnregisterMemory(c)
  PROVE  /\ EngineInv' /\ Others(c) /\ session[c].pc = "unregisterMemory"
         /\ session[c].stmt = "drop" /\ session[c].table \in Tables
         /\ \/ /\ mem[session[c].table] = NoEngine /\ mem' = mem
               /\ Moved(c, "dropCatalog", NoEngine)
            \/ /\ mem[session[c].table] # NoEngine
               /\ mem' = [mem EXCEPT ![session[c].table] = NoEngine]
               /\ Moved(c, "closeMemory", mem[session[c].table])
         /\ UNCHANGED <<catalog, file, lsm, engines, dirs, disk, owed, crossed, shared>>
<1>1. session[c] \in Session /\ Shaped(session[c]) /\ session \in [Clients -> Session]
  BY OneShaped
<1>2. PICK t \in Tables : t = session[c].table
  BY <1>1 DEF UnregisterMemory, Shaped
<1>3. /\ session[c].pc = "unregisterMemory" /\ session[c].stmt = "drop"
      /\ session[c].engine = NoEngine
  BY <1>1 DEF UnregisterMemory, Shaped
<1>4. UNCHANGED <<catalog, file, lsm, engines, dirs, disk, faults, restarts, owed, crossed,
                  shared>>
  BY DEF UnregisterMemory, TakeMemory, diskVars, noteVars
<1>5. /\ mem[t] \in EngineIds \cup {NoEngine}
      /\ "closeMemory" \in Steps /\ "closeMemory" \in Closing /\ "dropCatalog" \in Steps
  BY DEF EngineInv, StateTypes, Steps, Closing
<1>6. \/ mem[t] = NoEngine /\ Goto(c, "dropCatalog") /\ mem' = mem
      \/ /\ mem[t] # NoEngine /\ Hold(c, "closeMemory", mem[t])
         /\ mem' = [mem EXCEPT ![t] = NoEngine]
  BY <1>2 DEF UnregisterMemory, TakeMemory
<1>7. CASE mem[t] = NoEngine /\ Goto(c, "dropCatalog") /\ mem' = mem
  <2>1. session' \in [Clients -> Session] /\ Moved(c, "dropCatalog", NoEngine)
    BY <1>1, <1>3, <1>5, <1>7, SessionMoves
  <2>2. Shaped(session'[c])
    BY <1>1, <1>2, <1>3, <2>1 DEF Shaped, Moved
  <2>3. UNCHANGED <<catalog, file, lsm, mem, engines, dirs, disk, faults, restarts, owed,
                    crossed, shared>>
    BY <1>4, <1>7
  <2>4. "dropCatalog" \in {"catalog", "rollback", "unregisterMemory", "dropCatalog"}
    OBVIOUS
  <2>5. EngineInv' /\ Others(c)
    BY <1>3, <2>1, <2>2, <2>3, <2>4, NoneInv
  <2> QED BY <1>2, <1>3, <1>4, <1>7, <2>1, <2>5
<1>8. CASE /\ mem[t] # NoEngine /\ Hold(c, "closeMemory", mem[t])
           /\ mem' = [mem EXCEPT ![t] = NoEngine]
  <2>1. PICK e \in EngineIds : e = mem[t]
    BY <1>5, <1>8
  <2>2. session' \in [Clients -> Session] /\ Moved(c, "closeMemory", e)
    BY <1>1, <1>5, <1>8, <2>1, SessionMoves
  <2>3. Shaped(session'[c])
    BY <1>1, <1>2, <1>3, <2>2 DEF Shaped, Moved
  <2>4. EngineInv' /\ Others(c)
    BY <1>2, <1>3, <1>4, <1>5, <1>8, <2>1, <2>2, <2>3, TakeInv
  <2> QED BY <1>2, <1>3, <1>4, <1>8, <2>1, <2>2, <2>4
<1> QED BY <1>6, <1>7, <1>8

\* The only owner of an engine closes it.
LEMMA CloseEngineInv ==
  ASSUME EngineInv, NEW c \in Clients, CloseEngine(c)
  PROVE  /\ EngineInv' /\ Others(c) /\ session[c].pc \in Closing
         /\ session[c].table \in Tables /\ session[c].engine \in EngineIds
         /\ ~ Registered(session[c].engine)
         /\ session[c].pc = "close" => Ended(c)
         /\ session[c].pc = "closeLSM" => Moved(c, "unregisterMemory", NoEngine)
         /\ session[c].pc = "closeMemory" => Moved(c, "dropCatalog", NoEngine)
         /\ \A e \in EngineIds \cup {Default} : e # session[c].engine => engines'[e] = engines[e]
         /\ \A t \in Tables : DirOf(t) \notin shared => disk'[DirOf(t)] = disk[DirOf(t)]
         /\ UNCHANGED <<catalog, file, lsm, mem, dirs, owed, crossed, shared>>
<1>1. session[c] \in Session /\ Shaped(session[c]) /\ session \in [Clients -> Session]
  BY OneShaped
<1>2. session[c].pc \in Closing
  BY DEF CloseEngine
<1>3. PICK t \in Tables, e \in EngineIds : t = session[c].table /\ e = session[c].engine
  BY <1>1, <1>2 DEF Shaped, Closing
<1>4. /\ "unregisterMemory" \in Steps /\ "dropCatalog" \in Steps /\ e # Default
  BY <1>3, TablesAssumption DEF Steps
<1>5. /\ UNCHANGED <<catalog, file, lsm, mem, dirs, faults, restarts, owed, crossed, shared>>
  BY DEF CloseEngine, mapVars, noteVars
<1>6. /\ session' \in [Clients -> Session]
      /\ session[c].pc = "close" => Ended(c)
      /\ session[c].pc = "closeLSM" => Moved(c, "unregisterMemory", NoEngine)
      /\ session[c].pc = "closeMemory" => Moved(c, "dropCatalog", NoEngine)
  BY <1>1, <1>2, <1>4, SessionMoves DEF CloseEngine, Closing
<1>7. /\ session'[c].engine = NoEngine /\ session'[c].pc \notin {"open", "register"}
      /\ session'[c].stmt = "lsm" => session[c].stmt = "lsm" /\ session'[c].table = t
      /\ \A d \in Clients \ {c} : session'[d] = session[d]
  BY <1>2, <1>3, <1>6 DEF Closing, Moved, Ended, Idle
<1>8. SessionsShaped' /\ Others(c)
  <2>1. CASE Ended(c)
    BY <1>6, <2>1, ShapeEnded DEF EngineInv, Ended, Others
  <2>2. CASE Moved(c, "unregisterMemory", NoEngine) /\ session[c].pc = "closeLSM"
    <3>1. Shaped(session'[c])
      BY <1>1, <1>3, <2>2 DEF Shaped, Moved
    <3> QED BY <1>6, <1>7, <2>2, <3>1, ShapeMoved DEF EngineInv, Others
  <2>3. CASE Moved(c, "dropCatalog", NoEngine) /\ session[c].pc = "closeMemory"
    <3>1. Shaped(session'[c])
      BY <1>1, <1>3, <2>3 DEF Shaped, Moved
    <3> QED BY <1>6, <1>7, <2>3, <3>1, ShapeMoved DEF EngineInv, Others
  <2> QED BY <1>2, <1>6, <2>1, <2>2, <2>3 DEF Closing
<1>9. c \in Holders(e)
  BY <1>2, <1>3 DEF Holders
<1>10. Holders(e) = {c} /\ ~ Registered(e) /\ engines[e].open
  BY <1>9 DEF EngineInv, OneOwner
<1>11. /\ engines \in [EngineIds \cup {Default} ->
                       [home : Dirs \cup {Memory}, open : BOOLEAN,
                        rows : [Keys -> Tables \cup {NoTable}]]]
       /\ disk \in [Dirs -> [Keys -> Tables \cup {NoTable}]]
  BY DEF EngineInv, StateTypes
<1>12. \/ /\ engines[e].home = Memory /\ engines' = [engines EXCEPT ![e] = Closed]
          /\ disk' = disk
       \/ /\ engines[e].home # Memory /\ engines' = [engines EXCEPT ![e].open = FALSE]
          /\ DiskBecomes(engines[e].home, e, disk[engines[e].home])
  BY <1>3 DEF CloseEngine
<1>13. /\ ~ engines'[e].open
       /\ engines'[e].home \in {engines[e].home, Memory}
       /\ \A k \in Keys : engines'[e].rows[k] \in {engines[e].rows[k], NoTable}
       /\ \A f \in EngineIds \cup {Default} : f # e => engines'[f] = engines[f]
       /\ engines' \in [EngineIds \cup {Default} ->
                        [home : Dirs \cup {Memory}, open : BOOLEAN,
                         rows : [Keys -> Tables \cup {NoTable}]]]
  <2>1. /\ Closed \in [home : Dirs \cup {Memory}, open : BOOLEAN,
                       rows : [Keys -> Tables \cup {NoTable}]]
        /\ Closed.home = Memory /\ Closed.open = FALSE /\ \A k \in Keys : Closed.rows[k] = NoTable
    BY DEF Closed, NoRows
  <2>2. CASE engines' = [engines EXCEPT ![e] = Closed]
    BY <1>11, <2>1, <2>2
  <2>3. CASE engines' = [engines EXCEPT ![e].open = FALSE]
    BY <1>11, <2>3
  <2> QED BY <1>12, <2>2, <2>3
<1>14. /\ disk' \in [Dirs -> [Keys -> Tables \cup {NoTable}]]
       /\ \A f \in Dirs, k \in Keys : disk'[f][k] \in {disk[f][k], NoTable}
       /\ \A f \in Dirs : f \notin shared => disk'[f] = disk[f]
  <2>1. CASE disk' = disk
    BY <1>11, <2>1
  <2>2. CASE /\ engines[e].home # Memory
             /\ DiskBecomes(engines[e].home, e, disk[engines[e].home])
    <3>1. PICK d \in Dirs : d = engines[e].home /\ DiskBecomes(d, e, disk[d])
      BY <1>11, <2>2
    <3>2. /\ disk' \in [Dirs -> [Keys -> Tables \cup {NoTable}]]
          /\ \A f \in Dirs \ {d} : disk'[f] = disk[f]
          /\ \A k \in Keys : disk'[d][k] \in {disk[d][k], NoTable}
          /\ ~ InUse(d, e) => disk'[d] = disk[d]
      BY <1>11, <3>1, KeptRows
    <3>3. d \notin shared => ~ InUse(d, e)
      BY <1>10, <2>2, <3>1 DEF InUse, EngineInv, OneOpen
    <3> QED BY <3>2, <3>3
  <2> QED BY <1>12, <2>1, <2>2
<1>15. DirRows'
  BY <1>14, DirFacts DEF EngineInv, DirRows
<1>16. \A f \in EngineIds : f # e => /\ Holders(f)' = Holders(f)
                                     /\ Registered(f)' <=> Registered(f)
  BY <1>3, <1>5, <1>7, TablesAssumption DEF Holders, Registered
<1>17. OneOwner'
  <2>1. \A f \in EngineIds : /\ engines[f].open <=> Registered(f) \/ Holders(f) # {}
                             /\ Registered(f) => Holders(f) = {}
                             /\ \A x, y \in Holders(f) : x = y
    BY DEF EngineInv, OneOwner
  <2>2. ~ Registered(e)' /\ Holders(e)' = {}
    BY <1>5, <1>7, <1>10, TablesAssumption DEF Registered, Holders
  <2>3. ASSUME NEW f \in EngineIds
        PROVE  /\ engines'[f].open <=> Registered(f)' \/ Holders(f)' # {}
               /\ Registered(f)' => Holders(f)' = {}
               /\ \A x, y \in Holders(f)' : x = y
    <3>1. CASE f = e
      BY <1>13, <2>2, <3>1
    <3>2. CASE f # e
      BY <1>13, <1>16, <2>1, <3>2
    <3> QED BY <3>1, <3>2
  <2> QED BY <2>3 DEF OneOwner
<1>18. \A f \in EngineIds, u \in Tables : Uses(f, u)' => Uses(f, u)
  BY <1>5, <1>7, TablesAssumption DEF Uses
<1>19. OneTable'
  <2> SUFFICES ASSUME NEW f \in EngineIds, NEW u \in Tables, Uses(f, u)'
               PROVE  /\ engines'[f].home \in {DirOf(u), Memory}
                      /\ \A k \in Keys : engines'[f].rows[k] \in {u, NoTable}
                      /\ \A v \in Tables : Uses(f, v)' => v = u
    BY DEF OneTable
  <2>1. Uses(f, u)
    BY <1>18
  <2>2. /\ engines[f].home \in {DirOf(u), Memory}
        /\ \A k \in Keys : engines[f].rows[k] \in {u, NoTable}
        /\ \A v \in Tables : Uses(f, v) => v = u
    BY <2>1 DEF EngineInv, OneTable
  <2> QED BY <1>13, <1>18, <2>2
<1>20. Homes'
  <2>1. \A u \in Tables : lsm[u] # e /\ mem[u] # e
    BY <1>10 DEF Registered
  <2>2. ASSUME NEW f \in Clients, session'[f].pc = "register", session'[f].stmt = "lsm"
        PROVE  engines'[session'[f].engine].home = DirOf(session'[f].table)
    <3>1. f # c /\ session'[f] = session[f]
      BY <1>7, <2>2
    <3>2. session[f].engine \in EngineIds
      BY <2>2, <3>1 DEF EngineInv, SessionsShaped, Shaped
    <3>3. session[f].engine # e
      BY <1>10, <2>2, <3>1 DEF Holders
    <3> QED BY <1>13, <2>2, <3>1, <3>2, <3>3 DEF EngineInv, Homes
  <2>3. \A u \in Tables : /\ lsm[u] \in EngineIds \cup {NoEngine}
                          /\ mem[u] \in EngineIds \cup {NoEngine}
    BY DEF EngineInv, StateTypes
  <2> QED BY <1>4, <1>5, <1>13, <2>1, <2>2, <2>3 DEF EngineInv, Homes
<1>21. OneOpen'
  BY <1>5, <1>13 DEF EngineInv, OneOpen
<1>22. StateTypes'
  BY <1>5, <1>13, <1>14 DEF EngineInv, StateTypes
<1>23. DirsMade'
  <2>1. session[c].pc # "open"
    BY <1>2 DEF Closing
  <2> QED BY <1>3, <1>5, <1>7, <2>1 DEF EngineInv, DirsMade
<1>24. EnginesSuffice'
  <2>1. Opening' \subseteq Opening
    BY <1>7 DEF Opening
  <2>2. ASSUME NEW f \in EngineIds, Unused(f)
        PROVE  Unused(f)'
    <3>1. f # e
      BY <1>3, <2>2 DEF Unused
    <3> QED BY <1>5, <1>7, <1>13, <2>2, <3>1, TablesAssumption DEF Unused
  <2> QED BY <2>1, <2>2, SufficeLess DEF EngineInv, UnusedIds
<1>25. EngineInv'
  BY <1>8, <1>15, <1>17, <1>19, <1>20, <1>21, <1>22, <1>23, <1>24 DEF EngineInv
<1> QED BY <1>2, <1>3, <1>5, <1>6, <1>8, <1>10, <1>13, <1>14, <1>25, DirFacts

\* A restart: no statement is left, and the tables that are recovered have an engine each.
LEMMA RestartInv ==
  ASSUME EngineInv, Restart
  PROVE  /\ EngineInv' /\ catalog' = file /\ file' = file /\ disk' = disk /\ shared' = shared
         /\ \A c \in Clients : session'[c] = Idle
         /\ \A t \in Tables : /\ mem'[t] = NoEngine
                              /\ file[t] # "lsm" => lsm'[t] = NoEngine
                              /\ file[t] = "lsm" => /\ lsm'[t] # NoEngine
                                                    /\ engines'[lsm'[t]].rows = disk[DirOf(t)]
         /\ \A t \in Tables : owed'[t] = IF file[t] = "lsm" THEN owed[t] ELSE {}
         /\ crossed' = {t \in crossed : file[t] # "absent"} \cup {t \in Tables : file[t] = "memory"}
<1>1. /\ \A t \in Recovered : /\ lsm'[t] \in EngineIds /\ engines'[lsm'[t]] = OpenedOn(DirOf(t))
                              /\ \A u \in Tables : lsm'[u] = lsm'[t] => u = t
      /\ \A t \in Tables \ Recovered : lsm'[t] = NoEngine
      /\ \A e \in EngineIds : engines'[e] = Closed \/ \E t \in Recovered : lsm'[t] = e
      /\ engines'[Default] = OpenedOn(RootDir)
      /\ DOMAIN engines' = EngineIds \cup {Default}
  BY RestartEngines
<1>2. /\ restarts < MaxRestarts /\ restarts' = restarts + 1 /\ catalog' = file
      /\ mem' = [t \in Tables |-> NoEngine]
      /\ session' = [c \in Clients |-> Idle]
      /\ owed' = [t \in Tables |-> IF file[t] = "lsm" THEN owed[t] ELSE {}]
      /\ crossed' = {t \in crossed : file[t] # "absent"} \cup {t \in Tables : file[t] = "memory"}
      /\ UNCHANGED <<file, dirs, disk, faults, shared>>
  BY DEF Restart, diskVars
<1>3. /\ file \in [Tables -> {"absent", "lsm", "memory"}]
      /\ disk \in [Dirs -> [Keys -> Tables \cup {NoTable}]]
      /\ crossed \subseteq Tables /\ owed \in [Tables -> SUBSET Keys] /\ restarts \in 0..MaxRestarts
      /\ dirs \subseteq Tables /\ shared \subseteq Dirs /\ faults \in 0..MaxFaults
  BY DEF EngineInv, StateTypes
<1>4. \A t \in Tables : t \in Recovered <=> file[t] = "lsm"
  BY DEF Recovered, EngineInv, DirsMade
<1>5. Recovered \subseteq Tables
  BY DEF Recovered
<1>6. \A d \in Dirs : /\ OpenedOn(d).home = d /\ OpenedOn(d).open = TRUE
                      /\ OpenedOn(d).rows = disk[d]
                      /\ OpenedOn(d) \in [home : Dirs \cup {Memory}, open : BOOLEAN,
                                          rows : [Keys -> Tables \cup {NoTable}]]
  BY <1>3 DEF OpenedOn
<1>7. /\ Closed \in [home : Dirs \cup {Memory}, open : BOOLEAN,
                     rows : [Keys -> Tables \cup {NoTable}]]
      /\ Closed.home = Memory /\ Closed.open = FALSE
  BY DEF Closed, NoRows
<1>8. SessionsShaped'
  <2>1. Idle \in Session /\ Shaped(Idle)
    BY DEF Idle, Session, Steps, Shaped, DDL
  <2> QED BY <1>2, <2>1 DEF SessionsShaped
<1>9. \A c \in Clients : session'[c] = Idle
  BY <1>2
<1>10. /\ Idle.engine = NoEngine /\ Idle.pc = "idle" /\ Idle.stmt = "none"
  BY DEF Idle
<1>11. \A t \in Recovered : /\ engines'[lsm'[t]].home = DirOf(t) /\ engines'[lsm'[t]].open = TRUE
                            /\ engines'[lsm'[t]].rows = disk[DirOf(t)]
  BY <1>1, <1>5, <1>6, DirFacts
<1>12. StateTypes'
  <2>1. lsm' \in [Tables -> EngineIds \cup {NoEngine}]
    <3>1. \A t \in Tables : lsm'[t] \in EngineIds \cup {NoEngine}
      BY <1>1
    <3>2. lsm' = [t \in Tables |-> IF t \in Recovered THEN RecoveredAs[t] ELSE NoEngine]
      BY DEF Restart
    <3> QED BY <3>1, <3>2
  <2>2. engines' \in [EngineIds \cup {Default} ->
                      [home : Dirs \cup {Memory}, open : BOOLEAN,
                       rows : [Keys -> Tables \cup {NoTable}]]]
    <3>1. \A e \in EngineIds \cup {Default} :
            engines'[e] \in [home : Dirs \cup {Memory}, open : BOOLEAN,
                             rows : [Keys -> Tables \cup {NoTable}]]
      BY <1>1, <1>5, <1>6, <1>7, DirFacts
    <3>2. \E f : engines' = [e \in EngineIds \cup {Default} |-> f[e]]
      <4>1. engines' = [e \in EngineIds \cup {Default} |-> engines'[e]]
        BY DEF Restart
      <4> QED BY <4>1
    <3> QED BY <3>1, <3>2
  <2>3. restarts' \in 0..MaxRestarts
    BY <1>2, <1>3, TablesAssumption
  <2> QED BY <1>2, <1>3, <2>1, <2>2, <2>3 DEF StateTypes
<1>13. Homes'
  <2>1. engines'[Default].open /\ engines'[Default].home = RootDir
    BY <1>1, <1>6, DirFacts
  <2> QED BY <1>1, <1>2, <1>9, <1>10, <1>11, <2>1 DEF Homes
<1>14. OneOwner'
  <2>1. \A e \in EngineIds : Holders(e)' = {}
    BY <1>9, <1>10, TablesAssumption DEF Holders
  <2>2. ASSUME NEW e \in EngineIds
        PROVE  engines'[e].open <=> Registered(e)'
    <3>1. Registered(e)' <=> \E t \in Recovered : lsm'[t] = e
      BY <1>1, <1>2, <1>5, TablesAssumption DEF Registered
    <3>2. (\E t \in Recovered : lsm'[t] = e) => engines'[e].open
      BY <1>11
    <3>3. engines'[e] = Closed => ~ engines'[e].open
      BY <1>7
    <3> QED BY <1>1, <3>1, <3>2, <3>3
  <2> QED BY <2>1, <2>2 DEF OneOwner
<1>15. OneTable'
  <2> SUFFICES ASSUME NEW e \in EngineIds, NEW u \in Tables, Uses(e, u)'
               PROVE  /\ engines'[e].home \in {DirOf(u), Memory}
                      /\ \A k \in Keys : engines'[e].rows[k] \in {u, NoTable}
                      /\ \A v \in Tables : Uses(e, v)' => v = u
    BY DEF OneTable
  <2>1. \A v \in Tables : Uses(e, v)' => v \in Recovered /\ lsm'[v] = e
    BY <1>1, <1>2, <1>9, <1>10, TablesAssumption DEF Uses
  <2>2. \A k \in Keys : disk[DirOf(u)][k] \in {u, NoTable}
    BY DEF EngineInv, DirRows
  <2> QED BY <1>1, <1>11, <2>1, <2>2
<1>16. DirRows' /\ DirsMade'
  <2>1. \A c \in Clients : session'[c].stmt # "lsm"
    BY <1>9, <1>10
  <2> QED BY <1>2, <2>1 DEF EngineInv, DirRows, DirsMade
<1>17. EnginesSuffice'
  <2>1. Opening' = {}
    BY <1>9, <1>10 DEF Opening
  <2>2. Cardinality(Opening') = 0
    BY <2>1, FS_EmptySet
  <2>3. IsFiniteSet(UnusedIds')
    BY TablesAssumption, FS_Subset DEF UnusedIds
  <2>4. Cardinality(UnusedIds') \in Nat
    BY <2>3, FS_CardinalityType
  <2> DEFINE y == Cardinality(UnusedIds')
  <2>5. y \in Nat
    BY <2>4
  <2> HIDE DEF y
  <2>6. 0 <= y
    BY <2>5
  <2> QED BY <2>2, <2>6 DEF EnginesSuffice, y
<1>18. OneOpen'
  <2> SUFFICES ASSUME NEW e \in EngineIds, NEW o \in EngineIds, e # o, engines'[e].open,
                      engines'[o].open, engines'[e].home = engines'[o].home
               PROVE  FALSE
    BY DEF OneOpen
  <2>1. PICK t \in Recovered, u \in Recovered : lsm'[t] = e /\ lsm'[u] = o
    BY <1>1, <1>7
  <2>2. DirOf(t) = DirOf(u)
    BY <1>11, <2>1
  <2> QED BY <1>5, <2>1, <2>2, DirFacts
<1>19. EngineInv'
  BY <1>8, <1>12, <1>13, <1>14, <1>15, <1>16, <1>17, <1>18 DEF EngineInv
<1>20. \A t \in Tables : /\ mem'[t] = NoEngine
                         /\ file[t] # "lsm" => lsm'[t] = NoEngine
                         /\ file[t] = "lsm" => /\ lsm'[t] # NoEngine
                                               /\ engines'[lsm'[t]].rows = disk[DirOf(t)]
  BY <1>1, <1>2, <1>4, <1>11, TablesAssumption
<1> QED BY <1>2, <1>9, <1>19, <1>20

\* The first state.
LEMMA InitInv ==
  ASSUME Init
  PROVE  EngineInv /\ \A c \in Clients : session[c] = Idle
<1>1. /\ \A c \in Clients : session[c] = Idle
      /\ Idle.engine = NoEngine /\ Idle.pc = "idle" /\ Idle.stmt = "none"
  BY DEF Init, Idle
<1>2. SessionsShaped
  <2>1. Idle \in Session /\ Shaped(Idle)
    BY DEF Idle, Session, Steps, Shaped, DDL
  <2> QED BY <2>1 DEF SessionsShaped, Init
<1>3. /\ disk = [d \in Dirs |-> NoRows] /\ NoRows \in [Keys -> Tables \cup {NoTable}]
      /\ \A k \in Keys : NoRows[k] = NoTable
      /\ RootDir \in Dirs
  BY DirFacts DEF Init, NoRows
<1>4. /\ engines[Default].open = TRUE /\ engines[Default].home = RootDir
      /\ \A e \in EngineIds : engines[e].open = FALSE /\ engines[e].home = Memory
      /\ engines \in [EngineIds \cup {Default} ->
                      [home : Dirs \cup {Memory}, open : BOOLEAN,
                       rows : [Keys -> Tables \cup {NoTable}]]]
  <2>1. engines = [e \in EngineIds \cup {Default} |->
                     IF e = Default THEN OpenedOn(RootDir) ELSE Closed]
    BY DEF Init
  <2>2. /\ OpenedOn(RootDir).open = TRUE /\ OpenedOn(RootDir).home = RootDir
        /\ OpenedOn(RootDir) \in [home : Dirs \cup {Memory}, open : BOOLEAN,
                                  rows : [Keys -> Tables \cup {NoTable}]]
    BY <1>3 DEF OpenedOn
  <2>3. /\ Closed.open = FALSE /\ Closed.home = Memory
        /\ Closed \in [home : Dirs \cup {Memory}, open : BOOLEAN,
                       rows : [Keys -> Tables \cup {NoTable}]]
    BY <1>3 DEF Closed
  <2> QED BY <2>1, <2>2, <2>3, TablesAssumption
<1>5. /\ catalog = [t \in Tables |-> "absent"] /\ file = [t \in Tables |-> "absent"]
      /\ lsm = [t \in Tables |-> NoEngine] /\ mem = [t \in Tables |-> NoEngine]
      /\ dirs = {} /\ faults = 0 /\ restarts = 0 /\ owed = [t \in Tables |-> {}]
      /\ crossed = {} /\ shared = {}
  BY DEF Init
<1>6. StateTypes
  <2>1. faults \in 0..MaxFaults /\ restarts \in 0..MaxRestarts
    BY <1>5, TablesAssumption
  <2> QED BY <1>3, <1>4, <1>5, <2>1 DEF StateTypes
<1>7. Homes
  BY <1>1, <1>4, <1>5 DEF Homes
<1>8. \A e \in EngineIds : ~ Registered(e) /\ Holders(e) = {} /\ \A t \in Tables : ~ Uses(e, t)
  BY <1>1, <1>5, TablesAssumption DEF Registered, Holders, Uses
<1>9. OneOwner /\ OneTable /\ OneOpen
  BY <1>4, <1>8 DEF OneOwner, OneTable, OneOpen
<1>10. DirRows /\ DirsMade
  BY <1>1, <1>3, <1>5, DirFacts DEF DirRows, DirsMade
<1>11. EnginesSuffice
  <2>1. Opening = {}
    BY <1>1 DEF Opening
  <2>2. Cardinality(Opening) = 0
    BY <2>1, FS_EmptySet
  <2>3. IsFiniteSet(UnusedIds)
    BY TablesAssumption, FS_Subset DEF UnusedIds
  <2>4. Cardinality(UnusedIds) \in Nat
    BY <2>3, FS_CardinalityType
  <2> QED BY <2>2, <2>4 DEF EnginesSuffice
<1> QED BY <1>1, <1>2, <1>6, <1>7, <1>9, <1>10, <1>11 DEF EngineInv

-----------------------------------------------------------------------------
(* Ownership and rows, on every run *)

\* What a statement does is one of its steps.
LEMMA StatementSteps ==
  ASSUME NEW c \in Clients, Statement(c)
  PROVE  \/ \E t \in Tables, stmt \in {"lsm", "memory"} : BeginCreate(c, stmt, t)
         \/ \E t \in Tables : BeginDrop(c, t)
         \/ \E t \in Tables, k \in Keys, stmt \in {"insert", "write"} : BeginStore(c, stmt, t, k)
         \/ OpenEngine(c) \/ OpenFails(c) \/ RegisterLSM(c) \/ RegisterMemory(c)
         \/ CatalogCreate(c) \/ Rollback(c) \/ CloseEngine(c)
         \/ UnregisterLSM(c) \/ UnregisterMemory(c) \/ DropCatalog(c)
         \/ Route(c) \/ CheckKey(c) \/ Store(c) \/ StoreFails(c)
BY DEF Statement

\* Every step keeps what is said of engines and rows.
LEMMA EngineInvStep ==
  ASSUME EngineInv, [Next]_tablesVars
  PROVE  EngineInv'
<1>1. CASE Restart
  BY <1>1, RestartInv
<1>2. ASSUME NEW c \in Clients, Statement(c)
      PROVE  EngineInv'
  <2>1. CASE \E t \in Tables, stmt \in {"lsm", "memory"} : BeginCreate(c, stmt, t)
    BY <2>1, BeginCreateInv
  <2>2. CASE \E t \in Tables : BeginDrop(c, t)
    BY <2>2, BeginDropInv
  <2>3. CASE \E t \in Tables, k \in Keys, stmt \in {"insert", "write"} : BeginStore(c, stmt, t, k)
    BY <2>3, BeginStoreInv
  <2>4. CASE OpenEngine(c) \/ OpenFails(c) \/ RegisterLSM(c) \/ RegisterMemory(c)
    BY <2>4, OpenEngineInv, OpenFailsInv, RegisterLSMInv, RegisterMemoryInv
  <2>5. CASE CatalogCreate(c) \/ Rollback(c) \/ CloseEngine(c)
    BY <2>5, CatalogCreateInv, RollbackInv, CloseEngineInv
  <2>6. CASE UnregisterLSM(c) \/ UnregisterMemory(c) \/ DropCatalog(c)
    BY <2>6, UnregisterLSMInv, UnregisterMemoryInv, DropCatalogInv
  <2>7. CASE Route(c) \/ CheckKey(c) \/ Store(c) \/ StoreFails(c)
    BY <2>7, RouteInv, CheckKeyInv, StoreInv, StoreFailsInv
  <2> QED BY <1>2, <2>1, <2>2, <2>3, <2>4, <2>5, <2>6, <2>7, StatementSteps
<1>3. CASE UNCHANGED tablesVars
  BY <1>3 DEF tablesVars, mapVars, diskVars, noteVars, EngineInv, SessionsShaped, StateTypes,
       Homes, OneOwner, Registered, Holders, OneTable, Uses, DirRows, EnginesSuffice, Opening,
       UnusedIds, Unused, DirsMade, OneOpen
<1> QED BY <1>1, <1>2, <1>3 DEF Next

\* Engines and rows on every run, whatever crosses.
LEMMA EngineInvariant == Spec => []EngineInv
<1>1. Init => EngineInv
  BY InitInv
<1>2. EngineInv /\ [Next]_tablesVars => EngineInv'
  BY EngineInvStep
<1> QED BY <1>1, <1>2, PTL DEF Spec

\* Every variable keeps its type, and the routing table sends a table's statements to an
\* engine of the table's directory or to one in memory (tableDataDir, createMemoryTable).
THEOREM TablesTypes == Spec => []TablesTypeOK
<1>1. EngineInv => TablesTypeOK
  BY DEF EngineInv, StateTypes, Homes, TablesTypeOK
<1> QED BY <1>1, EngineInvariant, PTL

\* A set with one member at most has as many elements as the truth of "it has one".
LEMMA AtMostOne ==
  ASSUME NEW S, \A x, y \in S : x = y
  PROVE  Cardinality(S) = IF S = {} THEN 0 ELSE 1
<1>1. CASE S = {}
  BY <1>1, FS_EmptySet
<1>2. CASE S # {}
  <2>1. PICK x \in S : S = {x}
    BY <1>2
  <2>2. Cardinality({x}) = 1
    BY FS_Singleton
  <2> QED BY <2>1, <2>2
<1> QED BY <1>1, <1>2

\* An open engine has one owner and a closed one none, whatever CREATEs and DROPs cross: none
\* leaks, none is closed twice, and no statement is routed to a closed one (createLSMTable,
\* createMemoryTable, handleDropTable).
THEOREM EachEngineOwned == Spec => []EnginesAccounted
<1>1. ASSUME EngineInv, NEW e \in EngineIds
      PROVE  Cardinality({t \in Tables : lsm[t] = e}) + Cardinality({t \in Tables : mem[t] = e})
               + Cardinality(Holders(e)) = IF engines[e].open THEN 1 ELSE 0
  <2> DEFINE L == {t \in Tables : lsm[t] = e}
             M == {t \in Tables : mem[t] = e}
  <2>1. \A t, u \in Tables : Uses(e, t) /\ Uses(e, u) => t = u
    BY <1>1 DEF EngineInv, OneTable
  <2>2. \A t \in L \cup M : Uses(e, t)
    BY DEF Uses
  <2>3. \A t, u \in L \cup M : t = u
    <3>1. L \cup M \subseteq Tables
      OBVIOUS
    <3> HIDE DEF L, M
    <3> QED BY <2>1, <2>2, <3>1
  <2>4. L = {} \/ M = {}
    <3>1. SUFFICES ASSUME NEW t \in L, NEW u \in M PROVE FALSE
      OBVIOUS
    <3>2. t = u /\ e # NoEngine
      BY <2>3, TablesAssumption
    <3> QED BY <1>1, <3>2, DirFacts DEF EngineInv, Homes
  <2>5. /\ Registered(e) <=> L # {} \/ M # {}
        /\ engines[e].open <=> Registered(e) \/ Holders(e) # {}
        /\ Registered(e) => Holders(e) = {}
        /\ \A c, d \in Holders(e) : c = d
    BY <1>1 DEF EngineInv, OneOwner, Registered
  <2>6. /\ Cardinality(L) = IF L = {} THEN 0 ELSE 1
        /\ Cardinality(M) = IF M = {} THEN 0 ELSE 1
        /\ Cardinality(Holders(e)) = IF Holders(e) = {} THEN 0 ELSE 1
    BY <2>3, <2>5, AtMostOne
  <2> HIDE DEF L, M
  <2>7. Cardinality(L) + Cardinality(M) + Cardinality(Holders(e))
          = IF engines[e].open THEN 1 ELSE 0
    BY <2>4, <2>5, <2>6
  <2> QED BY <2>7 DEF L, M
<1>2. EngineInv => EnginesAccounted
  BY <1>1 DEF EnginesAccounted, EngineInv, Homes
<1> QED BY <1>2, EngineInvariant, PTL

\* A table's engines and directory hold rows of that table only, although a row does not name
\* its table (engineForTable, tableDataDir).
THEOREM RowsAreOfTheTable == Spec => []NoForeignRows
<1>1. ASSUME EngineInv, NEW t \in Tables, NEW e \in {lsm[t], mem[t]} \ {NoEngine}, NEW k \in Keys
      PROVE  engines[e].rows[k] \in {t, NoTable}
  <2>1. e \in EngineIds
    BY <1>1 DEF EngineInv, StateTypes
  <2>2. Uses(e, t)
    BY DEF Uses
  <2> QED BY <1>1, <2>1, <2>2 DEF EngineInv, OneTable
<1>2. EngineInv => NoForeignRows
  BY <1>1 DEF NoForeignRows, EngineInv, DirRows
<1> QED BY <1>2, EngineInvariant, PTL

-----------------------------------------------------------------------------
(* The steps: a table whose CREATEs and DROPs have not crossed *)

\* A table with acknowledged rows, and no DROP under way, has an engine of its own.
LEMMA OwedEngine ==
  ASSUME TablesInv, NEW t \in Tables \ crossed, NoDrop(t), catalog[t] # "absent"
  PROVE  /\ EngineFor(t) \in EngineIds /\ Registered(EngineFor(t)) /\ Uses(EngineFor(t), t)
         /\ catalog[t] = "lsm" => EngineFor(t) = lsm[t] /\ lsm[t] # NoEngine
         /\ catalog[t] = "memory" => EngineFor(t) = mem[t] /\ mem[t] # NoEngine
<1>1. catalog[t] \in {"lsm", "memory"}
  BY DEF TablesInv, EngineInv, StateTypes
<1>2. /\ catalog[t] = "lsm" => lsm[t] # NoEngine /\ mem[t] = NoEngine
      /\ catalog[t] = "memory" => lsm[t] = NoEngine /\ mem[t] # NoEngine
  BY DEF TablesInv, Tame, Uncrossed
<1>3. lsm[t] \in EngineIds \cup {NoEngine} /\ mem[t] \in EngineIds \cup {NoEngine}
  BY DEF TablesInv, EngineInv, StateTypes
<1> QED BY <1>1, <1>2, <1>3 DEF EngineFor, Registered, Uses

\* A step that leaves alone what is owed of table t, and where it is looked for.
StaysOn(t) ==
  /\ catalog'[t] = catalog[t] /\ lsm'[t] = lsm[t] /\ mem'[t] = mem[t]
  /\ owed'[t] = owed[t] /\ shared \subseteq shared'
  /\ \A e \in EngineIds : Registered(e) => engines'[e].rows = engines[e].rows
  /\ DirOf(t) \notin shared' => disk'[DirOf(t)] = disk[DirOf(t)]
  /\ \A d \in Clients :
       session'[d].table = t /\ session'[d].owe /\ session'[d].pc \in {"check", "store"} =>
         /\ session[d].table = t /\ session[d].owe /\ session[d].pc \in {"check", "store"}
         /\ session'[d].engine = session[d].engine
  /\ NoDrop(t)' => NoDrop(t)

\* After such a step rows still go, and are still found, where they were.
LEMMA StaysRouted ==
  ASSUME TablesInv, NEW t \in Tables \ crossed, StaysOn(t)
  PROVE  Routed(t)' /\ OwedKept(t)'
<1>1. EngineFor(t)' = EngineFor(t)
  BY DEF StaysOn, EngineFor
<1>2. Routed(t)'
  BY <1>1 DEF TablesInv, Tame, Routed, StaysOn
<1>3. OwedKept(t)'
  <2> SUFFICES ASSUME DirOf(t) \notin shared', NEW k \in owed'[t]
               PROVE  /\ NoDrop(t)' => engines'[EngineFor(t)'].rows[k] = t
                      /\ catalog'[t] = "lsm" => disk'[DirOf(t)][k] = t
    BY DEF OwedKept
  <2>1. DirOf(t) \notin shared /\ k \in owed[t] /\ catalog[t] # "absent"
    BY DEF StaysOn, TablesInv, OwedExist
  <2>2. /\ NoDrop(t) => engines[EngineFor(t)].rows[k] = t
        /\ catalog[t] = "lsm" => disk[DirOf(t)][k] = t
    BY <2>1 DEF TablesInv, Tame, OwedKept
  <2>3. NoDrop(t) => EngineFor(t) \in EngineIds /\ Registered(EngineFor(t))
    BY <2>1, OwedEngine
  <2>4. NoDrop(t) => engines'[EngineFor(t)].rows = engines[EngineFor(t)].rows
    BY <2>3 DEF StaysOn
  <2> QED BY <1>1, <2>2, <2>4 DEF StaysOn
<1> QED BY <1>2, <1>3

\* A table that is not in the catalog is owed nothing.
LEMMA NothingOwed ==
  ASSUME OwedExist, NEW t \in Tables, catalog[t] = "absent"
  PROVE  owed[t] = {} /\ \A d \in Clients : session[d].table = t => ~ session[d].owe
BY DEF OwedExist

\* Where nothing is owed there is nothing to find.
LEMMA NothingKept ==
  ASSUME NEW t, owed'[t] = {}, \A d \in Clients : session'[d].table = t => ~ session'[d].owe
  PROVE  Routed(t)' /\ OwedKept(t)'
BY DEF Routed, OwedKept

\* The statements on table t, and its entries, stay as they are.
LEMMA SameUncrossed ==
  ASSUME NEW t \in Tables, Uncrossed(t),
         catalog'[t] = catalog[t], file'[t] = file[t], lsm'[t] = lsm[t], mem'[t] = mem[t],
         \A d \in Clients : /\ session'[d].table = t <=> session[d].table = t
                            /\ session[d].table = t => /\ session'[d].pc = session[d].pc
                                                       /\ session'[d].stmt = session[d].stmt
  PROVE  Uncrossed(t)'
<1>1. /\ \A a \in DDL : Running(a, t)' = Running(a, t)
      /\ Registrants(t)' = Registrants(t)
      /\ NoDrop(t)' <=> NoDrop(t)
  BY DEF Running, Registrants, NoDrop
<1>2. /\ \A d \in Registrants(t) \cup Running("lsm", t) \cup Running("memory", t)
                    \cup Running("drop", t) :
           session'[d].pc = session[d].pc /\ session'[d].stmt = session[d].stmt
      /\ "lsm" \in DDL /\ "memory" \in DDL /\ "drop" \in DDL
  BY DEF Running, Registrants, DDL
<1>3. \A a, b \in DDL : Running(a, t)' # {} /\ Running(b, t)' # {} => a = b
  BY <1>1 DEF Uncrossed
<1>4. /\ file'[t] = catalog'[t]
      /\ \A c, d \in Registrants(t)' : c = d
      /\ \A c \in Registrants(t)' : /\ catalog'[t] = "absent"
                                    /\ session'[c].stmt = "lsm" => lsm'[t] # NoEngine
                                    /\ session'[c].stmt = "memory" => mem'[t] # NoEngine
      /\ catalog'[t] = "absent" /\ Registrants(t)' = {} => lsm'[t] = NoEngine /\ mem'[t] = NoEngine
  BY <1>1, <1>2 DEF Uncrossed
<1>5. /\ NoDrop(t)' => /\ catalog'[t] = "lsm" => lsm'[t] # NoEngine /\ mem'[t] = NoEngine
                       /\ catalog'[t] = "memory" => lsm'[t] = NoEngine /\ mem'[t] # NoEngine
      /\ \A c \in Running("lsm", t)' : catalog'[t] # "memory" /\ mem'[t] = NoEngine
      /\ \A c \in Running("memory", t)' : catalog'[t] # "lsm" /\ lsm'[t] = NoEngine
  BY <1>1, <1>2 DEF Uncrossed
<1>6. \A c \in Running("drop", t)' :
        /\ session'[c].pc # "unregisterLSM" => lsm'[t] = NoEngine
        /\ session'[c].pc \in {"closeMemory", "dropCatalog"} => mem'[t] = NoEngine
  BY <1>1, <1>2 DEF Uncrossed
<1> QED BY <1>3, <1>4, <1>5, <1>6 DEF Uncrossed

\* A step of a statement that is on another table.
Elsewhere(c, t) ==
  /\ Others(c) /\ session[c].table # t /\ session'[c].table # t
  /\ \A d \in Clients \ {c} : session[d].table = t => (session'[d].owe <=> session[d].owe)
  /\ catalog'[t] = catalog[t] /\ file'[t] = file[t] /\ lsm'[t] = lsm[t] /\ mem'[t] = mem[t]
  /\ owed'[t] = owed[t] /\ shared \subseteq shared'
  /\ \A e \in EngineIds : Registered(e) => engines'[e].rows = engines[e].rows
  /\ DirOf(t) \notin shared' => disk'[DirOf(t)] = disk[DirOf(t)]

\* A step on another table leaves this one as it was.
LEMMA ElsewhereTame ==
  ASSUME TablesInv, NEW c \in Clients, NEW t \in Tables \ crossed, Elsewhere(c, t)
  PROVE  Tame(t)'
<1>1. \A d \in Clients : /\ session'[d].table = t <=> session[d].table = t
                         /\ session[d].table = t => /\ session'[d].pc = session[d].pc
                                                    /\ session'[d].stmt = session[d].stmt
                                                    /\ session'[d].engine = session[d].engine
                                                    /\ session'[d].owe <=> session[d].owe
  BY DEF Elsewhere, Others
<1>2. Uncrossed(t)'
  BY <1>1, SameUncrossed DEF TablesInv, Tame, Elsewhere
<1>3. NoDrop(t)' => NoDrop(t)
  BY <1>1 DEF NoDrop, Running
<1>4. StaysOn(t)
  BY <1>1, <1>3 DEF StaysOn, Elsewhere
<1> QED BY <1>2, <1>4, StaysRouted DEF Tame

\* A new statement: it crosses another kind, or it is the first of its kind, or like those
\* that run.
LEMMA BeginCreateTame ==
  ASSUME TablesInv, NEW c \in Clients, NEW u \in Tables, NEW stmt \in {"lsm", "memory"},
         BeginCreate(c, stmt, u)
  PROVE  TablesInv'
<1>1. /\ EngineInv' /\ Others(c) /\ catalog[u] = "absent" /\ session[c] = Idle
      /\ session'[c].stmt = stmt /\ session'[c].table = u /\ session'[c].engine = NoEngine
      /\ ~ session'[c].owe /\ session'[c].pc \in {"open", "register"}
      /\ \A d \in Clients \ {c} : session'[d] = session[d]
      /\ crossed' = IF Crossing(stmt, u) THEN crossed \cup {u} ELSE crossed
      /\ UNCHANGED <<catalog, file, lsm, mem, engines, dirs, disk, owed, shared>>
  BY BeginCreateInv DEF TablesInv
<1>2. session[c].table = NoTable /\ NoTable \notin Tables
  BY <1>1, TablesAssumption DEF Idle
<1>3. OwedExist'
  BY <1>1 DEF TablesInv, OwedExist
<1>4. ASSUME NEW t \in Tables \ crossed', t # u
      PROVE  Tame(t)'
  <2>1. t \in Tables \ crossed
    BY <1>1, <1>4
  <2>2. Elsewhere(c, t)
    BY <1>1, <1>2, <1>4 DEF Elsewhere
  <2> QED BY <2>1, <2>2, ElsewhereTame
<1>5. ASSUME u \notin crossed'
      PROVE  Tame(u)'
  <2>1. /\ u \notin crossed
        /\ \A other \in DDL \ {stmt} : Running(other, u) = {}
    BY <1>1, <1>5 DEF Crossing
  <2>2. Tame(u) /\ Uncrossed(u)
    BY <2>1 DEF TablesInv, Tame
  <2>3. /\ Running(stmt, u)' = Running(stmt, u) \cup {c}
        /\ \A a \in DDL \ {stmt} : Running(a, u)' = {}
        /\ Registrants(u)' = Registrants(u) /\ stmt \in DDL
        /\ \A d \in Registrants(u) : d # c
    BY <1>1, <1>2, <2>1 DEF Running, Registrants, DDL
  <2>4. Running(stmt, u) = {} => Registrants(u) = {}
    <3>1. SUFFICES ASSUME NEW d \in Registrants(u)
                   PROVE  d \in Running(stmt, u)
      OBVIOUS
    <3>2. session[d].stmt \in {"lsm", "memory"}
      BY DEF TablesInv, EngineInv, SessionsShaped, Shaped, Registrants
    <3>3. d \in Running(session[d].stmt, u)
      BY DEF Running, Registrants
    <3> QED BY <2>1, <3>2, <3>3 DEF DDL
  <2>5. /\ stmt = "lsm" => mem[u] = NoEngine
        /\ stmt = "memory" => lsm[u] = NoEngine
    BY <1>1, <2>2, <2>4 DEF Uncrossed
  <2>6. Uncrossed(u)'
    <3>1. /\ \A a, b \in DDL : Running(a, u)' # {} /\ Running(b, u)' # {} => a = b
          /\ file'[u] = catalog'[u] /\ catalog'[u] = "absent"
      BY <1>1, <2>2, <2>3 DEF Uncrossed
    <3>2. /\ \A x, y \in Registrants(u)' : x = y
          /\ \A d \in Registrants(u)' : /\ catalog'[u] = "absent"
                                        /\ session'[d].stmt = "lsm" => lsm'[u] # NoEngine
                                        /\ session'[d].stmt = "memory" => mem'[u] # NoEngine
          /\ Registrants(u)' = {} => lsm'[u] = NoEngine /\ mem'[u] = NoEngine
      <4>1. \A d \in Registrants(u) : session'[d] = session[d]
        BY <1>1, <2>3 DEF Registrants
      <4> QED BY <1>1, <2>2, <2>3, <4>1 DEF Uncrossed
    <3>3. /\ \A d \in Running("lsm", u)' : mem'[u] = NoEngine
          /\ \A d \in Running("memory", u)' : lsm'[u] = NoEngine
          /\ Running("drop", u)' = {}
      BY <1>1, <2>3, <2>5 DEF DDL
    <3> QED BY <3>1, <3>2, <3>3 DEF Uncrossed
  <2>7. owed'[u] = {} /\ \A d \in Clients : session'[d].table = u => ~ session'[d].owe
    BY <1>1, NothingOwed DEF TablesInv
  <2> QED BY <2>6, <2>7, NothingKept DEF Tame
<1> QED BY <1>1, <1>3, <1>4, <1>5 DEF TablesInv

\* A DROP begins: it crosses a CREATE, or the table is in the catalog and registered.
LEMMA BeginDropTame ==
  ASSUME TablesInv, NEW c \in Clients, NEW u \in Tables, BeginDrop(c, u)
  PROVE  TablesInv'
<1>1. /\ EngineInv' /\ Others(c) /\ catalog[u] # "absent" /\ session[c] = Idle
      /\ session'[c].stmt = "drop" /\ session'[c].table = u /\ session'[c].engine = NoEngine
      /\ ~ session'[c].owe /\ session'[c].pc = "unregisterLSM"
      /\ \A d \in Clients \ {c} : session'[d] = session[d]
      /\ crossed' = IF Crossing("drop", u) THEN crossed \cup {u} ELSE crossed
      /\ UNCHANGED <<catalog, file, lsm, mem, engines, dirs, disk, owed, shared>>
  BY BeginDropInv DEF TablesInv
<1>2. session[c].table = NoTable /\ NoTable \notin Tables
  BY <1>1, TablesAssumption DEF Idle
<1>3. OwedExist'
  BY <1>1 DEF TablesInv, OwedExist
<1>4. ASSUME NEW t \in Tables \ crossed', t # u
      PROVE  Tame(t)'
  <2>1. t \in Tables \ crossed
    BY <1>1, <1>4
  <2>2. Elsewhere(c, t)
    BY <1>1, <1>2, <1>4 DEF Elsewhere
  <2> QED BY <2>1, <2>2, ElsewhereTame
<1>5. ASSUME u \notin crossed'
      PROVE  Tame(u)'
  <2>1. /\ u \notin crossed
        /\ \A other \in DDL \ {"drop"} : Running(other, u) = {}
    BY <1>1, <1>5 DEF Crossing
  <2>2. Tame(u) /\ Uncrossed(u)
    BY <2>1 DEF TablesInv, Tame
  <2>3. /\ Running("drop", u)' = Running("drop", u) \cup {c}
        /\ \A a \in DDL \ {"drop"} : Running(a, u)' = {}
        /\ Registrants(u)' = Registrants(u) /\ "drop" \in DDL
        /\ \A d \in Registrants(u) : d # c
    BY <1>1, <1>2, <2>1 DEF Running, Registrants, DDL
  <2>4. Uncrossed(u)'
    <3>1. /\ \A a, b \in DDL : Running(a, u)' # {} /\ Running(b, u)' # {} => a = b
          /\ file'[u] = catalog'[u] /\ catalog'[u] # "absent"
      BY <1>1, <2>2, <2>3 DEF Uncrossed
    <3>2. Registrants(u)' = {}
      BY <1>1, <2>2, <2>3 DEF Uncrossed
    <3>3. Running("lsm", u)' = {} /\ Running("memory", u)' = {} /\ ~ NoDrop(u)'
      BY <2>3 DEF DDL, NoDrop
    <3>4. \A d \in Running("drop", u)' :
            /\ session'[d].pc # "unregisterLSM" => lsm'[u] = NoEngine
            /\ session'[d].pc \in {"closeMemory", "dropCatalog"} => mem'[u] = NoEngine
      BY <1>1, <2>2, <2>3 DEF Uncrossed, Running
    <3> QED BY <3>1, <3>2, <3>3, <3>4 DEF Uncrossed
  <2>5. StaysOn(u)
    <3>1. ~ NoDrop(u)'
      BY <2>3 DEF NoDrop
    <3> QED BY <1>1, <3>1 DEF StaysOn
  <2> QED BY <2>1, <2>4, <2>5, StaysRouted DEF Tame
<1> QED BY <1>1, <1>3, <1>4, <1>5 DEF TablesInv

\* Statements on table t change, and no CREATE or DROP of it does.
LEMMA StoresUncrossed ==
  ASSUME NEW t \in Tables, Uncrossed(t),
         catalog'[t] = catalog[t], file'[t] = file[t], lsm'[t] = lsm[t], mem'[t] = mem[t],
         NEW c \in Clients, \A d \in Clients \ {c} : session'[d] = session[d],
         session[c].stmt \notin DDL, session'[c].stmt \notin DDL,
         session[c].pc \notin {"catalog", "rollback"}, session'[c].pc \notin {"catalog", "rollback"}
  PROVE  Uncrossed(t)' /\ (NoDrop(t)' <=> NoDrop(t))
<1>1. /\ \A a \in DDL : Running(a, t)' = Running(a, t) /\ c \notin Running(a, t)
      /\ Registrants(t)' = Registrants(t) /\ c \notin Registrants(t)
      /\ "lsm" \in DDL /\ "memory" \in DDL /\ "drop" \in DDL
  BY DEF Running, Registrants, DDL
<1>2. /\ \A d \in Registrants(t) : session'[d] = session[d]
      /\ \A a \in DDL : \A d \in Running(a, t) : session'[d] = session[d]
  BY <1>1 DEF Running, Registrants
<1>3. NoDrop(t)' <=> NoDrop(t)
  BY <1>1 DEF NoDrop
<1>4. \A a, b \in DDL : Running(a, t)' # {} /\ Running(b, t)' # {} => a = b
  BY <1>1 DEF Uncrossed
<1>5. /\ file'[t] = catalog'[t]
      /\ \A x, y \in Registrants(t)' : x = y
      /\ \A d \in Registrants(t)' : /\ catalog'[t] = "absent"
                                    /\ session'[d].stmt = "lsm" => lsm'[t] # NoEngine
                                    /\ session'[d].stmt = "memory" => mem'[t] # NoEngine
      /\ catalog'[t] = "absent" /\ Registrants(t)' = {} => lsm'[t] = NoEngine /\ mem'[t] = NoEngine
  BY <1>1, <1>2 DEF Uncrossed
<1>6. /\ NoDrop(t)' => /\ catalog'[t] = "lsm" => lsm'[t] # NoEngine /\ mem'[t] = NoEngine
                       /\ catalog'[t] = "memory" => lsm'[t] = NoEngine /\ mem'[t] # NoEngine
      /\ \A d \in Running("lsm", t)' : catalog'[t] # "memory" /\ mem'[t] = NoEngine
      /\ \A d \in Running("memory", t)' : catalog'[t] # "lsm" /\ lsm'[t] = NoEngine
  BY <1>1, <1>3 DEF Uncrossed
<1>7. \A d \in Running("drop", t)' :
        /\ session'[d].pc # "unregisterLSM" => lsm'[t] = NoEngine
        /\ session'[d].pc \in {"closeMemory", "dropCatalog"} => mem'[t] = NoEngine
  BY <1>1, <1>2 DEF Uncrossed
<1> QED BY <1>3, <1>4, <1>5, <1>6, <1>7 DEF Uncrossed

\* An INSERT or /write begins, on a table that exists.
LEMMA BeginStoreTame ==
  ASSUME TablesInv, NEW c \in Clients, NEW u \in Tables, NEW k \in Keys,
         NEW stmt \in {"insert", "write"}, BeginStore(c, stmt, u, k)
  PROVE  TablesInv'
<1>1. /\ EngineInv' /\ Others(c) /\ catalog[u] # "absent" /\ session[c] = Idle
      /\ session'[c].stmt = stmt /\ session'[c].table = u /\ session'[c].engine = NoEngine
      /\ session'[c].pc = "route"
      /\ \A d \in Clients \ {c} : session'[d] = session[d]
      /\ UNCHANGED <<catalog, file, lsm, mem, engines, dirs, disk, owed, crossed, shared>>
  BY BeginStoreInv DEF TablesInv
<1>2. OwedExist'
  BY <1>1 DEF TablesInv, OwedExist
<1>3. ASSUME NEW t \in Tables \ crossed
      PROVE  Tame(t)'
  <2>1. Uncrossed(t)' /\ (NoDrop(t)' <=> NoDrop(t))
    <3>1. /\ session[c].stmt \notin DDL /\ session'[c].stmt \notin DDL
          /\ session[c].pc \notin {"catalog", "rollback"}
          /\ session'[c].pc \notin {"catalog", "rollback"}
      BY <1>1 DEF DDL, Idle
    <3>2. Uncrossed(t)
      BY <1>3 DEF TablesInv, Tame
    <3> QED BY <1>1, <3>1, <3>2, StoresUncrossed
  <2>2. StaysOn(t)
    BY <1>1, <2>1 DEF StaysOn
  <2> QED BY <2>1, <2>2, StaysRouted DEF Tame
<1> QED BY <1>1, <1>2, <1>3 DEF TablesInv

\* INSERT and /write on the way to the engine.
LEMMA RouteTame ==
  ASSUME TablesInv, NEW c \in Clients, Route(c)
  PROVE  TablesInv'
<1>1. /\ EngineInv' /\ session[c].pc = "route" /\ session[c].table \in Tables
      /\ session[c].stmt \in {"insert", "write"}
      /\ session'[c].pc \in {"check", "store"}
      /\ Moved(c, session'[c].pc, EngineFor(session[c].table))
      /\ UNCHANGED <<catalog, file, lsm, mem, engines, disk, owed, crossed, shared>>
  BY RouteInv DEF TablesInv
<1>2. /\ session'[c].engine = EngineFor(session[c].table) /\ session'[c].stmt = session[c].stmt
      /\ session'[c].table = session[c].table /\ session'[c].owe = session[c].owe
      /\ \A d \in Clients \ {c} : session'[d] = session[d]
  BY <1>1 DEF Moved
<1>3. OwedExist'
  BY <1>1, <1>2 DEF TablesInv, OwedExist
<1>4. ASSUME NEW t \in Tables \ crossed
      PROVE  Tame(t)'
  <2>1. Uncrossed(t) /\ Routed(t) /\ OwedKept(t)
    BY <1>4 DEF TablesInv, Tame
  <2>2. Uncrossed(t)' /\ (NoDrop(t)' <=> NoDrop(t))
    <3>1. /\ session[c].stmt \notin DDL /\ session'[c].stmt \notin DDL
          /\ session[c].pc \notin {"catalog", "rollback"}
          /\ session'[c].pc \notin {"catalog", "rollback"}
      BY <1>1, <1>2 DEF DDL
    <3> QED BY <1>1, <1>2, <2>1, <3>1, StoresUncrossed
  <2>3. EngineFor(t)' = EngineFor(t)
    BY <1>1 DEF EngineFor
  <2>4. Routed(t)'
    BY <1>2, <2>1, <2>2, <2>3 DEF Routed
  <2>5. OwedKept(t)'
    BY <1>1, <2>1, <2>2, <2>3 DEF OwedKept
  <2> QED BY <2>2, <2>4, <2>5 DEF Tame
<1> QED BY <1>1, <1>3, <1>4 DEF TablesInv

\* INSERT goes on with the engine it was routed to.
LEMMA CheckKeyTame ==
  ASSUME TablesInv, NEW c \in Clients, CheckKey(c)
  PROVE  TablesInv'
<1>1. /\ EngineInv' /\ session[c].pc = "check" /\ session[c].stmt \in {"insert", "write"}
      /\ Ended(c) \/ Moved(c, "store", session[c].engine)
      /\ UNCHANGED <<catalog, file, lsm, mem, engines, disk, owed, crossed, shared>>
  BY CheckKeyInv DEF TablesInv
<1>2. /\ session'[c].stmt \notin DDL /\ session'[c].pc \notin {"catalog", "rollback"}
      /\ session'[c].pc # "idle" => /\ session'[c].engine = session[c].engine
                                    /\ session'[c].table = session[c].table
      /\ session'[c].owe => session[c].owe /\ session'[c].table = session[c].table
      /\ session'[c].pc \in {"idle", "store"}
      /\ \A d \in Clients \ {c} : session'[d] = session[d]
  BY <1>1 DEF Moved, Ended, Idle, DDL
<1>3. OwedExist'
  BY <1>1, <1>2 DEF TablesInv, OwedExist
<1>4. ASSUME NEW t \in Tables \ crossed
      PROVE  Tame(t)'
  <2>1. Uncrossed(t)' /\ (NoDrop(t)' <=> NoDrop(t))
    <3>1. /\ session[c].stmt \notin DDL /\ session[c].pc \notin {"catalog", "rollback"}
      BY <1>1 DEF DDL
    <3>2. Uncrossed(t)
      BY <1>4 DEF TablesInv, Tame
    <3> QED BY <1>1, <1>2, <3>1, <3>2, StoresUncrossed
  <2>2. StaysOn(t)
    BY <1>1, <1>2, <2>1 DEF StaysOn
  <2> QED BY <2>1, <2>2, StaysRouted DEF Tame
<1> QED BY <1>1, <1>3, <1>4 DEF TablesInv

\* A row that is logged: the directories of other tables keep theirs, and that of its table
\* keeps what is owed, if one engine is open there.
LEMMA LoggedKept ==
  ASSUME TablesInv, NEW u \in Tables, NEW k \in Keys, NEW e \in EngineIds \cup {Default},
         e \in EngineIds => Uses(e, u), engines[e].open, Logged(e, k, u)
  PROVE  /\ \A t \in Tables \ {u} : disk'[DirOf(t)] = disk[DirOf(t)]
         /\ DirOf(u) \notin shared =>
              /\ \A j \in Keys : disk[DirOf(u)][j] = u => disk'[DirOf(u)][j] = u
              /\ engines[e].home = DirOf(u) => disk'[DirOf(u)][k] = u
<1>1. /\ \A f \in Dirs \ {engines[e].home} : disk'[f] = disk[f]
      /\ engines[e].home \in {DirOf(u), RootDir, Memory}
      /\ engines[e].home \in Dirs =>
           /\ \A j \in Keys : disk'[engines[e].home][j]
                                \in {IF j = k THEN u ELSE disk[engines[e].home][j], NoTable}
           /\ ~ InUse(engines[e].home, e) =>
                \A j \in Keys : disk'[engines[e].home][j]
                                  = IF j = k THEN u ELSE disk[engines[e].home][j]
  BY LoggedRows DEF TablesInv
<1>2. \A t \in Tables \ {u} : disk'[DirOf(t)] = disk[DirOf(t)]
  BY <1>1, DirFacts
<1>3. ASSUME DirOf(u) \notin shared, engines[e].home = DirOf(u)
      PROVE  \A j \in Keys : disk'[DirOf(u)][j] = IF j = k THEN u ELSE disk[DirOf(u)][j]
  <2>1. e \in EngineIds
    BY <1>3, DirFacts DEF TablesInv, EngineInv, Homes
  <2>2. ~ InUse(DirOf(u), e)
    BY <1>3, <2>1, DirFacts DEF TablesInv, EngineInv, OneOpen, InUse
  <2> QED BY <1>1, <1>3, <2>2, DirFacts
<1>4. engines[e].home # DirOf(u) => disk'[DirOf(u)] = disk[DirOf(u)]
  BY <1>1, DirFacts
<1> QED BY <1>2, <1>3, <1>4

\* An acknowledged row is owed where it has been stored: the statement was routed to the
\* engine of the table it saw.
LEMMA StoreTame ==
  ASSUME TablesInv, NEW c \in Clients, Store(c)
  PROVE  TablesInv'
<1>1. /\ EngineInv' /\ Ended(c) /\ session[c].pc = "store"
      /\ session[c].stmt \in {"insert", "write"}
      /\ session[c].table \in Tables /\ session[c].key \in Keys
      /\ session[c].engine \in EngineIds \cup {Default}
      /\ UNCHANGED <<catalog, file, lsm, mem, crossed, shared>>
  BY StoreInv DEF TablesInv
<1>2. PICK u \in Tables, k \in Keys, e \in EngineIds \cup {Default} :
        u = session[c].table /\ k = session[c].key /\ e = session[c].engine
  BY <1>1
<1>3. /\ session'[c] = Idle /\ Idle.pc = "idle" /\ Idle.stmt \notin DDL /\ ~ Idle.owe
      /\ \A d \in Clients \ {c} : session'[d] = session[d]
  BY <1>1 DEF Ended, Idle, DDL
<1>4. \/ UNCHANGED <<engines, disk, owed>>
      \/ /\ engines[e].open /\ engines' = [engines EXCEPT ![e].rows[k] = u] /\ Logged(e, k, u)
         /\ \/ owed' = owed
            \/ session[c].owe /\ NoDrop(u) /\ owed' = [owed EXCEPT ![u] = @ \cup {k}]
  BY <1>2 DEF Store, NoDrop
<1>5. owed \in [Tables -> SUBSET Keys]
  BY DEF TablesInv, EngineInv, StateTypes
<1>6. e \in EngineIds => Uses(e, u)
  BY <1>2 DEF Uses
<1>7. OwedExist'
  <2>1. \/ owed' = owed
        \/ session[c].owe /\ owed' = [owed EXCEPT ![u] = @ \cup {k}]
    BY <1>4
  <2>2. \A t \in Tables : owed'[t] # {} => \/ owed[t] # {}
                                           \/ t = u /\ session[c].owe
    BY <1>5, <2>1
  <2> QED BY <1>1, <1>2, <1>3, <2>2 DEF TablesInv, OwedExist
<1>8. ASSUME NEW t \in Tables \ crossed
      PROVE  Tame(t)'
  <2>1. Uncrossed(t) /\ Routed(t) /\ OwedKept(t)
    BY <1>8 DEF TablesInv, Tame
  <2>2. Uncrossed(t)' /\ (NoDrop(t)' <=> NoDrop(t))
    <3>1. /\ session[c].stmt \notin DDL /\ session'[c].stmt \notin DDL
          /\ session[c].pc \notin {"catalog", "rollback"}
          /\ session'[c].pc \notin {"catalog", "rollback"}
      BY <1>1, <1>3 DEF DDL
    <3> QED BY <1>1, <1>3, <2>1, <3>1, StoresUncrossed
  <2>3. EngineFor(t)' = EngineFor(t)
    BY <1>1 DEF EngineFor
  <2>4. Routed(t)'
    BY <1>3, <2>1, <2>2, <2>3 DEF Routed
  <2>5. CASE UNCHANGED <<engines, disk, owed>>
    <3>1. OwedKept(t)'
      BY <1>1, <2>1, <2>2, <2>3, <2>5 DEF OwedKept
    <3> QED BY <2>2, <2>4, <3>1 DEF Tame
  <2>6. CASE /\ engines[e].open /\ engines' = [engines EXCEPT ![e].rows[k] = u] /\ Logged(e, k, u)
             /\ \/ owed' = owed
                \/ session[c].owe /\ NoDrop(u) /\ owed' = [owed EXCEPT ![u] = @ \cup {k}]
    <3>1. /\ \A f \in Tables \ {u} : disk'[DirOf(f)] = disk[DirOf(f)]
          /\ DirOf(u) \notin shared =>
               /\ \A j \in Keys : disk[DirOf(u)][j] = u => disk'[DirOf(u)][j] = u
               /\ engines[e].home = DirOf(u) => disk'[DirOf(u)][k] = u
      BY <1>6, <2>6, LoggedKept
    <3>2. /\ \A f \in EngineIds \cup {Default} : f # e => engines'[f] = engines[f]
          /\ engines'[e].rows[k] = u
          /\ \A j \in Keys : j # k => engines'[e].rows[j] = engines[e].rows[j]
      <4>1. engines \in [EngineIds \cup {Default} ->
                          [home : Dirs \cup {Memory}, open : BOOLEAN,
                           rows : [Keys -> Tables \cup {NoTable}]]]
        BY DEF TablesInv, EngineInv, StateTypes
      <4> QED BY <2>6, <4>1
    <3>3. ASSUME DirOf(t) \notin shared, NEW j \in owed'[t]
          PROVE  /\ NoDrop(t) => engines'[EngineFor(t)].rows[j] = t
                 /\ catalog[t] = "lsm" => disk'[DirOf(t)][j] = t
      <4>1. /\ j \in Keys
            /\ \/ j \in owed[t]
               \/ j = k /\ t = u /\ session[c].owe /\ NoDrop(u)
        BY <1>5, <2>6, <3>3
      <4>2. catalog[t] # "absent"
        BY <1>2, <4>1 DEF TablesInv, OwedExist
      <4>3. NoDrop(t) => /\ EngineFor(t) \in EngineIds /\ Uses(EngineFor(t), t)
                         /\ catalog[t] = "lsm" => EngineFor(t) = lsm[t] /\ lsm[t] # NoEngine
        BY <4>2, OwedEngine
      <4>4. CASE j \in owed[t] /\ t # u
        <5>1. NoDrop(t) => EngineFor(t) # e
          BY <1>6, <4>3, <4>4, TablesAssumption DEF TablesInv, EngineInv, OneTable
        <5>2. /\ NoDrop(t) => engines[EngineFor(t)].rows[j] = t
              /\ catalog[t] = "lsm" => disk[DirOf(t)][j] = t
          BY <2>1, <3>3, <4>4 DEF OwedKept
        <5> QED BY <3>1, <3>2, <4>3, <4>4, <5>1, <5>2
      <4>5. CASE j \in owed[t] /\ t = u
        <5>1. /\ NoDrop(t) => engines[EngineFor(t)].rows[j] = t
              /\ catalog[t] = "lsm" => disk[DirOf(t)][j] = t
          BY <2>1, <3>3, <4>5 DEF OwedKept
        <5>2. NoDrop(t) => engines'[EngineFor(t)].rows[j] = t
          BY <3>2, <4>1, <4>3, <4>5, <5>1
        <5> QED BY <3>1, <3>3, <4>1, <4>5, <5>1, <5>2
      <4>6. CASE j = k /\ t = u /\ session[c].owe /\ NoDrop(u)
        <5>1. e = EngineFor(t)
          BY <1>1, <1>2, <2>1, <4>6 DEF Routed
        <5>2. engines'[EngineFor(t)].rows[j] = t
          BY <3>2, <4>6, <5>1
        <5>3. catalog[t] = "lsm" => engines[e].home = DirOf(t)
          BY <4>3, <4>6, <5>1 DEF TablesInv, EngineInv, Homes
        <5> QED BY <3>1, <3>3, <4>6, <5>2, <5>3
      <4> QED BY <4>1, <4>4, <4>5, <4>6
    <3>4. OwedKept(t)'
      BY <1>1, <2>2, <2>3, <3>3 DEF OwedKept
    <3> QED BY <2>2, <2>4, <3>4 DEF Tame
  <2> QED BY <1>4, <2>5, <2>6
<1> QED BY <1>1, <1>7, <1>8 DEF TablesInv

\* A record that is logged without its row does not hurt.
LEMMA StoreFailsTame ==
  ASSUME TablesInv, NEW c \in Clients, StoreFails(c)
  PROVE  TablesInv'
<1>1. /\ EngineInv' /\ Ended(c) /\ session[c].pc = "store"
      /\ session[c].stmt \in {"insert", "write"}
      /\ session[c].table \in Tables /\ session[c].key \in Keys
      /\ session[c].engine \in EngineIds \cup {Default}
      /\ UNCHANGED <<catalog, file, lsm, mem, engines, owed, crossed, shared>>
  BY StoreFailsInv DEF TablesInv
<1>2. PICK u \in Tables, k \in Keys, e \in EngineIds \cup {Default} :
        u = session[c].table /\ k = session[c].key /\ e = session[c].engine
  BY <1>1
<1>3. /\ session'[c] = Idle /\ Idle.pc = "idle" /\ Idle.stmt \notin DDL /\ ~ Idle.owe
      /\ \A d \in Clients \ {c} : session'[d] = session[d]
  BY <1>1 DEF Ended, Idle, DDL
<1>4. engines[e].open /\ Logged(e, k, u)
  BY <1>2 DEF StoreFails
<1>5. e \in EngineIds => Uses(e, u)
  BY <1>2 DEF Uses
<1>6. OwedExist'
  BY <1>1, <1>3 DEF TablesInv, OwedExist
<1>7. /\ \A f \in Tables \ {u} : disk'[DirOf(f)] = disk[DirOf(f)]
      /\ DirOf(u) \notin shared =>
           \A j \in Keys : disk[DirOf(u)][j] = u => disk'[DirOf(u)][j] = u
  BY <1>4, <1>5, LoggedKept
<1>8. ASSUME NEW t \in Tables \ crossed
      PROVE  Tame(t)'
  <2>1. Uncrossed(t) /\ Routed(t) /\ OwedKept(t)
    BY <1>8 DEF TablesInv, Tame
  <2>2. Uncrossed(t)' /\ (NoDrop(t)' <=> NoDrop(t))
    <3>1. /\ session[c].stmt \notin DDL /\ session'[c].stmt \notin DDL
          /\ session[c].pc \notin {"catalog", "rollback"}
          /\ session'[c].pc \notin {"catalog", "rollback"}
      BY <1>1, <1>3 DEF DDL
    <3> QED BY <1>1, <1>3, <2>1, <3>1, StoresUncrossed
  <2>3. EngineFor(t)' = EngineFor(t)
    BY <1>1 DEF EngineFor
  <2>4. Routed(t)'
    BY <1>3, <2>1, <2>2, <2>3 DEF Routed
  <2>5. OwedKept(t)'
    <3>1. owed[t] \subseteq Keys
      BY DEF TablesInv, EngineInv, StateTypes
    <3> QED BY <1>1, <1>7, <2>1, <2>2, <2>3, <3>1 DEF OwedKept
  <2> QED BY <2>2, <2>4, <2>5 DEF Tame
<1> QED BY <1>1, <1>6, <1>8 DEF TablesInv

\* A CREATE or DROP that goes on or ends, and leaves catalog and routing table as they are.
Settles(c) ==
  /\ session[c].stmt \in DDL
  /\ \/ /\ Ended(c)
        /\ session[c].stmt # "drop" /\ session[c].pc \notin {"catalog", "rollback"}
     \/ \E p \in Steps, e \in EngineIds \cup {NoEngine} :
          /\ Moved(c, p, e)
          /\ p \in {"catalog", "rollback"} <=> session[c].pc \in {"catalog", "rollback"}
          /\ p # "unregisterLSM" => session[c].pc # "unregisterLSM"
          /\ p \in {"closeMemory", "dropCatalog"}
               => session[c].pc \in {"closeMemory", "dropCatalog"}
  /\ UNCHANGED <<catalog, file, lsm, mem, owed, crossed>> /\ shared \subseteq shared'
  /\ \A e \in EngineIds : Registered(e) => engines'[e].rows = engines[e].rows
  /\ \A t \in Tables : DirOf(t) \notin shared' => disk'[DirOf(t)] = disk[DirOf(t)]

\* Such a step keeps the invariant.
LEMMA SettlesTame ==
  ASSUME TablesInv, NEW c \in Clients, Settles(c), EngineInv'
  PROVE  TablesInv'
<1>1. /\ session[c].stmt \in DDL /\ \A d \in Clients \ {c} : session'[d] = session[d]
      /\ UNCHANGED <<catalog, file, lsm, mem, owed, crossed>>
  BY DEF Settles, Ended, Moved
<1>2. ~ session[c].owe /\ ~ session'[c].owe
  BY DEF TablesInv, EngineInv, SessionsShaped, Shaped, Settles, Moved, Ended, Idle
<1>3. OwedExist'
  BY <1>1, <1>2 DEF TablesInv, OwedExist
<1>4. /\ session'[c].pc \in {"catalog", "rollback"} <=> session[c].pc \in {"catalog", "rollback"}
      /\ session'[c].stmt \in DDL => /\ session'[c].stmt = session[c].stmt
                                     /\ session'[c].table = session[c].table
                                     /\ session'[c].pc # "unregisterLSM"
                                          => session[c].pc # "unregisterLSM"
                                     /\ session'[c].pc \in {"closeMemory", "dropCatalog"}
                                          => session[c].pc \in {"closeMemory", "dropCatalog"}
      /\ session[c].stmt = "drop" => session'[c].stmt = "drop"
      /\ session'[c].pc \in {"catalog", "rollback"} => session'[c].stmt \in DDL
      /\ session[c].pc \in {"catalog", "rollback"}
           => session'[c].stmt \in DDL /\ session'[c].table = session[c].table
      /\ session'[c].stmt = "drop" => session'[c].table = session[c].table
  BY <1>1 DEF Settles, Moved, Ended, Idle, DDL
<1>5. ASSUME NEW t \in Tables \ crossed
      PROVE  Tame(t)'
  <2>1. Uncrossed(t) /\ Routed(t) /\ OwedKept(t)
    BY <1>5 DEF TablesInv, Tame
  <2>2. /\ \A a \in DDL : /\ Running(a, t)' \subseteq Running(a, t)
                          /\ \A d \in Running(a, t)' : session'[d].stmt = session[d].stmt
        /\ Registrants(t)' = Registrants(t)
        /\ NoDrop(t)' => NoDrop(t)
        /\ "lsm" \in DDL /\ "memory" \in DDL /\ "drop" \in DDL
    BY <1>1, <1>4 DEF Running, Registrants, NoDrop, DDL
  <2>3. \A d \in Registrants(t)' : session'[d].stmt = session[d].stmt
    BY <1>1, <1>4 DEF Registrants
  <2>4. Uncrossed(t)'
    <3>1. \A a, b \in DDL : Running(a, t)' # {} /\ Running(b, t)' # {} => a = b
      BY <2>1, <2>2 DEF Uncrossed
    <3>2. /\ file'[t] = catalog'[t]
          /\ \A x, y \in Registrants(t)' : x = y
          /\ \A d \in Registrants(t)' : /\ catalog'[t] = "absent"
                                        /\ session'[d].stmt = "lsm" => lsm'[t] # NoEngine
                                        /\ session'[d].stmt = "memory" => mem'[t] # NoEngine
          /\ catalog'[t] = "absent" /\ Registrants(t)' = {}
               => lsm'[t] = NoEngine /\ mem'[t] = NoEngine
      BY <1>1, <2>1, <2>2, <2>3 DEF Uncrossed
    <3>3. /\ NoDrop(t)' => /\ catalog'[t] = "lsm" => lsm'[t] # NoEngine /\ mem'[t] = NoEngine
                           /\ catalog'[t] = "memory" => lsm'[t] = NoEngine /\ mem'[t] # NoEngine
          /\ \A d \in Running("lsm", t)' : catalog'[t] # "memory" /\ mem'[t] = NoEngine
          /\ \A d \in Running("memory", t)' : catalog'[t] # "lsm" /\ lsm'[t] = NoEngine
      BY <1>1, <2>1, <2>2 DEF Uncrossed
    <3>4. \A d \in Running("drop", t)' :
            /\ session'[d].pc # "unregisterLSM" => session[d].pc # "unregisterLSM"
            /\ session'[d].pc \in {"closeMemory", "dropCatalog"}
                 => session[d].pc \in {"closeMemory", "dropCatalog"}
      BY <1>1, <1>4, <2>2 DEF Running
    <3>5. \A d \in Running("drop", t)' :
            /\ session'[d].pc # "unregisterLSM" => lsm'[t] = NoEngine
            /\ session'[d].pc \in {"closeMemory", "dropCatalog"} => mem'[t] = NoEngine
      BY <1>1, <2>1, <2>2, <3>4 DEF Uncrossed
    <3> QED BY <3>1, <3>2, <3>3, <3>5 DEF Uncrossed
  <2>5. StaysOn(t)
    BY <1>1, <1>2, <2>2 DEF StaysOn, Settles
  <2> QED BY <2>4, <2>5, StaysRouted DEF Tame
<1> QED BY <1>1, <1>3, <1>5 DEF TablesInv

\* An engine that nobody refers to is nobody's.
LEMMA UnusedUnregistered ==
  ASSUME NEW n, Unused(n)
  PROVE  ~ Registered(n)
BY DEF Unused, Registered

\* Opening an engine settles: nobody refers to it yet.
LEMMA OpenEngineTame ==
  ASSUME TablesInv, NEW c \in Clients, OpenEngine(c)
  PROVE  TablesInv'
<1>1. /\ EngineInv' /\ Others(c) /\ session[c].pc = "open" /\ session[c].stmt = "lsm"
      /\ session[c].table \in Tables
      /\ \E n \in EngineIds :
           /\ Unused(n) /\ Moved(c, "register", n)
           /\ \A e \in EngineIds \cup {Default} : e # n => engines'[e] = engines[e]
           /\ ~ InUse(DirOf(session[c].table), n) => disk' = disk
      /\ \A t \in Tables : DirOf(t) \notin shared' => disk'[DirOf(t)] = disk[DirOf(t)]
      /\ shared \subseteq shared'
      /\ UNCHANGED <<catalog, file, lsm, mem, owed, crossed>>
  BY OpenEngineInv DEF TablesInv
<1>2. PICK n \in EngineIds :
        /\ Unused(n) /\ Moved(c, "register", n)
        /\ \A e \in EngineIds \cup {Default} : e # n => engines'[e] = engines[e]
  BY <1>1
<1>3. \A e \in EngineIds : Registered(e) => engines'[e].rows = engines[e].rows
  BY <1>2, UnusedUnregistered
<1>4. Settles(c)
  <2>1. "register" \in Steps /\ session[c].stmt \in DDL
    BY <1>1 DEF Steps, DDL
  <2> QED BY <1>1, <1>2, <1>3, <2>1 DEF Settles
<1> QED BY <1>1, <1>4, SettlesTame

\* So does a CREATE that ends because its engine does not open.
LEMMA OpenFailsTame ==
  ASSUME TablesInv, NEW c \in Clients, OpenFails(c)
  PROVE  TablesInv'
<1>1. /\ EngineInv' /\ Ended(c) /\ session[c].pc = "open" /\ session[c].stmt = "lsm"
      /\ UNCHANGED <<catalog, file, lsm, mem, engines, disk, owed, crossed, shared>>
  BY OpenFailsInv DEF TablesInv
<1>2. Settles(c)
  BY <1>1 DEF Settles, DDL
<1> QED BY <1>1, <1>2, SettlesTame

\* So does closing an engine that has been taken: no table refers to it.
LEMMA CloseEngineTame ==
  ASSUME TablesInv, NEW c \in Clients, CloseEngine(c)
  PROVE  TablesInv'
<1>1. /\ EngineInv' /\ session[c].pc \in Closing
      /\ session[c].engine \in EngineIds
      /\ ~ Registered(session[c].engine)
      /\ session[c].pc = "close" => Ended(c)
      /\ session[c].pc = "closeLSM" => Moved(c, "unregisterMemory", NoEngine)
      /\ session[c].pc = "closeMemory" => Moved(c, "dropCatalog", NoEngine)
      /\ \A e \in EngineIds \cup {Default} : e # session[c].engine => engines'[e] = engines[e]
      /\ \A t \in Tables : DirOf(t) \notin shared => disk'[DirOf(t)] = disk[DirOf(t)]
      /\ UNCHANGED <<catalog, file, lsm, mem, dirs, owed, crossed, shared>>
  BY CloseEngineInv DEF TablesInv
<1>2. Shaped(session[c])
  BY DEF TablesInv, EngineInv, SessionsShaped
<1>3. \A e \in EngineIds : Registered(e) => engines'[e].rows = engines[e].rows
  BY <1>1
<1>4. /\ session[c].stmt \in DDL
      /\ session[c].pc = "close" => session[c].stmt # "drop"
      /\ "unregisterMemory" \in Steps /\ "dropCatalog" \in Steps
  BY <1>1, <1>2 DEF Shaped, Closing, DDL, Steps
<1>5. Settles(c)
  <2>1. CASE session[c].pc = "close"
    BY <1>1, <1>3, <1>4, <2>1 DEF Settles
  <2>2. CASE session[c].pc = "closeLSM"
    BY <1>1, <1>3, <1>4, <2>2 DEF Settles
  <2>3. CASE session[c].pc = "closeMemory"
    BY <1>1, <1>3, <1>4, <2>3 DEF Settles
  <2> QED BY <1>1, <2>1, <2>2, <2>3 DEF Closing
<1> QED BY <1>1, <1>5, SettlesTame

\* The CREATEs and DROPs on a table that have not crossed are of one kind.
LEMMA OneKind ==
  ASSUME NEW t \in Tables, Uncrossed(t), SessionsShaped, NEW c \in Clients,
         session[c].table = t, session[c].stmt \in DDL
  PROVE  /\ \A a \in DDL \ {session[c].stmt} : Running(a, t) = {}
         /\ c \in Running(session[c].stmt, t)
         /\ Registrants(t) \subseteq Running(session[c].stmt, t)
         /\ session[c].stmt = "drop" => Registrants(t) = {}
<1>1. c \in Running(session[c].stmt, t)
  BY DEF Running
<1>2. \A a \in DDL \ {session[c].stmt} : Running(a, t) = {}
  BY <1>1 DEF Uncrossed
<1>3. \A d \in Registrants(t) : /\ session[d].stmt \in {"lsm", "memory"} \cap DDL
                                /\ d \in Running(session[d].stmt, t)
  BY DEF Registrants, Running, SessionsShaped, Shaped, DDL
<1>4. Registrants(t) \subseteq Running(session[c].stmt, t)
  BY <1>2, <1>3
<1>5. session[c].stmt = "drop" => Registrants(t) = {}
  BY <1>3, <1>4 DEF Running
<1> QED BY <1>1, <1>2, <1>4, <1>5

\* The other tables, when one statement of CREATE or DROP takes a step.
LEMMA OthersTame ==
  ASSUME TablesInv, NEW c \in Clients, NEW u \in Tables, session[c].table = u,
         session'[c].table = u \/ session'[c] = Idle,
         \A d \in Clients \ {c} : session'[d] = session[d],
         crossed \subseteq crossed', shared' = shared,
         \A t \in Tables \ {u} : /\ catalog'[t] = catalog[t] /\ lsm'[t] = lsm[t]
                                 /\ mem'[t] = mem[t] /\ owed'[t] = owed[t],
         file' \in {file, catalog'},
         \A e \in EngineIds : Registered(e) => engines'[e].rows = engines[e].rows,
         \A t \in Tables \ {u} : DirOf(t) \notin shared => disk'[DirOf(t)] = disk[DirOf(t)],
         NEW t \in Tables \ crossed', t # u
  PROVE  Tame(t)'
<1>1. file'[t] = file[t]
  BY DEF TablesInv, Tame, Uncrossed
<1>2. session'[c].table # t
  BY TablesAssumption DEF Idle
<1>3. Elsewhere(c, t)
  BY <1>1, <1>2 DEF Elsewhere, Others
<1> QED BY <1>3, ElsewhereTame

\* An engine is registered for a table that has none, and is not in the catalog yet.
LEMMA RegisterLSMTame ==
  ASSUME TablesInv, NEW c \in Clients, RegisterLSM(c)
  PROVE  TablesInv'
<1>1. /\ EngineInv' /\ session[c].pc = "register" /\ session[c].stmt = "lsm"
      /\ session[c].table \in Tables /\ session[c].engine \in EngineIds
      /\ \/ /\ lsm[session[c].table] = NoEngine
            /\ lsm' = [lsm EXCEPT ![session[c].table] = session[c].engine]
            /\ Moved(c, "catalog", NoEngine)
         \/ lsm' = lsm /\ Moved(c, "close", session[c].engine)
      /\ UNCHANGED <<catalog, file, mem, engines, dirs, disk, owed, crossed, shared>>
  BY RegisterLSMInv DEF TablesInv
<1>2. CASE lsm' = lsm /\ Moved(c, "close", session[c].engine)
  <2>1. Settles(c)
    <3>1. session[c].stmt \in DDL /\ "close" \in Steps
      BY <1>1 DEF DDL, Steps
    <3> QED BY <1>1, <1>2, <3>1 DEF Settles
  <2> QED BY <1>1, <2>1, SettlesTame
<1>3. CASE /\ lsm[session[c].table] = NoEngine
           /\ lsm' = [lsm EXCEPT ![session[c].table] = session[c].engine]
           /\ Moved(c, "catalog", NoEngine)
  <2>1. PICK u \in Tables, e \in EngineIds : u = session[c].table /\ e = session[c].engine
    BY <1>1
  <2>2. /\ session'[c].pc = "catalog" /\ session'[c].stmt = "lsm" /\ session'[c].table = u
        /\ session'[c].owe = session[c].owe
        /\ \A d \in Clients \ {c} : session'[d] = session[d]
    BY <1>1, <1>3, <2>1 DEF Moved
  <2>3. lsm'[u] = e /\ e # NoEngine /\ \A t \in Tables \ {u} : lsm'[t] = lsm[t]
    BY <1>3, <2>1, TablesAssumption DEF TablesInv, EngineInv, StateTypes
  <2>4. OwedExist'
    BY <1>1, <2>1, <2>2 DEF TablesInv, OwedExist
  <2>5. ASSUME NEW t \in Tables \ crossed', t # u
        PROVE  Tame(t)'
    BY <1>1, <2>1, <2>2, <2>3, <2>5, OthersTame
  <2>6. ASSUME u \notin crossed
        PROVE  Tame(u)'
    <3>1. Uncrossed(u) /\ SessionsShaped
      BY <2>6 DEF TablesInv, Tame, EngineInv
    <3>2. /\ \A a \in DDL \ {"lsm"} : Running(a, u) = {}
          /\ c \in Running("lsm", u)
          /\ Registrants(u) \subseteq Running("lsm", u)
          /\ "lsm" \in DDL /\ "memory" \in DDL /\ "drop" \in DDL
      BY <1>1, <2>1, <3>1, OneKind DEF DDL
    <3>3. Registrants(u) = {}
      BY <1>3, <2>1, <3>1, <3>2 DEF Uncrossed, Running
    <3>4. catalog[u] = "absent" /\ mem[u] = NoEngine
      <4>1. catalog[u] \in {"absent", "lsm", "memory"}
        BY DEF TablesInv, EngineInv, StateTypes
      <4>2. NoDrop(u)
        BY <3>2 DEF NoDrop
      <4>3. /\ catalog[u] # "memory" /\ mem[u] = NoEngine
            /\ catalog[u] = "lsm" => lsm[u] # NoEngine
        BY <3>1, <3>2, <4>2 DEF Uncrossed
      <4> QED BY <1>3, <2>1, <4>1, <4>3
    <3>5. /\ \A a \in DDL : Running(a, u)' = Running(a, u)
          /\ Registrants(u)' = {c}
      BY <1>1, <2>1, <2>2, <3>3 DEF Running, Registrants
    <3>6. Uncrossed(u)'
      <4>1. /\ \A a, b \in DDL : Running(a, u)' # {} /\ Running(b, u)' # {} => a = b
            /\ file'[u] = catalog'[u] /\ catalog'[u] = "absent"
        BY <1>1, <3>1, <3>4, <3>5 DEF Uncrossed
      <4>2. /\ \A x, y \in Registrants(u)' : x = y
            /\ \A d \in Registrants(u)' : /\ session'[d].stmt = "lsm" => lsm'[u] # NoEngine
                                          /\ session'[d].stmt = "memory" => mem'[u] # NoEngine
            /\ Registrants(u)' # {}
        BY <2>2, <2>3, <3>5
      <4>3. mem'[u] = NoEngine /\ Running("memory", u)' = {} /\ Running("drop", u)' = {}
        BY <1>1, <3>2, <3>4, <3>5
      <4> QED BY <4>1, <4>2, <4>3 DEF Uncrossed
    <3>7. owed'[u] = {} /\ \A d \in Clients : session'[d].table = u => ~ session'[d].owe
      BY <1>1, <2>1, <2>2, <3>4, NothingOwed DEF TablesInv
    <3> QED BY <3>6, <3>7, NothingKept DEF Tame
  <2> QED BY <1>1, <2>4, <2>5, <2>6 DEF TablesInv
<1> QED BY <1>1, <1>2, <1>3

\* The same for a memory table, whose engine is made here.
LEMMA RegisterMemoryTame ==
  ASSUME TablesInv, NEW c \in Clients, RegisterMemory(c)
  PROVE  TablesInv'
<1>1. /\ EngineInv' /\ session[c].pc = "register" /\ session[c].stmt = "memory"
      /\ session[c].table \in Tables
      /\ \/ Ended(c) /\ mem' = mem /\ engines' = engines
         \/ \E n \in EngineIds :
              /\ Unused(n) /\ Moved(c, "catalog", NoEngine)
              /\ mem[session[c].table] = NoEngine
              /\ mem' = [mem EXCEPT ![session[c].table] = n]
              /\ \A e \in EngineIds \cup {Default} : e # n => engines'[e] = engines[e]
      /\ UNCHANGED <<catalog, file, lsm, dirs, disk, owed, crossed, shared>>
  BY RegisterMemoryInv DEF TablesInv
<1>2. CASE Ended(c) /\ mem' = mem /\ engines' = engines
  <2>1. Settles(c)
    BY <1>1, <1>2 DEF Settles, DDL
  <2> QED BY <1>1, <2>1, SettlesTame
<1>3. CASE \E n \in EngineIds :
             /\ Unused(n) /\ Moved(c, "catalog", NoEngine)
             /\ mem[session[c].table] = NoEngine
             /\ mem' = [mem EXCEPT ![session[c].table] = n]
             /\ \A e \in EngineIds \cup {Default} : e # n => engines'[e] = engines[e]
  <2>1. PICK u \in Tables, n \in EngineIds :
          /\ u = session[c].table /\ Unused(n) /\ Moved(c, "catalog", NoEngine)
          /\ mem[u] = NoEngine /\ mem' = [mem EXCEPT ![u] = n]
          /\ \A e \in EngineIds \cup {Default} : e # n => engines'[e] = engines[e]
    BY <1>1, <1>3
  <2>2. /\ session'[c].pc = "catalog" /\ session'[c].stmt = "memory" /\ session'[c].table = u
        /\ session'[c].owe = session[c].owe
        /\ \A d \in Clients \ {c} : session'[d] = session[d]
    BY <1>1, <2>1 DEF Moved
  <2>3. mem'[u] = n /\ n # NoEngine /\ \A t \in Tables \ {u} : mem'[t] = mem[t]
    BY <2>1, TablesAssumption DEF TablesInv, EngineInv, StateTypes
  <2>4. OwedExist'
    BY <1>1, <2>1, <2>2 DEF TablesInv, OwedExist
  <2>5. ASSUME NEW t \in Tables \ crossed', t # u
        PROVE  Tame(t)'
    <3>1. \A e \in EngineIds : Registered(e) => engines'[e].rows = engines[e].rows
      BY <2>1, UnusedUnregistered
    <3> QED BY <1>1, <2>1, <2>2, <2>3, <2>5, <3>1, OthersTame
  <2>6. ASSUME u \notin crossed
        PROVE  Tame(u)'
    <3>1. Uncrossed(u) /\ SessionsShaped
      BY <2>6 DEF TablesInv, Tame, EngineInv
    <3>2. /\ \A a \in DDL \ {"memory"} : Running(a, u) = {}
          /\ c \in Running("memory", u)
          /\ Registrants(u) \subseteq Running("memory", u)
          /\ "lsm" \in DDL /\ "memory" \in DDL /\ "drop" \in DDL
      BY <1>1, <2>1, <3>1, OneKind DEF DDL
    <3>3. Registrants(u) = {}
      BY <2>1, <3>1, <3>2 DEF Uncrossed, Running
    <3>4. catalog[u] = "absent" /\ lsm[u] = NoEngine
      <4>1. catalog[u] \in {"absent", "lsm", "memory"}
        BY DEF TablesInv, EngineInv, StateTypes
      <4>2. NoDrop(u)
        BY <3>2 DEF NoDrop
      <4>3. /\ catalog[u] # "lsm" /\ lsm[u] = NoEngine
            /\ catalog[u] = "memory" => mem[u] # NoEngine
        BY <3>1, <3>2, <4>2 DEF Uncrossed
      <4> QED BY <2>1, <4>1, <4>3
    <3>5. /\ \A a \in DDL : Running(a, u)' = Running(a, u)
          /\ Registrants(u)' = {c}
      BY <1>1, <2>1, <2>2, <3>3 DEF Running, Registrants
    <3>6. Uncrossed(u)'
      <4>1. /\ \A a, b \in DDL : Running(a, u)' # {} /\ Running(b, u)' # {} => a = b
            /\ file'[u] = catalog'[u] /\ catalog'[u] = "absent"
        BY <1>1, <3>1, <3>4, <3>5 DEF Uncrossed
      <4>2. /\ \A x, y \in Registrants(u)' : x = y
            /\ \A d \in Registrants(u)' : /\ session'[d].stmt = "lsm" => lsm'[u] # NoEngine
                                          /\ session'[d].stmt = "memory" => mem'[u] # NoEngine
            /\ Registrants(u)' # {}
        BY <2>2, <2>3, <3>5
      <4>3. lsm'[u] = NoEngine /\ Running("lsm", u)' = {} /\ Running("drop", u)' = {}
        BY <1>1, <3>2, <3>4, <3>5
      <4> QED BY <4>1, <4>2, <4>3 DEF Uncrossed
    <3>7. owed'[u] = {} /\ \A d \in Clients : session'[d].table = u => ~ session'[d].owe
      BY <1>1, <2>1, <2>2, <3>4, NothingOwed DEF TablesInv
    <3> QED BY <3>6, <3>7, NothingKept DEF Tame
  <2> QED BY <1>1, <2>4, <2>5, <2>6 DEF TablesInv
<1> QED BY <1>1, <1>2, <1>3

\* The table becomes visible when its engine is registered, and in the file, or it is refused.
LEMMA CatalogCreateTame ==
  ASSUME TablesInv, NEW c \in Clients, CatalogCreate(c)
  PROVE  TablesInv'
<1>1. /\ EngineInv'
      /\ Ended(c) \/ Moved(c, "rollback", session[c].engine)
      /\ session[c].pc = "catalog" /\ session[c].stmt \in {"lsm", "memory"}
      /\ session[c].table \in Tables
      /\ \A t \in Tables \ {session[c].table} : catalog'[t] = catalog[t]
      /\ UNCHANGED <<lsm, mem, engines, dirs, disk, owed, shared>>
      /\ \/ /\ UNCHANGED <<catalog, file, faults, crossed>>
            /\ Moved(c, "rollback", session[c].engine)
         \/ /\ catalog[session[c].table] = "absent"
            /\ catalog'[session[c].table] = session[c].stmt
            /\ file' = catalog' /\ crossed' = crossed /\ Ended(c)
         \/ /\ catalog[session[c].table] = "absent"
            /\ catalog'[session[c].table] = session[c].stmt
            /\ file' = file /\ crossed' = crossed \cup {session[c].table}
  BY CatalogCreateInv DEF TablesInv
<1>2. CASE UNCHANGED <<catalog, file, crossed>> /\ Moved(c, "rollback", session[c].engine)
  <2>1. Settles(c)
    <3>1. /\ session[c].stmt \in DDL /\ "rollback" \in Steps
          /\ session[c].engine \in EngineIds \cup {NoEngine}
      BY <1>1 DEF DDL, Steps, TablesInv, EngineInv, SessionsShaped, Shaped
    <3> QED BY <1>1, <1>2, <3>1 DEF Settles
  <2> QED BY <1>1, <2>1, SettlesTame
<1>3. CASE /\ catalog[session[c].table] = "absent"
           /\ catalog'[session[c].table] = session[c].stmt
           /\ \/ file' = catalog' /\ crossed' = crossed /\ Ended(c)
              \/ file' = file /\ crossed' = crossed \cup {session[c].table}
  <2>1. PICK u \in Tables : u = session[c].table
    BY <1>1
  <2>2. /\ session'[c].table = u \/ session'[c] = Idle
        /\ \A d \in Clients \ {c} : session'[d] = session[d]
        /\ session'[c].owe => session[c].owe /\ session'[c].table = u
    BY <1>1, <2>1 DEF Moved, Ended, Idle
  <2>3. owed[u] = {} /\ \A d \in Clients : session[d].table = u => ~ session[d].owe
    BY <1>3, <2>1, NothingOwed DEF TablesInv
  <2>4. owed'[u] = {} /\ \A d \in Clients : session'[d].table = u => ~ session'[d].owe
    BY <1>1, <2>1, <2>2, <2>3
  <2>5. OwedExist'
    <3>1. \A t \in Tables : catalog[t] # "absent" => catalog'[t] # "absent"
      BY <1>1, <1>3
    <3>2. \A d \in Clients : session'[d].owe => /\ session[d].owe
                                                /\ session'[d].table = session[d].table
      BY <2>1, <2>2
    <3>3. \A d \in Clients : session[d].owe => session[d].table \in Tables
      BY DEF TablesInv, EngineInv, SessionsShaped, Shaped, Idle
    <3> QED BY <1>1, <3>1, <3>2, <3>3 DEF TablesInv, OwedExist
  <2>6. crossed \subseteq crossed' /\ file' \in {file, catalog'}
    BY <1>3
  <2>7. ASSUME NEW t \in Tables \ crossed', t # u
        PROVE  Tame(t)'
    BY <1>1, <2>1, <2>2, <2>6, <2>7, OthersTame
  <2>8. ASSUME u \notin crossed'
        PROVE  Tame(u)'
    <3>1. /\ file' = catalog' /\ u \notin crossed /\ session'[c] = Idle
      BY <1>3, <2>1, <2>8 DEF Ended
    <3>2. Uncrossed(u) /\ SessionsShaped
      BY <3>1 DEF TablesInv, Tame, EngineInv
    <3>3. PICK k \in {"lsm", "memory"} : k = session[c].stmt
      BY <1>1
    <3>4. k \in DDL /\ "lsm" \in DDL /\ "memory" \in DDL /\ "drop" \in DDL
      BY DEF DDL
    <3>5. /\ \A a \in DDL \ {k} : Running(a, u) = {}
          /\ c \in Running(k, u)
          /\ Registrants(u) = {c}
      <4>1. c \in Registrants(u)
        BY <1>1, <2>1 DEF Registrants
      <4>2. Registrants(u) = {c}
        BY <3>2, <4>1 DEF Uncrossed
      <4> QED BY <2>1, <3>2, <3>3, <3>4, <4>2, OneKind
    <3>6. /\ k = "lsm" => lsm[u] # NoEngine /\ mem[u] = NoEngine
          /\ k = "memory" => lsm[u] = NoEngine /\ mem[u] # NoEngine
      BY <3>2, <3>3, <3>5 DEF Uncrossed
    <3>7. /\ \A a \in DDL : Running(a, u)' \subseteq Running(a, u)
          /\ Registrants(u)' = {}
      <4>1. Idle.pc = "idle" /\ Idle.stmt \notin DDL
        BY DEF Idle, DDL
      <4>2. c \notin Registrants(u)' /\ \A a \in DDL : c \notin Running(a, u)'
        BY <3>1, <4>1 DEF Registrants, Running
      <4>3. Registrants(u)' \subseteq Registrants(u)
        BY <2>2, <4>2 DEF Registrants
      <4>4. \A a \in DDL : Running(a, u)' \subseteq Running(a, u)
        BY <2>2, <4>2 DEF Running
      <4> QED BY <3>5, <4>2, <4>3, <4>4
    <3>8. Uncrossed(u)'
      <4>1. /\ \A a, b \in DDL : Running(a, u)' # {} /\ Running(b, u)' # {} => a = b
            /\ file'[u] = catalog'[u] /\ catalog'[u] = k
        BY <1>3, <2>1, <3>1, <3>2, <3>3, <3>7 DEF Uncrossed
      <4>2. /\ k = "lsm" => lsm'[u] # NoEngine /\ mem'[u] = NoEngine
            /\ k = "memory" => lsm'[u] = NoEngine /\ mem'[u] # NoEngine
        BY <1>1, <3>6
      <4>3. \A a \in DDL : a # k => Running(a, u)' = {}
        BY <3>5, <3>7
      <4>4. CASE k = "lsm"
        <5>1. /\ Running("memory", u)' = {} /\ Running("drop", u)' = {} /\ catalog'[u] = "lsm"
          BY <3>4, <4>1, <4>3, <4>4
        <5> QED BY <3>7, <4>1, <4>2, <4>4, <5>1 DEF Uncrossed
      <4>5. CASE k = "memory"
        <5>1. /\ Running("lsm", u)' = {} /\ Running("drop", u)' = {} /\ catalog'[u] = "memory"
          BY <3>4, <4>1, <4>3, <4>5
        <5> QED BY <3>7, <4>1, <4>2, <4>5, <5>1 DEF Uncrossed
      <4> QED BY <4>4, <4>5
    <3> QED BY <2>4, <3>8, NothingKept DEF Tame
  <2> QED BY <1>1, <2>1, <2>5, <2>7, <2>8 DEF TablesInv
<1> QED BY <1>1, <1>2, <1>3

\* A CREATE that rolls back takes what it has registered.
LEMMA RollbackTame ==
  ASSUME TablesInv, NEW c \in Clients, Rollback(c)
  PROVE  TablesInv'
<1>1. /\ EngineInv' /\ session[c].pc = "rollback"
      /\ session[c].table \in Tables
      /\ session[c].stmt = "lsm" =>
           /\ mem' = mem
           /\ \/ lsm[session[c].table] = NoEngine /\ lsm' = lsm /\ Ended(c)
              \/ /\ lsm' = [lsm EXCEPT ![session[c].table] = NoEngine]
                 /\ lsm[session[c].table] # NoEngine
                 /\ Moved(c, "close", lsm[session[c].table])
      /\ session[c].stmt = "memory" =>
           /\ lsm' = lsm
           /\ \/ mem[session[c].table] = NoEngine /\ mem' = mem /\ Ended(c)
              \/ /\ mem' = [mem EXCEPT ![session[c].table] = NoEngine]
                 /\ mem[session[c].table] # NoEngine
                 /\ Moved(c, "close", mem[session[c].table])
      /\ session[c].stmt \in {"lsm", "memory"}
      /\ UNCHANGED <<catalog, file, engines, dirs, disk, owed, crossed, shared>>
  BY RollbackInv DEF TablesInv
<1>2. PICK u \in Tables, k \in {"lsm", "memory"} : u = session[c].table /\ k = session[c].stmt
  BY <1>1
<1>3. /\ session'[c].table = u \/ session'[c] = Idle
      /\ \A d \in Clients \ {c} : session'[d] = session[d]
      /\ session'[c].owe => session[c].owe /\ session'[c].table = u
      /\ session'[c].pc \notin {"catalog", "rollback"}
      /\ session'[c].stmt \in DDL => session'[c].stmt = k
  BY <1>1, <1>2 DEF Moved, Ended, Idle, DDL
<1>4. /\ lsm \in [Tables -> EngineIds \cup {NoEngine}]
      /\ mem \in [Tables -> EngineIds \cup {NoEngine}]
  BY DEF TablesInv, EngineInv, StateTypes
<1>5. /\ \A t \in Tables \ {u} : lsm'[t] = lsm[t] /\ mem'[t] = mem[t]
      /\ k = "lsm" => lsm'[u] = NoEngine /\ mem'[u] = mem[u]
      /\ k = "memory" => mem'[u] = NoEngine /\ lsm'[u] = lsm[u]
  BY <1>1, <1>2, <1>4
<1>6. OwedExist'
  BY <1>1, <1>2, <1>3 DEF TablesInv, OwedExist
<1>7. ASSUME NEW t \in Tables \ crossed', t # u
      PROVE  Tame(t)'
  BY <1>1, <1>2, <1>3, <1>5, <1>7, OthersTame
<1>8. ASSUME u \notin crossed
      PROVE  Tame(u)'
  <2>1. Uncrossed(u) /\ SessionsShaped
    BY <1>8 DEF TablesInv, Tame, EngineInv
  <2>2. k \in DDL /\ "lsm" \in DDL /\ "memory" \in DDL /\ "drop" \in DDL
    BY DEF DDL
  <2>3. c \in Registrants(u)
    BY <1>1, <1>2 DEF Registrants
  <2>4. Registrants(u) = {c} /\ catalog[u] = "absent"
    BY <2>1, <2>3 DEF Uncrossed
  <2>5. \A a \in DDL \ {k} : Running(a, u) = {}
    BY <1>2, <2>1, <2>2, OneKind
  <2>6. /\ \A a \in DDL : Running(a, u)' \subseteq Running(a, u)
        /\ Registrants(u)' = {}
    BY <1>1, <1>2, <1>3, <2>4 DEF Running, Registrants
  <2>7. /\ k = "lsm" => mem[u] = NoEngine
        /\ k = "memory" => lsm[u] = NoEngine
    BY <1>2, <2>1, <2>2 DEF Uncrossed, Running
  <2>8. Uncrossed(u)'
    <3>1. /\ \A a, b \in DDL : Running(a, u)' # {} /\ Running(b, u)' # {} => a = b
          /\ file'[u] = catalog'[u] /\ catalog'[u] = "absent"
      BY <1>1, <2>1, <2>4, <2>6 DEF Uncrossed
    <3>2. lsm'[u] = NoEngine /\ mem'[u] = NoEngine
      BY <1>5, <2>7
    <3>3. Running("drop", u)' = {}
      BY <2>2, <2>5, <2>6
    <3> QED BY <2>6, <3>1, <3>2, <3>3 DEF Uncrossed
  <2>9. owed'[u] = {} /\ \A d \in Clients : session'[d].table = u => ~ session'[d].owe
    BY <1>1, <1>2, <1>3, <2>4, NothingOwed DEF TablesInv
  <2> QED BY <2>8, <2>9, NothingKept DEF Tame
<1> QED BY <1>1, <1>6, <1>7, <1>8 DEF TablesInv

\* A DROP takes the table's engine: while it runs no row is looked for.
LEMMA UnregisterTame ==
  ASSUME TablesInv, NEW c \in Clients, NEW u \in Tables, EngineInv',
         session[c].stmt = "drop", session[c].table = u,
         session'[c].stmt = "drop", session'[c].table = u, session'[c].owe = session[c].owe,
         session'[c].pc \notin {"catalog", "rollback"},
         session[c].pc \notin {"catalog", "rollback"},
         \A d \in Clients \ {c} : session'[d] = session[d],
         \A t \in Tables \ {u} : lsm'[t] = lsm[t] /\ mem'[t] = mem[t],
         lsm'[u] \in {lsm[u], NoEngine}, mem'[u] \in {mem[u], NoEngine},
         session'[c].pc # "unregisterLSM" => lsm'[u] = NoEngine,
         session'[c].pc \in {"closeMemory", "dropCatalog"} => mem'[u] = NoEngine,
         UNCHANGED <<catalog, file, engines, dirs, disk, owed, crossed, shared>>
  PROVE  TablesInv'
<1>1. OwedExist'
  BY DEF TablesInv, OwedExist
<1>2. ASSUME NEW t \in Tables \ crossed', t # u
      PROVE  Tame(t)'
  BY <1>2, OthersTame
<1>3. ASSUME u \notin crossed
      PROVE  Tame(u)'
  <2>1. /\ Uncrossed(u) /\ OwedKept(u) /\ SessionsShaped
    BY <1>3 DEF TablesInv, Tame, EngineInv
  <2>2. /\ \A a \in DDL \ {"drop"} : Running(a, u) = {}
        /\ c \in Running("drop", u) /\ Registrants(u) = {}
        /\ "lsm" \in DDL /\ "memory" \in DDL /\ "drop" \in DDL
    BY <2>1, OneKind DEF DDL
  <2>3. /\ \A a \in DDL : Running(a, u)' = Running(a, u)
        /\ Registrants(u)' = {} /\ ~ NoDrop(u)'
    BY <2>2 DEF Running, Registrants, NoDrop
  <2>4. Uncrossed(u)'
    <3>1. /\ \A a, b \in DDL : Running(a, u)' # {} /\ Running(b, u)' # {} => a = b
          /\ file'[u] = catalog'[u]
          /\ Running("lsm", u)' = {} /\ Running("memory", u)' = {}
      BY <2>1, <2>2, <2>3 DEF Uncrossed
    <3>2. catalog'[u] = "absent" => lsm'[u] = NoEngine /\ mem'[u] = NoEngine
      BY <2>1, <2>2 DEF Uncrossed
    <3>3. ASSUME NEW d \in Running("drop", u)'
          PROVE  /\ session'[d].pc # "unregisterLSM" => lsm'[u] = NoEngine
                 /\ session'[d].pc \in {"closeMemory", "dropCatalog"} => mem'[u] = NoEngine
      <4>1. d \in Running("drop", u) /\ d \in Clients
        BY <2>2, <2>3, <3>3 DEF Running
      <4>2. /\ session[d].pc # "unregisterLSM" => lsm[u] = NoEngine
            /\ session[d].pc \in {"closeMemory", "dropCatalog"} => mem[u] = NoEngine
        BY <2>1, <4>1 DEF Uncrossed
      <4> QED BY <4>1, <4>2
    <3> QED BY <2>3, <3>1, <3>2, <3>3 DEF Uncrossed
  <2>5. Routed(u)'
    BY <2>3 DEF Routed
  <2>6. OwedKept(u)'
    BY <2>1, <2>3 DEF OwedKept
  <2> QED BY <2>4, <2>5, <2>6 DEF Tame
<1> QED BY <1>1, <1>2, <1>3 DEF TablesInv

\* The first step of a DROP.
LEMMA UnregisterLSMTame ==
  ASSUME TablesInv, NEW c \in Clients, UnregisterLSM(c)
  PROVE  TablesInv'
<1>1. /\ EngineInv' /\ session[c].pc = "unregisterLSM"
      /\ session[c].stmt = "drop" /\ session[c].table \in Tables
      /\ \/ /\ lsm[session[c].table] = NoEngine /\ lsm' = lsm
            /\ Moved(c, "unregisterMemory", NoEngine)
         \/ /\ lsm[session[c].table] # NoEngine
            /\ lsm' = [lsm EXCEPT ![session[c].table] = NoEngine]
            /\ Moved(c, "closeLSM", lsm[session[c].table])
      /\ UNCHANGED <<catalog, file, mem, engines, dirs, disk, owed, crossed, shared>>
  BY UnregisterLSMInv DEF TablesInv
<1>2. PICK u \in Tables : u = session[c].table
  BY <1>1
<1>3. /\ session'[c].stmt = "drop" /\ session'[c].table = u /\ session'[c].owe = session[c].owe
      /\ session'[c].pc \in {"unregisterMemory", "closeLSM"}
      /\ \A d \in Clients \ {c} : session'[d] = session[d]
  BY <1>1, <1>2 DEF Moved
<1>4. /\ \A t \in Tables \ {u} : lsm'[t] = lsm[t] /\ mem'[t] = mem[t]
      /\ lsm'[u] = NoEngine /\ mem'[u] = mem[u]
  BY <1>1, <1>2 DEF TablesInv, EngineInv, StateTypes
<1> QED BY <1>1, <1>2, <1>3, <1>4, UnregisterTame

\* The second step of a DROP.
LEMMA UnregisterMemoryTame ==
  ASSUME TablesInv, NEW c \in Clients, UnregisterMemory(c)
  PROVE  TablesInv'
<1>1. /\ EngineInv' /\ session[c].pc = "unregisterMemory"
      /\ session[c].stmt = "drop" /\ session[c].table \in Tables
      /\ \/ /\ mem[session[c].table] = NoEngine /\ mem' = mem
            /\ Moved(c, "dropCatalog", NoEngine)
         \/ /\ mem[session[c].table] # NoEngine
            /\ mem' = [mem EXCEPT ![session[c].table] = NoEngine]
            /\ Moved(c, "closeMemory", mem[session[c].table])
      /\ UNCHANGED <<catalog, file, lsm, engines, dirs, disk, owed, crossed, shared>>
  BY UnregisterMemoryInv DEF TablesInv
<1>2. PICK u \in Tables : u = session[c].table
  BY <1>1
<1>3. /\ session'[c].stmt = "drop" /\ session'[c].table = u /\ session'[c].owe = session[c].owe
      /\ session'[c].pc \in {"dropCatalog", "closeMemory"}
      /\ \A d \in Clients \ {c} : session'[d] = session[d]
  BY <1>1, <1>2 DEF Moved
<1>4. /\ \A t \in Tables \ {u} : lsm'[t] = lsm[t] /\ mem'[t] = mem[t]
      /\ lsm'[u] = lsm[u] /\ mem'[u] = NoEngine
  BY <1>1, <1>2 DEF TablesInv, EngineInv, StateTypes
<1>5. CASE u \notin crossed
  <2>1. lsm[u] = NoEngine
    BY <1>1, <1>2, <1>5 DEF TablesInv, Tame, Uncrossed, Running
  <2> QED BY <1>1, <1>2, <1>3, <1>4, <2>1, UnregisterTame
<1>6. CASE u \in crossed
  <2>1. OwedExist'
    BY <1>1, <1>2, <1>3 DEF TablesInv, OwedExist
  <2>2. ASSUME NEW t \in Tables \ crossed'
        PROVE  Tame(t)'
    <3>1. t # u
      BY <1>1, <1>6, <2>2
    <3> QED BY <1>1, <1>2, <1>3, <1>4, <3>1, OthersTame
  <2> QED BY <1>1, <2>1, <2>2 DEF TablesInv
<1> QED BY <1>5, <1>6

\* The table is gone, and what was owed of it.
LEMMA DropCatalogTame ==
  ASSUME TablesInv, NEW c \in Clients, DropCatalog(c)
  PROVE  TablesInv'
<1>1. /\ EngineInv' /\ Others(c) /\ session'[c] = Idle
      /\ session[c].pc = "dropCatalog" /\ session[c].stmt = "drop"
      /\ session[c].table \in Tables
      /\ \A d \in Clients \ {c} :
           session'[d].owe <=> session[d].owe /\ session[d].table # session[c].table
      /\ owed'[session[c].table] = {}
      /\ \A t \in Tables \ {session[c].table} : owed'[t] = owed[t] /\ catalog'[t] = catalog[t]
      /\ catalog'[session[c].table] = "absent"
      /\ UNCHANGED <<lsm, mem, engines, dirs, disk, shared>>
      /\ \/ catalog' = catalog /\ file' = file /\ crossed' = crossed
         \/ file' = catalog' /\ crossed' = crossed
         \/ file' = file /\ crossed' = crossed \cup {session[c].table}
  BY DropCatalogInv DEF TablesInv
<1>2. PICK u \in Tables : u = session[c].table
  BY <1>1
<1>3. /\ Idle.table = NoTable /\ Idle.stmt \notin DDL /\ ~ Idle.owe /\ Idle.pc = "idle"
      /\ NoTable \notin Tables
  BY TablesAssumption DEF Idle, DDL
<1>4. \A d \in Clients : session[d].owe => session[d].table \in Tables
  BY DEF TablesInv, EngineInv, SessionsShaped, Shaped, Idle
<1>5. OwedExist'
  <2>1. ASSUME NEW d \in Clients, session'[d].owe
        PROVE  catalog'[session'[d].table] # "absent"
    <3>1. d # c /\ session[d].owe /\ session[d].table # u
      BY <1>1, <1>2, <1>3, <2>1
    <3>2. session'[d].table = session[d].table
      BY <1>1, <3>1 DEF Others
    <3> QED BY <1>1, <1>2, <1>4, <3>1, <3>2 DEF TablesInv, OwedExist
  <2>2. \A t \in Tables : owed'[t] # {} => catalog'[t] # "absent"
    BY <1>1, <1>2 DEF TablesInv, OwedExist
  <2> QED BY <2>1, <2>2 DEF OwedExist
<1>6. ASSUME NEW t \in Tables \ crossed', t # u
      PROVE  Tame(t)'
  <2>1. t \in Tables \ crossed
    BY <1>1, <1>6
  <2>2. file'[t] = file[t]
    BY <1>1, <1>2, <1>6, <2>1 DEF TablesInv, Tame, Uncrossed
  <2>3. Elsewhere(c, t)
    BY <1>1, <1>2, <1>3, <1>6, <2>2 DEF Elsewhere
  <2> QED BY <2>1, <2>3, ElsewhereTame
<1>7. ASSUME u \notin crossed'
      PROVE  Tame(u)'
  <2>1. u \notin crossed
    BY <1>1, <1>2, <1>7
  <2>2. /\ Uncrossed(u) /\ SessionsShaped
    BY <2>1 DEF TablesInv, Tame, EngineInv
  <2>3. /\ \A a \in DDL \ {"drop"} : Running(a, u) = {}
        /\ c \in Running("drop", u) /\ Registrants(u) = {}
        /\ "lsm" \in DDL /\ "memory" \in DDL /\ "drop" \in DDL
    BY <1>1, <1>2, <2>2, OneKind DEF DDL
  <2>4. lsm[u] = NoEngine /\ mem[u] = NoEngine
    BY <1>1, <2>2, <2>3 DEF Uncrossed
  <2>5. file'[u] = catalog'[u]
    BY <1>1, <1>2, <1>7, <2>2 DEF Uncrossed
  <2>6. /\ \A a \in DDL : Running(a, u)' \subseteq Running(a, u)
        /\ Registrants(u)' = {}
    <3>1. \A a \in DDL : Running(a, u)' \subseteq Running(a, u)
      BY <1>1, <1>3 DEF Running, Others
    <3>2. Registrants(u)' \subseteq Registrants(u)
      BY <1>1, <1>3 DEF Registrants, Others
    <3> QED BY <2>3, <3>1, <3>2
  <2>7. Uncrossed(u)'
    <3>1. /\ \A a, b \in DDL : Running(a, u)' # {} /\ Running(b, u)' # {} => a = b
          /\ Running("lsm", u)' = {} /\ Running("memory", u)' = {}
      BY <2>2, <2>3, <2>6 DEF Uncrossed
    <3>2. lsm'[u] = NoEngine /\ mem'[u] = NoEngine /\ catalog'[u] = "absent"
      BY <1>1, <1>2, <2>4
    <3> QED BY <2>5, <2>6, <3>1, <3>2 DEF Uncrossed
  <2>8. owed'[u] = {} /\ \A d \in Clients : session'[d].table = u => ~ session'[d].owe
    <3>1. ASSUME NEW d \in Clients, session'[d].table = u
          PROVE  ~ session'[d].owe
      <4>1. d # c
        BY <1>1, <1>3, <3>1
      <4>2. session[d].table = u
        BY <1>1, <3>1, <4>1 DEF Others
      <4> QED BY <1>1, <1>2, <4>1, <4>2
    <3> QED BY <1>1, <1>2, <3>1
  <2> QED BY <2>7, <2>8, NothingKept DEF Tame
<1> QED BY <1>1, <1>2, <1>5, <1>6, <1>7 DEF TablesInv

\* After a crash the tables of the file are those of the catalog, LSM tables are opened on
\* their directories, and memory tables are not looked at.
LEMMA RestartTame ==
  ASSUME TablesInv, Restart
  PROVE  TablesInv'
<1>1. /\ EngineInv' /\ catalog' = file /\ file' = file /\ disk' = disk /\ shared' = shared
      /\ \A c \in Clients : session'[c] = Idle
      /\ \A t \in Tables : /\ mem'[t] = NoEngine
                           /\ file[t] # "lsm" => lsm'[t] = NoEngine
                           /\ file[t] = "lsm" => /\ lsm'[t] # NoEngine
                                                 /\ engines'[lsm'[t]].rows = disk[DirOf(t)]
      /\ \A t \in Tables : owed'[t] = IF file[t] = "lsm" THEN owed[t] ELSE {}
      /\ crossed' = {t \in crossed : file[t] # "absent"} \cup {t \in Tables : file[t] = "memory"}
  BY RestartInv DEF TablesInv
<1>2. /\ Idle.table = NoTable /\ Idle.stmt \notin DDL /\ ~ Idle.owe /\ Idle.pc = "idle"
      /\ NoTable \notin Tables
  BY TablesAssumption DEF Idle, DDL
<1>3. \A c \in Clients : /\ session'[c].table = NoTable /\ session'[c].stmt \notin DDL
                         /\ ~ session'[c].owe /\ session'[c].pc = "idle"
  BY <1>1, <1>2
<1>4. OwedExist'
  BY <1>1, <1>3 DEF OwedExist
<1>5. ASSUME NEW t \in Tables \ crossed'
      PROVE  Tame(t)'
  <2>1. /\ file[t] \in {"absent", "lsm"}
        /\ file[t] = "lsm" => t \notin crossed
    BY <1>1, <1>5 DEF TablesInv, EngineInv, StateTypes
  <2>2. /\ \A a \in DDL : Running(a, t)' = {}
        /\ Registrants(t)' = {}
        /\ "lsm" \in DDL /\ "memory" \in DDL /\ "drop" \in DDL
    BY <1>2, <1>3 DEF Running, Registrants, DDL
  <2>3. Uncrossed(t)'
    <3>1. /\ file[t] = "absent" => lsm'[t] = NoEngine /\ mem'[t] = NoEngine
          /\ file[t] = "lsm" => lsm'[t] # NoEngine /\ mem'[t] = NoEngine
          /\ file[t] # "memory"
      BY <1>1, <2>1
    <3> QED BY <1>1, <2>2, <3>1 DEF Uncrossed
  <2>4. Routed(t)'
    BY <1>3 DEF Routed
  <2>5. OwedKept(t)'
    <3>1. CASE file[t] # "lsm"
      <4>1. owed'[t] = {}
        BY <1>1, <3>1
      <4> QED BY <4>1 DEF OwedKept
    <3>2. CASE file[t] = "lsm"
      <4>1. /\ catalog[t] = "lsm" /\ OwedKept(t)
        BY <2>1, <3>2 DEF TablesInv, Tame, Uncrossed
      <4>2. EngineFor(t)' = lsm'[t]
        BY <1>1, <3>2 DEF EngineFor
      <4>3. ASSUME DirOf(t) \notin shared, NEW k \in owed[t]
            PROVE  engines'[lsm'[t]].rows[k] = t /\ disk'[DirOf(t)][k] = t
        BY <1>1, <3>2, <4>1, <4>3 DEF OwedKept
      <4> QED BY <1>1, <3>2, <4>2, <4>3 DEF OwedKept
    <3> QED BY <3>1, <3>2
  <2> QED BY <2>3, <2>4, <2>5 DEF Tame
<1> QED BY <1>1, <1>4, <1>5 DEF TablesInv

-----------------------------------------------------------------------------
(* A table's statements that have not crossed, on every run *)

\* The server starts with no table, no statement and nothing owed.
LEMMA TablesInvInit ==
  ASSUME Init
  PROVE  TablesInv
<1>1. /\ EngineInv /\ \A c \in Clients : session[c] = Idle
      /\ Idle.stmt \notin DDL /\ ~ Idle.owe /\ Idle.pc = "idle"
  BY InitInv DEF Idle, DDL
<1>2. \A t \in Tables : /\ catalog[t] = "absent" /\ file[t] = "absent" /\ owed[t] = {}
                        /\ lsm[t] = NoEngine /\ mem[t] = NoEngine
  BY DEF Init
<1>3. OwedExist
  BY <1>1, <1>2 DEF OwedExist
<1>4. ASSUME NEW t \in Tables
      PROVE  Tame(t)
  <2>1. /\ \A a \in DDL : Running(a, t) = {}
        /\ Registrants(t) = {}
        /\ "lsm" \in DDL /\ "memory" \in DDL /\ "drop" \in DDL
    BY <1>1 DEF Running, Registrants, DDL
  <2>2. Uncrossed(t)
    BY <1>2, <2>1 DEF Uncrossed
  <2> QED BY <1>1, <1>2, <2>2 DEF Tame, Routed, OwedKept
<1> QED BY <1>1, <1>3, <1>4 DEF TablesInv

\* Every step keeps the invariant.
LEMMA TablesInvStep ==
  ASSUME TablesInv, [Next]_tablesVars
  PROVE  TablesInv'
<1>1. CASE Restart
  BY <1>1, RestartTame
<1>2. ASSUME NEW c \in Clients, Statement(c)
      PROVE  TablesInv'
  <2>1. CASE \E t \in Tables, stmt \in {"lsm", "memory"} : BeginCreate(c, stmt, t)
    BY <2>1, BeginCreateTame
  <2>2. CASE \E t \in Tables : BeginDrop(c, t)
    BY <2>2, BeginDropTame
  <2>3. CASE \E t \in Tables, k \in Keys, stmt \in {"insert", "write"} : BeginStore(c, stmt, t, k)
    BY <2>3, BeginStoreTame
  <2>4. CASE OpenEngine(c) \/ OpenFails(c) \/ RegisterLSM(c) \/ RegisterMemory(c)
    BY <2>4, OpenEngineTame, OpenFailsTame, RegisterLSMTame, RegisterMemoryTame
  <2>5. CASE CatalogCreate(c) \/ Rollback(c) \/ CloseEngine(c)
    BY <2>5, CatalogCreateTame, RollbackTame, CloseEngineTame
  <2>6. CASE UnregisterLSM(c) \/ UnregisterMemory(c) \/ DropCatalog(c)
    BY <2>6, UnregisterLSMTame, UnregisterMemoryTame, DropCatalogTame
  <2>7. CASE Route(c) \/ CheckKey(c) \/ Store(c) \/ StoreFails(c)
    BY <2>7, RouteTame, CheckKeyTame, StoreTame, StoreFailsTame
  <2> QED BY <1>2, <2>1, <2>2, <2>3, <2>4, <2>5, <2>6, <2>7, StatementSteps
<1>3. CASE UNCHANGED tablesVars
  <2>1. EngineInv'
    BY <1>3, EngineInvStep DEF TablesInv
  <2>2. /\ catalog' = catalog /\ file' = file /\ lsm' = lsm /\ mem' = mem /\ engines' = engines
        /\ disk' = disk /\ session' = session /\ owed' = owed /\ crossed' = crossed
        /\ shared' = shared
    BY <1>3 DEF tablesVars, mapVars, diskVars, noteVars
  <2>3. OwedExist'
    BY <2>2 DEF TablesInv, OwedExist
  <2>4. ASSUME NEW t \in Tables \ crossed
        PROVE  Tame(t)'
    <3>1. Uncrossed(t)'
      BY <2>2 DEF TablesInv, Tame, Uncrossed, Running, Registrants, NoDrop
    <3>2. Routed(t)' /\ OwedKept(t)'
      BY <2>2 DEF TablesInv, Tame, Routed, OwedKept, Running, NoDrop, EngineFor
    <3> QED BY <3>1, <3>2 DEF Tame
  <2> QED BY <2>1, <2>2, <2>3, <2>4 DEF TablesInv
<1> QED BY <1>1, <1>2, <1>3 DEF Next

\* The inductive invariant holds on every run.
LEMMA TablesInvariant == Spec => []TablesInv
<1>1. Init => TablesInv
  BY TablesInvInit
<1>2. TablesInv /\ [Next]_tablesVars => TablesInv'
  BY TablesInvStep
<1> QED BY <1>1, <1>2, PTL DEF Spec

\* When no CREATE or DROP of a table runs, a name that is not in the catalog has no engine: a
\* CREATE that was refused has rolled back, and the next one is not told that the table exists
\* (registerLSMEngine, registerMemoryEngine, rollback in createLSMTable).
THEOREM NoEngineOrphaned == Spec => []NoOrphanEngine
<1>1. ASSUME TablesInv, NEW t \in Tables \ crossed, catalog[t] = "absent",
             \A stmt \in DDL : Running(stmt, t) = {}
      PROVE  lsm[t] = NoEngine /\ mem[t] = NoEngine
  <2>1. Registrants(t) = {}
    <3>1. \A c \in Registrants(t) : session[c].stmt \in {"lsm", "memory"}
      BY <1>1 DEF Registrants, TablesInv, EngineInv, SessionsShaped, Shaped
    <3>2. \A c \in Registrants(t) : c \in Running(session[c].stmt, t)
      BY DEF Registrants, Running
    <3> QED BY <1>1, <3>1, <3>2 DEF DDL
  <2> QED BY <1>1, <2>1 DEF TablesInv, Tame, Uncrossed
<1>2. TablesInv => NoOrphanEngine
  BY <1>1 DEF NoOrphanEngine
<1> QED BY <1>2, TablesInvariant, PTL

\* A table of the catalog that no DROP is taking away is in the file and is routed to an engine
\* of its own kind, and not to the server's ("the engine is ready when the table becomes
\* visible", createLSMTable; engineForTable).
THEOREM LiveTablesReady == Spec => []LiveTableReady
<1>1. ASSUME TablesInv, NEW t \in Tables \ crossed, catalog[t] # "absent", Running("drop", t) = {}
      PROVE  /\ file[t] = catalog[t]
             /\ EngineFor(t) = IF catalog[t] = "lsm" THEN lsm[t] ELSE mem[t]
             /\ EngineFor(t) # Default
  <2>1. NoDrop(t) /\ catalog[t] \in {"absent", "lsm", "memory"}
    BY <1>1 DEF NoDrop, TablesInv, EngineInv, StateTypes
  <2>2. file[t] = catalog[t]
    BY <1>1 DEF TablesInv, Tame, Uncrossed
  <2>3. EngineFor(t) # Default
    BY <1>1, <2>1, OwedEngine, TablesAssumption
  <2> QED BY <1>1, <2>1, <2>2, <2>3, OwedEngine
<1>2. TablesInv => LiveTableReady
  BY <1>1 DEF LiveTableReady
<1> QED BY <1>2, TablesInvariant, PTL

\* A row of an acknowledged INSERT or /write is where the statements that come now look for it,
\* whatever restarts lie between (handleInsert, recoverLSMEngines).
THEOREM AckedRowsFound == Spec => []AckedRowsReachable
<1>1. TablesInv => AckedRowsReachable
  BY DEF TablesInv, Tame, OwedKept, NoDrop, AckedRowsReachable
<1> QED BY <1>1, TablesInvariant, PTL
=============================================================================
