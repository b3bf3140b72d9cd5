--------------------------- MODULE StatementProofs ---------------------------
(***************************************************************************)
(* Proofs about module Statements in module Server, for any sessions, any  *)
(* statements and any tables: a statement that returns without an error    *)
(* has done what SQL says, one that fails has done it for some rows and    *)
(* lost none, and the types of module Server.                              *)
(***************************************************************************)
EXTENDS ServerProofs

(* The parts of the inductive invariant                                    *)

Entries == {e \in [key : Keys, row : Rows] : e.row.id = e.key.id}
TaskFields == {"pc", "stmt", "todo", "at"}

InsertOps == {"insert", "write"}
ChangeOps == {"delete", "update"}

\* The calls a statement makes.
PcFits(op, pc) ==
  \/ op = "insert" /\ pc \in {"check", "store"}
  \/ op = "write" /\ pc = "store"
  \/ op = "delete" /\ pc \in {"fetch", "unlink"}
  \/ op = "update" /\ pc \in {"fetch", "check", "unlink", "put"}
  \/ op = "create" /\ pc \in {"create", "start", "publish"}
  \/ op = "drop" /\ pc \in {"drop", "closing"}

InProgress(t) == t.pc \notin {"idle", "ok", "error"}
Inserts(t) == InProgress(t) /\ t.stmt.op \in InsertOps
Changes(t) == t.pc \in {"check", "unlink", "put"} /\ t.stmt.op \in ChangeOps

\* A statement in progress: its rows and what comes next.
TaskTyped(t) ==
  /\ DOMAIN t = TaskFields
  /\ t.todo \in Seq(Entries) /\ t.at \in Nat
  /\ InProgress(t) => IsStatement(t.stmt) /\ PcFits(t.stmt.op, t.pc)
  /\ Inserts(t) => t.todo = Batch(t.stmt)
  /\ Changes(t) => t.todo # <<>>
  /\ t.stmt.op = "update" /\ t.pc \in {"check", "unlink"} => Moves(t)

\* In what follows t is the task of a session, b the table when it began, o the ids that
\* other sessions have written since, and T the table.

\* Ids that are the statement's alone.
Apart(b, o) == {i \in Int : i \notin o /\ [id |-> i, json |-> TRUE] \notin DOMAIN b}

\* Nothing has changed but what others wrote.
Kept(b, o, T) == \A k \in Keys : k.id \notin o => At(T, k) = At(b, k)

\* The keys that an INSERT has looked for were free when it began.
FreeKeys(t, b, o) ==
  t.stmt.op = "insert" =>
    \A j \in DOMAIN t.todo :
      (j < t.at \/ t.pc = "store") /\ t.todo[j].key.id \notin o => t.todo[j].key \notin DOMAIN b

\* The ids of the rows to come, and those of the rows that are done.
Ahead(t) == {t.todo[j].key.id : j \in DOMAIN t.todo}
DoneIds(t, b) == {i \in Int : /\ Key(i) \in DOMAIN b /\ Hits(t.stmt.where, b[Key(i)])
                              /\ i \notin Ahead(t)}

\* The rows to come are as they were, each once.
TodoSound(t, b, o) ==
  /\ \A j \in DOMAIN t.todo : LET e == t.todo[j] IN
       e.key.id \in Apart(b, o) =>
         /\ ~e.key.json /\ e.key \in DOMAIN b
         /\ b[e.key] = e.row /\ Hits(t.stmt.where, e.row)
  /\ \A j, k \in DOMAIN t.todo : t.todo[j].key = t.todo[k].key => j = k

\* How far the id of a row moves.
Shift(st) == IF st.op = "update" /\ st.set.col = "id" THEN st.set.add ELSE 0
Touches(st, i, b, o) == {i - Shift(st), i, i + Shift(st)} \subseteq Apart(b, o)

\* The row that has passed its check, and the one that is on its way.
Passed(t) == IF t.pc \in {"unlink", "put"} /\ Moves(t) THEN {Head(t.todo).key.id} ELSE {}
OnItsWay(t) == IF t.pc = "put" /\ Moves(t) THEN {Head(t.todo).key.id} ELSE {}

\* A row moves only to an id that had no row, or whose row has moved already.
RoomMade(t, b, o) ==
  t.stmt.op = "update" =>
    \A i \in Int : /\ Touches(t.stmt, i, b, o)
                   /\ i - Shift(t.stmt) \in DoneIds(t, b) \cup Passed(t)
                   /\ Key(i) \in DOMAIN b
                   => i \in DoneIds(t, b)

\* The row of id i as it should be now.
Expected(t, b, i) ==
  IF t.stmt.op = "update" /\ i - Shift(t.stmt) \in DoneIds(t, b)
  THEN {Assigned(t.stmt.set, b[Key(i - Shift(t.stmt))])}
  ELSE IF Key(i) \in DOMAIN b /\ i \notin DoneIds(t, b) \cup OnItsWay(t) THEN {b[Key(i)]}
  ELSE {}

AsExpected(t, b, o, T) ==
  \A i \in Int : Touches(t.stmt, i, b, o) => At(T, Key(i)) = Expected(t, b, i)

RowByRow(t, b, o, T) == TodoSound(t, b, o) /\ RoomMade(t, b, o) /\ AsExpected(t, b, o, T)

StatementSound(t, b, o, T) ==
  /\ Inserts(t) => Kept(b, o, T) /\ FreeKeys(t, b, o)
  /\ t.pc = "fetch" => Kept(b, o, T)
  /\ Changes(t) /\ Exact(t.stmt) => RowByRow(t, b, o, T)

StatementsTyped ==
  /\ IsTable(rows) /\ open \in BOOLEAN
  /\ DOMAIN task = Sessions /\ \A s \in Sessions : TaskTyped(task[s])
  /\ DOMAIN before = Sessions /\ \A s \in Sessions : IsTable(before[s])
  /\ DOMAIN others = Sessions /\ \A s \in Sessions : others[s] \subseteq Int

StatementsInv ==
  /\ StatementsTyped
  /\ \A s \in Sessions : StatementSound(task[s], before[s], others[s], rows)

-----------------------------------------------------------------------------
(* Keys and tables                                                         *)

\* A key is given by its id and by which text it has.
LEMMA KeyFacts ==
  /\ \A i \in Int : Key(i) \in Keys /\ Key(i).id = i /\ ~Key(i).json
  /\ \A i \in Int : JsonKey(i) \in Keys /\ JsonKey(i).id = i
  /\ \A i \in Int : ~JsonKey(i).json => JsonKey(i) = Key(i)
  /\ \A k \in Keys : k.id \in Int /\ k.json \in BOOLEAN
  /\ \A k \in Keys : ~k.json => k = Key(k.id)
  /\ \A k \in Keys : k.json => k = [id |-> k.id, json |-> TRUE]
<1>1. \A i \in Int : Key(i) \in Keys /\ Key(i).id = i /\ ~Key(i).json
  BY DEF Key, Keys
<1>2. /\ \A i \in Int : JsonKey(i) \in Keys /\ JsonKey(i).id = i
      /\ \A i \in Int : ~JsonKey(i).json => JsonKey(i) = Key(i)
  BY <1>1 DEF JsonKey, Keys
<1>3. ASSUME NEW k \in Keys
      PROVE  /\ k.id \in Int /\ k.json \in BOOLEAN
             /\ ~k.json => k = Key(k.id)
             /\ k.json => k = [id |-> k.id, json |-> TRUE]
  <2>1. k \in [id : Int, json : BOOLEAN]
    BY DEF Keys
  <2>2. k.id \in Int /\ k.json \in BOOLEAN
    BY <2>1
  <2>3. ~k.json => k = Key(k.id)
    BY <2>1 DEF Key
  <2>4. k.json => k = [id |-> k.id, json |-> TRUE]
    BY <2>1
  <2> QED BY <2>2, <2>3, <2>4, Zenon
<1> QED BY <1>1, <1>2, <1>3

\* What a table says of an id, or of a key.
LEMMA AtFacts ==
  ASSUME NEW S, NEW T, NEW x, At(S, x) = At(T, x)
  PROVE  (x \in DOMAIN S <=> x \in DOMAIN T) /\ (x \in DOMAIN S => S[x] = T[x])
BY DEF At

\* A nonempty set of positions has a last one, which Max chooses.
LEMMA LastPosition ==
  ASSUME NEW n \in Nat, NEW P, P \subseteq 1..n, P # {}
  PROVE  Max(P) \in P /\ \A y \in P : y <= Max(P)
<1> DEFINE D == {n - x : x \in P}
<1>1. PICK R : /\ IsWellFoundedOn(R, Nat)
               /\ \A x, y \in Nat : <<y, x>> \in R <=> y < x
  <2>1. IsWellFoundedOn(OpToRel(<, Nat), Nat)
    BY NatLessThanWellFounded
  <2>2. \A x, y \in Nat : <<y, x>> \in OpToRel(<, Nat) <=> y < x
    BY DEF OpToRel
  <2> QED BY <2>1, <2>2, Zenon
<1>2. D \subseteq Nat /\ D # {}
  <2>1. \A x \in P : n - x \in Nat
    OBVIOUS
  <2> QED BY <2>1
<1>3. PICK d \in D : \A e \in D : ~ (<<e, d>> \in R)
  <2> HIDE DEF D
  <2> QED BY <1>1, <1>2, WFMin
<1>4. PICK x \in P : d = n - x
  OBVIOUS
<1>5. \A y \in P : y <= x
  <2> SUFFICES ASSUME NEW y \in P PROVE y <= x
    OBVIOUS
  <2>1. n - y \in D /\ n - y \in Nat /\ n - x \in Nat
    OBVIOUS
  <2>2. ~ (n - y < n - x)
    BY <1>1, <1>3, <1>4, <2>1
  <2> QED BY <2>2
<1>6. \A y \in P : x >= y
  BY <1>5
<1>7. Max(P) \in P /\ \A y \in P : Max(P) >= y
  <2> HIDE DEF D
  <2> QED BY <1>6, Zenon DEF Max
<1> QED BY <1>7

\* What a batch makes of a table: a row for each of its keys, that of the last entry.
LEMMA PutAllFacts ==
  ASSUME NEW T, NEW X, NEW entries \in Seq(X)
  PROVE  /\ DOMAIN PutAll(T, entries) = DOMAIN T \cup {e.key : e \in Range(entries)}
         /\ \A k \in DOMAIN T : k \notin {e.key : e \in Range(entries)} =>
              PutAll(T, entries)[k] = T[k]
         /\ \A k \in {e.key : e \in Range(entries)} :
              \E j \in DOMAIN entries :
                /\ entries[j].key = k /\ PutAll(T, entries)[k] = entries[j].row
                /\ \A m \in DOMAIN entries : entries[m].key = k => m <= j
<1> DEFINE new == {e.key : e \in Range(entries)}
           at(k) == {i \in DOMAIN entries : entries[i].key = k}
<1>1. PutAll(T, entries) = [k \in DOMAIN T \cup new |->
                              IF k \in new THEN entries[Max(at(k))].row ELSE T[k]]
  BY DEF PutAll
<1>2. ASSUME NEW k \in new
      PROVE  /\ Max(at(k)) \in DOMAIN entries /\ entries[Max(at(k))].key = k
             /\ \A m \in DOMAIN entries : entries[m].key = k => m <= Max(at(k))
  <2>1. at(k) \subseteq 1..Len(entries) /\ at(k) # {} /\ Len(entries) \in Nat
    BY DEF Range
  <2>2. Max(at(k)) \in at(k) /\ \A y \in at(k) : y <= Max(at(k))
    <3> HIDE DEF at
    <3> QED BY <2>1, LastPosition
  <2> QED BY <2>2
<1> HIDE DEF new, at
<1>3. /\ DOMAIN PutAll(T, entries) = DOMAIN T \cup new
      /\ \A k \in DOMAIN T : k \notin new => PutAll(T, entries)[k] = T[k]
  BY <1>1
<1>4. \A k \in new : \E j \in DOMAIN entries :
        /\ entries[j].key = k /\ PutAll(T, entries)[k] = entries[j].row
        /\ \A m \in DOMAIN entries : entries[m].key = k => m <= j
  <2> SUFFICES ASSUME NEW k \in new
               PROVE  \E j \in DOMAIN entries :
                        /\ entries[j].key = k /\ PutAll(T, entries)[k] = entries[j].row
                        /\ \A m \in DOMAIN entries : entries[m].key = k => m <= j
    OBVIOUS
  <2>1. PutAll(T, entries)[k] = entries[Max(at(k))].row
    BY <1>1
  <2> QED BY <1>2, <2>1
<1> QED BY <1>3, <1>4 DEF new

\* The keys of a batch are finitely many.
LEMMA RangeFinite ==
  ASSUME NEW X, NEW entries \in Seq(X)
  PROVE  IsFiniteSet({e.key : e \in Range(entries)})
<1>1. IsFiniteSet(1..Len(entries))
  BY FS_Interval
<1>2. [i \in 1..Len(entries) |-> entries[i].key]
        \in Surjection(1..Len(entries), {e.key : e \in Range(entries)})
  BY DEF Range, Surjection
<1> HIDE DEF Range
<1> QED BY <1>1, <1>2, FS_Surjection

\* Tables stay tables.
LEMMA PutAllTable ==
  ASSUME NEW T, IsTable(T), NEW entries \in Seq(Entries)
  PROVE  IsTable(PutAll(T, entries))
<1> DEFINE new == {e.key : e \in Range(entries)}
           U == PutAll(T, entries)
<1>0. /\ DOMAIN U = DOMAIN T \cup new /\ \A k \in DOMAIN T : k \notin new => U[k] = T[k]
      /\ \A k \in new : \E j \in DOMAIN entries : entries[j].key = k /\ U[k] = entries[j].row
  <2>1. /\ DOMAIN U = DOMAIN T \cup new /\ \A k \in DOMAIN T : k \notin new => U[k] = T[k]
        /\ \A k \in new :
             \E j \in DOMAIN entries :
               /\ entries[j].key = k /\ U[k] = entries[j].row
               /\ \A m \in DOMAIN entries : entries[m].key = k => m <= j
    BY PutAllFacts
  <2> HIDE DEF new, U
  <2> QED BY <2>1
<1>1. IsFiniteSet(DOMAIN U)
  <2>1. IsFiniteSet(new) /\ IsFiniteSet(DOMAIN T)
    BY RangeFinite DEF IsTable
  <2> HIDE DEF new, U
  <2>2. IsFiniteSet(DOMAIN T \cup new)
    BY <2>1, FS_Union
  <2> QED BY <1>0, <2>2
<1>2. ASSUME NEW k \in DOMAIN U PROVE k \in Keys /\ U[k] \in Rows /\ U[k].id = k.id
  <2> HIDE DEF new, U
  <2>1. CASE k \in new
    <3>1. PICK j \in DOMAIN entries : entries[j].key = k /\ U[k] = entries[j].row
      BY <1>0, <2>1
    <3>2. entries[j] \in Entries
      OBVIOUS
    <3> QED BY <3>1, <3>2 DEF Entries
  <2>2. CASE k \notin new
    BY <1>0, <2>2 DEF IsTable
  <2> QED BY <2>1, <2>2
<1> QED BY <1>1, <1>2 DEF IsTable

\* Engine.Write of one row.
LEMMA PutTable ==
  ASSUME NEW T, IsTable(T), NEW k \in Keys, NEW r \in Rows, r.id = k.id
  PROVE  /\ IsTable(Put(T, k, r)) /\ At(Put(T, k, r), k) = {r}
         /\ \A l : l # k => At(Put(T, k, r), l) = At(T, l)
<1>1. IsFiniteSet(DOMAIN T \cup {k})
  BY FS_AddElement DEF IsTable
<1> QED BY <1>1 DEF IsTable, At, Put

\* Engine.Delete of one row.
LEMMA RemoveTable ==
  ASSUME NEW T, IsTable(T), NEW k
  PROVE  IsTable(Restrict(T, DOMAIN T \ {k})) /\ At(Restrict(T, DOMAIN T \ {k}), k) = {}
<1>1. IsFiniteSet(DOMAIN T \ {k})
  BY FS_RemoveElement DEF IsTable
<1> QED BY <1>1 DEF IsTable, At, Restrict

\* It leaves the other rows.
LEMMA RemoveElse ==
  ASSUME NEW T, NEW k, NEW l, l # k
  PROVE  At(Restrict(T, DOMAIN T \ {k}), l) = At(T, l)
BY DEF At, Restrict
-----------------------------------------------------------------------------
(* The rows a WHERE finds                                                  *)

\* The keys a WHERE finds.
FoundKeys(where, T) ==
  IF where.col = "id" THEN {Key(where.lit \div 2)} \cap DOMAIN T
  ELSE {k \in DOMAIN T : Hits(where, T[k])}

\* A list of what it finds has one entry for each of them, with its row.
LEMMA FoundFacts ==
  ASSUME IsTable(rows), NEW where, NEW d \in Found(where)
  PROVE  /\ d \in Seq(Entries)
         /\ \A j \in DOMAIN d : /\ d[j].key \in FoundKeys(where, rows)
                                /\ d[j].key \in DOMAIN rows /\ d[j].row = rows[d[j].key]
         /\ \A i, j \in DOMAIN d : d[i].key = d[j].key => i = j
         /\ \A k \in FoundKeys(where, rows) : \E j \in DOMAIN d : d[j].key = k
<1> DEFINE S == FoundKeys(where, rows)
           n == Cardinality(S)
<1>1. PICK f \in InOrder(S) : d = [i \in DOMAIN f |-> Entry(f[i], rows[f[i]])]
  BY DEF Found, FoundKeys
<1>2. S \subseteq DOMAIN rows /\ S \subseteq Keys /\ IsFiniteSet(S)
  <2>1. S \subseteq DOMAIN rows
    BY DEF FoundKeys
  <2> HIDE DEF S
  <2>2. IsFiniteSet(S)
    BY <2>1, FS_Subset DEF IsTable
  <2> QED BY <2>1, <2>2 DEF IsTable
<1> HIDE DEF S
<1>3. /\ n \in Nat /\ f \in [1..n -> S]
      /\ \A i, j \in 1..n : i < j => f[i] # f[j]
      /\ \A k \in S : \E i \in 1..n : f[i] = k
  BY <1>1, <1>2, FS_CardinalityType DEF InOrder
<1> HIDE DEF n
<1>4. \A i, j \in 1..n : f[i] = f[j] => i = j
  BY <1>3
<1>5. DOMAIN d = 1..n /\ \A i \in 1..n : d[i].key = f[i] /\ d[i].row = rows[f[i]]
  BY <1>1, <1>3 DEF Entry
<1>6. \A i \in 1..n : d[i] \in Entries
  BY <1>1, <1>2, <1>3 DEF Entry, Entries, IsTable
<1>7. d \in Seq(Entries)
  <2>1. d = [i \in 1..n |-> d[i]]
    BY <1>1, <1>3
  <2> QED BY <1>3, <1>6, <2>1
<1> QED BY <1>2, <1>3, <1>4, <1>5, <1>7 DEF S

\* With a literal of the column's type these are the rows the WHERE holds for.
LEMMA FoundHits ==
  ASSUME NEW T, IsTable(T), NEW st, IsStatement(st), st.op \in ChangeOps, Exact(st)
  PROVE  \A k \in DOMAIN T : ~k.json \/ st.where.col # "id" =>
           (k \in FoundKeys(st.where, T) <=> Hits(st.where, T[k]))
<1> SUFFICES ASSUME NEW k \in DOMAIN T, ~k.json \/ st.where.col # "id"
             PROVE  k \in FoundKeys(st.where, T) <=> Hits(st.where, T[k])
  OBVIOUS
<1>1. CASE st.where.col = "id"
  <2>1. st.where.lit \in Int /\ st.where.lit % 2 = 0
    BY <1>1 DEF IsStatement, Exact, ChangeOps
  <2>2. k \in Keys /\ T[k].id = k.id /\ k = Key(k.id) /\ k.id \in Int
    BY <1>1, KeyFacts DEF IsTable
  <2>3. 2 * k.id = st.where.lit <=> k.id = st.where.lit \div 2
    BY <2>1, <2>2
  <2>4. k = Key(st.where.lit \div 2) <=> k.id = st.where.lit \div 2
    BY <2>2 DEF Key
  <2> QED BY <1>1, <2>2, <2>3, <2>4 DEF FoundKeys, Hits
<1>2. CASE st.where.col # "id"
  BY <1>2 DEF FoundKeys
<1> QED BY <1>1, <1>2


-----------------------------------------------------------------------------
(* What a step makes of a statement.  T is the table before it, and U after *)

\* What other sessions write belongs to nobody else.
LEMMA OthersWrote ==
  ASSUME NEW t, NEW b, NEW o, NEW p, o \subseteq p, NEW T, NEW U, t.todo \in Seq(Entries),
         \A k \in Keys : k.id \notin p => At(U, k) = At(T, k),
         StatementSound(t, b, o, T)
  PROVE  StatementSound(t, b, p, U)
<1>1. Kept(b, o, T) => Kept(b, p, U)
  BY DEF Kept
<1>2. FreeKeys(t, b, o) => FreeKeys(t, b, p)
  BY DEF FreeKeys
<1>3. Apart(b, p) \subseteq Apart(b, o) /\ \A i \in Apart(b, p) : i \in Int /\ i \notin p
  BY DEF Apart
<1>4. \A i \in Int : Touches(t.stmt, i, b, p) => Touches(t.stmt, i, b, o) /\ i \notin p
  BY <1>3 DEF Touches
<1>5. TodoSound(t, b, o) => TodoSound(t, b, p)
  BY <1>3 DEF TodoSound
<1>6. RoomMade(t, b, o) => RoomMade(t, b, p)
  BY <1>4 DEF RoomMade
<1>7. AsExpected(t, b, o, T) => AsExpected(t, b, p, U)
  BY <1>4, KeyFacts DEF AsExpected
<1> QED BY <1>1, <1>2, <1>5, <1>6, <1>7, Zenon DEF StatementSound, RowByRow

\* A statement that has ended asks for nothing.
LEMMA EndedSound ==
  ASSUME NEW t, t.pc \in {"idle", "ok", "error"}, NEW b, NEW o, NEW T
  PROVE  StatementSound(t, b, o, T)
BY DEF StatementSound, Inserts, Changes, InProgress

\* A statement that has begun has the table before it.
LEMMA BegunSound ==
  ASSUME NEW t, NEW T, t.at = 1, t.todo \in Seq(Entries), t.pc = FirstStep(t.stmt),
         IsStatement(t.stmt)
  PROVE  StatementSound(t, T, {}, T)
<1>1. Kept(T, {}, T)
  BY DEF Kept
<1>2. t.stmt.op = "insert" => t.pc = "check"
  BY DEF FirstStep
<1>3. FreeKeys(t, T, {})
  BY <1>2 DEF FreeKeys
<1>4. ~Changes(t)
  BY DEF Changes, ChangeOps, FirstStep
<1> QED BY <1>1, <1>3, <1>4 DEF StatementSound

\* A key that is free now was free, if nobody else wrote it.
LEMMA CheckInsertSound ==
  ASSUME NEW t, NEW u, NEW b, NEW o, NEW T, StatementSound(t, b, o, T), Inserts(t),
         t.stmt.op = "insert", t.pc = "check",
         t.todo \in Seq(Entries), t.at \in Nat, t.todo[t.at].key \notin DOMAIN T,
         u.stmt = t.stmt, u.todo = t.todo,
         \/ u.pc = "check" /\ u.at = t.at + 1
         \/ u.pc = "store" /\ t.at = Len(t.todo) /\ u.at = t.at
  PROVE  StatementSound(u, b, o, T)
<1>1. Kept(b, o, T) /\ FreeKeys(t, b, o)
  BY DEF StatementSound
<1>2. FreeKeys(u, b, o)
  <2> SUFFICES ASSUME NEW j \in DOMAIN u.todo, j < u.at \/ u.pc = "store",
                      u.todo[j].key.id \notin o
               PROVE  u.todo[j].key \notin DOMAIN b
    BY DEF FreeKeys
  <2>1. j \in 1..Len(t.todo) /\ Len(t.todo) \in Nat
    OBVIOUS
  <2>2. CASE j < t.at
    BY <1>1, <2>2 DEF FreeKeys
  <2>3. CASE j = t.at
    <3>1. t.todo[j].key \in Keys
      BY <2>1 DEF Entries
    <3> QED BY <1>1, <2>3, <3>1, AtFacts DEF Kept
  <2> QED BY <2>1, <2>2, <2>3
<1>3. ~Changes(u) /\ u.pc # "fetch"
  BY DEF Changes, ChangeOps
<1> QED BY <1>1, <1>2, <1>3 DEF StatementSound

\* At the first call for a row nothing has been done to it.
RowStarts(t) == t.pc = RowStep(t)

\* Then no row has passed its check, and none is on its way.
LEMMA RowStart ==
  ASSUME NEW t, RowStarts(t)
  PROVE  Passed(t) = {} /\ OnItsWay(t) = {}
BY DEF RowStarts, RowStep, Passed, OnItsWay, Moves

\* The key that a row gets.
LEMMA NewKeyIs ==
  ASSUME NEW t, t.todo \in Seq(Entries), t.todo # <<>>, IsStatement(t.stmt), t.stmt.op = "update"
  PROVE  LET h == Head(t.todo).key.id IN
         /\ h \in Int /\ Shift(t.stmt) \in Int /\ Head(t.todo).key \in Keys
         /\ NewRow(t) \in Rows /\ NewRow(t).id = h + Shift(t.stmt)
         /\ NewKey(t) = Key(h + Shift(t.stmt))
         /\ NewRow(t) = Assigned(t.stmt.set, Head(t.todo).row)
<1> DEFINE e == Head(t.todo)
<1>1. e \in Entries
  OBVIOUS
<1>2. t.stmt.set.col \in {"id", "v"} /\ t.stmt.set.add \in Int
  BY DEF IsStatement
<1>3. e.key \in Keys /\ e.row \in Rows /\ e.row.id = e.key.id
  BY <1>1 DEF Entries
<1>4. e.key.id \in Int
  BY <1>3, KeyFacts
<1>5. NewRow(t) = Assigned(t.stmt.set, e.row)
  BY DEF NewRow
<1> HIDE DEF e
<1>6. Assigned(t.stmt.set, e.row) \in Rows
  BY <1>2, <1>3 DEF Assigned, Rows
<1>7. Assigned(t.stmt.set, e.row).id = e.key.id + Shift(t.stmt)
  BY <1>2, <1>3, <1>4 DEF Assigned, Rows, Shift
<1> QED BY <1>2, <1>3, <1>4, <1>5, <1>6, <1>7 DEF NewKey, Shift, e

\* The rows that are done when one more is.
LEMMA DoneSplit ==
  ASSUME NEW t, NEW u, NEW b, NEW o, TodoSound(t, b, o),
         t.todo \in Seq(Entries), t.todo # <<>>, u.stmt = t.stmt, u.todo = Tail(t.todo)
  PROVE  LET e == Head(t.todo) IN
         /\ u.todo \in Seq(Entries) /\ TodoSound(u, b, o)
         /\ e.key.id \notin DoneIds(t, b)
         /\ e.key.id \in Apart(b, o) =>
              /\ e.key = Key(e.key.id) /\ e.key \in DOMAIN b /\ b[e.key] = e.row
              /\ Hits(t.stmt.where, e.row)
         /\ \A i \in Apart(b, o) : i \in DoneIds(u, b) <=> i \in DoneIds(t, b) \/ i = e.key.id
<1> DEFINE q == t.todo
           e == Head(q)
           h == e.key.id
           r == Tail(q)
<1>1. /\ q \in Seq(Entries) /\ Len(q) \in Nat /\ DOMAIN q = 1..Len(q) /\ 1 \in DOMAIN q
      /\ e = q[1] /\ r \in Seq(Entries) /\ DOMAIN r = 1..(Len(q) - 1)
      /\ \A j \in DOMAIN r : j + 1 \in DOMAIN q /\ r[j] = q[j + 1]
      /\ \A j \in DOMAIN q : j # 1 => j - 1 \in DOMAIN r /\ r[j - 1] = q[j]
  OBVIOUS
<1> HIDE DEF q, e, r
<1>2. \A j \in DOMAIN q : q[j].key \in Keys /\ q[j].key.id \in Int
  <2>1. \A j \in DOMAIN q : q[j] \in Entries
    BY <1>1
  <2> QED BY <2>1, KeyFacts DEF Entries
<1>3. /\ \A j \in DOMAIN q : q[j].key.id \in Apart(b, o) =>
           /\ ~q[j].key.json /\ q[j].key \in DOMAIN b
           /\ b[q[j].key] = q[j].row /\ Hits(t.stmt.where, q[j].row)
      /\ \A j, k \in DOMAIN q : q[j].key = q[k].key => j = k
  BY DEF TodoSound, q
<1>4. TodoSound(u, b, o)
  <2>1. u.todo = r /\ u.stmt = t.stmt
    BY DEF q, r
  <2>2. /\ \A j \in DOMAIN r : r[j].key.id \in Apart(b, o) =>
           /\ ~r[j].key.json /\ r[j].key \in DOMAIN b
           /\ b[r[j].key] = r[j].row /\ Hits(u.stmt.where, r[j].row)
    BY <1>1, <1>3, <2>1
  <2>3. \A j, k \in DOMAIN r : r[j].key = r[k].key => j = k
    BY <1>1, <1>3
  <2> QED BY <2>1, <2>2, <2>3 DEF TodoSound
<1>5. h \in Ahead(t)
  BY <1>1 DEF Ahead, q
<1>6. ASSUME h \in Apart(b, o)
      PROVE  e.key = Key(h) /\ e.key \in DOMAIN b /\ b[e.key] = e.row /\ Hits(t.stmt.where, e.row)
  BY <1>1, <1>2, <1>3, <1>6, KeyFacts
<1>7. ASSUME NEW i \in Apart(b, o)
      PROVE  i \in Ahead(t) <=> i = h \/ i \in Ahead(u)
  <2>1. /\ Ahead(t) = {q[j].key.id : j \in DOMAIN q}
        /\ Ahead(u) = {r[j].key.id : j \in DOMAIN r}
    BY DEF Ahead, q, r
  <2>2. ASSUME i \in Ahead(t) PROVE i = h \/ i \in Ahead(u)
    <3>1. PICK j \in DOMAIN q : i = q[j].key.id
      BY <2>1, <2>2
    <3>2. CASE j # 1
      BY <1>1, <2>1, <3>1, <3>2
    <3> QED BY <1>1, <3>1, <3>2
  <2>3. ASSUME i \in Ahead(u) PROVE i \in Ahead(t)
    <3>1. PICK j \in DOMAIN r : i = r[j].key.id
      BY <2>1, <2>3
    <3> QED BY <1>1, <2>1, <3>1
  <2> QED BY <1>5, <2>2, <2>3
<1>8. ASSUME h \in Apart(b, o) PROVE h \notin Ahead(u)
  <2> SUFFICES ASSUME NEW j \in DOMAIN r, r[j].key.id = h PROVE FALSE
    BY DEF Ahead, q, r
  <2>1. j + 1 \in DOMAIN q /\ q[j + 1].key.id = h
    BY <1>1
  <2>2. ~q[j + 1].key.json
    BY <1>3, <1>8, <2>1
  <2>3. q[j + 1].key = Key(h)
    BY <1>2, <2>1, <2>2, KeyFacts
  <2>4. j + 1 = 1
    BY <1>1, <1>3, <1>6, <1>8, <2>1, <2>3
  <2> QED BY <1>1, <2>4
<1>9. ASSUME NEW i \in Apart(b, o)
      PROVE  i \in DoneIds(u, b) <=> i \in DoneIds(t, b) \/ i = h
  <2>1. CASE i = h
    <3>1. i \in Int /\ Key(i) \in DOMAIN b /\ Hits(t.stmt.where, b[Key(i)]) /\ i \notin Ahead(u)
      BY <1>6, <1>8, <2>1 DEF Apart
    <3> QED BY <2>1, <3>1 DEF DoneIds
  <2>2. CASE i # h
    BY <1>7, <2>2 DEF DoneIds
  <2> QED BY <2>1, <2>2
<1> QED BY <1>1, <1>4, <1>5, <1>6, <1>9 DEF DoneIds, q, e, r

\* The ids a statement touches are its own.
LEMMA TouchedApart ==
  ASSUME NEW st, NEW b, NEW o, NEW i \in Int, Touches(st, i, b, o), Shift(st) \in Int
  PROVE  /\ i \in Apart(b, o) /\ i - Shift(st) \in Apart(b, o) /\ i + Shift(st) \in Apart(b, o)
         /\ i \notin o /\ i - Shift(st) \in Int /\ i + Shift(st) \in Int
BY DEF Touches, Apart

\* An id moves by an integer.
LEMMA ShiftInt == \A st : IsStatement(st) => Shift(st) \in Int
BY DEF IsStatement, Shift

\* Fetch: no row is done, and nothing has changed.
LEMMA FetchSound ==
  ASSUME IsTable(rows), NEW t, IsStatement(t.stmt), t.stmt.op \in ChangeOps, Exact(t.stmt),
         NEW b, NEW o, Kept(b, o, rows),
         NEW u, u.stmt = t.stmt, u.todo \in Found(t.stmt.where), RowStarts(u)
  PROVE  RowByRow(u, b, o, rows)
<1> DEFINE w == t.stmt.where
           q == u.todo
<1>1. /\ q \in Seq(Entries)
      /\ \A j \in DOMAIN q : /\ q[j].key \in FoundKeys(w, rows)
                             /\ q[j].key \in DOMAIN rows /\ q[j].row = rows[q[j].key]
      /\ \A i, j \in DOMAIN q : q[i].key = q[j].key => i = j
      /\ \A k \in FoundKeys(w, rows) : \E j \in DOMAIN q : q[j].key = k
  BY FoundFacts
<1> HIDE DEF q
<1>2. \A k \in DOMAIN rows : ~k.json \/ w.col # "id" =>
        (k \in FoundKeys(w, rows) <=> Hits(w, rows[k]))
  BY FoundHits
<1>3. \A k \in Keys : k.id \notin o => /\ k \in DOMAIN rows <=> k \in DOMAIN b
                                       /\ k \in DOMAIN rows => rows[k] = b[k]
  BY AtFacts DEF Kept
<1>4. \A k \in DOMAIN rows : k \in Keys
  BY DEF IsTable
<1>5. TodoSound(u, b, o)
  <2>1. ASSUME NEW j \in DOMAIN q, q[j].key.id \in Apart(b, o)
        PROVE  /\ ~q[j].key.json /\ q[j].key \in DOMAIN b
               /\ b[q[j].key] = q[j].row /\ Hits(w, q[j].row)
    <3>1. /\ q[j].key \in Keys /\ q[j].key.id \notin o
          /\ q[j].key \in DOMAIN b /\ b[q[j].key] = q[j].row
      BY <1>1, <1>3, <1>4, <2>1 DEF Apart
    <3>2. ~q[j].key.json
      BY <2>1, <3>1, KeyFacts DEF Apart
    <3>3. Hits(w, q[j].row)
      BY <1>1, <1>2, <3>2
    <3> QED BY <3>1, <3>2, <3>3
  <2> QED BY <1>1, <2>1 DEF TodoSound, q
<1>6. \A i \in Apart(b, o) : i \notin DoneIds(u, b)
  <2> SUFFICES ASSUME NEW i \in Apart(b, o), Key(i) \in DOMAIN b, Hits(w, b[Key(i)])
               PROVE  i \in Ahead(u)
    BY DEF DoneIds
  <2>1. i \in Int /\ i \notin o /\ Key(i) \in Keys /\ Key(i).id = i /\ ~Key(i).json
    BY KeyFacts DEF Apart
  <2>2. Key(i) \in DOMAIN rows /\ Hits(w, rows[Key(i)])
    BY <1>3, <2>1
  <2>3. Key(i) \in FoundKeys(w, rows)
    BY <1>2, <2>1, <2>2
  <2>4. PICK j \in DOMAIN q : q[j].key = Key(i)
    BY <1>1, <2>3
  <2> QED BY <2>1, <2>4 DEF Ahead, q
<1>7. Shift(u.stmt) \in Int
  BY ShiftInt
<1>8. Passed(u) = {} /\ OnItsWay(u) = {}
  BY RowStart
<1>9. RoomMade(u, b, o)
  BY <1>6, <1>7, <1>8, TouchedApart DEF RoomMade
<1>10. AsExpected(u, b, o, rows)
  <2> SUFFICES ASSUME NEW i \in Int, Touches(u.stmt, i, b, o)
               PROVE  At(rows, Key(i)) = Expected(u, b, i)
    BY DEF AsExpected
  <2>1. /\ i - Shift(u.stmt) \notin DoneIds(u, b) /\ i \notin DoneIds(u, b) \cup OnItsWay(u)
        /\ i \notin o
    BY <1>6, <1>7, <1>8, TouchedApart
  <2>2. At(rows, Key(i)) = At(b, Key(i))
    BY <2>1, KeyFacts DEF Kept
  <2>3. Expected(u, b, i) = At(b, Key(i))
    BY <2>1 DEF Expected, At
  <2> QED BY <2>2, <2>3
<1> QED BY <1>5, <1>9, <1>10 DEF RowByRow

\* checkPKConflict: the row that moves finds its place free.
LEMMA CheckMoveSound ==
  ASSUME NEW t, t.todo \in Seq(Entries), t.todo # <<>>, IsStatement(t.stmt),
         t.stmt.op = "update", Moves(t), t.pc = "check", NEW b, NEW o, NEW T,
         NewKey(t) \notin DOMAIN T, RowByRow(t, b, o, T),
         NEW u, u.stmt = t.stmt, u.todo = t.todo, u.pc = "unlink"
  PROVE  RowByRow(u, b, o, T)
<1> DEFINE h == Head(t.todo).key.id
           d == Shift(t.stmt)
<1>1. Passed(t) = {} /\ OnItsWay(t) = {} /\ Passed(u) = {h} /\ OnItsWay(u) = {}
  BY DEF Passed, OnItsWay, Moves, NewKey, NewRow
<1>2. DoneIds(u, b) = DoneIds(t, b)
  BY DEF DoneIds, Ahead
<1>3. /\ h \in Int /\ d \in Int /\ NewKey(t) = Key(h + d) /\ h \in Ahead(t)
  BY NewKeyIs DEF Ahead
<1>4. TodoSound(u, b, o)
  BY DEF RowByRow, TodoSound
<1> HIDE DEF h
<1>5. ASSUME NEW i \in Int, Touches(t.stmt, i, b, o), i - d = h, Key(i) \in DOMAIN b
      PROVE  i \in DoneIds(t, b)
  <2>1. At(T, Key(i)) = Expected(t, b, i)
    BY <1>5 DEF RowByRow, AsExpected
  <2>2. Key(i) \notin DOMAIN T
    BY <1>3, <1>5
  <2>3. i - Shift(t.stmt) \notin DoneIds(t, b)
    BY <1>3, <1>5 DEF DoneIds
  <2> QED BY <1>1, <1>5, <2>1, <2>2, <2>3 DEF At, Expected
<1>6. RoomMade(u, b, o)
  BY <1>1, <1>2, <1>5 DEF RowByRow, RoomMade
<1>7. AsExpected(u, b, o, T)
  BY <1>1, <1>2 DEF RowByRow, AsExpected, Expected
<1> QED BY <1>4, <1>6, <1>7 DEF RowByRow

\* Engine.Delete of the row that moves.
LEMMA UnlinkMoveSound ==
  ASSUME NEW t, t.todo \in Seq(Entries), t.todo # <<>>, IsStatement(t.stmt),
         t.stmt.op = "update", Moves(t), t.pc = "unlink", NEW b, NEW o, NEW T, IsTable(T),
         RowByRow(t, b, o, T),
         NEW u, u.stmt = t.stmt, u.todo = t.todo, u.pc = "put"
  PROVE  RowByRow(u, b, o, Restrict(T, DOMAIN T \ {Head(t.todo).key}))
<1> DEFINE k == Head(t.todo).key
           h == k.id
           d == Shift(t.stmt)
           U == Restrict(T, DOMAIN T \ {k})
<1>1. Passed(t) = {h} /\ OnItsWay(t) = {} /\ Passed(u) = {h} /\ OnItsWay(u) = {h}
  BY DEF Passed, OnItsWay, Moves, NewKey, NewRow
<1>2. DoneIds(u, b) = DoneIds(t, b)
  BY DEF DoneIds, Ahead
<1>3. h \in Int /\ d \in Int /\ h \in Ahead(t) /\ k \in Keys
  BY NewKeyIs DEF Ahead
<1>4. TodoSound(u, b, o)
  BY DEF RowByRow, TodoSound
<1>5. RoomMade(u, b, o)
  BY <1>1, <1>2 DEF RowByRow, RoomMade
<1>6. AsExpected(u, b, o, U)
  <2> SUFFICES ASSUME NEW i \in Int, Touches(t.stmt, i, b, o)
               PROVE  At(U, Key(i)) = Expected(u, b, i)
    BY DEF AsExpected
  <2>1. At(T, Key(i)) = Expected(t, b, i)
    BY DEF RowByRow, AsExpected
  <2>2. i \in Apart(b, o)
    BY <1>3, TouchedApart
  <2>3. h \in Apart(b, o) => k = Key(h) /\ k \in DOMAIN b
    <3>1. /\ 1 \in DOMAIN t.todo /\ t.todo[1] = Head(t.todo)
      OBVIOUS
    <3>2. h \in Apart(b, o) => ~k.json /\ k \in DOMAIN b
      BY <3>1 DEF RowByRow, TodoSound
    <3> QED BY <1>3, <3>2, KeyFacts
  <2> HIDE DEF k
  <2>4. At(U, k) = {} /\ \A l : l # k => At(U, l) = At(T, l)
    BY RemoveTable, RemoveElse
  <2> HIDE DEF U
  <2>5. CASE i = h
    <3>1. Key(i) = k /\ Key(i) \in DOMAIN b /\ i \notin DoneIds(t, b)
      BY <1>3, <2>2, <2>3, <2>5 DEF DoneIds
    <3>2. i - d \notin DoneIds(t, b)
      BY <3>1 DEF RowByRow, RoomMade
    <3> QED BY <1>1, <1>2, <2>4, <2>5, <3>1, <3>2 DEF Expected
  <2>6. CASE i # h
    <3>1. Key(i) # k
      BY <2>6, KeyFacts
    <3> QED BY <1>1, <1>2, <2>1, <2>4, <2>6, <3>1 DEF Expected
  <2> QED BY <2>5, <2>6
<1> QED BY <1>4, <1>5, <1>6 DEF RowByRow, k

\* Engine.Delete of a row to delete.
LEMMA UnlinkSound ==
  ASSUME NEW t, t.todo \in Seq(Entries), t.todo # <<>>, IsStatement(t.stmt),
         t.stmt.op = "delete", NEW b, NEW o, NEW T, IsTable(T),
         RowByRow(t, b, o, T),
         NEW u, u.stmt = t.stmt, u.todo = Tail(t.todo)
  PROVE  RowByRow(u, b, o, Restrict(T, DOMAIN T \ {Head(t.todo).key}))
<1> DEFINE e == Head(t.todo)
           h == e.key.id
           U == Restrict(T, DOMAIN T \ {e.key})
<1>1. Shift(t.stmt) = 0 /\ OnItsWay(t) = {} /\ OnItsWay(u) = {}
  BY DEF Shift, OnItsWay, Moves
<1>2. TodoSound(t, b, o)
  BY DEF RowByRow
<1>3. /\ TodoSound(u, b, o)
      /\ h \in Apart(b, o) => e.key = Key(h)
      /\ \A i \in Apart(b, o) : i \in DoneIds(u, b) <=> i \in DoneIds(t, b) \/ i = h
  BY <1>2, DoneSplit
<1>4. RoomMade(u, b, o)
  BY DEF RoomMade
<1> HIDE DEF e
<1>5. At(U, e.key) = {} /\ \A l : l # e.key => At(U, l) = At(T, l)
  BY RemoveTable, RemoveElse
<1> HIDE DEF U
<1>6. AsExpected(u, b, o, U)
  <2> SUFFICES ASSUME NEW i \in Int, Touches(t.stmt, i, b, o)
               PROVE  At(U, Key(i)) = Expected(u, b, i)
    BY DEF AsExpected
  <2>1. At(T, Key(i)) = Expected(t, b, i)
    BY DEF RowByRow, AsExpected
  <2>2. i \in Apart(b, o)
    BY <1>1, TouchedApart
  <2>3. CASE i = h
    BY <1>1, <1>3, <1>5, <2>2, <2>3 DEF Expected
  <2>4. CASE i # h
    <3>1. Key(i) # e.key
      BY <2>4, KeyFacts
    <3>2. i \in DoneIds(u, b) <=> i \in DoneIds(t, b)
      BY <1>3, <2>2, <2>4
    <3> QED BY <1>1, <1>5, <2>1, <3>1, <3>2 DEF Expected
  <2> QED BY <2>3, <2>4
<1> QED BY <1>3, <1>4, <1>6 DEF RowByRow, U, e

\* Engine.Write of the updated row.
LEMMA PutRowSound ==
  ASSUME NEW t, t.todo \in Seq(Entries), t.todo # <<>>, IsStatement(t.stmt),
         t.stmt.op = "update", t.pc = "put", NEW b, NEW o, NEW T, IsTable(T),
         RowByRow(t, b, o, T),
         NEW u, u.stmt = t.stmt, u.todo = Tail(t.todo), RowStarts(u)
  PROVE  RowByRow(u, b, o, Put(T, NewKey(t), NewRow(t)))
<1> DEFINE e == Head(t.todo)
           h == e.key.id
           d == Shift(t.stmt)
           n == NewRow(t)
           U == Put(T, NewKey(t), NewRow(t))
<1>1. Passed(u) = {} /\ OnItsWay(u) = {}
  BY RowStart
<1>2. TodoSound(t, b, o)
  BY DEF RowByRow
<1>3. /\ TodoSound(u, b, o)
      /\ h \in Apart(b, o) => e.key = Key(h) /\ e.key \in DOMAIN b /\ b[e.key] = e.row
      /\ \A i \in Apart(b, o) : i \in DoneIds(u, b) <=> i \in DoneIds(t, b) \/ i = h
  BY <1>2, DoneSplit
<1>4. /\ h \in Int /\ d \in Int /\ n \in Rows /\ n.id = h + d /\ NewKey(t) = Key(h + d)
      /\ n = Assigned(t.stmt.set, e.row)
  BY NewKeyIs
<1>5. Moves(t) <=> Key(h + d) # e.key
  BY <1>4 DEF Moves
<1>6. /\ Passed(t) = IF Moves(t) THEN {h} ELSE {}
      /\ OnItsWay(t) = IF Moves(t) THEN {h} ELSE {}
  BY DEF Passed, OnItsWay
<1>7. At(U, Key(h + d)) = {n} /\ \A l : l # Key(h + d) => At(U, l) = At(T, l)
  <2>1. Key(h + d) \in Keys /\ Key(h + d).id = n.id
    BY <1>4, KeyFacts
  <2> HIDE DEF n, h, d
  <2> QED BY <1>4, <2>1, PutTable DEF n
<1> HIDE DEF e, U, n, d
<1>8. RoomMade(u, b, o)
  <2> SUFFICES ASSUME NEW i \in Int, Touches(t.stmt, i, b, o), i - d \in DoneIds(u, b),
                      Key(i) \in DOMAIN b
               PROVE  i \in DoneIds(u, b)
    BY <1>1 DEF RoomMade, d
  <2>1. i \in Apart(b, o) /\ i - d \in Apart(b, o)
    BY <1>4, TouchedApart DEF d
  <2>2. i - d \in DoneIds(t, b) \cup Passed(t) => i \in DoneIds(t, b)
    BY DEF RowByRow, RoomMade, d
  <2>3. CASE i - d = h /\ ~Moves(t)
    <3>1. h + d = h
      BY <1>3, <1>4, <1>5, <2>1, <2>3, KeyFacts
    <3> QED BY <1>3, <1>4, <2>1, <2>3, <3>1
  <2> QED BY <1>3, <1>6, <2>1, <2>2, <2>3
<1>9. AsExpected(u, b, o, U)
  <2> SUFFICES ASSUME NEW i \in Int, Touches(t.stmt, i, b, o)
               PROVE  At(U, Key(i)) = Expected(u, b, i)
    BY DEF AsExpected
  <2>1. At(T, Key(i)) = Expected(t, b, i)
    BY DEF RowByRow, AsExpected
  <2>2. i \in Apart(b, o) /\ i - d \in Apart(b, o)
    BY <1>4, TouchedApart DEF d
  <2>3. CASE i - d = h
    <3>1. i = h + d
      BY <1>4, <2>3
    <3>2. i - d \in DoneIds(u, b) /\ b[Key(i - d)] = e.row
      BY <1>3, <2>2, <2>3
    <3>3. Expected(u, b, i) = {Assigned(t.stmt.set, e.row)}
      BY <3>2 DEF Expected, d
    <3> QED BY <1>4, <1>7, <3>1, <3>3
  <2>4. CASE i - d # h
    <3>1. Key(i) # Key(h + d) /\ i # h + d
      BY <1>4, <2>4, KeyFacts
    <3>2. i - d \in DoneIds(u, b) <=> i - d \in DoneIds(t, b)
      BY <1>3, <2>2, <2>4
    <3>3. CASE i = h
      <4>1. Moves(t)
        BY <1>3, <1>5, <2>2, <3>1, <3>3
      <4>2. i \in OnItsWay(t) /\ i \in DoneIds(u, b)
        BY <1>3, <1>6, <2>2, <3>3, <4>1
      <4> QED BY <1>7, <2>1, <3>1, <3>2, <4>2 DEF Expected, d
    <3>4. CASE i # h
      <4>1. i \in DoneIds(u, b) <=> i \in DoneIds(t, b)
        BY <1>3, <2>2, <3>4
      <4>2. i \notin OnItsWay(t)
        BY <1>6, <3>4
      <4> QED BY <1>1, <1>7, <2>1, <3>1, <3>2, <4>1, <4>2 DEF Expected, d
    <3> QED BY <3>3, <3>4
  <2> QED BY <2>3, <2>4
<1> QED BY <1>3, <1>8, <1>9 DEF RowByRow, U

-----------------------------------------------------------------------------
(* The steps of a session                                                  *)

\* Session s takes a step that writes rows of these ids, and its statement stays sound.
StepMade(s, ids) ==
  /\ DOMAIN task' = Sessions /\ DOMAIN others' = Sessions /\ before' = before /\ open' = open
  /\ TaskTyped(task'[s]) /\ StatementSound(task'[s], before[s], others[s], rows')
  /\ others'[s] = others[s]
  /\ \A o \in Sessions \ {s} : /\ task'[o] = task[o]
                               /\ others'[o] = IF Running(o) THEN others[o] \cup ids ELSE others[o]
  /\ ids \subseteq Int /\ IsTable(rows')
  /\ \A k \in Keys : k.id \notin ids => At(rows', k) = At(rows, k)

\* The other statements stay sound too.
LEMMA StepKeeps ==
  ASSUME StatementsInv, NEW s \in Sessions, NEW ids, StepMade(s, ids)
  PROVE  StatementsInv'
<1>1. ASSUME NEW o \in Sessions
      PROVE  /\ TaskTyped(task'[o]) /\ IsTable(before'[o]) /\ others'[o] \subseteq Int
             /\ StatementSound(task'[o], before'[o], others'[o], rows')
  <2>1. /\ TaskTyped(task[o]) /\ IsTable(before[o]) /\ others[o] \subseteq Int
        /\ StatementSound(task[o], before[o], others[o], rows)
    BY DEF StatementsInv, StatementsTyped
  <2>2. CASE o = s
    BY <2>1, <2>2 DEF StepMade
  <2>3. CASE o # s /\ Running(o)
    <3>1. /\ task'[o] = task[o] /\ others'[o] = others[o] \cup ids /\ ids \subseteq Int
          /\ before' = before /\ \A k \in Keys : k.id \notin ids => At(rows', k) = At(rows, k)
      BY <2>3 DEF StepMade
    <3>2. task[o].todo \in Seq(Entries)
      BY <2>1 DEF TaskTyped
    <3>3. StatementSound(task[o], before[o], others[o] \cup ids, rows')
      <4> DEFINE x == others[o]
                 y == others[o] \cup ids
      <4>1. x \subseteq y /\ \A k \in Keys : k.id \notin y => At(rows', k) = At(rows, k)
        BY <3>1
      <4>2. StatementSound(task[o], before[o], x, rows)
        BY <2>1
      <4> HIDE DEF x, y
      <4>3. StatementSound(task[o], before[o], y, rows')
        BY <3>2, <4>1, <4>2, OthersWrote
      <4> QED BY <4>3 DEF y
    <3> QED BY <2>1, <3>1, <3>3
  <2>4. CASE o # s /\ ~Running(o)
    <3>1. /\ task'[o] = task[o] /\ others'[o] = others[o] /\ before' = before
          /\ task[o].pc \in {"idle", "ok", "error"}
      BY <2>4 DEF StepMade, Running
    <3> QED BY <2>1, <3>1, EndedSound
  <2> QED BY <2>2, <2>3, <2>4
<1>2. /\ IsTable(rows') /\ open' \in BOOLEAN
      /\ DOMAIN task' = Sessions /\ DOMAIN before' = Sessions /\ DOMAIN others' = Sessions
  BY DEF StepMade, StatementsInv, StatementsTyped
<1> QED BY <1>1, <1>2 DEF StatementsInv, StatementsTyped

\* The program counter says which statement it is.
LEMMA PcOp ==
  ASSUME NEW t, TaskTyped(t)
  PROVE  /\ t.pc = "store" => Inserts(t)
         /\ t.pc = "fetch" => t.stmt.op \in ChangeOps
         /\ t.pc \in {"fetch", "check", "store", "unlink", "put"} =>
              InProgress(t) /\ IsStatement(t.stmt)
         /\ t.pc = "put" => t.stmt.op = "update"
         /\ t.pc = "unlink" => t.stmt.op \in ChangeOps
         /\ t.pc = "check" => t.stmt.op \in {"insert", "update"}
         /\ t.pc \in {"unlink", "put"} \/ (t.pc = "check" /\ t.stmt.op = "update") =>
              Changes(t) /\ t.todo # <<>>
<1> USE DEF InProgress
<1>1. InProgress(t) => IsStatement(t.stmt) /\ PcFits(t.stmt.op, t.pc)
  BY DEF TaskTyped
<1>2. Changes(t) => t.todo # <<>>
  BY DEF TaskTyped
<1> QED BY <1>1, <1>2 DEF PcFits, Inserts, InsertOps, Changes, ChangeOps

\* Goto moves the program counter only.
LEMMA Moved ==
  ASSUME StatementsTyped, NEW s \in Sessions, NEW pc, Goto(s, pc)
  PROVE  /\ DOMAIN task' = Sessions /\ \A o \in Sessions \ {s} : task'[o] = task[o]
         /\ DOMAIN task'[s] = TaskFields /\ task'[s].pc = pc /\ task'[s].stmt = task[s].stmt
         /\ task'[s].todo = task[s].todo /\ task'[s].at = task[s].at
<1>1. task' = [task EXCEPT ![s] = [task[s] EXCEPT !.pc = pc]]
  BY DEF Goto
<1>2. DOMAIN task = Sessions /\ DOMAIN task[s] = TaskFields
  BY DEF StatementsTyped, TaskTyped
<1> QED BY <1>1, <1>2 DEF TaskFields

\* A statement that ends is sound.
LEMMA Ended ==
  ASSUME StatementsTyped, NEW s \in Sessions, NEW pc \in {"ok", "error"}, Goto(s, pc)
  PROVE  TaskTyped(task'[s]) /\ \A b, o, T : StatementSound(task'[s], b, o, T)
<1> DEFINE u == task'[s]
<1>1. /\ DOMAIN u = TaskFields /\ u.pc = pc /\ u.stmt = task[s].stmt
      /\ u.todo = task[s].todo /\ u.at = task[s].at
  BY Moved
<1>2. TaskTyped(task[s])
  BY DEF StatementsTyped
<1> HIDE DEF u
<1>3. TaskTyped(u)
  BY <1>1, <1>2 DEF TaskTyped, InProgress, Inserts, Changes
<1>4. \A b, o, T : StatementSound(u, b, o, T)
  BY <1>1, EndedSound
<1> QED BY <1>3, <1>4 DEF u

\* With the row that comes next, or at the end.
LEMMA Continued ==
  ASSUME StatementsTyped, NEW s \in Sessions, NEW q \in Seq(Entries),
         task' = [task EXCEPT ![s] = Continue([task[s] EXCEPT !.todo = q])],
         IsStatement(task[s].stmt), task[s].stmt.op \in ChangeOps
  PROVE  /\ DOMAIN task' = Sessions /\ \A o \in Sessions \ {s} : task'[o] = task[o]
         /\ task'[s].stmt = task[s].stmt /\ task'[s].todo = q
         /\ TaskTyped(task'[s]) /\ RowStarts(task'[s])
         /\ task'[s].pc \in {"unlink", "check", "put", "ok"} /\ (task'[s].pc = "ok" <=> q = <<>>)
<1> DEFINE v == [task[s] EXCEPT !.todo = q]
           u == task'[s]
           op == task[s].stmt.op
<1>1. DOMAIN task = Sessions /\ DOMAIN task[s] = TaskFields /\ task[s].at \in Nat
  BY DEF StatementsTyped, TaskTyped
<1>2. DOMAIN v = TaskFields /\ v.stmt = task[s].stmt /\ v.todo = q /\ v.at = task[s].at
  BY <1>1 DEF TaskFields
<1>3. task' = [task EXCEPT ![s] = [v EXCEPT !.pc = RowStep(v)]]
  BY DEF Continue
<1> HIDE DEF v
<1>4. /\ DOMAIN u = TaskFields /\ u.stmt = task[s].stmt /\ u.todo = q /\ u.at = task[s].at
      /\ u.pc = RowStep(v) /\ DOMAIN task' = Sessions
      /\ \A o \in Sessions \ {s} : task'[o] = task[o]
  BY <1>1, <1>2, <1>3 DEF TaskFields
<1> HIDE DEF u
<1>5. Moves(v) = Moves(u)
  BY <1>2, <1>4 DEF Moves, NewKey, NewRow
<1>6. u.pc = IF q = <<>> THEN "ok" ELSE IF op = "delete" THEN "unlink"
             ELSE IF Moves(u) THEN "check" ELSE "put"
  BY <1>2, <1>4, <1>5 DEF RowStep
<1>7. op = "delete" \/ op = "update"
  BY DEF ChangeOps
<1>8. PcFits(op, u.pc) \/ u.pc = "ok"
  BY <1>6, <1>7 DEF PcFits
<1>9. TaskTyped(u)
  <2>1. ~Inserts(u)
    BY <1>4, <1>7 DEF Inserts, InsertOps
  <2>2. Changes(u) => q # <<>>
    BY <1>6 DEF Changes
  <2>3. u.stmt.op = "update" /\ u.pc \in {"check", "unlink"} => Moves(u)
    BY <1>4, <1>6
  <2> QED BY <1>1, <1>4, <1>8, <2>1, <2>2, <2>3 DEF TaskTyped, InProgress
<1>10. RowStarts(u)
  BY <1>4, <1>6 DEF RowStarts, RowStep
<1> QED BY <1>4, <1>6, <1>9, <1>10 DEF u

\* A step that writes nothing.
LEMMA NothingWritten ==
  ASSUME StatementsTyped, NEW s \in Sessions, rows' = rows, others' = others, before' = before,
         open' = open, DOMAIN task' = Sessions, \A o \in Sessions \ {s} : task'[o] = task[o],
         TaskTyped(task'[s]), StatementSound(task'[s], before[s], others[s], rows)
  PROVE  StepMade(s, {})
BY DEF StepMade, StatementsTyped

\* A step that writes rows with these ids.
LEMMA IdsWritten ==
  ASSUME StatementsTyped, NEW s \in Sessions, NEW ids, ids \subseteq Int, Wrote(s, ids),
         before' = before, open' = open,
         DOMAIN task' = Sessions, \A o \in Sessions \ {s} : task'[o] = task[o],
         TaskTyped(task'[s]), StatementSound(task'[s], before[s], others[s], rows'),
         IsTable(rows'), \A k \in Keys : k.id \notin ids => At(rows', k) = At(rows, k)
  PROVE  StepMade(s, ids)
<1>1. /\ DOMAIN others' = Sessions /\ others'[s] = others[s]
      /\ \A o \in Sessions \ {s} :
           others'[o] = IF Running(o) THEN others[o] \cup ids ELSE others[o]
  BY DEF Wrote
<1> QED BY <1>1 DEF StepMade

\* A call that fails writes nothing.
LEMMA FailedMade ==
  ASSUME StatementsTyped, NEW s \in Sessions, Goto(s, "error"), rows' = rows, others' = others,
         before' = before, open' = open
  PROVE  StepMade(s, {})
BY Moved, Ended, NothingWritten

\* buildInsertWriteRow looks for one more key.
LEMMA CheckInsertMade ==
  ASSUME StatementsInv, NEW s \in Sessions, CheckInsert(s)
  PROVE  StepMade(s, {})
<1> DEFINE t == task[s]
           u == task'[s]
<1>1. /\ StatementsTyped /\ TaskTyped(t) /\ StatementSound(t, before[s], others[s], rows)
      /\ DOMAIN task = Sessions
  BY DEF StatementsInv, StatementsTyped
<1>2. /\ t.pc = "check" /\ t.stmt.op = "insert"
      /\ UNCHANGED <<rows, open, faults, before, others>>
  BY DEF CheckInsert
<1>3. /\ Inserts(t) /\ IsStatement(t.stmt) /\ t.todo \in Seq(Entries) /\ t.at \in Nat
      /\ t.todo = Batch(t.stmt) /\ DOMAIN t = TaskFields
  BY <1>1, <1>2 DEF TaskTyped, Inserts, InProgress, InsertOps
<1>4. CASE Goto(s, "error")
  BY <1>1, <1>2, <1>4, FailedMade
<1>5. CASE t.todo[t.at].key \notin DOMAIN rows /\ t.at = Len(t.todo) /\ Goto(s, "store")
  <2>1. /\ DOMAIN task' = Sessions /\ \A o \in Sessions \ {s} : task'[o] = task[o]
        /\ DOMAIN u = TaskFields /\ u.pc = "store" /\ u.stmt = t.stmt
        /\ u.todo = t.todo /\ u.at = t.at
    BY <1>1, <1>5, Moved
  <2> HIDE DEF u, t
  <2>2. TaskTyped(u)
    BY <1>2, <1>3, <2>1 DEF TaskTyped, PcFits, Inserts, InProgress, Changes, InsertOps, ChangeOps
  <2>3. StatementSound(u, before[s], others[s], rows)
    BY <1>1, <1>2, <1>3, <1>5, <2>1, CheckInsertSound
  <2> QED BY <1>1, <1>2, <2>1, <2>2, <2>3, NothingWritten DEF u
<1>6. CASE t.todo[t.at].key \notin DOMAIN rows /\ task' = [task EXCEPT ![s].at = @ + 1]
  <2>1. task' = [task EXCEPT ![s] = [t EXCEPT !.at = @ + 1]]
    BY <1>6
  <2>2. /\ DOMAIN task' = Sessions /\ \A o \in Sessions \ {s} : task'[o] = task[o]
        /\ DOMAIN u = TaskFields /\ u.pc = t.pc /\ u.stmt = t.stmt
        /\ u.todo = t.todo /\ u.at = t.at + 1
    <3> HIDE DEF t
    <3> QED BY <1>1, <1>3, <2>1 DEF TaskFields
  <2> HIDE DEF u, t
  <2>3. TaskTyped(u)
    BY <1>1, <1>2, <1>3, <2>2
       DEF TaskTyped, PcFits, Inserts, InProgress, Changes, InsertOps, ChangeOps
  <2>4. StatementSound(u, before[s], others[s], rows)
    BY <1>1, <1>2, <1>3, <1>6, <2>2, CheckInsertSound
  <2> QED BY <1>1, <1>2, <2>2, <2>3, <2>4, NothingWritten DEF u
<1> QED BY <1>4, <1>5, <1>6 DEF CheckInsert

\* The entries of a batch.
LEMMA BatchFacts ==
  ASSUME NEW st, IsStatement(st), st.op \in InsertOps
  PROVE  /\ Batch(st) \in Seq(Entries) /\ DOMAIN Batch(st) = DOMAIN st.rows
         /\ \A i \in DOMAIN st.rows :
              /\ st.rows[i] \in Rows /\ Batch(st)[i].row = st.rows[i]
              /\ Batch(st)[i].key = IF st.op = "write" THEN JsonKey(st.rows[i].id)
                                    ELSE Key(st.rows[i].id)
<1>1. st.rows \in Seq(Rows)
  BY DEF IsStatement, InsertOps
<1>2. \A i \in DOMAIN st.rows : st.rows[i] \in Rows /\ st.rows[i].id \in Int
  <2>1. \A i \in DOMAIN st.rows : st.rows[i] \in Rows
    BY <1>1
  <2>2. \A r \in Rows : r.id \in Int
    BY DEF Rows
  <2> QED BY <2>1, <2>2
<1>3. /\ DOMAIN Batch(st) = DOMAIN st.rows
      /\ \A i \in DOMAIN st.rows :
              /\ Batch(st)[i].row = st.rows[i]
              /\ Batch(st)[i].key = IF st.op = "write" THEN JsonKey(st.rows[i].id)
                                    ELSE Key(st.rows[i].id)
              /\ Batch(st)[i] = Entry(Batch(st)[i].key, st.rows[i])
  BY DEF Batch, Entry
<1>4. \A i \in DOMAIN st.rows : Batch(st)[i] \in Entries
  <2> SUFFICES ASSUME NEW i \in DOMAIN st.rows PROVE Batch(st)[i] \in Entries
    OBVIOUS
  <2>1. Batch(st)[i].key \in Keys /\ Batch(st)[i].key.id = st.rows[i].id
    BY <1>2, <1>3, KeyFacts
  <2>2. Batch(st)[i] = [key |-> Batch(st)[i].key, row |-> st.rows[i]]
    BY <1>3 DEF Entry
  <2> HIDE DEF Batch
  <2> QED BY <1>2, <2>1, <2>2 DEF Entries
<1>5. Batch(st) \in Seq(Entries)
  <2>1. DOMAIN st.rows = 1..Len(st.rows) /\ Len(st.rows) \in Nat
    BY <1>1
  <2>2. Batch(st) = [i \in 1..Len(st.rows) |-> Batch(st)[i]]
    BY <2>1 DEF Batch
  <2> QED BY <1>4, <2>1, <2>2
<1> QED BY <1>2, <1>3, <1>5

\* WriteBatch writes the rows of the statement, or fails.
LEMMA StoreBatchMade ==
  ASSUME StatementsInv, NEW s \in Sessions, StoreBatch(s)
  PROVE  \E ids : StepMade(s, ids)
<1> DEFINE q == task[s].todo
           ids == {e.key.id : e \in Range(q)}
<1>1. StatementsTyped /\ IsTable(rows) /\ q \in Seq(Entries)
  BY DEF StatementsInv, StatementsTyped, TaskTyped
<1>2. before' = before /\ open' = open
  BY DEF StoreBatch
<1>3. CASE rows' = PutAll(rows, q) /\ Wrote(s, ids) /\ Goto(s, "ok")
  <2> HIDE DEF q
  <2>1. /\ DOMAIN task' = Sessions /\ \A o \in Sessions \ {s} : task'[o] = task[o]
        /\ TaskTyped(task'[s]) /\ StatementSound(task'[s], before[s], others[s], rows')
    BY <1>1, <1>3, Moved, Ended
  <2>2. IsTable(rows')
    BY <1>1, <1>3, PutAllTable
  <2>3. \A e \in Range(q) : e.key \in Keys /\ e.key.id \in Int
    <3>1. Range(q) \subseteq Entries
      BY <1>1 DEF Range
    <3> QED BY <3>1, KeyFacts DEF Entries
  <2>4. ids \subseteq Int
    BY <2>3
  <2>5. ASSUME NEW k \in Keys, k.id \notin ids PROVE At(rows', k) = At(rows, k)
    <3>1. k \notin {e.key : e \in Range(q)}
      BY <2>5
    <3>2. /\ DOMAIN rows' = DOMAIN rows \cup {e.key : e \in Range(q)}
          /\ \A l \in DOMAIN rows : l \notin {e.key : e \in Range(q)} => rows'[l] = rows[l]
      BY <1>1, <1>3, PutAllFacts
    <3> QED BY <3>1, <3>2 DEF At
  <2> HIDE DEF ids
  <2>6. StepMade(s, ids)
    BY <1>1, <1>2, <1>3, <2>1, <2>2, <2>4, <2>5, IdsWritten
  <2> QED BY <2>6
<1>4. CASE Goto(s, "error") /\ UNCHANGED <<rows, faults, others>>
  <2>1. StepMade(s, {})
    BY <1>1, <1>2, <1>4, FailedMade
  <2> QED BY <2>1
<1> QED BY <1>3, <1>4 DEF StoreBatch

\* The rows of a DELETE or UPDATE are read.
LEMMA FetchMade ==
  ASSUME StatementsInv, NEW s \in Sessions, Fetch(s)
  PROVE  StepMade(s, {})
<1> DEFINE t == task[s]
           u == task'[s]
<1>0. PICK q \in Found(t.stmt.where) :
        task' = [task EXCEPT ![s] = Continue([task[s] EXCEPT !.todo = q])]
  BY DEF Fetch
<1>1. /\ StatementsTyped /\ IsTable(rows) /\ TaskTyped(t)
      /\ StatementSound(t, before[s], others[s], rows)
  BY DEF StatementsInv, StatementsTyped
<1>2. t.pc = "fetch" /\ UNCHANGED <<rows, open, faults, before, others>>
  BY DEF Fetch
<1>3. IsStatement(t.stmt) /\ t.stmt.op \in ChangeOps
  BY <1>1, <1>2, PcOp
<1>4. q \in Seq(Entries)
  BY <1>1, FoundFacts
<1>5. /\ DOMAIN task' = Sessions /\ \A o \in Sessions \ {s} : task'[o] = task[o]
      /\ u.stmt = t.stmt /\ u.todo = q
      /\ TaskTyped(u) /\ RowStarts(u) /\ u.pc \in {"unlink", "check", "put", "ok"}
  BY <1>0, <1>1, <1>3, <1>4, Continued
<1>6. Kept(before[s], others[s], rows)
  BY <1>1, <1>2 DEF StatementSound
<1>7. StatementSound(u, before[s], others[s], rows)
  <2> HIDE DEF u, t
  <2>1. Exact(t.stmt) => RowByRow(u, before[s], others[s], rows)
    BY <1>1, <1>3, <1>5, <1>6, FetchSound
  <2>2. ~Inserts(u) /\ u.pc # "fetch"
    BY <1>3, <1>5 DEF Inserts, InsertOps, ChangeOps
  <2> QED BY <1>5, <2>1, <2>2 DEF StatementSound
<1> HIDE DEF u, t
<1> QED BY <1>1, <1>2, <1>5, <1>7, NothingWritten DEF u

\* A row of todo that is handled belongs to a change of rows.
LEMMA ChangeFacts ==
  ASSUME StatementsInv, NEW s \in Sessions,
         \/ task[s].pc \in {"unlink", "put"}
         \/ task[s].pc = "check" /\ task[s].stmt.op = "update"
  PROVE  LET t == task[s] IN
         /\ StatementsTyped /\ IsTable(rows) /\ TaskTyped(t)
         /\ IsStatement(t.stmt) /\ t.stmt.op \in ChangeOps /\ (t.pc = "put" => t.stmt.op = "update")
         /\ t.todo \in Seq(Entries) /\ t.todo # <<>> /\ Tail(t.todo) \in Seq(Entries)
         /\ Head(t.todo).key \in Keys /\ Head(t.todo).key.id \in Int
         /\ (t.stmt.op = "update" /\ t.pc \in {"check", "unlink"} => Moves(t))
         /\ (Exact(t.stmt) => RowByRow(t, before[s], others[s], rows))
<1> DEFINE t == task[s]
<1>1. /\ StatementsTyped /\ IsTable(rows) /\ TaskTyped(t)
      /\ StatementSound(t, before[s], others[s], rows)
  BY DEF StatementsInv, StatementsTyped
<1>2. /\ IsStatement(t.stmt) /\ t.stmt.op \in ChangeOps /\ (t.pc = "put" => t.stmt.op = "update")
      /\ Changes(t) /\ t.todo # <<>>
  BY <1>1, PcOp DEF ChangeOps
<1>3. /\ t.todo \in Seq(Entries)
      /\ t.stmt.op = "update" /\ t.pc \in {"check", "unlink"} => Moves(t)
  BY <1>1 DEF TaskTyped
<1>4. Exact(t.stmt) => RowByRow(t, before[s], others[s], rows)
  BY <1>1, <1>2 DEF StatementSound
<1> HIDE DEF t
<1>5. Head(t.todo) \in Entries /\ Tail(t.todo) \in Seq(Entries)
  BY <1>2, <1>3
<1>6. Head(t.todo).key \in Keys /\ Head(t.todo).key.id \in Int
  BY <1>5, KeyFacts DEF Entries
<1> QED BY <1>1, <1>2, <1>3, <1>4, <1>5, <1>6 DEF t

\* checkPKConflict looks for the key a row is to get.
LEMMA CheckMoveMade ==
  ASSUME StatementsInv, NEW s \in Sessions, CheckMove(s)
  PROVE  StepMade(s, {})
<1> DEFINE t == task[s]
           u == task'[s]
<1>1. /\ t.pc = "check" /\ t.stmt.op = "update"
      /\ UNCHANGED <<rows, open, faults, before, others>>
  BY DEF CheckMove
<1>2. /\ StatementsTyped /\ TaskTyped(t) /\ IsStatement(t.stmt)
      /\ t.todo \in Seq(Entries) /\ t.todo # <<>> /\ Moves(t)
      /\ (Exact(t.stmt) => RowByRow(t, before[s], others[s], rows))
  BY <1>1, ChangeFacts
<1>3. CASE Goto(s, "error")
  BY <1>1, <1>2, <1>3, FailedMade
<1>4. CASE NewKey(t) \notin DOMAIN rows /\ Goto(s, "unlink")
  <2>1. /\ DOMAIN task' = Sessions /\ \A o \in Sessions \ {s} : task'[o] = task[o]
        /\ DOMAIN u = TaskFields /\ u.pc = "unlink" /\ u.stmt = t.stmt
        /\ u.todo = t.todo /\ u.at = t.at
    BY <1>2, <1>4, Moved
  <2> HIDE DEF u, t
  <2>2. Moves(u)
    BY <1>2, <2>1 DEF Moves, NewKey, NewRow
  <2>3. TaskTyped(u)
    BY <1>1, <1>2, <2>1, <2>2 DEF TaskTyped, PcFits, Inserts, InProgress, Changes, InsertOps
  <2>4. Exact(t.stmt) => RowByRow(u, before[s], others[s], rows)
    BY <1>1, <1>2, <1>4, <2>1, CheckMoveSound
  <2>5. StatementSound(u, before[s], others[s], rows)
    BY <1>1, <2>1, <2>4 DEF StatementSound, Inserts, InsertOps
  <2> QED BY <1>1, <1>2, <2>1, <2>3, <2>5, NothingWritten DEF u
<1> QED BY <1>3, <1>4 DEF CheckMove

\* A row is done: its key is away, or has its new row.
LEMMA NextRow ==
  ASSUME StatementsTyped, NEW s \in Sessions, IsStatement(task[s].stmt),
         task[s].stmt.op \in ChangeOps, task[s].pc \in {"unlink", "put"},
         Tail(task[s].todo) \in Seq(Entries),
         task' = [task EXCEPT ![s] = Continue([task[s] EXCEPT !.todo = Tail(@)])],
         NEW T,
         Exact(task[s].stmt) /\ RowStarts(task'[s]) =>
           RowByRow(task'[s], before[s], others[s], T)
  PROVE  /\ DOMAIN task' = Sessions /\ \A o \in Sessions \ {s} : task'[o] = task[o]
         /\ TaskTyped(task'[s]) /\ StatementSound(task'[s], before[s], others[s], T)
<1> DEFINE u == task'[s]
           q == Tail(task[s].todo)
<1>1. /\ DOMAIN task' = Sessions /\ \A o \in Sessions \ {s} : task'[o] = task[o]
      /\ u.stmt = task[s].stmt /\ u.todo = q
      /\ TaskTyped(u) /\ RowStarts(u) /\ u.pc \in {"unlink", "check", "put", "ok"}
  BY Continued
<1> HIDE DEF u, q
<1>2. StatementSound(u, before[s], others[s], T)
  <2>1. Exact(u.stmt) => RowByRow(u, before[s], others[s], T)
    BY <1>1 DEF u
  <2>2. ~Inserts(u) /\ u.pc # "fetch"
    BY <1>1 DEF Inserts, InsertOps, ChangeOps
  <2> QED BY <2>1, <2>2 DEF StatementSound
<1> QED BY <1>1, <1>2 DEF u

\* Engine.Delete removes the next row, or fails.
LEMMA UnlinkMade ==
  ASSUME StatementsInv, NEW s \in Sessions, Unlink(s)
  PROVE  \E ids : StepMade(s, ids)
<1> DEFINE t == task[s]
           u == task'[s]
           k == Head(t.todo).key
           U == Restrict(rows, DOMAIN rows \ {k})
<1>1. t.pc = "unlink" /\ before' = before /\ open' = open
  BY DEF Unlink
<1>2. /\ StatementsTyped /\ IsTable(rows) /\ TaskTyped(t)
      /\ IsStatement(t.stmt) /\ t.stmt.op \in ChangeOps
      /\ t.todo \in Seq(Entries) /\ t.todo # <<>> /\ Tail(t.todo) \in Seq(Entries)
      /\ k \in Keys /\ k.id \in Int
      /\ (t.stmt.op = "update" => Moves(t))
      /\ (Exact(t.stmt) => RowByRow(t, before[s], others[s], rows))
  BY <1>1, ChangeFacts
<1>3. CASE Goto(s, "error") /\ UNCHANGED <<rows, others>>
  BY <1>1, <1>2, <1>3, FailedMade
<1>4. CASE /\ rows' = U /\ Wrote(s, {k.id})
           /\ task' = [task EXCEPT ![s] = IF t.stmt.op = "delete"
                      THEN Continue([t EXCEPT !.todo = Tail(@)]) ELSE [t EXCEPT !.pc = "put"]]
  <2>1. IsTable(U) /\ \A l \in Keys : l.id \notin {k.id} => At(U, l) = At(rows, l)
    <3> HIDE DEF k
    <3> QED BY <1>2, RemoveTable, RemoveElse
  <2>2. CASE t.stmt.op = "delete"
    <3>1. u.stmt = t.stmt /\ u.todo = Tail(t.todo)
      BY <1>2, <1>4, <2>2, Continued
    <3>2. Exact(t.stmt) => RowByRow(u, before[s], others[s], U)
      <4> HIDE DEF u, t
      <4> QED BY <1>2, <2>2, <3>1, UnlinkSound
    <3>3. /\ DOMAIN task' = Sessions /\ \A o \in Sessions \ {s} : task'[o] = task[o]
          /\ TaskTyped(task'[s]) /\ StatementSound(task'[s], before[s], others[s], U)
      <4> HIDE DEF U
      <4> QED BY <1>1, <1>2, <1>4, <2>2, <3>2, NextRow
    <3>4. StepMade(s, {k.id})
      <4> HIDE DEF k, U
      <4> QED BY <1>1, <1>2, <1>4, <2>1, <3>3, IdsWritten
    <3> QED BY <3>4
  <2>3. CASE t.stmt.op # "delete"
    <3>1. t.stmt.op = "update" /\ Goto(s, "put")
      BY <1>2, <1>4, <2>3 DEF Goto, ChangeOps
    <3>2. /\ DOMAIN task' = Sessions /\ \A o \in Sessions \ {s} : task'[o] = task[o]
          /\ DOMAIN u = TaskFields /\ u.pc = "put" /\ u.stmt = t.stmt
          /\ u.todo = t.todo /\ u.at = t.at
      BY <1>2, <3>1, Moved
    <3>3. Exact(t.stmt) => RowByRow(u, before[s], others[s], U)
      <4> HIDE DEF u, t
      <4> QED BY <1>1, <1>2, <3>1, <3>2, UnlinkMoveSound
    <3>4. TaskTyped(u) /\ StatementSound(u, before[s], others[s], U)
      <4> HIDE DEF u, t, U
      <4>1. TaskTyped(u)
        BY <1>2, <3>1, <3>2 DEF TaskTyped, PcFits, Inserts, InProgress, Changes, InsertOps
      <4>2. StatementSound(u, before[s], others[s], U)
        BY <3>1, <3>2, <3>3 DEF StatementSound, Inserts, InsertOps
      <4> QED BY <4>1, <4>2
    <3>5. /\ DOMAIN task' = Sessions /\ \A o \in Sessions \ {s} : task'[o] = task[o]
          /\ TaskTyped(task'[s]) /\ StatementSound(task'[s], before[s], others[s], U)
      BY <3>2, <3>4
    <3>6. StepMade(s, {k.id})
      <4> HIDE DEF k, U
      <4> QED BY <1>1, <1>2, <1>4, <2>1, <3>5, IdsWritten
    <3> QED BY <3>6
  <2> QED BY <2>2, <2>3
<1> QED BY <1>3, <1>4 DEF Unlink

\* Engine.Write stores the row as it is to be, or fails.
LEMMA PutRowMade ==
  ASSUME StatementsInv, NEW s \in Sessions, PutRow(s)
  PROVE  \E ids : StepMade(s, ids)
<1> DEFINE t == task[s]
           u == task'[s]
           U == Put(rows, NewKey(t), NewRow(t))
           i == NewRow(t).id
<1>1. t.pc = "put" /\ before' = before /\ open' = open
  BY DEF PutRow
<1>2. /\ StatementsTyped /\ IsTable(rows) /\ TaskTyped(t)
      /\ IsStatement(t.stmt) /\ t.stmt.op \in ChangeOps /\ t.stmt.op = "update"
      /\ t.todo \in Seq(Entries) /\ t.todo # <<>> /\ Tail(t.todo) \in Seq(Entries)
      /\ (Exact(t.stmt) => RowByRow(t, before[s], others[s], rows))
  BY <1>1, ChangeFacts
<1>3. CASE Goto(s, "error") /\ UNCHANGED <<rows, others>>
  BY <1>1, <1>2, <1>3, FailedMade
<1>4. CASE /\ rows' = U /\ Wrote(s, {i})
           /\ task' = [task EXCEPT ![s] = Continue([t EXCEPT !.todo = Tail(@)])]
  <2>1. i \in Int /\ NewRow(t) \in Rows /\ NewKey(t) = Key(i)
    <3> HIDE DEF t
    <3>1. /\ Head(t.todo).key.id \in Int /\ Shift(t.stmt) \in Int
          /\ NewRow(t) \in Rows /\ NewRow(t).id = Head(t.todo).key.id + Shift(t.stmt)
          /\ NewKey(t) = Key(Head(t.todo).key.id + Shift(t.stmt))
      BY <1>2, NewKeyIs
    <3> QED BY <3>1
  <2>2. IsTable(U) /\ \A l \in Keys : l.id \notin {i} => At(U, l) = At(rows, l)
    <3>1. Key(i) \in Keys /\ Key(i).id = i
      BY <2>1, KeyFacts
    <3>2. IsTable(U) /\ \A l : l # Key(i) => At(U, l) = At(rows, l)
      BY <1>2, <2>1, <3>1, PutTable
    <3> QED BY <3>1, <3>2
  <2>3. u.stmt = t.stmt /\ u.todo = Tail(t.todo)
    BY <1>2, <1>4, Continued
  <2>4. Exact(t.stmt) /\ RowStarts(u) => RowByRow(u, before[s], others[s], U)
    <3> HIDE DEF u, t
    <3> QED BY <1>1, <1>2, <2>3, PutRowSound
  <2>5. /\ DOMAIN task' = Sessions /\ \A o \in Sessions \ {s} : task'[o] = task[o]
        /\ TaskTyped(task'[s]) /\ StatementSound(task'[s], before[s], others[s], U)
    <3>1. Tail(task[s].todo) \in Seq(Entries) /\ task[s].pc \in {"unlink", "put"}
      BY <1>1, <1>2
    <3> HIDE DEF U
    <3> QED BY <1>2, <1>4, <2>4, <3>1, NextRow
  <2>6. StepMade(s, {i})
    <3> HIDE DEF i, U
    <3> QED BY <1>1, <1>2, <1>4, <2>1, <2>2, <2>5, IdsWritten
  <2> QED BY <2>6
<1> QED BY <1>3, <1>4 DEF PutRow

\* A call keeps every statement sound.
LEMMA DataKeeps ==
  ASSUME StatementsInv, NEW s \in Sessions, DataStep(s) \/ CallFails(s)
  PROVE  StatementsInv'
<1>1. CASE CallFails(s)
  BY <1>1, FailedMade, StepKeeps DEF CallFails, StatementsInv
<1>2. CASE DataStep(s)
  BY <1>2, CheckInsertMade, StoreBatchMade, FetchMade, CheckMoveMade, UnlinkMade, PutRowMade,
     StepKeeps DEF DataStep
<1> QED BY <1>1, <1>2

-----------------------------------------------------------------------------
(* Steps around the calls                                                  *)

\* A session without a statement.
LEMMA NoTaskTyped ==
  /\ TaskTyped(NoTask) /\ NoTask.pc = "idle"
  /\ \A b, o, T : StatementSound(NoTask, b, o, T)
<1>1. DOMAIN NoTask = TaskFields /\ NoTask.pc = "idle" /\ NoTask.todo = <<>> /\ NoTask.at = 1
  BY DEF NoTask, TaskFields
<1>2. TaskTyped(NoTask)
  BY <1>1 DEF TaskTyped, InProgress, Inserts, Changes
<1> QED BY <1>1, <1>2, EndedSound

\* The table of a session without a statement.
LEMMA EmptyTable == IsTable(Empty)
BY FS_EmptySet DEF IsTable, Empty

\* A statement begins.
LEMMA BeginKeeps ==
  ASSUME StatementsInv, NEW s \in Sessions, NEW st, IsStatement(st), Begin(s, st)
  PROVE  StatementsInv'
<1> DEFINE t == task'[s]
<1>1. /\ DOMAIN task = Sessions /\ DOMAIN before = Sessions /\ DOMAIN others = Sessions
      /\ IsTable(rows) /\ open \in BOOLEAN
  BY DEF StatementsInv, StatementsTyped
<1>2. /\ DOMAIN task' = Sessions /\ \A o \in Sessions \ {s} : task'[o] = task[o]
      /\ DOMAIN t = TaskFields /\ t.pc = FirstStep(st) /\ t.stmt = st /\ t.at = 1
      /\ t.todo = IF st.op \in {"insert", "write"} THEN Batch(st) ELSE <<>>
  BY <1>1 DEF Begin, NoTask, TaskFields
<1>3. /\ rows' = rows /\ open' = open
      /\ before' = [before EXCEPT ![s] = rows] /\ others' = [others EXCEPT ![s] = {}]
  BY DEF Begin
<1> HIDE DEF t
<1>4. t.todo \in Seq(Entries)
  BY <1>2, BatchFacts DEF InsertOps
<1>5. TaskTyped(t)
  <2>1. PcFits(st.op, t.pc)
    BY <1>2 DEF IsStatement, Operations, FirstStep, PcFits
  <2>2. Inserts(t) => t.todo = Batch(st)
    BY <1>2 DEF Inserts, InsertOps
  <2>3. ~Changes(t)
    BY <1>2 DEF Changes, ChangeOps, FirstStep
  <2>4. ~(t.stmt.op = "update" /\ t.pc \in {"check", "unlink"})
    BY <1>2 DEF FirstStep
  <2> QED BY <1>2, <1>4, <2>1, <2>2, <2>3, <2>4 DEF TaskTyped
<1>6. StatementSound(t, rows, {}, rows)
  BY <1>2, <1>4, BegunSound
<1>7. ASSUME NEW o \in Sessions
      PROVE  /\ TaskTyped(task'[o]) /\ IsTable(before'[o]) /\ others'[o] \subseteq Int
             /\ StatementSound(task'[o], before'[o], others'[o], rows')
  <2>1. CASE o = s
    BY <1>1, <1>3, <1>5, <1>6, <2>1 DEF t
  <2>2. CASE o # s
    BY <1>1, <1>2, <1>3, <2>2 DEF StatementsInv, StatementsTyped
  <2> QED BY <2>1, <2>2
<1> QED BY <1>1, <1>2, <1>3, <1>7 DEF StatementsInv, StatementsTyped

\* Its response is taken.
LEMMA TakeKeeps ==
  ASSUME StatementsInv, NEW s \in Sessions, Take(s)
  PROVE  StatementsInv'
<1>1. /\ DOMAIN task = Sessions /\ DOMAIN before = Sessions /\ DOMAIN others = Sessions
      /\ IsTable(rows) /\ open \in BOOLEAN
  BY DEF StatementsInv, StatementsTyped
<1>2. /\ rows' = rows /\ open' = open /\ task' = [task EXCEPT ![s] = NoTask]
      /\ before' = [before EXCEPT ![s] = Empty] /\ others' = [others EXCEPT ![s] = {}]
  BY DEF Take
<1>3. ASSUME NEW o \in Sessions
      PROVE  /\ TaskTyped(task'[o]) /\ IsTable(before'[o]) /\ others'[o] \subseteq Int
             /\ StatementSound(task'[o], before'[o], others'[o], rows')
  <2>1. CASE o = s
    BY <1>1, <1>2, <2>1, NoTaskTyped, EmptyTable
  <2>2. CASE o # s
    BY <1>1, <1>2, <2>2 DEF StatementsInv, StatementsTyped
  <2> QED BY <2>1, <2>2
<1> QED BY <1>1, <1>2, <1>3 DEF StatementsInv, StatementsTyped

\* A CREATE or DROP goes on.
LifeMoves == {<<"create", "start">>, <<"create", "error">>, <<"start", "publish">>,
              <<"publish", "ok">>, <<"drop", "closing">>, <<"drop", "error">>,
              <<"closing", "ok">>}
LifeStep(s) == /\ \E pc : <<task[s].pc, pc>> \in LifeMoves /\ Goto(s, pc)
               /\ UNCHANGED <<rows, open, faults, before, others>>

\* CREATE and DROP leave the statements on rows as they are.
LEMMA LifeKeeps ==
  ASSUME StatementsInv, NEW s \in Sessions, LifeStep(s)
  PROVE  StatementsInv'
<1> DEFINE t == task[s]
           u == task'[s]
<1>1. StatementsTyped /\ TaskTyped(t)
  BY DEF StatementsInv, StatementsTyped
<1>2. PICK pc : <<t.pc, pc>> \in LifeMoves /\ Goto(s, pc)
  BY DEF LifeStep
<1>3. UNCHANGED <<rows, open, faults, before, others>>
  BY DEF LifeStep
<1>4. /\ DOMAIN task' = Sessions /\ \A o \in Sessions \ {s} : task'[o] = task[o]
      /\ DOMAIN u = TaskFields /\ u.pc = pc /\ u.stmt = t.stmt
      /\ u.todo = t.todo /\ u.at = t.at
  BY <1>1, <1>2, Moved
<1> HIDE DEF t, u
<1>5. InProgress(t) /\ IsStatement(t.stmt) /\ PcFits(t.stmt.op, t.pc)
  <2>1. InProgress(t)
    BY <1>2 DEF LifeMoves, InProgress
  <2> QED BY <1>1, <2>1 DEF TaskTyped
<1>6. /\ t.stmt.op \in {"create", "drop"}
      /\ InProgress(u) => PcFits(u.stmt.op, u.pc)
  BY <1>2, <1>4, <1>5 DEF LifeMoves, PcFits, InProgress
<1>7. ~Inserts(u) /\ ~Changes(u) /\ u.pc # "fetch"
  BY <1>2, <1>4, <1>6 DEF LifeMoves, Inserts, Changes, InsertOps, ChangeOps
<1>8. TaskTyped(u)
  BY <1>1, <1>4, <1>5, <1>6, <1>7 DEF TaskTyped
<1>9. StatementSound(u, before[s], others[s], rows)
  BY <1>7 DEF StatementSound
<1>10. StepMade(s, {})
  BY <1>1, <1>3, <1>4, <1>8, <1>9, NothingWritten DEF u
<1> QED BY <1>10, StepKeeps

\* A crash ends all statements.
LEMMA CrashKeeps ==
  ASSUME StatementsInv, Crash
  PROVE  StatementsInv'
<1>1. /\ IsTable(rows') /\ open' \in BOOLEAN
      /\ task' = [s \in Sessions |-> NoTask]
      /\ before' = [s \in Sessions |-> Empty] /\ others' = [s \in Sessions |-> {}]
  BY DEF Crash, StatementsInv, StatementsTyped
<1> QED BY <1>1, NoTaskTyped, EmptyTable DEF StatementsInv, StatementsTyped

\* A step that is not about statements.
Elsewhere == UNCHANGED <<rows, task, before, others>> /\ open' \in BOOLEAN

\* What else the server does leaves statements as they are.
LEMMA ElsewhereKeeps ==
  ASSUME StatementsInv, Elsewhere
  PROVE  StatementsInv'
BY DEF StatementsInv, StatementsTyped, Elsewhere

\* What a step of the server may do to statements.
StatementsMove ==
  \/ \E s \in Sessions : DataStep(s) \/ CallFails(s) \/ Take(s) \/ LifeStep(s)
  \/ \E s \in Sessions : \E st : IsStatement(st) /\ Begin(s, st)
  \/ Crash
  \/ Elsewhere

\* A CREATE or DROP moves as its actions say.
LEMMA LifeSteps ==
  ASSUME NEW s \in Sessions, CreateEngine(s) \/ StartLoops(s) \/ PublishScheduler(s)
                             \/ DropEngine(s) \/ DropEnds(s)
  PROVE  LifeStep(s)
<1>1. UNCHANGED <<rows, open, faults, before, others>>
  BY DEF CreateEngine, StartLoops, PublishScheduler, DropEngine, DropEnds
<1>2. \/ task[s].pc = "create" /\ (Goto(s, "start") \/ Goto(s, "error"))
      \/ task[s].pc = "start" /\ Goto(s, "publish")
      \/ task[s].pc = "publish" /\ Goto(s, "ok")
      \/ task[s].pc = "drop" /\ (Goto(s, "closing") \/ Goto(s, "error"))
      \/ task[s].pc = "closing" /\ Goto(s, "ok")
  BY DEF CreateEngine, StartLoops, PublishScheduler, DropEngine, DropEnds
<1>3. ASSUME NEW pc, <<task[s].pc, pc>> \in LifeMoves, Goto(s, pc) PROVE LifeStep(s)
  BY <1>1, <1>3, Zenon DEF LifeStep
<1>4. /\ task[s].pc = "create" => <<task[s].pc, "start">> \in LifeMoves
                                 /\ <<task[s].pc, "error">> \in LifeMoves
      /\ task[s].pc = "start" => <<task[s].pc, "publish">> \in LifeMoves
      /\ task[s].pc = "publish" => <<task[s].pc, "ok">> \in LifeMoves
      /\ task[s].pc = "drop" => <<task[s].pc, "closing">> \in LifeMoves
                               /\ <<task[s].pc, "error">> \in LifeMoves
      /\ task[s].pc = "closing" => <<task[s].pc, "ok">> \in LifeMoves
  BY DEF LifeMoves
<1> QED BY <1>2, <1>3, <1>4, Zenon

\* And there is no other way.
LEMMA StepKinds ==
  ASSUME ServerAssumption, LoadsAssumption, ServerInv, open \in BOOLEAN, [Next]_serverVars
  PROVE  StatementsMove
<1> USE DEF statementVars
<1>0. load \in Loads /\ TaskShape /\ PgInSync
  BY DEF ServerInv
<1>1. CASE \E c \in TcpClients : Dial(c) \/ Ping(c) \/ TcpRequest(c) \/ TcpStep(c)
  <2>1. PICK c \in TcpClients : Dial(c) \/ Ping(c) \/ TcpRequest(c) \/ TcpStep(c)
    BY <1>1
  <2>2. c \in Sessions
    BY DEF ServerAssumption
  <2>3. CASE TcpRequest(c)
    <3>1. PICK st \in load.menu : Begin(c, st)
      BY <2>3 DEF TcpRequest, Ask
    <3>2. IsStatement(st)
      BY <1>0, <3>1 DEF LoadsAssumption
    <3> QED BY <2>2, <3>1, <3>2 DEF StatementsMove
  <2>4. CASE TcpRespond(c)
    BY <2>2, <2>4 DEF TcpRespond, StatementsMove
  <2>5. CASE Dial(c) \/ Ping(c) \/ Accept(c) \/ AcceptNext(c) \/ Track(c) \/ HandlerTop(c)
             \/ ReadFails(c)
    <3>1. Elsewhere
      BY <2>5 DEF Dial, Ping, Accept, AcceptNext, Track, HandlerTop, ReadFails, Elsewhere
    <3> QED BY <3>1 DEF StatementsMove
  <2> QED BY <2>1, <2>3, <2>4, <2>5 DEF TcpStep
<1>2. CASE AcceptEnds
  BY <1>2 DEF AcceptEnds, StatementsMove, Elsewhere
<1>3. CASE \E h \in HttpClients : HttpRequest(h) \/ HttpRespond(h)
  <2>1. PICK h \in HttpClients : HttpRequest(h) \/ HttpRespond(h)
    BY <1>3
  <2>2. h \in Sessions
    BY DEF ServerAssumption
  <2>3. CASE HttpRequest(h)
    <3>1. PICK st \in load.menu : Begin(h, st)
      BY <2>3 DEF HttpRequest, Ask
    <3>2. IsStatement(st)
      BY <1>0, <3>1 DEF LoadsAssumption
    <3> QED BY <2>2, <3>1, <3>2 DEF StatementsMove
  <2>4. CASE HttpRespond(h)
    BY <2>2, <2>4 DEF HttpRespond, StatementsMove
  <2> QED BY <2>1, <2>3, <2>4
<1>4. CASE \E p \in PgClients : PgDial(p) \/ PgAccept(p) \/ PgAcceptNext(p) \/ PgMessage(p)
                                \/ PgStep(p) \/ PgEnds(p)
  <2>1. PICK p \in PgClients : PgDial(p) \/ PgAccept(p) \/ PgAcceptNext(p) \/ PgMessage(p)
                               \/ PgStep(p) \/ PgEnds(p)
    BY <1>4
  <2>2. p \in Sessions
    BY DEF ServerAssumption
  <2>3. CASE PgHandle(p)
    <3>1. CASE UNCHANGED statementVars
      BY <3>1 DEF StatementsMove, Elsewhere
    <3>2. CASE Take(p)
      BY <2>2, <3>2 DEF StatementsMove
    <3>3. CASE \E st : IsStatement(st) /\ Begin(p, st)
      BY <2>2, <3>3, Zenon DEF StatementsMove
    <3> QED BY <1>0, <2>3, <3>1, <3>2, <3>3, HandleInSync
  <2>4. CASE PgDial(p) \/ PgAccept(p) \/ PgAcceptNext(p) \/ PgMessage(p) \/ PgEnds(p)
             \/ Startup(p)
    <3>1. Elsewhere
      BY <2>4 DEF PgDial, PgAccept, PgAcceptNext, PgMessage, Receive, Startup, PgEnds, Elsewhere
    <3> QED BY <3>1 DEF StatementsMove
  <2> QED BY <2>1, <2>3, <2>4 DEF PgStep
<1>5. CASE PgAcceptEnds \/ Tick \/ StopBegins \/ StopNext \/ UNCHANGED serverVars
  <2>1. Elsewhere
    BY <1>5 DEF PgAcceptEnds, Tick, StopBegins, StopNext, CloseTcpListener, CloseHttp,
       ClosePgListener, PgWaited, CloseAllConns, CloseTables, StopEndsNow, serverVars, Elsewhere
  <2> QED BY <2>1 DEF StatementsMove
<1>6. CASE \E s \in Sessions : StatementStep(s) \/ Refused(s)
  BY <1>6, LifeSteps DEF StatementStep, Refused, StatementsMove
<1>7. CASE Crash
  BY <1>7 DEF StatementsMove
<1> QED BY <1>1, <1>2, <1>3, <1>4, <1>5, <1>6, <1>7 DEF Next

\* The invariant holds when the server starts.
LEMMA StatementsStart ==
  ASSUME LoadsAssumption, Init
  PROVE  StatementsInv
<1>1. /\ rows \in load.tables /\ load \in Loads /\ open = TRUE
      /\ task = [s \in Sessions |-> NoTask]
      /\ before = [s \in Sessions |-> Empty] /\ others = [s \in Sessions |-> {}]
  BY DEF Init, StatementsInit
<1>2. IsTable(rows)
  BY <1>1 DEF LoadsAssumption
<1> QED BY <1>1, <1>2, NoTaskTyped, EmptyTable DEF StatementsInv, StatementsTyped

\* Every step keeps it.
LEMMA StatementsStep ==
  ASSUME ServerAssumption, LoadsAssumption, ServerInv, StatementsInv, [Next]_serverVars
  PROVE  StatementsInv'
<1>1. StatementsMove
  BY StepKinds DEF StatementsInv, StatementsTyped
<1> QED BY <1>1, DataKeeps, TakeKeeps, LifeKeeps, BeginKeeps, CrashKeeps, ElsewhereKeeps
        DEF StatementsMove

\* In every state each statement in progress has done what it should have done so far, row
\* by row, whatever other sessions did to other rows.
THEOREM StatementsInvariant == Spec => []StatementsInv
<1>1. Init => StatementsInv
  BY StatementsStart, LoadsAssumption
<1>2. ServerInv /\ StatementsInv /\ [Next]_serverVars => StatementsInv'
  BY StatementsStep, ServerAssumption, LoadsAssumption
<1> QED BY <1>1, <1>2, ServerInvariant, PTL DEF Spec

-----------------------------------------------------------------------------
(* Types and limits                                                        *)

CountersInv ==
  /\ begun \in 0..load.max /\ faults \in 0..MaxFaults
  /\ MaxConnections > 0 => connCount <= MaxConnections
  /\ PgMaxConns > 0 => pgSlots <= PgMaxConns

\* How a step changes the counters: they stay, go down, or stay within their limits.
CountersMove ==
  /\ load' = load
  /\ begun' = begun \/ (begun' = begun + 1 /\ begun' <= load.max)
  /\ faults' = faults \/ Fault
  /\ connCount' \in {connCount, connCount - 1, 0} \/ (~TooMany /\ connCount' = connCount + 1)
  /\ \/ pgSlots' \in {pgSlots, pgSlots - 1, 0}
     \/ ~(PgMaxConns > 0 /\ pgSlots >= PgMaxConns) /\ pgSlots' = pgSlots + 1

\* Connections are counted by numbers.
LEMMA CountersTyped ==
  ASSUME ServerAssumption, ServerInv
  PROVE  connCount \in Nat /\ pgSlots \in Nat
<1>1. IsFiniteSet(LiveTcp(tcp)) /\ IsFiniteSet(LivePg(pg))
  BY FS_Subset DEF LiveTcp, LivePg, ServerAssumption
<1> QED BY <1>1, FS_CardinalityType DEF ServerInv, TcpSound, PgSound

\* Every step moves them so.
LEMMA CountersSteps ==
  ASSUME LoadsAssumption, ServerInv, CountersInv, [Next]_serverVars
  PROVE  CountersMove
<1> USE DEF CountersMove, statementVars, connectionVars, tcpVars, pgServerVars, pgVars, lifeVars
<1>0. load.max \in Nat /\ begun \in Int
  BY DEF ServerInv, LoadsAssumption, CountersInv
<1>1. CASE \E c \in TcpClients : Dial(c) \/ Ping(c) \/ TcpRequest(c) \/ TcpStep(c)
  <2>1. PICK c \in TcpClients : Dial(c) \/ Ping(c) \/ TcpRequest(c) \/ TcpStep(c)
    BY <1>1
  <2>2. CASE TcpRequest(c)
    BY <1>0, <2>2 DEF TcpRequest, Ask, Begin
  <2>3. CASE TcpRespond(c)
    BY <2>3 DEF TcpRespond, Take, HandlerEnds, HandlerNext
  <2>4. CASE Dial(c) \/ Ping(c) \/ Accept(c) \/ Track(c) \/ HandlerTop(c) \/ ReadFails(c)
    BY <2>4 DEF Dial, Ping, Accept, Track, HandlerTop, ReadFails, HandlerEnds, HandlerNext
  <2>5. CASE AcceptNext(c)
    BY <2>5 DEF AcceptNext
  <2> QED BY <2>1, <2>2, <2>3, <2>4, <2>5 DEF TcpStep
<1>2. CASE AcceptEnds
  BY <1>2 DEF AcceptEnds
<1>3. CASE \E h \in HttpClients : HttpRequest(h) \/ HttpRespond(h)
  <2>1. PICK h \in HttpClients : HttpRequest(h) \/ HttpRespond(h)
    BY <1>3
  <2>2. CASE HttpRequest(h)
    BY <1>0, <2>2 DEF HttpRequest, Ask, Begin
  <2>3. CASE HttpRespond(h)
    BY <2>3 DEF HttpRespond, Take
  <2> QED BY <2>1, <2>2, <2>3
<1>4. CASE \E p \in PgClients : PgDial(p) \/ PgAccept(p) \/ PgAcceptNext(p) \/ PgMessage(p)
                                \/ PgStep(p) \/ PgEnds(p)
  <2>1. PICK p \in PgClients : PgDial(p) \/ PgAccept(p) \/ PgAcceptNext(p) \/ PgMessage(p)
                               \/ PgStep(p) \/ PgEnds(p)
    BY <1>4
  <2>2. CASE PgStep(p)
    <3>1. faults' = faults
      BY <2>2 DEF PgStep, Startup, PgHandle, HandleDropped, HandleParse, HandleBind,
         HandleDescribe, HandleClose, HandleExecute, HandleQuery, HandleSync, Result, Begin
    <3> QED BY <1>0, <2>2, <3>1 DEF PgStep
  <2>3. CASE PgDial(p) \/ PgAccept(p) \/ PgAcceptNext(p) \/ PgMessage(p) \/ PgEnds(p)
    BY <2>3 DEF PgDial, PgAccept, PgAcceptNext, PgMessage, Receive, PgEnds
  <2> QED BY <2>1, <2>2, <2>3
<1>5. CASE PgAcceptEnds \/ Tick \/ StopBegins \/ StopNext \/ UNCHANGED serverVars
  BY <1>5 DEF PgAcceptEnds, Tick, StopBegins, StopNext, StopStep, CloseTcpListener, CloseHttp,
     ClosePgListener, PgWaited, CloseAllConns, CloseTables, StopEndsNow, serverVars
<1>6. CASE \E s \in Sessions : StatementStep(s) \/ Refused(s)
  BY <1>6 DEF StatementStep, Refused, CreateEngine, StartLoops, PublishScheduler, DropEngine,
     DropEnds, DataStep, CallFails, CheckInsert, StoreBatch, Fetch, CheckMove, Unlink, PutRow
<1>7. CASE Crash
  BY <1>7 DEF Crash
<1> QED BY <1>1, <1>2, <1>3, <1>4, <1>5, <1>6, <1>7 DEF Next

\* The counters stay within their limits.
LEMMA CountersStep ==
  ASSUME ServerAssumption, LoadsAssumption, ServerInv, CountersInv, [Next]_serverVars
  PROVE  CountersInv'
<1>1. CountersMove
  BY CountersSteps
<1>2. /\ connCount \in Nat /\ pgSlots \in Nat /\ load.max \in Nat
      /\ MaxConnections \in Nat /\ PgMaxConns \in Nat /\ MaxFaults \in Nat
  BY CountersTyped DEF ServerAssumption, ServerInv, LoadsAssumption
<1>3. begun' \in 0..load'.max /\ faults' \in 0..MaxFaults
  BY <1>1, <1>2 DEF CountersMove, CountersInv, Fault
<1>4. /\ MaxConnections > 0 => connCount' <= MaxConnections
      /\ PgMaxConns > 0 => pgSlots' <= PgMaxConns
  BY <1>1, <1>2 DEF CountersMove, CountersInv, TooMany
<1> QED BY <1>3, <1>4 DEF CountersInv

\* Types; rows are stored under their keys, and the connections are counted and stay within
\* their limits, for any number of clients, any limits and any statements (acceptTCP,
\* handleTCPConn, acquireConnSlot, releaseConnSlot).
THEOREM ServerTyped == Spec => []ServerTypeOK
<1>1. Init => CountersInv
  BY LoadsAssumption, ServerAssumption
     DEF Init, StatementsInit, FreshConnections, CountersInv, ServerAssumption, LoadsAssumption
<1>2. ServerInv /\ CountersInv /\ [Next]_serverVars => CountersInv'
  BY CountersStep, ServerAssumption, LoadsAssumption
<1>3. ServerInv /\ StatementsInv /\ CountersInv => ServerTypeOK
  <2> SUFFICES ASSUME ServerInv, StatementsInv, CountersInv PROVE ServerTypeOK
    OBVIOUS
  <2>1. \A k \in DOMAIN rows : rows[k].id = k.id /\ (k.json => k.id \in JsonDiffers)
    BY DEF StatementsInv, StatementsTyped, IsTable, Keys
  <2>2. open \in BOOLEAN
    BY DEF StatementsInv, StatementsTyped
  <2>3. /\ \A c \in TcpClients :
             tcp[c] \in {"away", "dialed", "started", "top", "reading", "running", "gone"}
        /\ acceptor \in TcpClients \cup {"accept", "ended"}
        /\ connCount = Cardinality({c \in TcpClients :
                                      tcp[c] \in {"started", "top", "reading", "running"}})
    BY DEF ServerInv, TcpSound, LiveTcp, TcpLive
  <2>4. /\ pgAcceptor \in PgClients \cup {"accept", "ended"}
        /\ pgSlots = Cardinality({p \in PgClients : pg[p].pc \in Handling})
    BY DEF ServerInv, PgSound, LivePg
  <2> QED BY <2>1, <2>2, <2>3, <2>4 DEF ServerTypeOK, CountersInv
<1> QED BY <1>1, <1>2, <1>3, ServerInvariant, StatementsInvariant, PTL DEF Spec

-----------------------------------------------------------------------------
(* What SQL says, id by id                                                 *)

\* The rows of a table by their ids.
LEMMA ByIdFacts ==
  ASSUME NEW T, IsTable(T)
  PROVE  /\ DOMAIN ById(T) \subseteq Int
         /\ \A i \in Int : /\ i \in DOMAIN ById(T) <=> Key(i) \in DOMAIN T
                           /\ At(ById(T), i) = At(T, Key(i))
         /\ \A i \in DOMAIN ById(T) :
              ById(T)[i] = T[Key(i)] /\ ById(T)[i] \in Rows /\ ById(T)[i].id = i
<1> DEFINE ids == {k.id : k \in {l \in DOMAIN T : ~l.json}}
<1>1. DOMAIN ById(T) = ids /\ \A i \in ids : ById(T)[i] = T[Key(i)]
  BY DEF ById
<1>2. ASSUME NEW i \in ids PROVE i \in Int /\ Key(i) \in DOMAIN T
  <2>1. PICK k \in DOMAIN T : ~k.json /\ i = k.id
    OBVIOUS
  <2>2. k \in Keys
    BY DEF IsTable
  <2> QED BY <2>1, <2>2, KeyFacts
<1>3. ASSUME NEW i \in Int, Key(i) \in DOMAIN T PROVE i \in ids
  BY <1>3, KeyFacts
<1> HIDE DEF ids
<1>4. \A i \in ids : T[Key(i)] \in Rows /\ T[Key(i)].id = i
  BY <1>2, KeyFacts DEF IsTable
<1>5. \A i \in Int : At(ById(T), i) = At(T, Key(i))
  BY <1>1, <1>2, <1>3 DEF At
<1> QED BY <1>1, <1>2, <1>3, <1>4, <1>5

\* What a DELETE or UPDATE of the rows with these ids says of an id.
LEMMA AppliedAt ==
  ASSUME NEW st, IsStatement(st), st.op \in ChangeOps, NEW L, NEW ids, ids \subseteq DOMAIN L,
         DOMAIN L \subseteq Int, \A i \in DOMAIN L : L[i] \in Rows /\ L[i].id = i
  PROVE  /\ DOMAIN AppliedTo(st, L, ids) \subseteq Int
         /\ \A i \in Int : At(AppliedTo(st, L, ids), i) =
              IF st.op = "update" /\ i - Shift(st) \in ids
              THEN {Assigned(st.set, L[i - Shift(st)])}
              ELSE IF i \in DOMAIN L /\ i \notin ids THEN {L[i]} ELSE {}
<1> DEFINE d == Shift(st)
           new == IF st.op = "update" THEN {Assigned(st.set, L[i]) : i \in ids} ELSE {}
           newIds == {r.id : r \in new}
           A == AppliedTo(st, L, ids)
<1>1. /\ DOMAIN A = (DOMAIN L \ ids) \cup newIds
      /\ \A i \in DOMAIN A : A[i] = IF i \in newIds THEN CHOOSE r \in new : r.id = i ELSE L[i]
  BY DEF AppliedTo
<1>2. d \in Int
  BY ShiftInt
<1>3. ASSUME st.op = "update", NEW j \in ids PROVE Assigned(st.set, L[j]).id = j + d
  <2>1. st.set.col \in {"id", "v"} /\ st.set.add \in Int
    BY <1>3 DEF IsStatement
  <2>2. L[j] \in [id : Int, v : Int] /\ L[j].id = j
    BY DEF Rows
  <2> QED BY <1>3, <2>1, <2>2 DEF Assigned, Shift
<1>4. ASSUME NEW i \in Int
      PROVE  /\ i \in newIds <=> st.op = "update" /\ i - d \in ids
             /\ i \in newIds => (CHOOSE r \in new : r.id = i) = Assigned(st.set, L[i - d])
  <2>1. CASE st.op = "update"
    <3>1. new = {Assigned(st.set, L[j]) : j \in ids}
      BY <2>1
    <3> HIDE DEF d, new
    <3>2. \A r \in new : r.id = i => i - d \in ids /\ r = Assigned(st.set, L[i - d])
      <4> SUFFICES ASSUME NEW j \in ids, Assigned(st.set, L[j]).id = i
                   PROVE  i - d = j
        BY <3>1
      <4>1. j + d = i /\ j \in Int
        BY <1>3, <2>1
      <4> QED BY <1>2, <4>1
    <3>3. i - d \in ids => /\ Assigned(st.set, L[i - d]) \in new
                           /\ Assigned(st.set, L[i - d]).id = i
      <4>1. i - d \in ids => Assigned(st.set, L[i - d]).id = i - d + d
        BY <1>3, <2>1
      <4> QED BY <1>2, <3>1, <4>1
    <3>4. i \in newIds <=> i - d \in ids
      BY <3>2, <3>3
    <3>5. ASSUME i - d \in ids PROVE (CHOOSE r \in new : r.id = i) = Assigned(st.set, L[i - d])
      <4> DEFINE c == CHOOSE r \in new : r.id = i
      <4>1. c \in new /\ c.id = i
        BY <3>3, <3>5
      <4> HIDE DEF c
      <4>2. c = Assigned(st.set, L[i - d])
        BY <3>2, <4>1
      <4> QED BY <4>2 DEF c
    <3> QED BY <2>1, <3>4, <3>5
  <2>2. CASE st.op # "update"
    BY <2>2
  <2> QED BY <2>1, <2>2
<1>5. \A i \in newIds : i \in Int
  <2> SUFFICES ASSUME st.op = "update", NEW j \in ids PROVE Assigned(st.set, L[j]).id \in Int
    OBVIOUS
  <2>1. Assigned(st.set, L[j]).id = j + d /\ j \in Int
    BY <1>3
  <2> QED BY <1>2, <2>1
<1> HIDE DEF new, newIds, A
<1>6. ASSUME NEW i \in Int
      PROVE  At(A, i) = IF st.op = "update" /\ i - d \in ids THEN {Assigned(st.set, L[i - d])}
                        ELSE IF i \in DOMAIN L /\ i \notin ids THEN {L[i]} ELSE {}
  <2> HIDE DEF d
  <2>1. CASE i \in newIds
    BY <1>1, <1>4, <2>1 DEF At
  <2>2. CASE i \notin newIds
    BY <1>1, <1>4, <2>2 DEF At
  <2> QED BY <2>1, <2>2
<1> QED BY <1>1, <1>5, <1>6 DEF A, d

\* With the entries put in, a key has the last entry with it, or the row there was.
LEMMA PutAllAt ==
  ASSUME NEW T, NEW X, NEW entries \in Seq(X)
  PROVE  /\ \A k : k \in DOMAIN PutAll(T, entries) <=>
                     k \in DOMAIN T \/ \E j \in DOMAIN entries : entries[j].key = k
         /\ \A k : \/ /\ \A j \in DOMAIN entries : entries[j].key # k
                      /\ At(PutAll(T, entries), k) = At(T, k)
                   \/ \E j \in DOMAIN entries :
                        /\ entries[j].key = k /\ At(PutAll(T, entries), k) = {entries[j].row}
                        /\ \A m \in DOMAIN entries : entries[m].key = k => m <= j
<1> DEFINE new == {e.key : e \in Range(entries)}
           U == PutAll(T, entries)
<1>1. /\ DOMAIN U = DOMAIN T \cup new /\ \A k \in DOMAIN T : k \notin new => U[k] = T[k]
      /\ \A k \in new : \E j \in DOMAIN entries :
           /\ entries[j].key = k /\ U[k] = entries[j].row
           /\ \A m \in DOMAIN entries : entries[m].key = k => m <= j
  BY PutAllFacts
<1>2. \A k : k \in new <=> \E j \in DOMAIN entries : entries[j].key = k
  BY DEF Range
<1> HIDE DEF new, U
<1>3. ASSUME NEW k
      PROVE  \/ /\ \A j \in DOMAIN entries : entries[j].key # k
                /\ At(U, k) = At(T, k)
             \/ \E j \in DOMAIN entries :
                  /\ entries[j].key = k /\ At(U, k) = {entries[j].row}
                  /\ \A m \in DOMAIN entries : entries[m].key = k => m <= j
  <2>1. CASE k \in new
    BY <1>1, <2>1 DEF At
  <2>2. CASE k \notin new
    BY <1>1, <1>2, <2>2 DEF At
  <2> QED BY <2>1, <2>2
<1> QED BY <1>1, <1>2, <1>3 DEF U

\* What an INSERT or /write says of an id: the last of its rows with the id, or the row there.
LEMMA InsertedAt ==
  ASSUME NEW st, IsStatement(st), st.op \in InsertOps, NEW L, DOMAIN L \subseteq Int
  PROVE  /\ DOMAIN Meaning(st, L) \subseteq Int
         /\ \A i \in Int :
              \/ /\ \A j \in DOMAIN st.rows : st.rows[j].id # i
                 /\ At(Meaning(st, L), i) = At(L, i)
              \/ \E j \in DOMAIN st.rows :
                   /\ st.rows[j].id = i /\ At(Meaning(st, L), i) = {st.rows[j]}
                   /\ \A m \in DOMAIN st.rows : st.rows[m].id = i => m <= j
<1> DEFINE q == [i \in DOMAIN st.rows |-> Entry(st.rows[i].id, st.rows[i])]
           X == [key : Int, row : Rows]
<1>1. /\ st.rows \in Seq(Rows) /\ DOMAIN st.rows = 1..Len(st.rows) /\ Len(st.rows) \in Nat
      /\ \A j \in DOMAIN st.rows : st.rows[j] \in Rows
  BY DEF IsStatement, InsertOps
<1>2. \A j \in DOMAIN st.rows : st.rows[j].id \in Int
  BY <1>1 DEF Rows
<1>3. /\ DOMAIN q = DOMAIN st.rows
      /\ \A j \in DOMAIN q : q[j].key = st.rows[j].id /\ q[j].row = st.rows[j]
      /\ \A j \in DOMAIN q : q[j] \in X
  BY <1>1, <1>2 DEF Entry
<1>4. q \in Seq(X)
  <2>1. q = [i \in 1..Len(st.rows) |-> q[i]]
    BY <1>1
  <2>2. \A i \in 1..Len(st.rows) : q[i] \in X
    BY <1>1, <1>3
  <2> DEFINE n == Len(st.rows)
  <2>3. n \in Nat /\ q = [i \in 1..n |-> q[i]] /\ \A i \in 1..n : q[i] \in X
    BY <1>1, <2>1, <2>2
  <2> HIDE DEF q, X, n
  <2> QED BY <2>3
<1>5. Meaning(st, L) = PutAll(L, q)
  BY DEF Meaning, InsertOps
<1> HIDE DEF q, X
<1>6. /\ \A k : k \in DOMAIN PutAll(L, q) <=> k \in DOMAIN L \/ \E j \in DOMAIN q : q[j].key = k
      /\ \A k : \/ /\ \A j \in DOMAIN q : q[j].key # k
                   /\ At(PutAll(L, q), k) = At(L, k)
                \/ \E j \in DOMAIN q :
                     /\ q[j].key = k /\ At(PutAll(L, q), k) = {q[j].row}
                     /\ \A m \in DOMAIN q : q[m].key = k => m <= j
  BY <1>4, PutAllAt
<1>7. DOMAIN PutAll(L, q) \subseteq Int
  BY <1>2, <1>3, <1>6
<1>8. ASSUME NEW i \in Int
      PROVE  \/ /\ \A j \in DOMAIN st.rows : st.rows[j].id # i
                /\ At(PutAll(L, q), i) = At(L, i)
             \/ \E j \in DOMAIN st.rows :
                  /\ st.rows[j].id = i /\ At(PutAll(L, q), i) = {st.rows[j]}
                  /\ \A m \in DOMAIN st.rows : st.rows[m].id = i => m <= j
  BY <1>3, <1>6
<1> QED BY <1>5, <1>7, <1>8

-----------------------------------------------------------------------------
(* Statements that return, and statements that fail                        *)

\* A statement on rows that runs.
LEMMA DataRuns ==
  ASSUME StatementsInv, NEW s \in Sessions, IsData(s)
  PROVE  LET t == task[s] IN
         /\ IsStatement(t.stmt) /\ TaskTyped(t) /\ IsTable(before[s]) /\ IsTable(rows)
         /\ StatementSound(t, before[s], others[s], rows)
         /\ t.pc \notin {"idle", "ok", "error"}
         /\ t.stmt.op \in InsertOps \cup ChangeOps
         /\ t.stmt.op \in InsertOps => Inserts(t)
         /\ t.stmt.op \in ChangeOps => t.pc = "fetch" \/ Changes(t)
         /\ t.pc \in {"check", "store", "fetch", "unlink", "put"}
<1> DEFINE t == task[s]
<1>1. /\ TaskTyped(t) /\ IsTable(before[s]) /\ IsTable(rows)
      /\ StatementSound(t, before[s], others[s], rows)
  BY DEF StatementsInv, StatementsTyped
<1>2. t.pc \notin {"idle", "ok", "error"} /\ t.stmt.op \in {"insert", "write", "delete", "update"}
  BY DEF IsData, Running
<1> HIDE DEF t
<1>3. InProgress(t) /\ IsStatement(t.stmt) /\ PcFits(t.stmt.op, t.pc)
  BY <1>1, <1>2 DEF TaskTyped, InProgress
<1>4. /\ t.stmt.op \in InsertOps \cup ChangeOps
      /\ t.stmt.op \in InsertOps => Inserts(t)
      /\ t.stmt.op \in ChangeOps => t.pc = "fetch" \/ Changes(t)
      /\ t.pc \in {"check", "store", "fetch", "unlink", "put"}
  BY <1>2, <1>3 DEF InsertOps, ChangeOps, Inserts, Changes, PcFits
<1> QED BY <1>1, <1>2, <1>3, <1>4 DEF t

\* The ids of which something is said are the statement's own, and have no row under
\* another text.
LEMMA JudgedFacts ==
  ASSUME NEW s \in Sessions, IsTable(before[s]), IsTable(rows'), IsStatement(task[s].stmt),
         task[s].stmt.op \in InsertOps \cup ChangeOps, NEW i \in Judged(s)
  PROVE  /\ i \in Int /\ Touches(task[s].stmt, i, before[s], others[s]) /\ i \notin others[s]
         /\ \A k \in DOMAIN rows' : k.id = i => k = Key(i)
<1> DEFINE st == task[s].stmt
           b == before[s]
           loose == {k.id : k \in {l \in DOMAIN b \cup DOMAIN rows' : l.json}}
           d == Shift(st)
<1>1. DOMAIN Meaning(st, ById(b)) \subseteq Int
  <2>1. /\ DOMAIN ById(b) \subseteq Int
        /\ \A j \in DOMAIN ById(b) : ById(b)[j] \in Rows /\ ById(b)[j].id = j
    BY ByIdFacts
  <2>2. CASE st.op \in InsertOps
    BY <2>1, <2>2, InsertedAt
  <2>3. CASE st.op \in ChangeOps
    <3>1. HitIds(st, ById(b)) \subseteq DOMAIN ById(b)
      BY DEF HitIds
    <3>2. Meaning(st, ById(b)) = AppliedTo(st, ById(b), HitIds(st, ById(b)))
      BY <2>3 DEF Meaning, ChangeOps
    <3> QED BY <2>1, <2>3, <3>1, <3>2, AppliedAt
  <2> QED BY <2>2, <2>3
<1>2. i \in Int
  BY <1>1, ByIdFacts DEF Judged
<1>3. Linked(st, i) = {i - d, i, i + d} /\ d \in Int
  BY <1>2, ShiftInt DEF Linked, Shift, IsStatement
<1>4. Linked(st, i) \cap (others[s] \cup loose) = {}
  BY DEF Judged, Loose
<1>5. \A j \in Linked(st, i) : j \in Int /\ j \notin others[s] /\ j \notin loose
  BY <1>2, <1>3, <1>4
<1> HIDE DEF d
<1>6. \A j \in Linked(st, i) : [id |-> j, json |-> TRUE] \notin DOMAIN b
  BY <1>5
<1>7. Touches(st, i, b, others[s])
  BY <1>3, <1>5, <1>6 DEF Touches, Apart, d
<1>8. ASSUME NEW k \in DOMAIN rows', k.id = i PROVE k = Key(i)
  <2>1. k \in Keys
    BY DEF IsTable
  <2>2. ~k.json
    BY <1>3, <1>5, <1>8
  <2> QED BY <1>8, <2>1, <2>2, KeyFacts
<1> QED BY <1>2, <1>3, <1>5, <1>7, <1>8

\* The last call of a DELETE or UPDATE leaves no row to do.
LEMMA LastCall ==
  ASSUME StatementsInv, NEW s \in Sessions, DataStep(s), task'[s].pc = "ok",
         task[s].stmt.op \in ChangeOps, Exact(task[s].stmt)
  PROVE  /\ task'[s].stmt = task[s].stmt /\ task'[s].todo = <<>>
         /\ RowByRow(task'[s], before[s], others[s], rows')
<1> DEFINE t == task[s]
           u == task'[s]
<1>1. /\ StatementsTyped /\ IsTable(rows) /\ TaskTyped(t)
      /\ StatementSound(t, before[s], others[s], rows)
  BY DEF StatementsInv, StatementsTyped
<1>2. CASE Fetch(s)
  <2>0. PICK q \in Found(t.stmt.where) :
          task' = [task EXCEPT ![s] = Continue([task[s] EXCEPT !.todo = q])]
    BY <1>2 DEF Fetch
  <2>1. t.pc = "fetch" /\ rows' = rows
    BY <1>2 DEF Fetch
  <2>2. IsStatement(t.stmt) /\ Kept(before[s], others[s], rows) /\ q \in Seq(Entries)
    BY <1>1, <2>1, PcOp, FoundFacts DEF StatementSound
  <2>3. u.stmt = t.stmt /\ u.todo = q /\ RowStarts(u) /\ q = <<>>
    BY <1>1, <2>0, <2>1, <2>2, Continued
  <2>4. RowByRow(u, before[s], others[s], rows)
    <3> HIDE DEF u, t
    <3> QED BY <1>1, <2>2, <2>3, FetchSound DEF t
  <2> QED BY <2>1, <2>3, <2>4
<1>3. CASE Unlink(s) \/ PutRow(s)
  <2> DEFINE k == Head(t.todo).key
  <2>1. t.pc \in {"unlink", "put"}
    BY <1>3 DEF Unlink, PutRow
  <2>2. /\ IsStatement(t.stmt) /\ (t.pc = "put" => t.stmt.op = "update")
        /\ t.todo \in Seq(Entries) /\ t.todo # <<>> /\ Tail(t.todo) \in Seq(Entries)
        /\ RowByRow(t, before[s], others[s], rows)
    BY <2>1, ChangeFacts
  <2>3. ~Goto(s, "error")
    BY <1>1, Moved
  <2>4. task' = [task EXCEPT ![s] = [t EXCEPT !.pc = "put"]] => FALSE
    <3>1. task' = [task EXCEPT ![s] = [t EXCEPT !.pc = "put"]] => Goto(s, "put")
      BY DEF Goto
    <3> QED BY <1>1, <3>1, Moved
  <2>5. /\ task' = [task EXCEPT ![s] = Continue([t EXCEPT !.todo = Tail(@)])]
        /\ \/ t.pc = "unlink" /\ t.stmt.op = "delete"
              /\ rows' = Restrict(rows, DOMAIN rows \ {k})
           \/ t.pc = "put" /\ rows' = Put(rows, NewKey(t), NewRow(t))
    BY <1>3, <2>3, <2>4 DEF Unlink, PutRow
  <2>6. u.stmt = t.stmt /\ u.todo = Tail(t.todo) /\ RowStarts(u) /\ Tail(t.todo) = <<>>
    BY <1>1, <2>2, <2>5, Continued
  <2>7. RowByRow(u, before[s], others[s], rows')
    <3> HIDE DEF u, t
    <3>1. CASE t.stmt.op = "delete" /\ rows' = Restrict(rows, DOMAIN rows \ {k})
      BY <1>1, <2>2, <2>6, <3>1, UnlinkSound
    <3>2. CASE t.pc = "put" /\ rows' = Put(rows, NewKey(t), NewRow(t))
      BY <1>1, <2>2, <2>6, <3>2, PutRowSound
    <3> QED BY <2>5, <3>1, <3>2
  <2> QED BY <2>6, <2>7
<1>4. CASE CheckInsert(s) \/ StoreBatch(s)
  <2>1. t.stmt.op \in InsertOps
    BY <1>1, <1>4, PcOp DEF CheckInsert, StoreBatch, Inserts, InsertOps
  <2> QED BY <2>1 DEF InsertOps, ChangeOps
<1>5. CASE CheckMove(s)
  BY <1>1, <1>5, Moved DEF CheckMove
<1> QED BY <1>2, <1>3, <1>4, <1>5 DEF DataStep

\* A DELETE or UPDATE that returns has done what SQL says.
LEMMA ChangeDone ==
  ASSUME StatementsInv, StatementsInv', NEW s \in Sessions, DataStep(s), task'[s].pc = "ok",
         IsData(s), task[s].stmt.op \in ChangeOps, Exact(task[s].stmt), NEW i \in Judged(s)
  PROVE  At(ById(rows'), i) = At(Meaning(task[s].stmt, ById(before[s])), i)
<1> DEFINE st == task[s].stmt
           b == before[s]
           L == ById(b)
           u == task'[s]
           d == Shift(st)
<1>1. IsStatement(st) /\ IsTable(b) /\ IsTable(rows')
  BY DataRuns DEF StatementsInv, StatementsTyped
<1>2. i \in Int /\ Touches(st, i, b, others[s]) /\ d \in Int /\ i - d \in Int
  BY <1>1, JudgedFacts, ShiftInt
<1>3. u.stmt = st /\ u.todo = <<>> /\ RowByRow(u, b, others[s], rows')
  BY LastCall
<1>4. /\ DOMAIN L \subseteq Int
      /\ \A j \in Int : j \in DOMAIN L <=> Key(j) \in DOMAIN b
      /\ \A j \in DOMAIN L : L[j] = b[Key(j)] /\ L[j] \in Rows /\ L[j].id = j
  BY <1>1, ByIdFacts
<1> HIDE DEF u, L, d
<1>5. At(ById(rows'), i) = Expected(u, b, i)
  <2>1. At(ById(rows'), i) = At(rows', Key(i))
    <3> DEFINE T == rows'
    <3>1. IsTable(T)
      BY <1>1
    <3> HIDE DEF T
    <3>2. At(ById(T), i) = At(T, Key(i))
      BY <1>2, <3>1, ByIdFacts
    <3> QED BY <3>2 DEF T
  <2> QED BY <1>2, <1>3, <2>1 DEF RowByRow, AsExpected
<1>6. \A j \in Int : j \in HitIds(st, L) <=> j \in DoneIds(u, b)
  BY <1>3, <1>4 DEF HitIds, DoneIds, Ahead
<1>7. OnItsWay(u) = {}
  BY DEF OnItsWay, u
<1>8. At(AppliedTo(st, L, HitIds(st, L)), i) =
        IF st.op = "update" /\ i - d \in HitIds(st, L) THEN {Assigned(st.set, L[i - d])}
        ELSE IF i \in DOMAIN L /\ i \notin HitIds(st, L) THEN {L[i]} ELSE {}
  <2>1. HitIds(st, L) \subseteq DOMAIN L /\ st.op \in ChangeOps
    BY DEF HitIds
  <2>2. DOMAIN L \subseteq Int /\ \A j \in DOMAIN L : L[j] \in Rows /\ L[j].id = j
    BY <1>4
  <2> HIDE DEF st
  <2>3. \A j \in Int : At(AppliedTo(st, L, HitIds(st, L)), j) =
          IF st.op = "update" /\ j - Shift(st) \in HitIds(st, L)
          THEN {Assigned(st.set, L[j - Shift(st)])}
          ELSE IF j \in DOMAIN L /\ j \notin HitIds(st, L) THEN {L[j]} ELSE {}
    BY <1>1, <2>1, <2>2, AppliedAt
  <2> QED BY <1>2, <2>3 DEF d
<1>9. Meaning(st, L) = AppliedTo(st, L, HitIds(st, L))
  BY DEF Meaning, ChangeOps
<1>10. HitIds(st, L) \subseteq DOMAIN L
  BY DEF HitIds
<1>11. Expected(u, b, i) = At(AppliedTo(st, L, HitIds(st, L)), i)
  BY <1>2, <1>3, <1>4, <1>6, <1>7, <1>8, <1>10 DEF Expected, d
<1> QED BY <1>5, <1>9, <1>11 DEF L

\* An INSERT or /write that returns has done what SQL says, and its keys were free.
LEMMA BatchDone ==
  ASSUME StatementsInv, StatementsInv', NEW s \in Sessions, DataStep(s), task'[s].pc = "ok",
         IsData(s), task[s].stmt.op \in InsertOps, NEW i \in Judged(s)
  PROVE  /\ At(ById(rows'), i) = At(Meaning(task[s].stmt, ById(before[s])), i)
         /\ task[s].stmt.op = "insert" /\ i \in {r.id : r \in Range(task[s].stmt.rows)}
              => Key(i) \notin DOMAIN before[s]
<1> DEFINE t == task[s]
           st == t.stmt
           b == before[s]
           o == others[s]
           L == ById(b)
           q == Batch(st)
           U == PutAll(rows, q)
<1>1. /\ IsStatement(st) /\ IsTable(b) /\ IsTable(rows) /\ IsTable(rows') /\ TaskTyped(t)
      /\ Inserts(t) /\ StatementSound(t, b, o, rows)
  BY DataRuns DEF StatementsInv, StatementsTyped
<1>2. t.todo = q /\ Kept(b, o, rows) /\ FreeKeys(t, b, o)
  BY <1>1 DEF TaskTyped, StatementSound
<1>3. t.pc = "store" /\ rows' = U
  <2>1. StatementsTyped /\ st.op \notin ChangeOps
    BY DEF StatementsInv, InsertOps, ChangeOps
  <2>2. ~Fetch(s) /\ ~CheckMove(s) /\ ~Unlink(s) /\ ~PutRow(s)
    BY <1>1, <2>1, PcOp DEF Fetch, CheckMove, Unlink, PutRow, ChangeOps
  <2>3. ~CheckInsert(s)
    <3>1. task'[s].pc = "ok" /\ ~Goto(s, "error") /\ ~Goto(s, "store")
      BY <2>1, Moved
    <3>2. DOMAIN task = Sessions /\ DOMAIN task[s] = TaskFields
      BY <1>1, <2>1 DEF StatementsTyped, TaskTyped
    <3>3. task' = [task EXCEPT ![s].at = @ + 1] => task'[s].pc = task[s].pc
      BY <3>2 DEF TaskFields
    <3> QED BY <3>1, <3>3 DEF CheckInsert
  <2>4. StoreBatch(s) /\ ~Goto(s, "error")
    BY <2>1, <2>2, <2>3, Moved DEF DataStep
  <2> QED BY <1>2, <2>4 DEF StoreBatch
<1>4. /\ i \in Int /\ i \notin o /\ \A k \in DOMAIN rows' : k.id = i => k = Key(i)
  BY <1>1, JudgedFacts
<1>5. /\ q \in Seq(Entries) /\ DOMAIN q = DOMAIN st.rows
      /\ \A j \in DOMAIN q : /\ st.rows[j] \in Rows /\ q[j].row = st.rows[j]
                             /\ q[j].key.id = st.rows[j].id
  <2>1. /\ q \in Seq(Entries) /\ DOMAIN q = DOMAIN st.rows
        /\ \A j \in DOMAIN q : /\ st.rows[j] \in Rows /\ q[j].row = st.rows[j]
                               /\ q[j].key = IF st.op = "write" THEN JsonKey(st.rows[j].id)
                                             ELSE Key(st.rows[j].id)
    BY <1>1, BatchFacts
  <2>2. \A j \in DOMAIN q : st.rows[j].id \in Int
    BY <2>1 DEF Rows
  <2> HIDE DEF q, st
  <2> QED BY <2>1, <2>2, KeyFacts
<1>6. q \in Seq(Entries)
  BY <1>5
<1> HIDE DEF q
<1>7. /\ \A k : k \in DOMAIN U <=> k \in DOMAIN rows \/ \E j \in DOMAIN q : q[j].key = k
      /\ \A k : \/ /\ \A j \in DOMAIN q : q[j].key # k
                   /\ At(U, k) = At(rows, k)
                \/ \E j \in DOMAIN q :
                     /\ q[j].key = k /\ At(U, k) = {q[j].row}
                     /\ \A m \in DOMAIN q : q[m].key = k => m <= j
  BY <1>6, PutAllAt
<1> HIDE DEF U
\* Whatever has the id has the key.
<1>8. \A j \in DOMAIN q : st.rows[j].id = i <=> q[j].key = Key(i)
  <2> SUFFICES ASSUME NEW j \in DOMAIN q PROVE st.rows[j].id = i <=> q[j].key = Key(i)
    OBVIOUS
  <2>1. q[j].key \in DOMAIN rows'
    BY <1>3, <1>7
  <2> QED BY <1>4, <1>5, <2>1, KeyFacts
<1>9. At(ById(rows'), i) = At(rows', Key(i)) /\ At(L, i) = At(b, Key(i)) /\ DOMAIN L \subseteq Int
  <2> DEFINE T == rows'
  <2>1. IsTable(T)
    BY <1>1
  <2> HIDE DEF T
  <2>2. At(ById(T), i) = At(T, Key(i))
    BY <1>4, <2>1, ByIdFacts
  <2> QED BY <1>1, <1>4, <2>2, ByIdFacts DEF T
<1> HIDE DEF L
<1>10. \/ /\ \A j \in DOMAIN st.rows : st.rows[j].id # i
          /\ At(Meaning(st, L), i) = At(L, i)
       \/ \E j \in DOMAIN st.rows :
            /\ st.rows[j].id = i /\ At(Meaning(st, L), i) = {st.rows[j]}
            /\ \A m \in DOMAIN st.rows : st.rows[m].id = i => m <= j
  <2>1. IsStatement(st) /\ st.op \in InsertOps /\ i \in Int /\ DOMAIN L \subseteq Int
    BY <1>1, <1>4, <1>9
  <2> HIDE DEF st
  <2> QED BY <2>1, InsertedAt
<1>11. At(rows, Key(i)) = At(L, i)
  BY <1>2, <1>4, <1>9, KeyFacts DEF Kept
<1>12. At(U, Key(i)) = At(Meaning(st, L), i)
  <2>1. CASE \E j \in DOMAIN q : q[j].key = Key(i)
    <3>1. PICK j \in DOMAIN q : /\ q[j].key = Key(i) /\ At(U, Key(i)) = {q[j].row}
                                /\ \A m \in DOMAIN q : q[m].key = Key(i) => m <= j
      BY <1>7, <2>1
    <3>2. PICK m \in DOMAIN q : /\ st.rows[m].id = i /\ At(Meaning(st, L), i) = {st.rows[m]}
                                /\ \A n \in DOMAIN q : st.rows[n].id = i => n <= m
      BY <1>5, <1>8, <1>10, <3>1
    <3>3. j \in Int /\ m \in Int
      BY <1>6
    <3>4. j = m
      BY <1>8, <3>1, <3>2, <3>3
    <3> QED BY <1>5, <3>1, <3>2, <3>4
  <2>2. CASE \A j \in DOMAIN q : q[j].key # Key(i)
    BY <1>5, <1>7, <1>8, <1>10, <1>11, <2>2
  <2> QED BY <2>1, <2>2
<1>13. ASSUME st.op = "insert", i \in {r.id : r \in Range(st.rows)}
       PROVE  Key(i) \notin DOMAIN b
  <2>1. PICK j \in DOMAIN st.rows : st.rows[j].id = i
    BY <1>13 DEF Range
  <2>2. j \in DOMAIN t.todo /\ t.todo[j].key = Key(i)
    BY <1>2, <1>5, <1>8, <2>1
  <2> QED BY <1>2, <1>3, <1>4, <1>13, <2>2, KeyFacts DEF FreeKeys
<1> QED BY <1>3, <1>9, <1>12, <1>13 DEF L

\* Of the steps of the server only a call of the statement itself, refused or not, or a crash
\* moves a statement on rows.
LEMMA OwnStep ==
  ASSUME StatementsInv, NEW s \in Sessions, IsData(s), StatementsMove, task'[s] # task[s]
  PROVE  DataStep(s) \/ CallFails(s) \/ Crash
<1>1. StatementsTyped /\ DOMAIN task = Sessions
  BY DEF StatementsInv, StatementsTyped
<1>2. ASSUME NEW o \in Sessions, DataStep(o) \/ CallFails(o), o # s
      PROVE  FALSE
  <2>1. \E ids : StepMade(o, ids)
    <3>1. CASE CallFails(o)
      BY <1>1, <3>1, FailedMade DEF CallFails
    <3>2. CASE DataStep(o)
      BY <3>2, CheckInsertMade, StoreBatchMade, FetchMade, CheckMoveMade, UnlinkMade, PutRowMade,
         Zenon DEF DataStep
    <3> QED BY <1>2, <3>1, <3>2
  <2> QED BY <1>2, <2>1 DEF StepMade
<1>3. ASSUME NEW o \in Sessions, Take(o)
      PROVE  FALSE
  <2>1. o # s
    BY <1>3 DEF Take, IsData, Running
  <2> QED BY <1>1, <1>3, <2>1 DEF Take
<1>4. ASSUME NEW o \in Sessions, LifeStep(o)
      PROVE  FALSE
  <2>1. PICK pc : <<task[o].pc, pc>> \in LifeMoves /\ Goto(o, pc)
    BY <1>4 DEF LifeStep
  <2>2. task[s].pc \in {"check", "store", "fetch", "unlink", "put"}
    BY DataRuns
  <2>3. o # s
    BY <2>1, <2>2 DEF LifeMoves
  <2> QED BY <1>1, <2>1, <2>3, Moved
<1>5. ASSUME NEW o \in Sessions, NEW st, Begin(o, st)
      PROVE  FALSE
  <2>1. o # s
    BY <1>5 DEF Begin, IsData, Running
  <2> QED BY <1>1, <1>5, <2>1 DEF Begin
<1>6. ~Elsewhere
  BY DEF Elsewhere
<1> QED BY <1>2, <1>3, <1>4, <1>5, <1>6 DEF StatementsMove

\* What returns has done what SQL says.
LEMMA AckedStep ==
  ASSUME StatementsInv, StatementsInv', StatementsMove, NEW s \in Sessions
  PROVE  DoneAsAsked(s)
<1> SUFFICES ASSUME IsData(s), task'[s].pc = "ok", Exact(task[s].stmt), NEW i \in Judged(s)
             PROVE  /\ At(ById(rows'), i) = At(Meaning(task[s].stmt, ById(before[s])), i)
                    /\ task[s].stmt.op = "insert" /\ i \in {r.id : r \in Range(task[s].stmt.rows)}
                         => Key(i) \notin DOMAIN before[s]
  BY DEF DoneAsAsked
<1>1. task'[s] # task[s]
  BY DEF IsData, Running
<1>2. ~CallFails(s)
  BY Moved DEF CallFails, StatementsInv
<1>3. ~Crash
  BY NoTaskTyped DEF Crash
<1>4. DataStep(s)
  BY <1>1, <1>2, <1>3, OwnStep
<1>5. CASE task[s].stmt.op \in ChangeOps
  BY <1>4, <1>5, ChangeDone DEF ChangeOps
<1>6. CASE task[s].stmt.op \in InsertOps
  BY <1>4, <1>6, BatchDone
<1>7. task[s].stmt.op \in InsertOps \cup ChangeOps
  BY DataRuns
<1> QED BY <1>5, <1>6, <1>7

\* A statement on rows that returns to its client has done what SQL says, row by row, whatever
\* ran beside it on other rows, and an INSERT has found its keys free (handleInsert,
\* handleDelete, handleUpdate).
THEOREM AckedDone == Spec => AckedIsDone
<1>1. ServerInv /\ StatementsInv /\ StatementsInv' /\ [Next]_serverVars =>
        [\A s \in Sessions : DoneAsAsked(s)]_statementVars
  <2> SUFFICES ASSUME ServerInv, StatementsInv, StatementsInv', [Next]_serverVars
               PROVE  \A s \in Sessions : DoneAsAsked(s)
    OBVIOUS
  <2>1. StatementsMove
    BY StepKinds, ServerAssumption, LoadsAssumption DEF StatementsInv, StatementsTyped
  <2> QED BY <2>1, AckedStep
<1> QED BY <1>1, ServerInvariant, StatementsInvariant, PTL DEF Spec, AckedIsDone

-----------------------------------------------------------------------------
(* Statements that fail *)

\* A call that fails, or a crash, leaves the table alone.
LEMMA FailsAlone ==
  ASSUME StatementsInv, NEW s \in Sessions, IsData(s), StatementsMove,
         task'[s].pc \in {"error", "idle"}
  PROVE  rows' = rows
<1>1. StatementsTyped
  BY DEF StatementsInv
<1>2. task'[s] # task[s]
  BY DEF IsData, Running
<1>3. CASE CallFails(s) \/ Crash
  BY <1>3 DEF CallFails, Crash
<1>4. CASE CheckInsert(s) \/ Fetch(s) \/ CheckMove(s)
  BY <1>4 DEF CheckInsert, Fetch, CheckMove
<1>5. CASE StoreBatch(s)
  <2>1. ~Goto(s, "ok")
    BY <1>1, Moved
  <2> QED BY <1>5, <2>1 DEF StoreBatch
<1>6. CASE Unlink(s) \/ PutRow(s)
  <2> DEFINE t == task[s]
  <2>1. t.pc \in {"unlink", "put"}
    BY <1>6 DEF Unlink, PutRow
  <2>2. /\ IsStatement(t.stmt) /\ t.stmt.op \in ChangeOps /\ Tail(t.todo) \in Seq(Entries)
    BY <2>1, ChangeFacts
  <2>3. task' # [task EXCEPT ![s] = [t EXCEPT !.pc = "put"]]
    <3>1. task' = [task EXCEPT ![s] = [t EXCEPT !.pc = "put"]] => Goto(s, "put")
      BY DEF Goto
    <3> QED BY <1>1, <3>1, Moved
  <2>4. task' # [task EXCEPT ![s] = Continue([t EXCEPT !.todo = Tail(@)])]
    <3> SUFFICES ASSUME task' = [task EXCEPT ![s] = Continue([t EXCEPT !.todo = Tail(t.todo)])]
                 PROVE  FALSE
      OBVIOUS
    <3> QED BY <1>1, <2>2, Continued
  <2> QED BY <1>6, <2>3, <2>4 DEF Unlink, PutRow
<1> QED BY <1>2, <1>3, <1>4, <1>5, <1>6, OwnStep DEF DataStep

\* The table by ids without some of its rows.
Without(b, moving) == Restrict(ById(b), DOMAIN ById(b) \ moving)

\* Without the rows on their way, and with the change made to some.
LEMMA PartlyAt ==
  ASSUME NEW st, IsStatement(st), st.op \in ChangeOps, NEW b, IsTable(b),
         NEW moving, NEW ids, \A i \in ids : i \in Int /\ Key(i) \in DOMAIN b /\ i \notin moving
  PROVE  \A i \in Int : At(AppliedTo(st, Without(b, moving), ids), i) =
           IF st.op = "update" /\ i - Shift(st) \in ids
           THEN {Assigned(st.set, b[Key(i - Shift(st))])}
           ELSE IF Key(i) \in DOMAIN b /\ i \notin ids \cup moving THEN {b[Key(i)]} ELSE {}
<1> DEFINE old == ById(b)
           left == Without(b, moving)
<1>1. /\ DOMAIN old \subseteq Int
      /\ \A i \in Int : i \in DOMAIN old <=> Key(i) \in DOMAIN b
      /\ \A i \in DOMAIN old : old[i] = b[Key(i)] /\ old[i] \in Rows /\ old[i].id = i
  BY ByIdFacts
<1>2. DOMAIN left = DOMAIN old \ moving /\ \A i \in DOMAIN left : left[i] = old[i]
  BY DEF Restrict, Without
<1> HIDE DEF old, left
<1>3. DOMAIN left \subseteq Int /\ \A i \in DOMAIN left : left[i] \in Rows /\ left[i].id = i
  BY <1>1, <1>2
<1>4. ids \subseteq DOMAIN left
  BY <1>1, <1>2
<1>5. \A i \in Int : At(AppliedTo(st, left, ids), i) =
        IF st.op = "update" /\ i - Shift(st) \in ids
        THEN {Assigned(st.set, left[i - Shift(st)])}
        ELSE IF i \in DOMAIN left /\ i \notin ids THEN {left[i]} ELSE {}
  BY <1>3, <1>4, AppliedAt
<1>6. \A i \in ids : left[i] = b[Key(i)]
  BY <1>1, <1>2, <1>4
<1>7. \A i \in Int : /\ i \in DOMAIN left <=> Key(i) \in DOMAIN b /\ i \notin moving
                     /\ i \in DOMAIN left => left[i] = b[Key(i)]
  BY <1>1, <1>2
<1> QED BY <1>5, <1>6, <1>7 DEF left

\* A DELETE or UPDATE that ends has done what SQL says to the rows it got to.
LEMMA ChangeFailed ==
  ASSUME StatementsInv, NEW s \in Sessions, IsData(s), rows' = rows,
         task[s].stmt.op \in ChangeOps, Exact(task[s].stmt)
  PROVE  \E L \in PartlyDone(s) : \A i \in Judged(s) : At(ById(rows'), i) = At(L, i)
<1> DEFINE t == task[s]
           st == t.stmt
           b == before[s]
           o == others[s]
           ids == IF t.pc = "fetch" THEN {} ELSE DoneIds(t, b)
           moving == OnItsWay(t)
           left == Without(b, moving)
           L == AppliedTo(st, left, ids)
<1>1. /\ IsStatement(st) /\ IsTable(b) /\ IsTable(rows) /\ StatementSound(t, b, o, rows)
      /\ t.pc = "fetch" \/ Changes(t)
  BY DataRuns
<1>2. Changes(t) => t.todo \in Seq(Entries) /\ t.todo # <<>>
  BY DEF StatementsInv, StatementsTyped, TaskTyped
<1>3. t.pc = "fetch" => moving = {}
  BY DEF OnItsWay
<1>4. \A i \in moving : Changes(t) /\ i \in Ahead(t)
  <2> SUFFICES ASSUME t.pc = "put" PROVE Changes(t) /\ Head(t.todo).key.id \in Ahead(t)
    BY DEF OnItsWay
  <2>1. Changes(t)
    BY <1>1
  <2> HIDE DEF t
  <2>2. 1 \in DOMAIN t.todo /\ Head(t.todo) = t.todo[1]
    BY <1>2, <2>1
  <2> QED BY <2>1, <2>2 DEF Ahead
<1>5. \A i \in ids : /\ i \in Int /\ Key(i) \in DOMAIN b /\ i \notin moving
                     /\ Hits(st.where, b[Key(i)])
  BY <1>4 DEF DoneIds
<1>6. ASSUME NEW i \in Int, Touches(st, i, b, o)
      PROVE  At(rows, Key(i)) =
               IF st.op = "update" /\ i - Shift(st) \in ids
               THEN {Assigned(st.set, b[Key(i - Shift(st))])}
               ELSE IF Key(i) \in DOMAIN b /\ i \notin ids \cup moving THEN {b[Key(i)]} ELSE {}
  <2>1. CASE t.pc = "fetch"
    <3>1. Kept(b, o, rows) /\ i \notin o
      BY <1>1, <1>6, <2>1 DEF StatementSound, Touches, Apart
    <3>2. At(rows, Key(i)) = At(b, Key(i))
      BY <3>1, KeyFacts DEF Kept
    <3> QED BY <1>3, <2>1, <3>2 DEF At
  <2>2. CASE t.pc # "fetch"
    <3>1. RowByRow(t, b, o, rows)
      BY <1>1, <2>2 DEF StatementSound
    <3>2. At(rows, Key(i)) = Expected(t, b, i)
      BY <1>6, <3>1 DEF RowByRow, AsExpected
    <3>3. ids = DoneIds(t, b)
      BY <2>2
    <3> HIDE DEF ids
    <3> QED BY <3>2, <3>3 DEF Expected
  <2> QED BY <2>1, <2>2
<1>7. L \in PartlyDone(s)
  <2>1. \A i \in ids : i \in DOMAIN left /\ left[i] = b[Key(i)]
    <3>1. \A i \in ids : i \in DOMAIN ById(b) /\ ById(b)[i] = b[Key(i)]
      BY <1>1, <1>5, ByIdFacts
    <3> HIDE DEF ids, b, moving
    <3> QED BY <1>5, <3>1 DEF Restrict, Without
  <2>2. ids \in SUBSET HitIds(st, left)
    <3> HIDE DEF left, ids, st, b
    <3> QED BY <1>5, <2>1 DEF HitIds
  <2>3. PartlyDone(s) = {AppliedTo(st, left, c) : c \in SUBSET HitIds(st, left)}
    BY DEF PartlyDone, OnItsWay, ChangeOps, Without
  <2> HIDE DEF ids, left, st
  <2> QED BY <2>2, <2>3
<1>8. \A i \in Int : At(L, i) =
        IF st.op = "update" /\ i - Shift(st) \in ids
        THEN {Assigned(st.set, b[Key(i - Shift(st))])}
        ELSE IF Key(i) \in DOMAIN b /\ i \notin ids \cup moving THEN {b[Key(i)]} ELSE {}
  <2>1. /\ IsStatement(st) /\ st.op \in ChangeOps /\ IsTable(b)
        /\ \A i \in ids : i \in Int /\ Key(i) \in DOMAIN b /\ i \notin moving
    BY <1>1, <1>5
  <2> HIDE DEF st, b, ids, moving
  <2> QED BY <2>1, PartlyAt
<1>9. ASSUME NEW i \in Judged(s) PROVE At(ById(rows'), i) = At(L, i)
  <2>1. IsTable(rows')
    BY <1>1
  <2>2. i \in Int /\ Touches(st, i, b, o)
    BY <1>1, <2>1, JudgedFacts
  <2>3. At(ById(rows'), i) = At(rows, Key(i))
    <3>1. At(ById(rows), i) = At(rows, Key(i))
      BY <1>1, <2>2, ByIdFacts
    <3> QED BY <3>1
  <2> HIDE DEF L, st, b, o, ids, moving
  <2> QED BY <1>6, <1>8, <2>2, <2>3
<1> HIDE DEF L
<1> QED BY <1>7, <1>9

\* An INSERT or /write that ends has done nothing.
LEMMA InsertFailed ==
  ASSUME StatementsInv, NEW s \in Sessions, IsData(s), rows' = rows,
         task[s].stmt.op \in InsertOps
  PROVE  \E L \in PartlyDone(s) : \A i \in Judged(s) : At(ById(rows'), i) = At(L, i)
<1> DEFINE t == task[s]
           b == before[s]
<1>1. /\ IsStatement(t.stmt) /\ IsTable(b) /\ IsTable(rows)
      /\ StatementSound(t, b, others[s], rows) /\ Inserts(t)
  BY DataRuns
<1>2. Kept(b, others[s], rows)
  BY <1>1 DEF StatementSound
<1>3. PartlyDone(s) = {ById(b)}
  BY DEF PartlyDone, InsertOps
<1>4. ASSUME NEW i \in Judged(s) PROVE At(ById(rows'), i) = At(ById(b), i)
  <2>1. IsTable(rows')
    BY <1>1
  <2>2. i \in Int /\ i \notin others[s]
    BY <1>1, <2>1, JudgedFacts
  <2>3. At(rows, Key(i)) = At(b, Key(i))
    BY <1>2, <2>2, KeyFacts DEF Kept
  <2>4. At(ById(rows), i) = At(rows, Key(i)) /\ At(ById(b), i) = At(b, Key(i))
    BY <1>1, <2>2, ByIdFacts
  <2> QED BY <2>3, <2>4
<1> QED BY <1>3, <1>4

\* A statement on rows that returns an error, or that a crash cuts off, has done what SQL
\* says for some of its rows, an INSERT or /write for none, and no row is lost but the one
\* that was moving to another key (applyOneUpdate, updateByPK).
THEOREM FailedLoses == Spec => FailedLosesNone
<1>1. ASSUME ServerInv, StatementsInv, [Next]_serverVars, NEW s \in Sessions PROVE LosesNone(s)
  <2> SUFFICES ASSUME IsData(s), task'[s].pc \in {"error", "idle"}, Exact(task[s].stmt)
               PROVE  \E L \in PartlyDone(s) : \A i \in Judged(s) : At(ById(rows'), i) = At(L, i)
    BY DEF LosesNone
  <2>1. StatementsMove
    BY <1>1, StepKinds, ServerAssumption, LoadsAssumption DEF StatementsInv, StatementsTyped
  <2>2. rows' = rows
    BY <1>1, <2>1, FailsAlone
  <2>3. task[s].stmt.op \in InsertOps \cup ChangeOps
    BY <1>1, DataRuns
  <2>4. CASE task[s].stmt.op \in InsertOps
    BY <1>1, <2>2, <2>4, InsertFailed
  <2>5. CASE task[s].stmt.op \in ChangeOps
    BY <1>1, <2>2, <2>5, ChangeFailed
  <2> QED BY <2>3, <2>4, <2>5
<1>2. ServerInv /\ StatementsInv /\ [Next]_serverVars =>
        [\A s \in Sessions : LosesNone(s)]_statementVars
  BY <1>1
<1> QED BY <1>2, ServerInvariant, StatementsInvariant, PTL DEF Spec, FailedLosesNone
=============================================================================
