------------------------------ MODULE Statements ------------------------------
(***************************************************************************)
(* INSERT, /write, DELETE and UPDATE on one table (handlers_dml.go,        *)
(* server_handlers.go).  A statement is a series of calls to the table's   *)
(* engine with no lock and no transaction around them: a step is one call. *)
(* The engine is a map that may refuse a call (KVStore says what it keeps).*)
(*                                                                         *)
(* A key is the text of a primary key.  SQL takes the text of the value,   *)
(* /write that of the JSON number, and these differ for some numbers:      *)
(* 1000000 is "1e+06" there.                                               *)
(***************************************************************************)
EXTENDS FiniteSetsExt, Integers, SequencesExt

CONSTANTS
  Sessions,    \* whoever runs a statement
  JsonDiffers, \* ids whose JSON text is another one
  KeyOrder(_, _), \* the order of the keys' texts
  MaxFaults    \* bound on refused calls, crashes and failing accepts

VARIABLES
  rows,   \* the table: from the keys that are there to rows
  open,   \* its engine is open
  task,   \* per session the statement it runs
  faults,
  \* History variables, read by the properties only.
  before, \* per session the table when its statement began
  others  \* per session the ids that other sessions have written since

statementVars == <<rows, open, task, faults, before, others>>

Empty == [k \in {} |-> k]
NoTask == [pc |-> "idle", stmt |-> [op |-> "none"], todo |-> <<>>, at |-> 1]
Running(s) == task[s].pc \notin {"idle", "ok", "error"}

Key(id) == [id |-> id, json |-> FALSE]
JsonKey(id) == IF id \in JsonDiffers THEN [id |-> id, json |-> TRUE] ELSE Key(id)
Put(T, k, r) == [l \in DOMAIN T \cup {k} |-> IF l = k THEN r ELSE T[l]]
Entry(k, r) == [key |-> k, row |-> r]
\* Of the entries with a key the last one counts.
PutAll(T, entries) ==
  LET new == {e.key : e \in Range(entries)}
      last(k) == Max({i \in DOMAIN entries : entries[i].key = k})
  IN [k \in DOMAIN T \cup new |-> IF k \in new THEN entries[last(k)].row ELSE T[k]]

\* WHERE id = lit / 2 or WHERE v = lit.
Hits(where, r) == IF where.col = "id" THEN 2 * r.id = where.lit ELSE r.v = where.lit
\* SET col = col + add.
Assigned(set, r) == [r EXCEPT ![set.col] = @ + set.add]

\* These keys, each once, as a scan returns them.
InOrder(keys) ==
  {f \in [1..Cardinality(keys) -> keys] :
     /\ \A k \in keys : \E i \in DOMAIN f : f[i] = k
     /\ \A i, j \in DOMAIN f : i < j => f[i] # f[j] /\ KeyOrder(f[i], f[j])}

\* The table has a key and an integer column.
Rows == [id : Int, v : Int]
Keys == {k \in [id : Int, json : BOOLEAN] : k.json => k.id \in JsonDiffers}
IsTable(T) == /\ IsFiniteSet(DOMAIN T)
              /\ \A k \in DOMAIN T : k \in Keys /\ T[k] \in Rows /\ T[k].id = k.id

StatementsInit(tables) ==
  /\ rows \in tables /\ open = TRUE /\ faults = 0
  /\ task = [s \in Sessions |-> NoTask]
  /\ before = [s \in Sessions |-> Empty] /\ others = [s \in Sessions |-> {}]

Goto(s, pc) == task' = [task EXCEPT ![s].pc = pc]
Fault == faults < MaxFaults /\ faults' = faults + 1

\* Session s writes the rows of these ids.
Wrote(s, ids) == others' = [o \in Sessions |->
                              IF o # s /\ Running(o) THEN others[o] \cup ids ELSE others[o]]

-----------------------------------------------------------------------------
(* INSERT and /write *)

\* The rows of an INSERT or /write with their keys.
Batch(st) == [i \in DOMAIN st.rows |->
               Entry((IF st.op = "write" THEN JsonKey(st.rows[i].id) ELSE Key(st.rows[i].id)),
                     st.rows[i])]

FirstStep(st) == CASE st.op = "insert" -> "check" [] st.op = "write" -> "store"
                   [] st.op \in {"delete", "update"} -> "fetch"
                   [] st.op \in {"create", "drop"} -> st.op

Begin(s, st) ==
  /\ task[s].pc = "idle"
  /\ task' = [task EXCEPT ![s] = [NoTask EXCEPT !.pc = FirstStep(st), !.stmt = st,
                !.todo = IF st.op \in {"insert", "write"} THEN Batch(st) ELSE <<>>]]
  /\ before' = [before EXCEPT ![s] = rows]
  /\ others' = [others EXCEPT ![s] = {}]
  /\ UNCHANGED <<rows, open, faults>>

\* Faulty variant: one key is looked for.
CheckInsertFirst(s) ==
  /\ task[s].pc = "check" /\ task[s].stmt.op = "insert"
  /\ IF task[s].todo[1].key \in DOMAIN rows THEN Goto(s, "error") ELSE Goto(s, "store")
  /\ UNCHANGED <<rows, open, faults, before, others>>

\* buildInsertWriteRow: the key of the next row must be free.
CheckInsert(s) ==
  LET t == task[s] IN
  /\ t.pc = "check" /\ t.stmt.op = "insert"
  /\ IF t.todo[t.at].key \in DOMAIN rows THEN Goto(s, "error")
     ELSE IF t.at = Len(t.todo) THEN Goto(s, "store")
     ELSE task' = [task EXCEPT ![s].at = @ + 1]
  /\ UNCHANGED <<rows, open, faults, before, others>>

\* WriteBatch: all rows or none.
StoreBatch(s) ==
  LET t == task[s] IN
  /\ t.pc = "store"
  /\ \/ /\ open
        /\ rows' = PutAll(rows, t.todo)
        /\ Wrote(s, {e.key.id : e \in Range(t.todo)})
        /\ Goto(s, "ok")
        /\ UNCHANGED faults
     \/ ~open /\ Goto(s, "error") /\ UNCHANGED <<rows, faults, others>>
  /\ UNCHANGED <<open, before>>

-----------------------------------------------------------------------------
(* DELETE and UPDATE *)

NewRow(t) == Assigned(t.stmt.set, Head(t.todo).row)
NewKey(t) == Key(NewRow(t).id)
Moves(t) == t.stmt.op = "update" /\ NewKey(t) # Head(t.todo).key

\* The first call for the first row of todo.
RowStep(t) == IF t.todo = <<>> THEN "ok"
              ELSE IF t.stmt.op = "delete" THEN "unlink"
              ELSE IF Moves(t) THEN "check" ELSE "put"
Continue(t) == [t EXCEPT !.pc = RowStep(t)]

\* WHERE id = literal is a Get with the literal coerced to an integer; any other
\* WHERE a scan, the rows of which are then taken as they were.
Found(where) ==
  LET keys == IF where.col = "id" THEN {Key(where.lit \div 2)} \cap DOMAIN rows
              ELSE {k \in DOMAIN rows : Hits(where, rows[k])}
  IN {[i \in DOMAIN f |-> Entry(f[i], rows[f[i]])] : f \in InOrder(keys)}

Fetch(s) ==
  /\ task[s].pc = "fetch"
  /\ \E found \in Found(task[s].stmt.where) :
       task' = [task EXCEPT ![s] = Continue([@ EXCEPT !.todo = found])]
  /\ UNCHANGED <<rows, open, faults, before, others>>

\* Faulty variant: the old row goes before the new key is looked for.
CheckMoveLate(s) ==
  LET t == task[s] IN
  /\ t.pc = "check" /\ t.stmt.op = "update"
  /\ rows' = Restrict(rows, DOMAIN rows \ {Head(t.todo).key})
  /\ Goto(s, IF NewKey(t) \in DOMAIN rows THEN "error" ELSE "put")
  /\ UNCHANGED <<open, faults, before, others>>

\* checkPKConflict for a row that gets another key.
CheckMove(s) ==
  LET t == task[s] IN
  /\ t.pc = "check" /\ t.stmt.op = "update"
  /\ Goto(s, IF NewKey(t) \in DOMAIN rows THEN "error" ELSE "unlink")
  /\ UNCHANGED <<rows, open, faults, before, others>>

\* Engine.Delete, of a row to delete or of one that moves.
Unlink(s) ==
  LET t == task[s]
      k == Head(t.todo).key IN
  /\ t.pc = "unlink"
  /\ \/ /\ open
        /\ rows' = Restrict(rows, DOMAIN rows \ {k})
        /\ Wrote(s, {k.id})
        /\ task' = [task EXCEPT ![s] = IF t.stmt.op = "delete"
                      THEN Continue([t EXCEPT !.todo = Tail(@)]) ELSE [t EXCEPT !.pc = "put"]]
     \/ ~open /\ Goto(s, "error") /\ UNCHANGED <<rows, others>>
  /\ UNCHANGED <<open, faults, before>>

\* Engine.Write of the updated row.
PutRow(s) ==
  LET t == task[s] IN
  /\ t.pc = "put"
  /\ \/ /\ open
        /\ rows' = Put(rows, NewKey(t), NewRow(t))
        /\ Wrote(s, {NewRow(t).id})
        /\ task' = [task EXCEPT ![s] = Continue([t EXCEPT !.todo = Tail(@)])]
     \/ ~open /\ Goto(s, "error") /\ UNCHANGED <<rows, others>>
  /\ UNCHANGED <<open, faults, before>>

\* The log refuses the record of WriteBatch, Delete or Write.
CallFails(s) ==
  /\ task[s].pc \in {"store", "unlink", "put"} /\ open
  /\ Fault
  /\ Goto(s, "error")
  /\ UNCHANGED <<rows, open, before, others>>

\* One call of the statement session s runs.
DataStep(s) ==
  CheckInsert(s) \/ StoreBatch(s) \/ Fetch(s) \/ CheckMove(s) \/ Unlink(s) \/ PutRow(s)

-----------------------------------------------------------------------------
(* What SQL says of a statement, on a table given by ids *)

ById(T) == [i \in {k.id : k \in {l \in DOMAIN T : ~l.json}} |-> T[Key(i)]]

HitIds(st, L) == {i \in DOMAIN L : Hits(st.where, L[i])}

\* DELETE or UPDATE of the rows with these ids.
AppliedTo(st, L, ids) ==
  LET new == IF st.op = "update" THEN {Assigned(st.set, L[i]) : i \in ids} ELSE {}
      newIds == {r.id : r \in new} IN
  [i \in (DOMAIN L \ ids) \cup newIds |->
     IF i \in newIds THEN CHOOSE r \in new : r.id = i ELSE L[i]]

Meaning(st, L) ==
  IF st.op \in {"insert", "write"}
  THEN PutAll(L, [i \in DOMAIN st.rows |-> Entry(st.rows[i].id, st.rows[i])])
  ELSE AppliedTo(st, L, HitIds(st, L))

At(L, i) == IF i \in DOMAIN L THEN {L[i]} ELSE {}

\* The ids whose rows say what the statement does to id i.
Linked(st, i) ==
  IF st.op = "update" /\ st.set.col = "id" THEN {i - st.set.add, i, i + st.set.add} ELSE {i}

\* Ids of which nothing is said: another session wrote them while the statement
\* ran, or there is a row under their JSON text.
Loose(s) == others[s] \cup {k.id : k \in {l \in DOMAIN before[s] \cup DOMAIN rows' : l.json}}

Judged(s) == {i \in DOMAIN ById(before[s]) \cup DOMAIN ById(rows')
                    \cup DOMAIN Meaning(task[s].stmt, ById(before[s])) :
                Linked(task[s].stmt, i) \cap Loose(s) = {}}

\* The literal has the type of the column.
Exact(st) == st.op \in {"delete", "update"} /\ st.where.col = "id" => st.where.lit % 2 = 0

IsData(s) == Running(s) /\ task[s].stmt.op \in {"insert", "write", "delete", "update"}

DoneAsAsked(s) ==
  IsData(s) /\ task'[s].pc = "ok" /\ Exact(task[s].stmt) =>
    \A i \in Judged(s) :
      /\ At(ById(rows'), i) = At(Meaning(task[s].stmt, ById(before[s])), i)
      /\ task[s].stmt.op = "insert" /\ i \in {r.id : r \in Range(task[s].stmt.rows)}
           => Key(i) \notin DOMAIN before[s]

\* A statement that returns without an error has done what SQL says, row by row,
\* whatever ran beside it on other rows, and an INSERT has found its keys free (a
\* key that is twice in it is accepted, and the last row counts).  Not so where two
\* statements write the same row, where /write stored a number under another text,
\* or with a literal of another type on the fast path: id = 1.5 deletes row 1
\* (handleInsert, handleDelete, handleUpdate).
AckedIsDone == [][\A s \in Sessions : DoneAsAsked(s)]_statementVars

\* What is there when a statement may have done some of its rows.
PartlyDone(s) ==
  LET st == task[s].stmt
      moving == IF task[s].pc = "put" /\ Moves(task[s]) THEN {Head(task[s].todo).key.id} ELSE {}
      old == ById(before[s])
      left == Restrict(old, DOMAIN old \ moving)
  IN IF st.op \in {"insert", "write"} THEN {old}
     ELSE {AppliedTo(st, left, ids) : ids \in SUBSET HitIds(st, left)}

LosesNone(s) ==
  IsData(s) /\ task'[s].pc \in {"error", "idle"} /\ Exact(task[s].stmt) =>
    \E L \in PartlyDone(s) : \A i \in Judged(s) : At(ById(rows'), i) = At(L, i)

\* A statement that returns an error, or that a crash cuts off, has done what SQL
\* says for some of its rows, an INSERT or /write for none, and loses no row but
\* the one it was moving to another key: "the old row is deleted first"
\* (applyOneUpdate, updateByPK).  The same exceptions as above.
FailedLosesNone == [][\A s \in Sessions : LosesNone(s)]_statementVars
=============================================================================
