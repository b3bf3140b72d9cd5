--------------------------- MODULE SurvivalProofs ---------------------------
(***************************************************************************)
(* Proof about module Durable that a returned call survives a power        *)
(* failure at any moment, for any keys, calls without NULLs, writers,      *)
(* flushers, compactors and restarts.                                      *)
(***************************************************************************)
EXTENDS DurableProofs

(* What the log has to do with the memory, the segments and the files.     *)

\* Row r of k comes from record i of the log; from one that survives.
From(r, i, k) == wal[i].rows[k] # NoRow /\ r \in {wal[i].rows[k], Emptied(wal[i].rows[k])}
Logged(r, k) == \E i \in 1..synced : From(r, i, k)

\* The rows of k in the memtables, of the flushers only those in D.
RowsIn(q, k) == {q[i][k] : i \in DOMAIN q}
InMemory(D, k) == ({active[k]} \cup RowsIn(immutable, k)
                     \cup UNION {RowsIn(drained[f], k) : f \in D}) \ {NoRow}

\* Every row that is anywhere is in the part of the log that survives.
AllLogged ==
  \A k \in Keys :
    /\ \A r \in InMemory(Flushers, k) : Logged(r, k)
    /\ \A s \in segments : s.rows[k] # NoRow => Logged(s.rows[k], k)
    /\ \A c \in Compactors : \A s \in compSet[c] : s.rows[k] # NoRow => Logged(s.rows[k], k)
    /\ \A x \in WholeFiles(files) : x.rows[k] # NoRow => Logged(x.rows[k], k)
    /\ latest[k] # NoRow => Logged(latest[k], k)

\* Records: of calls without NULLs, and checkpoints; none is ahead of the counter.
LogShaped ==
  \A i \in 1..Len(wal) :
    /\ \A k \in Keys : wal[i].rows[k] # NoRow =>
         /\ wal[i].rows[k].kind \in {"value", "tombstone"}
         /\ mode = "up" => wal[i].rows[k].ver <= nextVersion
    /\ wal[i].ckpt /\ mode = "up" => wal[i].ver <= nextVersion

\* Calls under way have versions that were handed out, and no key in common.
CallsApart ==
  /\ \A w \in Writers : pending[w] # NoOp =>
       pending[w].base + Len(pending[w].op.keys) <= nextVersion + 1
  /\ \A v, w \in Writers : v # w /\ pending[v] # NoOp /\ pending[w] # NoOp =>
       \A k \in Keys : ~ (Names(pending[v].op, k) /\ Names(pending[w].op, k))

\* The log has the rows of a key in the order of their versions.
VersionsRise ==
  \A k \in Keys : \A i, j \in 1..Len(wal) :
    i < j /\ wal[i].rows[k] # NoRow /\ wal[j].rows[k] # NoRow
      => wal[i].rows[k].ver < wal[j].rows[k].ver

\* A call whose record is to come is newer than the records of its keys; a record that
\* is there is their last.
CallsInLog ==
  \A w \in Writers : pending[w] # NoOp =>
    IF walPc[w] = "none"
    THEN \A i \in 1..Len(wal), k \in Keys :
           Names(pending[w].op, k) /\ wal[i].rows[k] # NoRow
             => wal[i].rows[k].ver < pending[w].base
    ELSE \E i \in 1..Len(wal) :
           /\ wal[i] = WriteRecord(RowsOf(pending[w]))
           /\ walPc[w] = "synced" => i <= synced
           /\ \A j \in 1..Len(wal), k \in Keys :
                j > i /\ Names(pending[w].op, k) => wal[j].rows[k] = NoRow

LogInv == AllLogged /\ LogShaped /\ CallsApart /\ VersionsRise /\ CallsInLog

\* The version of the last checkpoint, and of the last one that is sure to survive.
Flushed == LastFlushed(wal)
FlushedForSure == LastFlushed(SubSeq(wal, 1, synced))

\* A record that a replay may apply is in doubt, or not newer than the row of its key.
InDoubt ==
  \A k \in Keys, i \in 1..Len(wal) :
    wal[i].rows[k] # NoRow /\ wal[i].rows[k].ver > FlushedForSure
      => \/ wal[i].rows[k] \in maybe[k]
         \/ \E j \in i..synced : From(latest[k], j, k)

\* No checkpoint covers what is in memory or on its way to it.
AboveCheckpoints ==
  /\ \A k \in Keys : \A r \in InMemory(Flushers, k) : r.ver > Flushed
  /\ \A w \in Writers : pending[w] # NoOp => pending[w].base > Flushed

\* Nor will the checkpoint of a flush that runs, but for what the flush itself holds.
AboveFlushes ==
  \A f \in Flushers : flushPc[f] # "idle" =>
    /\ flushVer[f] <= nextVersion
    /\ \A w \in Writers : pending[w] # NoOp => pending[w].base > flushVer[f]
    /\ \A k \in Keys : \A r \in InMemory(Flushers \ {f}, k) : r.ver > flushVer[f]

\* A readable file does not hide a row of k: a segment with a higher ID has the key, or
\* the newest segment with it has the same row, or the key is in memory.
Behind(x, k) ==
  \/ \E s \in segments : s.id > x.id /\ s.rows[k] # NoRow
  \/ Merge(segments)[k] = x.rows[k]
  \/ InMemory(Flushers, k) # {}

\* So it is with those that failed flushes, compactions and deletions have left.
LeftBehind == \A x \in WholeFiles(files), k \in Keys : x.rows[k] # NoRow => Behind(x, k)

\* A flush writes its file above all of them.
FlushAboveFiles ==
  \A f \in Flushers : flushPc[f] = "built" => \A x \in WholeFiles(files) : x.id < flushSeg[f]

UpInv == /\ AgeOrder
         /\ StoredCurrent
         /\ InDoubt
         /\ AboveCheckpoints
         /\ AboveFlushes
         /\ LeftBehind
         /\ FlushAboveFiles

\* The calls write no NULLs: a record with a NULL cannot be read back (DurableNull).
NoNulls == \A w \in Writers : \A op \in Calls[w] : op.kind # "nulls"

Sound == ~ raced /\ ~ clashed /\ ~ overtaken /\ ~ regressed

DurableInv ==
  /\ DiskInv
  /\ CallsNumbered
  /\ Sound => /\ LogInv
              /\ mode = "up" => UpInv
              /\ mode # "up" => SurvivesNow

-----------------------------------------------------------------------------
(* Rows in memory *)

\* What is in a queue after the operations of the engine.
LEMMA RowsInQueue ==
  ASSUME NEW k \in Keys, NEW q \in Seq(MemTable)
  PROVE  /\ RowsIn(<<>>, k) = {}
         /\ \A i \in 1..Len(q) : q[i][k] \in RowsIn(q, k)
         /\ \A r \in RowsIn(q, k) : r \in Row \cup {NoRow} /\ \E i \in 1..Len(q) : q[i][k] = r
         /\ \A m \in MemTable : RowsIn(Append(q, m), k) = RowsIn(q, k) \cup {m[k]}
         /\ \A p \in Seq(MemTable) : RowsIn(q \o p, k) = RowsIn(q, k) \cup RowsIn(p, k)
         /\ q # <<>> => RowsIn(q, k) = {Head(q)[k]} \cup RowsIn(Tail(q), k)
<1>1. /\ DOMAIN q = 1..Len(q) /\ Len(q) \in Nat
      /\ \A i \in 1..Len(q) : q[i] \in MemTable /\ q[i][k] \in Row \cup {NoRow}
  BY LenProperties, ElementOfSeq DEF MemTable
<1>2. RowsIn(<<>>, k) = {}
  BY DEF RowsIn
<1>3. ASSUME NEW m \in MemTable
      PROVE  RowsIn(Append(q, m), k) = RowsIn(q, k) \cup {m[k]}
  <2>1. /\ DOMAIN Append(q, m) = 1..(Len(q) + 1) /\ Append(q, m)[Len(q) + 1] = m
        /\ \A i \in 1..Len(q) : Append(q, m)[i] = q[i]
    <3>1. /\ Append(q, m) \in Seq(MemTable) /\ Len(Append(q, m)) = Len(q) + 1
          /\ \A i \in 1..Len(q) : Append(q, m)[i] = q[i] /\ Append(q, m)[Len(q) + 1] = m
      BY AppendProperties
    <3> QED BY <3>1, AppendProperties, LenProperties
  <2> QED BY <1>1, <2>1 DEF RowsIn
<1>4. ASSUME NEW p \in Seq(MemTable)
      PROVE  RowsIn(q \o p, k) = RowsIn(q, k) \cup RowsIn(p, k)
  <2>1. /\ DOMAIN (q \o p) = 1..(Len(q) + Len(p)) /\ DOMAIN p = 1..Len(p) /\ Len(p) \in Nat
        /\ \A i \in 1..(Len(q) + Len(p)) :
             (q \o p)[i] = IF i <= Len(q) THEN q[i] ELSE p[i - Len(q)]
    BY <1>1, ConcatProperties, LenProperties
  <2>2. ASSUME NEW r \in RowsIn(q \o p, k) PROVE r \in RowsIn(q, k) \cup RowsIn(p, k)
    <3>1. PICK i \in 1..(Len(q) + Len(p)) : r = (q \o p)[i][k]
      BY <2>1 DEF RowsIn
    <3> QED BY <1>1, <2>1, <3>1 DEF RowsIn
  <2>3. ASSUME NEW r \in RowsIn(q, k) PROVE r \in RowsIn(q \o p, k)
    <3>1. PICK i \in 1..Len(q) : r = q[i][k]
      BY <1>1 DEF RowsIn
    <3>2. i \in 1..(Len(q) + Len(p)) /\ (q \o p)[i] = q[i]
      BY <1>1, <2>1
    <3> QED BY <2>1, <3>1, <3>2 DEF RowsIn
  <2>4. ASSUME NEW r \in RowsIn(p, k) PROVE r \in RowsIn(q \o p, k)
    <3>1. PICK i \in 1..Len(p) : r = p[i][k]
      BY <2>1 DEF RowsIn
    <3>2. i + Len(q) \in 1..(Len(q) + Len(p)) /\ (q \o p)[i + Len(q)] = p[i]
      BY <1>1, <2>1
    <3> QED BY <2>1, <3>1, <3>2 DEF RowsIn
  <2> QED BY <2>2, <2>3, <2>4
<1>5. ASSUME q # <<>>
      PROVE  RowsIn(q, k) = {Head(q)[k]} \cup RowsIn(Tail(q), k)
  <2>1. /\ Len(q) > 0 /\ Head(q) = q[1] /\ DOMAIN Tail(q) = 1..(Len(q) - 1)
        /\ \A i \in 1..(Len(q) - 1) : Tail(q)[i] = q[i + 1]
    <3>1. Len(q) # 0
      BY <1>1, <1>5, EmptySeq
    <3>2. /\ Tail(q) \in Seq(MemTable) /\ Len(Tail(q)) = Len(q) - 1
          /\ \A i \in 1..Len(Tail(q)) : Tail(q)[i] = q[i + 1]
      BY <1>5, HeadTailProperties
    <3> QED BY <1>1, <1>5, <3>1, <3>2, HeadTailProperties, LenProperties
  <2>2. ASSUME NEW r \in RowsIn(q, k) PROVE r = q[1][k] \/ r \in RowsIn(Tail(q), k)
    <3>1. PICK i \in 1..Len(q) : r = q[i][k]
      BY <1>1 DEF RowsIn
    <3>2. CASE i = 1
      BY <3>1, <3>2
    <3>3. CASE i # 1
      <4>1. i - 1 \in 1..(Len(q) - 1) /\ Tail(q)[i - 1] = q[i]
        BY <1>1, <2>1, <3>3
      <4> QED BY <2>1, <3>1, <4>1 DEF RowsIn
    <3> QED BY <3>2, <3>3
  <2>3. ASSUME NEW r \in RowsIn(Tail(q), k) PROVE r \in RowsIn(q, k)
    <3>1. PICK i \in 1..(Len(q) - 1) : r = q[i + 1][k]
      BY <2>1 DEF RowsIn
    <3>2. i + 1 \in 1..Len(q)
      BY <1>1
    <3> QED BY <1>1, <3>1, <3>2 DEF RowsIn
  <2>4. q[1][k] \in RowsIn(q, k)
    BY <1>1, <2>1 DEF RowsIn
  <2> QED BY <2>1, <2>2, <2>3, <2>4
<1>6. /\ \A i \in 1..Len(q) : q[i][k] \in RowsIn(q, k)
      /\ \A r \in RowsIn(q, k) : r \in Row \cup {NoRow} /\ \E i \in 1..Len(q) : q[i][k] = r
  BY <1>1 DEF RowsIn
<1> QED BY <1>2, <1>3, <1>4, <1>5, <1>6

\* Rows of k in memory have a version.
LEMMA InMemoryIs ==
  ASSUME TypeOK, NEW k \in Keys, NEW D, D \subseteq Flushers
  PROVE  \A r \in InMemory(D, k) : r \in Row /\ r # NoRow
<1>1. active[k] \in Row \cup {NoRow}
  BY DEF TypeOK, MemTable
<1>2. \A r \in RowsIn(immutable, k) : r \in Row \cup {NoRow}
  BY RowsInQueue DEF TypeOK
<1>3. \A f \in D : \A r \in RowsIn(drained[f], k) : r \in Row \cup {NoRow}
  <2> TAKE f \in D
  <2>1. drained[f] \in Seq(MemTable)
    BY DEF TypeOK
  <2> QED BY <2>1, RowsInQueue
<1> QED BY <1>1, <1>2, <1>3 DEF InMemory

\* A step puts no row into memory but those of the call that returns: draining, failing
\* and registering only move memtables.
LEMMA MemorySteps ==
  ASSUME IInv, IInv', EngineSteps, NEW k \in Keys, NEW D, D \subseteq Flushers,
         \A f \in Flushers : BeginFlush(f) \/ FailFlush(f) => f \in D,
         NEW r \in InMemory(D, k)'
  PROVE  \/ r \in InMemory(D, k)
         \/ \E w \in Writers : PutAndReturn(w) /\ r = RowsOf(pending[w])[k]
<1>0. /\ TypeOK /\ TypeOK' /\ active \in MemTable /\ immutable \in Seq(MemTable)
      /\ drained \in [Flushers -> Seq(MemTable)]
  BY DEF IInv, TypeOK
<1>1. /\ r # NoRow
      /\ r = active'[k] \/ r \in RowsIn(immutable', k) \/ \E g \in D : r \in RowsIn(drained'[g], k)
  BY DEF InMemory, RowsIn
<1>2. ASSUME \/ r = active[k] \/ r \in RowsIn(immutable, k)
             \/ \E g \in D : r \in RowsIn(drained[g], k)
      PROVE  r \in InMemory(D, k)
  BY <1>1, <1>2 DEF InMemory
<1>3. ASSUME UNCHANGED <<active, immutable, drained>>
      PROVE  r \in InMemory(D, k)
  BY <1>1, <1>2, <1>3
<1>4. ASSUME NEW w \in Writers, PutAndReturn(w)
      PROVE  r \in InMemory(D, k) \/ r = RowsOf(pending[w])[k]
  <2> DEFINE rows == RowsOf(pending[w])
             full == Overwrite(active, rows)
  <2>1. /\ drained' = drained
        /\ \/ /\ immutable' = Append(immutable, active) /\ active' = Overwrite(EmptyMem, rows)
           \/ /\ immutable' = immutable /\ active' = full
           \/ /\ immutable' = Append(immutable, full) /\ active' = EmptyMem
    BY <1>4 DEF PutAndReturn, PutOne, PutBatch, flushVars
  <2>2. pending[w] \in PendingCall
    BY <1>0, <1>4 DEF TypeOK, PutAndReturn, PutOne, PutBatch
  <2>3. rows \in MemTable /\ full \in MemTable
    BY <1>0, <2>2, RowsOfType, OverwriteType
  <2>4. /\ full[k] = rows[k] \/ full[k] = active[k]
        /\ Overwrite(EmptyMem, rows)[k] = rows[k] \/ Overwrite(EmptyMem, rows)[k] = NoRow
        /\ EmptyMem[k] = NoRow
    BY DEF Overwrite, EmptyMem
  <2> HIDE DEF rows, full
  <2>5. /\ RowsIn(Append(immutable, active), k) = RowsIn(immutable, k) \cup {active[k]}
        /\ RowsIn(Append(immutable, full), k) = RowsIn(immutable, k) \cup {full[k]}
    BY <1>0, <2>3, RowsInQueue
  <2> QED BY <1>1, <1>2, <2>1, <2>4, <2>5 DEF rows
<1>5. ASSUME NEW f \in Flushers, BeginFlush(f)
      PROVE  r \in InMemory(D, k)
  <2>1. /\ active' = EmptyMem /\ immutable' = <<>> /\ drained' = [drained EXCEPT ![f] = Drain]
        /\ f \in D
    BY <1>5 DEF BeginFlush, FlushBegin
  <2>2. RowsIn(Drain, k) \subseteq RowsIn(immutable, k) \cup {active[k]}
    BY <1>0, RowsInQueue DEF Drain
  <2>3. EmptyMem[k] = NoRow /\ RowsIn(<<>>, k) = {}
    BY DEF EmptyMem, RowsIn
  <2>4. \A g \in D : drained'[g] = IF g = f THEN Drain ELSE drained[g]
    BY <1>0, <2>1
  <2> QED BY <1>1, <1>2, <2>1, <2>2, <2>3, <2>4
<1>6. ASSUME NEW f \in Flushers, RegisterFlush(f)
      PROVE  r \in InMemory(D, k)
  <2>1. /\ active' = active /\ immutable' = immutable
        /\ drained' = [drained EXCEPT ![f] = Tail(@)] /\ flushPc[f] = "built"
    BY <1>6 DEF RegisterFlush, FlushRegister, engineVars
  <2>2. drained[f] # <<>> /\ drained[f] \in Seq(MemTable)
    BY <1>0, <2>1 DEF IInv, DrainedWhileFlushing, Flushing
  <2>3. RowsIn(Tail(drained[f]), k) \subseteq RowsIn(drained[f], k)
    BY <2>2, RowsInQueue
  <2>4. \A g \in D : drained'[g] = IF g = f THEN Tail(drained[f]) ELSE drained[g]
    BY <1>0, <2>1
  <2> QED BY <1>1, <1>2, <2>1, <2>3, <2>4
<1>7. ASSUME NEW f \in Flushers, FailFlush(f)
      PROVE  r \in InMemory(D, k)
  <2>1. /\ active' = active /\ immutable' = drained[f] \o immutable
        /\ drained' = [drained EXCEPT ![f] = <<>>] /\ f \in D
    BY <1>7 DEF FailFlush, FlushFail
  <2>2. drained[f] \in Seq(MemTable)
    BY <1>0
  <2>3. /\ RowsIn(drained[f] \o immutable, k) = RowsIn(drained[f], k) \cup RowsIn(immutable, k)
        /\ RowsIn(<<>>, k) = {}
    BY <1>0, <2>2, RowsInQueue
  <2>4. \A g \in D : drained'[g] = IF g = f THEN <<>> ELSE drained[g]
    BY <1>0, <2>1
  <2> QED BY <1>1, <1>2, <2>1, <2>3, <2>4
<1>8. ASSUME NEW w \in Writers, WriterDoes(w), ~ PutAndReturn(w)
      PROVE  UNCHANGED <<active, immutable, drained>>
  BY <1>8 DEF WriterDoes, Alloc, AllocVersion, AppendRecord, SyncRecord, CallFails, WriteFail,
     vars, engineVars, flushVars
<1>9. ASSUME NEW f \in Flushers, BuildFlush(f) \/ AppendCheckpoint(f) \/ SyncCheckpoint(f)
      PROVE  UNCHANGED <<active, immutable, drained>>
  BY <1>9 DEF BuildFlush, FlushBuild, AppendCheckpoint, FlushCheckpoint, SyncCheckpoint,
     vars, engineVars, flushVars
<1>10. ASSUME NEW c \in Compactors, CompactorDoes(c)
       PROVE  UNCHANGED <<active, immutable, drained>>
  BY <1>10 DEF CompactorDoes, BeginCompact, CompactBegin, BuildCompact, CompactBuild,
     InstallCompact, CompactInstall, FailCompact, CompactFail, engineVars, flushVars
<1>11. CASE \E w \in Writers : WriterDoes(w)
  BY <1>3, <1>4, <1>8, <1>11
<1>12. CASE \E f \in Flushers : FlusherDoes(f)
  BY <1>3, <1>5, <1>6, <1>7, <1>9, <1>12 DEF FlusherDoes
<1>13. CASE \E c \in Compactors : CompactorDoes(c)
  BY <1>3, <1>10, <1>13
<1> QED BY <1>11, <1>12, <1>13 DEF EngineSteps

\* A key leaves the memory only with the memtable that a flush registers as a segment.
LEMMA HeldSteps ==
  ASSUME IInv, IInv', EngineSteps, NEW k \in Keys, InMemory(Flushers, k) # {}
  PROVE  \/ InMemory(Flushers, k)' # {}
         \/ \E f \in Flushers : RegisterFlush(f) /\ Head(drained[f])[k] # NoRow
<1>0. /\ TypeOK /\ TypeOK' /\ active \in MemTable /\ immutable \in Seq(MemTable)
      /\ drained \in [Flushers -> Seq(MemTable)]
  BY DEF IInv, TypeOK
<1>1. PICK r \in InMemory(Flushers, k) : TRUE
  OBVIOUS
<1>2. /\ r # NoRow
      /\ r = active[k] \/ r \in RowsIn(immutable, k)
         \/ \E g \in Flushers : r \in RowsIn(drained[g], k)
  BY <1>1 DEF InMemory
<1>3. ASSUME NEW s, s # NoRow,
             \/ s = active'[k] \/ s \in RowsIn(immutable', k)
             \/ \E g \in Flushers : s \in RowsIn(drained'[g], k)
      PROVE  InMemory(Flushers, k)' # {}
  <2>1. s \in InMemory(Flushers, k)'
    BY <1>3 DEF InMemory, RowsIn
  <2> QED BY <2>1
<1>4. ASSUME UNCHANGED <<active, immutable, drained>>
      PROVE  InMemory(Flushers, k)' # {}
  BY <1>2, <1>3, <1>4
<1>5. ASSUME NEW w \in Writers, PutAndReturn(w)
      PROVE  InMemory(Flushers, k)' # {}
  <2> DEFINE rows == RowsOf(pending[w])
             full == Overwrite(active, rows)
  <2>1. /\ drained' = drained
        /\ \/ /\ immutable' = Append(immutable, active) /\ active' = Overwrite(EmptyMem, rows)
           \/ /\ immutable' = immutable /\ active' = full
           \/ /\ immutable' = Append(immutable, full) /\ active' = EmptyMem
    BY <1>5 DEF PutAndReturn, PutOne, PutBatch, flushVars
  <2>2. pending[w] \in PendingCall
    BY <1>0, <1>5 DEF TypeOK, PutAndReturn, PutOne, PutBatch
  <2>3. rows \in MemTable /\ full \in MemTable
    BY <1>0, <2>2, RowsOfType, OverwriteType
  <2>4. active[k] # NoRow => full[k] # NoRow
    BY DEF Overwrite
  <2> HIDE DEF rows, full
  <2>5. /\ RowsIn(Append(immutable, active), k) = RowsIn(immutable, k) \cup {active[k]}
        /\ RowsIn(Append(immutable, full), k) = RowsIn(immutable, k) \cup {full[k]}
    BY <1>0, <2>3, RowsInQueue
  <2>6. CASE r \in RowsIn(immutable, k) \/ \E g \in Flushers : r \in RowsIn(drained[g], k)
    BY <1>2, <1>3, <2>1, <2>5, <2>6
  <2>7. CASE r = active[k]
    <3>1. \/ r \in RowsIn(immutable', k)
          \/ full[k] # NoRow /\ (full[k] = active'[k] \/ full[k] \in RowsIn(immutable', k))
      BY <1>2, <2>1, <2>4, <2>5, <2>7
    <3> QED BY <1>2, <1>3, <3>1
  <2> QED BY <1>2, <2>6, <2>7
<1>6. ASSUME NEW f \in Flushers, BeginFlush(f)
      PROVE  InMemory(Flushers, k)' # {}
  <2>1. drained' = [drained EXCEPT ![f] = Drain] /\ flushPc[f] = "idle"
    BY <1>6 DEF BeginFlush, FlushBegin
  <2>2. r = active[k] \/ r \in RowsIn(immutable, k) => r \in RowsIn(Drain, k)
    BY <1>0, <1>2, RowsInQueue DEF Drain, KeysOf
  <2>3. drained[f] = <<>> /\ RowsIn(<<>>, k) = {}
    BY <2>1 DEF IInv, DrainedWhileFlushing, Flushing, RowsIn
  <2>4. \A g \in Flushers : drained'[g] = IF g = f THEN Drain ELSE drained[g]
    BY <1>0, <2>1
  <2> QED BY <1>2, <1>3, <2>2, <2>3, <2>4
<1>7. ASSUME NEW f \in Flushers, RegisterFlush(f)
      PROVE  InMemory(Flushers, k)' # {} \/ Head(drained[f])[k] # NoRow
  <2>1. /\ active' = active /\ immutable' = immutable
        /\ drained' = [drained EXCEPT ![f] = Tail(@)] /\ flushPc[f] = "built"
    BY <1>7 DEF RegisterFlush, FlushRegister, engineVars
  <2>2. drained[f] # <<>> /\ drained[f] \in Seq(MemTable)
    BY <1>0, <2>1 DEF IInv, DrainedWhileFlushing, Flushing
  <2>3. RowsIn(drained[f], k) = {Head(drained[f])[k]} \cup RowsIn(Tail(drained[f]), k)
    BY <2>2, RowsInQueue
  <2>4. \A g \in Flushers : drained'[g] = IF g = f THEN Tail(drained[f]) ELSE drained[g]
    BY <1>0, <2>1
  <2> QED BY <1>2, <1>3, <2>1, <2>3, <2>4
<1>8. ASSUME NEW f \in Flushers, FailFlush(f)
      PROVE  InMemory(Flushers, k)' # {}
  <2>1. /\ active' = active /\ immutable' = drained[f] \o immutable
        /\ drained' = [drained EXCEPT ![f] = <<>>]
    BY <1>8 DEF FailFlush, FlushFail
  <2>2. drained[f] \in Seq(MemTable)
    BY <1>0
  <2>3. RowsIn(drained[f] \o immutable, k) = RowsIn(drained[f], k) \cup RowsIn(immutable, k)
    BY <1>0, <2>2, RowsInQueue
  <2>4. \A g \in Flushers : drained'[g] = IF g = f THEN <<>> ELSE drained[g]
    BY <1>0, <2>1
  <2> QED BY <1>2, <1>3, <2>1, <2>3, <2>4
<1>9. ASSUME NEW w \in Writers, WriterDoes(w), ~ PutAndReturn(w)
      PROVE  UNCHANGED <<active, immutable, drained>>
  BY <1>9 DEF WriterDoes, Alloc, AllocVersion, AppendRecord, SyncRecord, CallFails, WriteFail,
     vars, engineVars, flushVars
<1>10. ASSUME NEW f \in Flushers, BuildFlush(f) \/ AppendCheckpoint(f) \/ SyncCheckpoint(f)
       PROVE  UNCHANGED <<active, immutable, drained>>
  BY <1>10 DEF BuildFlush, FlushBuild, AppendCheckpoint, FlushCheckpoint, SyncCheckpoint,
     vars, engineVars, flushVars
<1>11. ASSUME NEW c \in Compactors, CompactorDoes(c)
       PROVE  UNCHANGED <<active, immutable, drained>>
  BY <1>11 DEF CompactorDoes, BeginCompact, CompactBegin, BuildCompact, CompactBuild,
     InstallCompact, CompactInstall, FailCompact, CompactFail, engineVars, flushVars
<1>12. CASE \E w \in Writers : WriterDoes(w)
  BY <1>4, <1>5, <1>9, <1>12
<1>13. CASE \E f \in Flushers : FlusherDoes(f)
  BY <1>4, <1>6, <1>7, <1>8, <1>10, <1>13 DEF FlusherDoes
<1>14. CASE \E c \in Compactors : CompactorDoes(c)
  BY <1>4, <1>11, <1>14
<1> QED BY <1>12, <1>13, <1>14 DEF EngineSteps

-----------------------------------------------------------------------------
(* The log under the steps of the running engine *)

\* The fields of the two kinds of record.
LEMMA RecordFields ==
  /\ \A m : WriteRecord(m).rows = m /\ ~ WriteRecord(m).ckpt
  /\ \A v : CkptRecord(v).ckpt /\ CkptRecord(v).ver = v
  /\ \A v : \A k \in Keys : CkptRecord(v).rows[k] = NoRow
BY DEF WriteRecord, CkptRecord, EmptyMem

\* A longer log has the checkpoints of the shorter one.
LEMMA PrefixFlushed ==
  ASSUME NEW log \in Seq(LogRecord), NEW more \in Seq(LogRecord), Len(log) <= Len(more),
         \A i \in 1..Len(log) : more[i] = log[i]
  PROVE  LastFlushed(log) <= LastFlushed(more)
<1>1. /\ LastFlushed(log) \in Nat /\ LastFlushed(more) \in Nat
      /\ Len(log) \in Nat /\ Len(more) \in Nat
  BY LastFlushedIs, LenProperties
<1>2. CASE LastFlushed(log) = 0
  BY <1>1, <1>2
<1>3. CASE LastFlushed(log) # 0
  <2>1. PICK i \in 1..Len(log) : log[i].ckpt /\ log[i].ver = LastFlushed(log)
    BY <1>3, LastFlushedIs
  <2>2. i \in 1..Len(more) /\ more[i] = log[i]
    BY <1>1
  <2>3. more[i].ver <= LastFlushed(more)
    BY <2>1, <2>2, LastFlushedIs
  <2> QED BY <2>1, <2>2, <2>3
<1> QED BY <1>2, <1>3

\* Part of the log, from the front.
LEMMA CutIs ==
  ASSUME NEW log \in Seq(LogRecord), NEW n \in 0..Len(log)
  PROVE  /\ SubSeq(log, 1, n) \in Seq(LogRecord) /\ Len(SubSeq(log, 1, n)) = n
         /\ \A i \in 1..n : SubSeq(log, 1, n)[i] = log[i]
<1>1. Len(log) \in Nat /\ n \in Nat /\ \A i \in 1..n : log[i] \in LogRecord
  BY LenProperties, ElementOfSeq
<1>2. /\ SubSeq(log, 1, n) \in Seq(LogRecord)
      /\ Len(SubSeq(log, 1, n)) = IF 1 <= n THEN n - 1 + 1 ELSE 0
      /\ \A i \in 1..(n - 1 + 1) : SubSeq(log, 1, n)[i] = log[1 + i - 1]
  BY <1>1, SubSeqProperties
<1>3. n - 1 + 1 = n /\ \A i \in 1..n : 1 + i - 1 = i
  BY <1>1
<1>4. Len(SubSeq(log, 1, n)) = n
  BY <1>1, <1>2
<1> QED BY <1>2, <1>3, <1>4

\* The log grows at its end, by the record of a call or of a checkpoint.
LEMMA LogSteps ==
  ASSUME DiskInv, EngineSteps
  PROVE  /\ wal \in Seq(LogRecord) /\ wal' \in Seq(LogRecord)
         /\ Len(wal) \in Nat /\ Len(wal') \in Nat /\ Len(wal) <= Len(wal')
         /\ synced \in 0..Len(wal) /\ synced' \in 0..Len(wal') /\ synced <= synced'
         /\ \A i \in 1..Len(wal) : i \in 1..Len(wal') /\ wal'[i] = wal[i]
         /\ \A i \in 1..Len(wal') :
              \/ i \in 1..Len(wal)
              \/ /\ i = Len(wal) + 1
                 /\ \/ \E w \in Writers : /\ AppendRecord(w) /\ ~ wal'[i].ckpt
                                          /\ wal'[i].rows = RowsOf(pending[w])
                    \/ \E f \in Flushers : /\ AppendCheckpoint(f) /\ wal'[i].ckpt
                                           /\ wal'[i].ver = flushVer[f]
                                           /\ \A k \in Keys : wal'[i].rows[k] = NoRow
<1>1. /\ wal \in Seq(LogRecord) /\ wal' \in Seq(LogRecord) /\ Len(wal) \in Nat /\ Len(wal') \in Nat
      /\ synced \in 0..Len(wal) /\ synced' \in 0..Len(wal') /\ TypeOK
  BY StepDurableTypes, LenProperties DEF DiskInv, DurableTypeOK
<1>2. CASE UNCHANGED wal /\ synced' \in {synced, Len(wal)}
  BY <1>1, <1>2
<1>3. ASSUME NEW w \in Writers, AppendRecord(w)
      PROVE  /\ Len(wal') = Len(wal) + 1 /\ synced' = synced
             /\ \A i \in 1..Len(wal) : wal'[i] = wal[i]
             /\ ~ wal'[Len(wal) + 1].ckpt /\ wal'[Len(wal) + 1].rows = RowsOf(pending[w])
  <2>1. pending[w] \in PendingCall
    BY <1>1, <1>3 DEF AppendRecord, TypeOK
  <2>2. WriteRecord(RowsOf(pending[w])) \in LogRecord
    BY <2>1, RowsOfType, RecordTypes
  <2>3. wal' = Append(wal, WriteRecord(RowsOf(pending[w]))) /\ synced' = synced
    BY <1>3 DEF AppendRecord
  <2> QED BY <1>1, <2>2, <2>3, AppendProperties, RecordFields
<1>4. ASSUME NEW f \in Flushers, AppendCheckpoint(f)
      PROVE  /\ Len(wal') = Len(wal) + 1 /\ synced' = synced
             /\ \A i \in 1..Len(wal) : wal'[i] = wal[i]
             /\ wal'[Len(wal) + 1].ckpt /\ wal'[Len(wal) + 1].ver = flushVer[f]
             /\ \A k \in Keys : wal'[Len(wal) + 1].rows[k] = NoRow
  <2>1. CkptRecord(flushVer[f]) \in LogRecord
    BY <1>1, RecordTypes DEF TypeOK
  <2>2. wal' = Append(wal, CkptRecord(flushVer[f])) /\ synced' = synced
    BY <1>4 DEF AppendCheckpoint
  <2> QED BY <1>1, <2>1, <2>2, AppendProperties, RecordFields
<1>5. ASSUME NEW w \in Writers, WriterDoes(w), ~ AppendRecord(w)
      PROVE  UNCHANGED wal /\ synced' \in {synced, Len(wal)}
  BY <1>5 DEF WriterDoes, Alloc, SyncRecord, PutAndReturn, CallFails, diskVars
<1>6. ASSUME NEW f \in Flushers, FlusherDoes(f), ~ AppendCheckpoint(f)
      PROVE  UNCHANGED wal /\ synced' \in {synced, Len(wal)}
  BY <1>6 DEF FlusherDoes, BeginFlush, BuildFlush, RegisterFlush, FailFlush, SyncCheckpoint,
     durableVars, diskVars
<1>7. ASSUME NEW c \in Compactors, CompactorDoes(c)
      PROVE  UNCHANGED wal /\ synced' \in {synced, Len(wal)}
  BY <1>7 DEF CompactorDoes, BeginCompact, BuildCompact, InstallCompact, FailCompact,
     durableVars, diskVars
<1>8. CASE \E w \in Writers : AppendRecord(w)
  BY <1>1, <1>3, <1>8
<1>9. CASE \E f \in Flushers : AppendCheckpoint(f)
  BY <1>1, <1>4, <1>9
<1> QED BY <1>2, <1>5, <1>6, <1>7, <1>8, <1>9 DEF EngineSteps

\* What survives of the log goes on to do so.
LEMMA LoggedStays ==
  ASSUME DiskInv, EngineSteps
  PROVE  /\ \A k \in Keys : \A r : Logged(r, k) => Logged(r, k)'
         /\ FlushedForSure \in Nat /\ FlushedForSure' \in Nat
         /\ FlushedForSure <= FlushedForSure'
<1>1. /\ wal \in Seq(LogRecord) /\ wal' \in Seq(LogRecord)
      /\ Len(wal) \in Nat /\ Len(wal') \in Nat /\ Len(wal) <= Len(wal')
      /\ synced \in 0..Len(wal) /\ synced' \in 0..Len(wal') /\ synced <= synced'
      /\ \A i \in 1..Len(wal) : i \in 1..Len(wal') /\ wal'[i] = wal[i]
  BY LogSteps
<1>2. \A i \in 1..synced : i \in 1..Len(wal) /\ i \in 1..synced' /\ wal'[i] = wal[i]
  BY <1>1
<1>3. \A k \in Keys : \A r : Logged(r, k) => Logged(r, k)'
  BY <1>2 DEF Logged, From
<1> DEFINE old == SubSeq(wal, 1, synced)
           new == SubSeq(wal', 1, synced')
<1>4. /\ old \in Seq(LogRecord) /\ Len(old) = synced /\ \A i \in 1..synced : old[i] = wal[i]
      /\ new \in Seq(LogRecord) /\ Len(new) = synced' /\ \A i \in 1..synced' : new[i] = wal'[i]
  BY <1>1, CutIs
<1>5. FlushedForSure = LastFlushed(old) /\ FlushedForSure' = LastFlushed(new)
  BY DEF FlushedForSure
<1> HIDE DEF old, new
<1>6. \A i \in 1..Len(old) : new[i] = old[i]
  BY <1>2, <1>4
<1> QED BY <1>1, <1>3, <1>4, <1>5, <1>6, PrefixFlushed, LastFlushedIs

\* The last checkpoint is the one before, or the one that this step appends.
LEMMA FlushedSteps ==
  ASSUME DiskInv, EngineSteps
  PROVE  /\ Flushed \in Nat /\ Flushed' \in Nat
         /\ \/ Flushed' = Flushed
            \/ \E f \in Flushers : AppendCheckpoint(f) /\ Flushed' = flushVer[f]
<1>1. /\ wal \in Seq(LogRecord) /\ wal' \in Seq(LogRecord) /\ Len(wal) <= Len(wal')
      /\ Len(wal) \in Nat /\ Len(wal') \in Nat
      /\ \A i \in 1..Len(wal) : i \in 1..Len(wal') /\ wal'[i] = wal[i]
  BY LogSteps
<1>2. /\ Flushed \in Nat /\ Flushed' \in Nat /\ Flushed <= Flushed'
  BY <1>1, LastFlushedIs, PrefixFlushed DEF Flushed
<1>3. \/ Flushed' = 0
      \/ \E i \in 1..Len(wal') : wal'[i].ckpt /\ wal'[i].ver = Flushed'
  BY <1>1, LastFlushedIs DEF Flushed
<1>4. CASE Flushed' = 0
  BY <1>2, <1>4
<1>5. CASE \E i \in 1..Len(wal') : wal'[i].ckpt /\ wal'[i].ver = Flushed'
  <2>1. PICK i \in 1..Len(wal') : wal'[i].ckpt /\ wal'[i].ver = Flushed'
    BY <1>5
  <2>2. CASE i \in 1..Len(wal)
    <3>1. wal[i].ckpt /\ wal[i].ver = Flushed'
      BY <1>1, <2>1, <2>2
    <3>2. wal[i].ver <= Flushed
      BY <1>1, <2>2, <3>1, LastFlushedIs DEF Flushed
    <3> QED BY <1>2, <3>1, <3>2
  <2>3. CASE i \notin 1..Len(wal)
    <3>1. \/ \E w \in Writers : ~ wal'[i].ckpt
          \/ \E f \in Flushers : AppendCheckpoint(f) /\ wal'[i].ver = flushVer[f]
      BY <2>3, LogSteps
    <3> QED BY <1>2, <2>1, <3>1
  <2> QED BY <2>2, <2>3
<1> QED BY <1>3, <1>4, <1>5

-----------------------------------------------------------------------------
(* The log, the memory and the files under the steps of the running engine *)

\* The rows of a call under way: one for each key it names, with a version of the call.
LEMMA CallRow ==
  ASSUME NoNulls, TypeOK, CallsNumbered, CallsApart, NEW w \in Writers, pending[w] # NoOp,
         NEW k \in Keys
  PROVE  /\ pending[w].base \in Nat /\ pending[w].base > 0
         /\ ~ Names(pending[w].op, k) => RowsOf(pending[w])[k] = NoRow
         /\ Names(pending[w].op, k) =>
              /\ RowsOf(pending[w])[k] \in Row /\ RowsOf(pending[w])[k] # NoRow
              /\ RowsOf(pending[w])[k].kind \in {"value", "tombstone"}
              /\ pending[w].base <= RowsOf(pending[w])[k].ver
              /\ RowsOf(pending[w])[k].ver <= nextVersion
<1> DEFINE p == pending[w]
           n == LastWith(p.op.keys, k)
<1>1. /\ p \in PendingCall /\ p.op \in Calls[w] /\ p.base \in 1..nextVersion /\ nextVersion \in Nat
      /\ p.base + Len(p.op.keys) <= nextVersion + 1
  BY DEF TypeOK, CallsNumbered, CallsApart
<1>2. p.op \in OpType /\ p.op.keys \in Seq(Keys) /\ p.op.kind \in Kinds /\ Len(p.op.keys) \in Nat
  BY <1>1, LenProperties DEF PendingCall, OpType
<1>3. p.op.kind \in {"value", "tombstone"}
  <2>1. p.op.kind # "nulls" /\ p.op.kind # "empty"
    BY <1>1, CallsAssumption DEF NoNulls
  <2> QED BY <1>2, <2>1 DEF Kinds
<1>4. CASE ~ Names(p.op, k)
  <2>1. RowsOf(p)[k] = NoRow
    BY <1>4 DEF RowsOf, Names
  <2> QED BY <1>1, <1>4, <2>1
<1>5. CASE Names(p.op, k)
  <2>1. n \in 1..Len(p.op.keys)
    BY <1>2, <1>5, LastWithIs DEF Names
  <2>2. RowsOf(p)[k] = [ver |-> p.base + n - 1, kind |-> p.op.kind]
    BY <1>5 DEF RowsOf, Names
  <2>3. p.base + n - 1 \in Nat /\ p.base <= p.base + n - 1 /\ p.base + n - 1 <= nextVersion
    BY <1>1, <1>2, <2>1
  <2>4. RowsOf(p)[k] \in Row /\ RowsOf(p)[k].ver = p.base + n - 1 /\ RowsOf(p)[k].kind = p.op.kind
    BY <1>2, <2>2, <2>3 DEF Row
  <2> HIDE DEF p, n
  <2> QED BY <1>1, <1>3, <1>5, <2>3, <2>4, SentinelAssumption DEF p
<1> QED BY <1>4, <1>5

\* What a call under way is does not change until it ends.
LEMMA PendingSteps ==
  ASSUME IInv, EngineSteps, NEW w \in Writers, pending'[w] # NoOp
  PROVE  \/ /\ pending[w] = NoOp /\ \E op \in Calls[w] : Alloc(w, op)
            /\ pending'[w].base = nextVersion + 1
            /\ nextVersion' = nextVersion + Len(pending'[w].op.keys)
         \/ pending'[w] = pending[w]
<1>0. pending \in [Writers -> PendingCall \cup {NoOp}]
  BY DEF IInv, TypeOK
<1>1. ASSUME NEW v \in Writers, WriterDoes(v)
      PROVE  \/ \E op \in Calls[v] : Alloc(v, op)
             \/ UNCHANGED pending
             \/ pending' = [pending EXCEPT ![v] = NoOp]
  BY <1>1 DEF WriterDoes, AppendRecord, SyncRecord, PutAndReturn, PutOne, PutBatch, CallFails,
     WriteFail, vars, engineVars
<1>2. ASSUME NEW f \in Flushers, FlusherDoes(f)
      PROVE  UNCHANGED pending
  BY <1>2 DEF FlusherDoes, BeginFlush, FlushBegin, BuildFlush, FlushBuild, RegisterFlush,
     FlushRegister, FailFlush, FlushFail, AppendCheckpoint, FlushCheckpoint, SyncCheckpoint,
     vars, engineVars
<1>3. ASSUME NEW c \in Compactors, CompactorDoes(c)
      PROVE  UNCHANGED pending
  BY <1>3 DEF CompactorDoes, BeginCompact, CompactBegin, BuildCompact, CompactBuild,
     InstallCompact, CompactInstall, FailCompact, CompactFail, engineVars
<1>4. ASSUME NEW v \in Writers, NEW op \in Calls[v], Alloc(v, op)
      PROVE  \/ /\ v = w /\ pending[w] = NoOp
                /\ pending'[w].base = nextVersion + 1
                /\ nextVersion' = nextVersion + Len(pending'[w].op.keys)
             \/ pending'[w] = pending[w]
  <2> DEFINE new == [op |-> op, base |-> nextVersion + 1]
  <2>1. /\ pending[v] = NoOp /\ pending' = [pending EXCEPT ![v] = new]
        /\ nextVersion' = nextVersion + Len(new.op.keys) /\ new.base = nextVersion + 1
    BY <1>4 DEF Alloc, AllocVersion
  <2> HIDE DEF new
  <2>2. pending'[w] = IF v = w THEN new ELSE pending[w]
    BY <1>0, <2>1
  <2> QED BY <2>1, <2>2
<1>5. ASSUME NEW v \in Writers, pending' = [pending EXCEPT ![v] = NoOp]
      PROVE  pending'[w] = pending[w]
  BY <1>0, <1>5
<1>6. ASSUME NEW v \in Writers, WriterDoes(v)
      PROVE  \/ /\ pending[w] = NoOp /\ \E op \in Calls[w] : Alloc(w, op)
                /\ pending'[w].base = nextVersion + 1
                /\ nextVersion' = nextVersion + Len(pending'[w].op.keys)
             \/ pending'[w] = pending[w]
  BY <1>1, <1>4, <1>5, <1>6
<1> QED BY <1>2, <1>3, <1>6 DEF EngineSteps

\* The version counter only rises while the engine runs.
LEMMA VersionSteps ==
  ASSUME IInv, IInv', EngineSteps
  PROVE  nextVersion \in Nat /\ nextVersion' \in Nat /\ nextVersion <= nextVersion'
<1>0. nextVersion \in Nat /\ nextVersion' \in Nat
  BY DEF IInv, TypeOK
<1>1. ASSUME NEW w \in Writers, WriterDoes(w)
      PROVE  nextVersion <= nextVersion'
  <2>1. CASE \E op \in Calls[w] : Alloc(w, op)
    <3>1. PICK op \in Calls[w] : Alloc(w, op)
      BY <2>1
    <3>2. Len(op.keys) \in Nat
      BY CallsAssumption, LenProperties DEF OpType
    <3> QED BY <1>0, <3>1, <3>2 DEF Alloc, AllocVersion
  <2>2. CASE ~ \E op \in Calls[w] : Alloc(w, op)
    <3>1. UNCHANGED nextVersion
      BY <1>1, <2>2 DEF WriterDoes, AppendRecord, SyncRecord, PutAndReturn, PutOne, PutBatch,
         CallFails, WriteFail, vars, engineVars
    <3> QED BY <1>0, <3>1
  <2> QED BY <2>1, <2>2
<1>2. ASSUME NEW f \in Flushers, FlusherDoes(f)
      PROVE  UNCHANGED nextVersion
  BY <1>2 DEF FlusherDoes, BeginFlush, FlushBegin, BuildFlush, FlushBuild, RegisterFlush,
     FlushRegister, FailFlush, FlushFail, AppendCheckpoint, FlushCheckpoint, SyncCheckpoint,
     vars, engineVars
<1>3. ASSUME NEW c \in Compactors, CompactorDoes(c)
      PROVE  UNCHANGED nextVersion
  BY <1>3 DEF CompactorDoes, BeginCompact, CompactBegin, BuildCompact, CompactBuild,
     InstallCompact, CompactInstall, FailCompact, CompactFail, engineVars
<1> QED BY <1>0, <1>1, <1>2, <1>3 DEF EngineSteps

\* Where a readable file comes from: a flush or a compaction that failed, or a deletion.
LEMMA FileSteps ==
  ASSUME DiskInv, EngineSteps, NEW x \in WholeFiles(files')
  PROVE  \/ x \in WholeFiles(files)
         \/ \E f \in Flushers : /\ FailFlush(f) /\ flushPc[f] = "built" /\ x.id = flushSeg[f]
                                /\ x.rows = FlushRows(Head(drained[f]))
         \/ \E c \in Compactors : /\ InstallCompact(c)
                                  /\ \E s \in segments : /\ s \in compSet[c]
                                                         /\ x.id = s.id /\ x.rows = s.rows
         \/ \E c \in Compactors : /\ FailCompact(c) /\ compPc[c] = "built" /\ x.id = compSeg[c]
                                  /\ x.rows = Merge(compSet[c])
<1>0. IInv /\ x \in files' /\ x.whole /\ (x \in files => x \in WholeFiles(files))
  BY DEF DiskInv, WholeFiles
<1>1. ASSUME NEW w \in Writers, WriterDoes(w)
      PROVE  x \in files
  BY <1>0, <1>1 DEF WriterDoes, Alloc, AppendRecord, SyncRecord, PutAndReturn, CallFails, diskVars
<1>2. ASSUME NEW f \in Flushers, FlusherDoes(f)
      PROVE  \/ x \in files
             \/ /\ FailFlush(f) /\ flushPc[f] = "built" /\ x.id = flushSeg[f]
                /\ x.rows = FlushRows(Head(drained[f]))
  <2>1. CASE FailFlush(f)
    <3>1. flushPc[f] = "built"
      BY <2>1 DEF FailFlush, FlushFail
    <3>2. PICK ending \in Endings :
            files' = files \cup Left(ending, flushSeg[f], FlushRows(Head(drained[f])))
      BY <2>1 DEF FailFlush, Unfinished
    <3>3. flushSeg[f] \in Nat /\ FlushRows(Head(drained[f])) \in MemTable
      BY <1>0, <3>1, OutputTypes
    <3> QED BY <1>0, <2>1, <3>1, <3>2, <3>3, LeftIs
  <2>2. CASE ~ FailFlush(f)
    BY <1>0, <1>2, <2>2 DEF FlusherDoes, BeginFlush, BuildFlush, RegisterFlush, AppendCheckpoint,
       SyncCheckpoint, durableVars, diskVars
  <2> QED BY <2>1, <2>2
<1>3. ASSUME NEW c \in Compactors, CompactorDoes(c)
      PROVE  \/ x \in files
             \/ /\ InstallCompact(c)
                /\ \E s \in segments : s \in compSet[c] /\ x.id = s.id /\ x.rows = s.rows
             \/ /\ FailCompact(c) /\ compPc[c] = "built" /\ x.id = compSeg[c]
                /\ x.rows = Merge(compSet[c])
  <2>1. CASE InstallCompact(c)
    <3>1. PICK left \in SUBSET (compSet[c] \cap segments) :
            files' = files \cup {FileOf(s.id, s.rows, TRUE) : s \in left}
      BY <2>1 DEF InstallCompact, NotDeleted
    <3> QED BY <1>0, <2>1, <3>1 DEF FileOf
  <2>2. CASE FailCompact(c)
    <3>1. \/ UNCHANGED files
          \/ /\ compPc[c] = "built"
             /\ \E ending \in Endings :
                  files' = files \cup Left(ending, compSeg[c], Merge(compSet[c]))
      BY <2>2 DEF FailCompact, Unfinished
    <3>2. compSeg[c] \in Nat /\ Merge(compSet[c]) \in MemTable
      BY <1>0, OutputTypes
    <3> QED BY <1>0, <2>2, <3>1, <3>2, LeftIs
  <2>3. CASE BeginCompact(c) \/ BuildCompact(c)
    BY <1>0, <2>3 DEF BeginCompact, BuildCompact, durableVars, diskVars
  <2> QED BY <1>3, <2>1, <2>2, <2>3 DEF CompactorDoes
<1> QED BY <1>0, <1>1, <1>2, <1>3 DEF EngineSteps

\* Where a registered segment comes from, one that a compaction merges, and the row that
\* the last Put of a key wrote.
LEMMA SegmentSteps ==
  ASSUME IInv, EngineSteps
  PROVE  /\ \A s \in segments' :
              \/ s \in segments
              \/ \E f \in Flushers : RegisterFlush(f) /\ s = FlushedSegment(f)
              \/ \E c \in Compactors : InstallCompact(c) /\ s = CompactedSegment(c)
         /\ \A s \in segments :
              \/ s \in segments'
              \/ \E c \in Compactors : InstallCompact(c) /\ s \in compSet[c]
         /\ \A c \in Compactors : \A t \in compSet'[c] : t \in compSet[c] \/ t \in segments
         /\ \A k \in Keys :
              \/ latest'[k] = latest[k]
              \/ \E w \in Writers : /\ PutAndReturn(w)
                                    /\ latest'[k] = RowsOf(pending[w])[k]
                                    /\ RowsOf(pending[w])[k] # NoRow
<1>0. TypeOK /\ SnapshotsFaithful
  BY DEF IInv
<1>1. ASSUME NEW w \in Writers, WriterDoes(w)
      PROVE  UNCHANGED <<segments, compSet>>
  BY <1>1 DEF WriterDoes, Alloc, AllocVersion, AppendRecord, SyncRecord, PutAndReturn, PutOne,
     PutBatch, CallFails, WriteFail, vars, segmentVars, compactVars
<1>2. ASSUME NEW w \in Writers, WriterDoes(w), ~ PutAndReturn(w)
      PROVE  UNCHANGED latest
  BY <1>2 DEF WriterDoes, Alloc, AllocVersion, AppendRecord, SyncRecord, CallFails, WriteFail,
     vars, engineVars
<1>3. ASSUME NEW w \in Writers, PutAndReturn(w), NEW k \in Keys
      PROVE  \/ latest'[k] = latest[k]
             \/ (latest'[k] = RowsOf(pending[w])[k] /\ RowsOf(pending[w])[k] # NoRow)
  <2>1. latest' = Overwrite(latest, RowsOf(pending[w]))
    BY <1>3 DEF PutAndReturn, PutOne, PutBatch
  <2> QED BY <2>1 DEF Overwrite
<1>4. ASSUME NEW f \in Flushers, FlusherDoes(f)
      PROVE  /\ UNCHANGED <<compSet, latest>>
             /\ \/ UNCHANGED segments
                \/ RegisterFlush(f) /\ segments' = segments \cup {FlushedSegment(f)}
  BY <1>4 DEF FlusherDoes, BeginFlush, FlushBegin, BuildFlush, FlushBuild, RegisterFlush,
     FlushRegister, FailFlush, FlushFail, AppendCheckpoint, FlushCheckpoint, SyncCheckpoint,
     vars, engineVars, segmentVars, compactVars
<1>5. ASSUME NEW c \in Compactors, CompactorDoes(c)
      PROVE  /\ UNCHANGED latest
             /\ \A d \in Compactors : \A t \in compSet'[d] : t \in compSet[d] \/ t \in segments
             /\ \/ UNCHANGED segments
                \/ /\ InstallCompact(c)
                   /\ segments' = {s \in segments : s.id \notin CompactIDs(c)}
                                    \cup {CompactedSegment(c)}
  BY <1>0, <1>5 DEF TypeOK, CompactorDoes, BeginCompact, CompactBegin, BuildCompact, CompactBuild,
     InstallCompact, CompactInstall, FailCompact, CompactFail, engineVars, segmentVars, Level
<1>6. ASSUME NEW c \in Compactors, NEW s \in segments, s.id \in CompactIDs(c)
      PROVE  s \in compSet[c]
  BY <1>0, <1>6 DEF CompactIDs, SnapshotsFaithful
<1>7. CASE \E w \in Writers : WriterDoes(w)
  BY <1>1, <1>2, <1>3, <1>7
<1>8. CASE \E f \in Flushers : FlusherDoes(f)
  BY <1>4, <1>8
<1>9. CASE \E c \in Compactors : CompactorDoes(c)
  <2>1. PICK c \in Compactors : CompactorDoes(c)
    BY <1>9
  <2>2. \A s \in segments : s \in segments' \/ (InstallCompact(c) /\ s \in compSet[c])
    BY <1>5, <1>6, <2>1
  <2>3. \A s \in segments' : s \in segments \/ (InstallCompact(c) /\ s = CompactedSegment(c))
    BY <1>5, <2>1
  <2> QED BY <1>5, <2>1, <2>2, <2>3
<1> QED BY <1>7, <1>8, <1>9 DEF EngineSteps

\* A merged row is that of one of the segments.
LEMMA MergedRow ==
  ASSUME NEW S, S \subseteq Segment, NEW n \in Nat, \A s \in S : s.id <= n, NEW k \in Keys,
         Merge(S)[k] # NoRow
  PROVE  \E s \in S : s.rows[k] = Merge(S)[k]
<1>1. Holders(S, k) # {} /\ Merge(S)[k] = NewestHolder(S, k).rows[k]
  BY DEF Merge
<1>2. NewestHolder(S, k) \in Holders(S, k)
  BY <1>1, NewestHolderExists
<1> QED BY <1>1, <1>2 DEF Holders

\* In a file a row has the version it had, and may lose its tombstone.
LEMMA EmptiedIs ==
  /\ \A m \in MemTable : \A k \in Keys : FlushRows(m)[k] = Emptied(m[k])
  /\ \A r \in Row : /\ Emptied(r) \in Row /\ Emptied(r).ver = r.ver
                    /\ Emptied(Emptied(r)) = Emptied(r)
                    /\ Emptied(r) = r \/ (r.kind = "tombstone" /\ Emptied(r).kind = "empty")
  /\ Emptied(NoRow) = NoRow
<1>1. \A r \in Row : r # NoRow
  BY SentinelAssumption
<1>2. ASSUME NEW r \in Row
      PROVE  /\ Emptied(r) \in Row /\ Emptied(r).ver = r.ver
             /\ Emptied(r) = r \/ (r.kind = "tombstone" /\ Emptied(r).kind = "empty")
  <2>1. CASE r.kind = "tombstone"
    <3>1. Emptied(r) = [ver |-> r.ver, kind |-> "empty"]
      BY <1>1, <2>1 DEF Emptied
    <3> QED BY <2>1, <3>1 DEF Row, Kinds
  <2>2. CASE r.kind # "tombstone"
    BY <2>2 DEF Emptied
  <2> QED BY <2>1, <2>2
<1>3. \A r \in Row : r.kind # "tombstone" => Emptied(r) = r
  BY DEF Emptied
<1>4. \A r \in Row : Emptied(Emptied(r)) = Emptied(r)
  BY <1>2, <1>3
<1>5. \A m \in MemTable : \A k \in Keys : FlushRows(m)[k] = Emptied(m[k])
  BY DEF FlushRows, Emptied
<1> QED BY <1>2, <1>4, <1>5 DEF Emptied

\* The records of a log.
LEMMA LogRows ==
  ASSUME NEW log \in Seq(LogRecord)
  PROVE  /\ Len(log) \in Nat
         /\ \A i \in 1..Len(log) : /\ log[i].ckpt \in BOOLEAN /\ log[i].ver \in Nat
                                  /\ \A k \in Keys : log[i].rows[k] \in Row \cup {NoRow}
<1>1. Len(log) \in Nat /\ \A i \in 1..Len(log) : log[i] \in LogRecord
  BY LenProperties, ElementOfSeq
<1> QED BY <1>1 DEF LogRecord, MemTable

\* A call that returns has its record in the part of the log that survives, and that
\* record is the last of its keys.
LEMMA ReturnedLogged ==
  ASSUME DiskInv, LogInv, NEW w \in Writers, PutAndReturn(w)
  PROVE  /\ pending[w] # NoOp
         /\ \E i \in 1..synced :
              /\ i \in 1..Len(wal) /\ wal[i].rows = RowsOf(pending[w])
              /\ \A j \in 1..Len(wal), k \in Keys :
                   j > i /\ Names(pending[w].op, k) => wal[j].rows[k] = NoRow
<1>1. walPc[w] = "synced" /\ pending[w] # NoOp
  BY DEF PutAndReturn, PutOne, PutBatch
<1>2. PICK i \in 1..Len(wal) :
        /\ wal[i] = WriteRecord(RowsOf(pending[w])) /\ i <= synced
        /\ \A j \in 1..Len(wal), k \in Keys :
             j > i /\ Names(pending[w].op, k) => wal[j].rows[k] = NoRow
  BY <1>1 DEF LogInv, CallsInLog
<1>3. synced \in Nat /\ Len(wal) \in Nat
  BY LenProperties DEF DiskInv, DurableTypeOK
<1>4. i \in 1..synced /\ wal[i].rows = RowsOf(pending[w])
  BY <1>2, <1>3, RecordFields
<1> QED BY <1>1, <1>2, <1>4

\* With a row its form in a file is logged, and with the rows of segments those of their
\* merge.
LEMMA LoggedForms ==
  ASSUME DiskInv, NEW k \in Keys
  PROVE  /\ \A r \in Row : Logged(r, k) => Logged(Emptied(r), k)
         /\ \A c \in Compactors :
              /\ \A s \in compSet[c] : s.rows[k] # NoRow => Logged(s.rows[k], k)
              /\ Merge(compSet[c])[k] # NoRow
              => Logged(Merge(compSet[c])[k], k)
<1>0. IInv /\ wal \in Seq(LogRecord) /\ synced \in 0..Len(wal)
  BY DEF DiskInv, DurableTypeOK
<1>1. ASSUME NEW r \in Row, Logged(r, k)
      PROVE  Logged(Emptied(r), k)
  <2>1. PICK i \in 1..synced : From(r, i, k)
    BY <1>1 DEF Logged
  <2>2. i \in 1..Len(wal)
    <3>1. Len(wal) \in Nat
      BY <1>0, LogRows
    <3> QED BY <1>0, <3>1
  <2>3. wal[i].rows[k] \in Row
    <3>1. wal[i].rows[k] \in Row \cup {NoRow}
      BY <1>0, <2>2, LogRows
    <3> QED BY <2>1, <3>1 DEF From
  <2>4. From(Emptied(r), i, k)
    BY <2>1, <2>3, EmptiedIs DEF From
  <2> QED BY <2>4 DEF Logged
<1>2. ASSUME NEW c \in Compactors, Merge(compSet[c])[k] # NoRow
      PROVE  \E s \in compSet[c] : s.rows[k] = Merge(compSet[c])[k]
  <2>1. compSet[c] \subseteq Segment /\ nextSegID \in Nat /\ \A t \in compSet[c] : t.id <= nextSegID
    BY <1>0, SegmentFacts
  <2> QED BY <1>2, <2>1, MergedRow
<1> QED BY <1>1, <1>2

\* A memtable in memory has its rows logged in the form they get in a file, and so has
\* the output of a flush and of a compaction.
LEMMA OutputsLogged ==
  ASSUME DiskInv, AllLogged, NEW k \in Keys
  PROVE  /\ \A m \in MemTable : m[k] \in InMemory(Flushers, k) => Logged(FlushRows(m)[k], k)
         /\ \A f \in Flushers : flushPc[f] = "built" /\ FlushRows(Head(drained[f]))[k] # NoRow
              => Logged(FlushRows(Head(drained[f]))[k], k)
         /\ \A c \in Compactors : Merge(compSet[c])[k] # NoRow
              => Logged(Merge(compSet[c])[k], k)
<1>0. IInv /\ TypeOK
  BY DEF DiskInv, IInv
<1>1. ASSUME NEW m \in MemTable, m[k] \in InMemory(Flushers, k)
      PROVE  Logged(FlushRows(m)[k], k)
  <2>1. m[k] \in Row /\ Logged(m[k], k)
    BY <1>0, <1>1, InMemoryIs DEF AllLogged
  <2> QED BY <1>1, <2>1, EmptiedIs, LoggedForms
<1>2. ASSUME NEW f \in Flushers, flushPc[f] = "built", FlushRows(Head(drained[f]))[k] # NoRow
      PROVE  Logged(FlushRows(Head(drained[f]))[k], k)
  <2>1. drained[f] # <<>> /\ drained[f] \in Seq(MemTable)
    BY <1>0, <1>2 DEF IInv, DrainedWhileFlushing, Flushing, TypeOK
  <2>2. Head(drained[f]) \in MemTable /\ Head(drained[f])[k] \in RowsIn(drained[f], k)
    BY <2>1, RowsInQueue, HeadTailProperties
  <2>3. Head(drained[f])[k] # NoRow
    BY <1>2, <2>2, EmptiedIs
  <2>4. Head(drained[f])[k] \in InMemory(Flushers, k)
    BY <2>2, <2>3 DEF InMemory
  <2> QED BY <1>1, <2>2, <2>4
<1>3. ASSUME NEW c \in Compactors, Merge(compSet[c])[k] # NoRow
      PROVE  Logged(Merge(compSet[c])[k], k)
  <2>1. \A s \in compSet[c] : s.rows[k] # NoRow => Logged(s.rows[k], k)
    BY DEF AllLogged
  <2> QED BY <1>3, <2>1, LoggedForms
<1> QED BY <1>1, <1>2, <1>3

\* A row gets into memory, a segment or a file only after its record is synced: Put comes after
\* SyncRecord, and the rest copies or merges rows.
LEMMA StepAllLogged ==
  ASSUME DiskInv, DiskInv', LogInv, EngineSteps
  PROVE  AllLogged'
<1> SUFFICES ASSUME NEW k \in Keys
             PROVE  /\ \A r \in InMemory(Flushers, k)' : Logged(r, k)'
                    /\ \A s \in segments' : s.rows[k] # NoRow => Logged(s.rows[k], k)'
                    /\ \A c \in Compactors : \A s \in compSet'[c] :
                         s.rows[k] # NoRow => Logged(s.rows[k], k)'
                    /\ \A x \in WholeFiles(files') : x.rows[k] # NoRow => Logged(x.rows[k], k)'
                    /\ latest'[k] # NoRow => Logged(latest[k], k)'
  BY DEF AllLogged
<1>0. IInv /\ IInv' /\ TypeOK /\ AllLogged
  BY DEF DiskInv, IInv, LogInv
<1>1. \A r : Logged(r, k) => Logged(r, k)'
  BY LoggedStays
<1>2. /\ \A r \in InMemory(Flushers, k) : Logged(r, k)
      /\ \A s \in segments : s.rows[k] # NoRow => Logged(s.rows[k], k)
      /\ \A c \in Compactors : \A s \in compSet[c] : s.rows[k] # NoRow => Logged(s.rows[k], k)
      /\ \A x \in WholeFiles(files) : x.rows[k] # NoRow => Logged(x.rows[k], k)
      /\ latest[k] # NoRow => Logged(latest[k], k)
  BY <1>0 DEF AllLogged
<1>3. ASSUME NEW w \in Writers, PutAndReturn(w), RowsOf(pending[w])[k] # NoRow
      PROVE  Logged(RowsOf(pending[w])[k], k)
  BY <1>3, ReturnedLogged DEF Logged, From
<1>4. ASSUME NEW f \in Flushers, flushPc[f] = "built", FlushRows(Head(drained[f]))[k] # NoRow
      PROVE  Logged(FlushRows(Head(drained[f]))[k], k)
  BY <1>0, <1>4, OutputsLogged
<1>5. ASSUME NEW c \in Compactors, Merge(compSet[c])[k] # NoRow
      PROVE  Logged(Merge(compSet[c])[k], k)
  BY <1>0, <1>5, OutputsLogged
<1>6. ASSUME NEW r \in InMemory(Flushers, k)'
      PROVE  Logged(r, k)'
  <2>1. r # NoRow
    BY <1>6 DEF InMemory
  <2>2. \/ r \in InMemory(Flushers, k)
        \/ \E w \in Writers : PutAndReturn(w) /\ r = RowsOf(pending[w])[k]
    BY <1>0, MemorySteps
  <2> QED BY <1>1, <1>2, <1>3, <2>1, <2>2
<1>7. ASSUME NEW s \in segments', s.rows[k] # NoRow
      PROVE  Logged(s.rows[k], k)'
  <2>1. CASE s \in segments
    BY <1>1, <1>2, <1>7, <2>1
  <2>2. ASSUME NEW f \in Flushers, RegisterFlush(f), s = FlushedSegment(f)
        PROVE  Logged(s.rows[k], k)
    <3>1. flushPc[f] = "built" /\ s.rows = FlushRows(Head(drained[f]))
      BY <2>2 DEF RegisterFlush, FlushRegister, FlushedSegment
    <3> QED BY <1>4, <1>7, <3>1
  <2>3. ASSUME NEW c \in Compactors, s = CompactedSegment(c)
        PROVE  Logged(s.rows[k], k)
    <3>1. s.rows = Merge(compSet[c])
      BY <2>3 DEF CompactedSegment
    <3> QED BY <1>5, <1>7, <3>1
  <2> QED BY <1>0, <1>1, <2>1, <2>2, <2>3, SegmentSteps
<1>8. ASSUME NEW c \in Compactors, NEW s \in compSet'[c], s.rows[k] # NoRow
      PROVE  Logged(s.rows[k], k)'
  <2>1. s \in compSet[c] \/ s \in segments
    BY <1>0, SegmentSteps
  <2> QED BY <1>1, <1>2, <1>8, <2>1
<1>9. ASSUME NEW x \in WholeFiles(files'), x.rows[k] # NoRow
      PROVE  Logged(x.rows[k], k)'
  BY <1>1, <1>2, <1>4, <1>5, <1>9, FileSteps
<1>10. ASSUME latest'[k] # NoRow
       PROVE  Logged(latest[k], k)'
  <2>1. Logged(latest'[k], k)
    BY <1>0, <1>2, <1>3, <1>10, SegmentSteps
  <2>2. \A r : Logged(r, k) => \E i \in 1..synced' : /\ wal'[i].rows[k] # NoRow
                                                     /\ r \in {wal'[i].rows[k], Emptied(wal'[i].rows[k])}
    BY <1>1 DEF Logged, From
  <2> QED BY <2>1, <2>2 DEF Logged, From
<1> QED BY <1>6, <1>7, <1>8, <1>9, <1>10

\* How far the record of a call is, what becomes of the rows in doubt, and where a flush is.
LEMMA CallSteps ==
  ASSUME DiskInv, EngineSteps, NEW w \in Writers, pending[w] # NoOp, pending'[w] = pending[w]
  PROVE  \/ walPc'[w] = walPc[w]
         \/ AppendRecord(w) /\ walPc'[w] = "appended"
         \/ SyncRecord(w) /\ walPc[w] = "appended" /\ walPc'[w] = "synced" /\ synced' = Len(wal)
<1>0. TypeOK /\ walPc \in [Writers -> {"none", "appended", "synced"}]
  BY DEF DiskInv, IInv, DurableTypeOK
<1>1. ASSUME NEW v \in Writers, WriterDoes(v), v # w
      PROVE  walPc'[w] = walPc[w]
  BY <1>0, <1>1 DEF WriterDoes, Alloc, AppendRecord, SyncRecord, PutAndReturn, CallFails
<1>2. ASSUME WriterDoes(w)
      PROVE  \/ walPc'[w] = walPc[w]
             \/ AppendRecord(w) /\ walPc'[w] = "appended"
             \/ SyncRecord(w) /\ walPc[w] = "appended" /\ walPc'[w] = "synced" /\ synced' = Len(wal)
  <2>1. ~ PutAndReturn(w) /\ ~ CallFails(w)
    BY <1>0 DEF TypeOK, PutAndReturn, PutOne, PutBatch, CallFails, WriteFail
  <2> QED BY <1>0, <1>2, <2>1 DEF WriterDoes, Alloc, AppendRecord, SyncRecord
<1>3. ASSUME NEW f \in Flushers, FlusherDoes(f)
      PROVE  walPc' = walPc
  BY <1>3 DEF FlusherDoes, BeginFlush, BuildFlush, RegisterFlush, FailFlush, AppendCheckpoint,
     SyncCheckpoint, durableVars
<1>4. ASSUME NEW c \in Compactors, CompactorDoes(c)
      PROVE  walPc' = walPc
  BY <1>4 DEF CompactorDoes, BeginCompact, BuildCompact, InstallCompact, FailCompact, durableVars
<1> QED BY <1>1, <1>2, <1>3, <1>4 DEF EngineSteps

\* The record of a call puts its rows in doubt; its return takes them out.
LEMMA DoubtSteps ==
  ASSUME DiskInv, EngineSteps, NEW k \in Keys
  PROVE  /\ \A r \in maybe[k] : \/ r \in maybe'[k]
                                \/ \E w \in Writers : /\ PutAndReturn(w) /\ r # NoRow
                                                      /\ r = RowsOf(pending[w])[k]
         /\ \A w \in Writers : AppendRecord(w) /\ RowsOf(pending[w])[k] # NoRow
              => RowsOf(pending[w])[k] \in maybe'[k]
<1>1. ASSUME NEW w \in Writers, WriterDoes(w), ~ PutAndReturn(w), ~ AppendRecord(w)
      PROVE  maybe' = maybe
  BY <1>1 DEF WriterDoes, Alloc, SyncRecord, CallFails
<1>2. ASSUME NEW w \in Writers, AppendRecord(w)
      PROVE  maybe'[k] = maybe[k] \cup RowAsSet(RowsOf(pending[w]), k)
  BY <1>2 DEF AppendRecord
<1>3. ASSUME NEW w \in Writers, PutAndReturn(w)
      PROVE  maybe'[k] = maybe[k] \ RowAsSet(RowsOf(pending[w]), k)
  BY <1>3 DEF PutAndReturn
<1>4. ASSUME NEW f \in Flushers, FlusherDoes(f)
      PROVE  maybe' = maybe
  BY <1>4 DEF FlusherDoes, BeginFlush, BuildFlush, RegisterFlush, FailFlush, AppendCheckpoint,
     SyncCheckpoint, durableVars
<1>5. ASSUME NEW c \in Compactors, CompactorDoes(c)
      PROVE  maybe' = maybe
  BY <1>5 DEF CompactorDoes, BeginCompact, BuildCompact, InstallCompact, FailCompact, durableVars
<1>6. \A r \in maybe[k] : \/ r \in maybe'[k]
                          \/ \E w \in Writers : /\ PutAndReturn(w) /\ r # NoRow
                                                /\ r = RowsOf(pending[w])[k]
  BY <1>1, <1>2, <1>3, <1>4, <1>5 DEF EngineSteps, RowAsSet
<1>7. \A w \in Writers : AppendRecord(w) /\ RowsOf(pending[w])[k] # NoRow
        => RowsOf(pending[w])[k] \in maybe'[k]
  BY <1>2 DEF RowAsSet
<1> QED BY <1>6, <1>7

\* A flush keeps its version from its beginning, and its ID from when it is built.
LEMMA FlushSteps ==
  ASSUME IInv, EngineSteps, NEW f \in Flushers
  PROVE  /\ flushPc'[f] # "idle" =>
              \/ BeginFlush(f)
              \/ /\ flushPc[f] # "idle" /\ flushVer'[f] = flushVer[f]
                 /\ ~ BeginFlush(f) /\ ~ FailFlush(f)
         /\ flushPc'[f] = "built" =>
              \/ flushPc[f] = "built" /\ flushSeg'[f] = flushSeg[f]
              \/ BuildFlush(f)
<1>0. /\ flushPc \in [Flushers -> {"idle", "drained", "built", "checkpoint"}]
      /\ flushVer \in [Flushers -> Nat] /\ flushSeg \in [Flushers -> Nat]
  BY DEF IInv, TypeOK
<1>1. ASSUME flushPc'[f] = flushPc[f], flushVer'[f] = flushVer[f], flushSeg'[f] = flushSeg[f]
      PROVE  /\ flushPc'[f] # "idle" =>
                  flushPc[f] # "idle" /\ ~ BeginFlush(f) /\ ~ FailFlush(f)
             /\ flushPc'[f] = "built" => flushPc[f] = "built"
  BY <1>0, <1>1 DEF BeginFlush, FlushBegin, FailFlush, FlushFail
<1>2. ASSUME NEW w \in Writers, WriterDoes(w)
      PROVE  UNCHANGED <<flushPc, flushVer, flushSeg>>
  BY <1>2 DEF WriterDoes, Alloc, AllocVersion, AppendRecord, SyncRecord, PutAndReturn, PutOne,
     PutBatch, CallFails, WriteFail, vars, flushVars
<1>3. ASSUME NEW c \in Compactors, CompactorDoes(c)
      PROVE  UNCHANGED <<flushPc, flushVer, flushSeg>>
  BY <1>3 DEF CompactorDoes, BeginCompact, CompactBegin, BuildCompact, CompactBuild,
     InstallCompact, CompactInstall, FailCompact, CompactFail, flushVars
<1>4. ASSUME NEW g \in Flushers, FlusherDoes(g), g # f
      PROVE  flushPc'[f] = flushPc[f] /\ flushVer'[f] = flushVer[f] /\ flushSeg'[f] = flushSeg[f]
  BY <1>0, <1>4 DEF FlusherDoes, BeginFlush, FlushBegin, BuildFlush, FlushBuild, RegisterFlush,
     FlushRegister, FailFlush, FlushFail, AppendCheckpoint, FlushCheckpoint, SyncCheckpoint,
     vars, flushVars
<1>5. ASSUME FlusherDoes(f)
      PROVE  /\ flushPc'[f] # "idle" =>
                  \/ BeginFlush(f)
                  \/ /\ flushPc[f] # "idle" /\ flushVer'[f] = flushVer[f]
                     /\ ~ BeginFlush(f) /\ ~ FailFlush(f)
             /\ flushPc'[f] = "built" =>
                  \/ flushPc[f] = "built" /\ flushSeg'[f] = flushSeg[f]
                  \/ BuildFlush(f)
  <2>1. CASE BeginFlush(f)
    BY <1>0, <2>1 DEF BeginFlush, FlushBegin
  <2>2. CASE BuildFlush(f)
    BY <1>0, <2>2 DEF BuildFlush, FlushBuild, BeginFlush, FlushBegin, FailFlush, FlushFail
  <2>3. CASE RegisterFlush(f)
    BY <1>0, <2>3 DEF RegisterFlush, FlushRegister, BeginFlush, FlushBegin, FailFlush, FlushFail
  <2>4. CASE FailFlush(f)
    BY <1>0, <2>4 DEF FailFlush, FlushFail
  <2>5. CASE AppendCheckpoint(f)
    BY <1>0, <2>5 DEF AppendCheckpoint, FlushCheckpoint
  <2>6. CASE SyncCheckpoint(f)
    BY <1>1, <2>6 DEF SyncCheckpoint, vars, flushVars
  <2> QED BY <1>5, <2>1, <2>2, <2>3, <2>4, <2>5, <2>6 DEF FlusherDoes
<1> QED BY <1>1, <1>2, <1>3, <1>4, <1>5 DEF EngineSteps

\* The row that a new record has for a key: that of the call that names it.
LEMMA NewRow ==
  ASSUME NoNulls, DiskInv, CallsNumbered, LogInv, EngineSteps, NEW i \in 1..Len(wal'),
         i \notin 1..Len(wal), NEW k \in Keys, wal'[i].rows[k] # NoRow
  PROVE  \E w \in Writers : /\ AppendRecord(w) /\ pending[w] # NoOp /\ walPc[w] = "none"
                            /\ Names(pending[w].op, k) /\ wal'[i].rows[k] = RowsOf(pending[w])[k]
                            /\ wal'[i].rows[k].kind \in {"value", "tombstone"}
                            /\ pending[w].base <= wal'[i].rows[k].ver
                            /\ wal'[i].rows[k].ver <= nextVersion
<1>0. TypeOK /\ CallsApart
  BY DEF DiskInv, IInv, LogInv
<1>1. PICK w \in Writers : AppendRecord(w) /\ wal'[i].rows = RowsOf(pending[w])
  BY LogSteps
<1>2. pending[w] # NoOp /\ walPc[w] = "none"
  BY <1>1 DEF AppendRecord
<1>3. Names(pending[w].op, k)
  BY <1>0, <1>1, <1>2, CallRow
<1> QED BY <1>0, <1>1, <1>2, <1>3, CallRow

\* An appended record has the rows of its call, or the version of a flush.
LEMMA StepLogShaped ==
  ASSUME NoNulls, DiskInv, DiskInv', CallsNumbered, LogInv, AboveFlushes, EngineSteps
  PROVE  LogShaped'
<1>0. IInv /\ IInv' /\ LogShaped /\ mode = "up" /\ mode' = "up"
  BY StepsOfEngine DEF DiskInv, LogInv
<1>1. nextVersion \in Nat /\ nextVersion' \in Nat /\ nextVersion <= nextVersion'
  BY <1>0, VersionSteps
<1>2. SUFFICES ASSUME NEW i \in 1..Len(wal')
               PROVE  /\ \A k \in Keys : wal'[i].rows[k] # NoRow =>
                           /\ wal'[i].rows[k].kind \in {"value", "tombstone"}
                           /\ wal'[i].rows[k].ver <= nextVersion'
                      /\ wal'[i].ckpt => wal'[i].ver <= nextVersion'
  BY <1>0 DEF LogShaped
<1>3. wal \in Seq(LogRecord) /\ wal' \in Seq(LogRecord) /\ wal'[i].ver \in Nat
  BY LogSteps, LogRows
<1>4. \A k \in Keys : wal'[i].rows[k] # NoRow => wal'[i].rows[k].ver \in Nat
  <2> TAKE k \in Keys
  <2>1. wal'[i].rows[k] \in Row \cup {NoRow}
    BY <1>3, LogRows
  <2> QED BY <2>1 DEF Row
<1>5. CASE i \in 1..Len(wal)
  <2>1. wal'[i] = wal[i]
    BY <1>5, LogSteps
  <2>2. /\ \A k \in Keys : wal[i].rows[k] # NoRow =>
             /\ wal[i].rows[k].kind \in {"value", "tombstone"}
             /\ wal[i].rows[k].ver <= nextVersion
        /\ wal[i].ckpt => wal[i].ver <= nextVersion
    BY <1>0, <1>5 DEF LogShaped
  <2> QED BY <1>1, <1>3, <1>4, <2>1, <2>2
<1>6. CASE i \notin 1..Len(wal)
  <2>1. ASSUME NEW k \in Keys, wal'[i].rows[k] # NoRow
        PROVE  /\ wal'[i].rows[k].kind \in {"value", "tombstone"}
               /\ wal'[i].rows[k].ver <= nextVersion
    BY <1>6, <2>1, NewRow
  <2>2. wal'[i].ckpt => wal'[i].ver <= nextVersion
    <3>1. CASE \E w \in Writers : AppendRecord(w) /\ ~ wal'[i].ckpt
      BY <3>1
    <3>2. ASSUME NEW f \in Flushers, AppendCheckpoint(f), wal'[i].ver = flushVer[f]
          PROVE  wal'[i].ver <= nextVersion
      <4>1. flushPc[f] # "idle"
        BY <3>2 DEF AppendCheckpoint, FlushCheckpoint
      <4> QED BY <3>2, <4>1 DEF AboveFlushes
    <3> QED BY <1>6, <3>1, <3>2, LogSteps
  <2> QED BY <1>1, <1>3, <1>4, <2>1, <2>2
<1> QED BY <1>5, <1>6

\* A new call has versions above those of the others; it shares no key while clashed is FALSE.
LEMMA StepCallsApart ==
  ASSUME DiskInv, DiskInv', LogInv, EngineSteps, ~ clashed'
  PROVE  CallsApart'
<1>0. IInv /\ IInv' /\ TypeOK /\ TypeOK' /\ CallsApart
  BY DEF DiskInv, IInv, LogInv
<1>1. nextVersion \in Nat /\ nextVersion' \in Nat /\ nextVersion <= nextVersion'
  BY <1>0, VersionSteps
<1>2. \A w \in Writers : pending[w] # NoOp =>
        pending[w].base \in Nat /\ Len(pending[w].op.keys) \in Nat
  BY <1>0, LenProperties DEF TypeOK, PendingCall, OpType
<1>3. \A w \in Writers : pending'[w] # NoOp => Len(pending'[w].op.keys) \in Nat
  BY <1>0, LenProperties DEF TypeOK, PendingCall, OpType
<1>4. ASSUME NEW w \in Writers, pending'[w] # NoOp
      PROVE  pending'[w].base + Len(pending'[w].op.keys) <= nextVersion' + 1
  <2>1. CASE pending'[w] = pending[w]
    BY <1>0, <1>1, <1>2, <1>4, <2>1 DEF CallsApart
  <2>2. CASE /\ pending'[w].base = nextVersion + 1
             /\ nextVersion' = nextVersion + Len(pending'[w].op.keys)
    <3>1. PICK n \in Nat : n = Len(pending'[w].op.keys)
      BY <1>3, <1>4
    <3>2. pending'[w].base = nextVersion + 1 /\ nextVersion' = nextVersion + n
      BY <2>2, <3>1
    <3>3. pending'[w].base + n <= nextVersion' + 1
      BY <1>1, <3>2
    <3> QED BY <3>1, <3>3
  <2> QED BY <1>0, <1>4, <2>1, <2>2, PendingSteps
<1>5. ASSUME NEW v \in Writers, NEW w \in Writers, v # w, pending'[v] # NoOp, pending'[w] # NoOp,
             NEW op \in Calls[v], Alloc(v, op), NEW k \in Keys
      PROVE  ~ (Names(pending'[v].op, k) /\ Names(pending'[w].op, k))
  <2>1. pending'[v].op = op /\ pending'[w] = pending[w]
    BY <1>0, <1>5 DEF Alloc, AllocVersion, TypeOK
  <2> QED BY <1>5, <2>1 DEF Alloc
<1>6. ASSUME NEW v \in Writers, NEW w \in Writers, v # w, pending'[v] # NoOp, pending'[w] # NoOp,
             NEW k \in Keys
      PROVE  ~ (Names(pending'[v].op, k) /\ Names(pending'[w].op, k))
  <2>1. CASE \E op \in Calls[v] : Alloc(v, op)
    BY <1>5, <1>6, <2>1
  <2>2. CASE \E op \in Calls[w] : Alloc(w, op)
    BY <1>5, <1>6, <2>2
  <2>3. CASE pending'[v] = pending[v] /\ pending'[w] = pending[w]
    BY <1>0, <1>6, <2>3 DEF CallsApart
  <2> QED BY <1>0, <1>6, <2>1, <2>2, <2>3, PendingSteps
<1> QED BY <1>4, <1>6 DEF CallsApart, Names

\* The record that a call appends is newer than those of its keys.
LEMMA StepVersionsRise ==
  ASSUME NoNulls, DiskInv, DiskInv', CallsNumbered, LogInv, EngineSteps
  PROVE  VersionsRise'
<1> SUFFICES ASSUME NEW k \in Keys, NEW i \in 1..Len(wal'), NEW j \in 1..Len(wal'), i < j,
                    wal'[i].rows[k] # NoRow, wal'[j].rows[k] # NoRow
             PROVE  wal'[i].rows[k].ver < wal'[j].rows[k].ver
  BY DEF VersionsRise
<1>0. VersionsRise /\ CallsInLog
  BY DEF LogInv
<1>1. /\ Len(wal) \in Nat /\ Len(wal') \in Nat /\ wal' \in Seq(LogRecord)
      /\ \A m \in 1..Len(wal) : wal'[m] = wal[m]
      /\ \A m \in 1..Len(wal') : m \in 1..Len(wal) \/ m = Len(wal) + 1
  BY LogSteps
<1>2. wal'[i].rows[k].ver \in Nat /\ wal'[j].rows[k].ver \in Nat
  <2>1. wal'[i].rows[k] \in Row \cup {NoRow} /\ wal'[j].rows[k] \in Row \cup {NoRow}
    BY <1>1, LogRows
  <2> QED BY <2>1 DEF Row
<1>3. i \in 1..Len(wal) /\ wal'[i] = wal[i]
  BY <1>1
<1>4. CASE j \in 1..Len(wal)
  BY <1>0, <1>1, <1>3, <1>4 DEF VersionsRise
<1>5. CASE j \notin 1..Len(wal)
  <2>1. PICK w \in Writers : /\ pending[w] # NoOp /\ walPc[w] = "none" /\ Names(pending[w].op, k)
                             /\ pending[w].base <= wal'[j].rows[k].ver
    BY <1>5, NewRow
  <2>2. wal[i].rows[k].ver < pending[w].base
    BY <1>0, <1>3, <2>1 DEF CallsInLog
  <2>3. pending[w].base \in Nat
    BY <2>1 DEF DiskInv, IInv, TypeOK, PendingCall
  <2> QED BY <1>2, <1>3, <2>1, <2>2, <2>3
<1> QED BY <1>4, <1>5

\* The record of a call that is under way, as the log grows by the records of others.
LEMMA StepCallsInLog ==
  ASSUME NoNulls, DiskInv, DiskInv', CallsNumbered, LogInv, EngineSteps
  PROVE  CallsInLog'
<1> SUFFICES ASSUME NEW w \in Writers, pending'[w] # NoOp
             PROVE  IF walPc'[w] = "none"
                    THEN \A i \in 1..Len(wal'), k \in Keys :
                           Names(pending'[w].op, k) /\ wal'[i].rows[k] # NoRow
                             => wal'[i].rows[k].ver < pending'[w].base
                    ELSE \E i \in 1..Len(wal') :
                           /\ wal'[i] = WriteRecord(RowsOf(pending'[w]))
                           /\ walPc'[w] = "synced" => i <= synced'
                           /\ \A j \in 1..Len(wal'), k \in Keys :
                                j > i /\ Names(pending'[w].op, k) => wal'[j].rows[k] = NoRow
  <2>1. \A w \in Writers : WriteRecord(RowsOf(pending[w]))' = WriteRecord(RowsOf(pending'[w]))
    BY DEF WriteRecord, RowsOf, RowsWith, LastWith
  <2> QED BY <2>1 DEF CallsInLog, Names, RowsWith
<1>0. IInv /\ TypeOK /\ LogShaped /\ CallsApart /\ CallsInLog /\ mode = "up"
  BY StepsOfEngine DEF DiskInv, IInv, LogInv
<1>1. /\ wal \in Seq(LogRecord) /\ wal' \in Seq(LogRecord)
      /\ Len(wal) \in Nat /\ Len(wal') \in Nat
      /\ synced \in 0..Len(wal) /\ synced' \in 0..Len(wal') /\ synced <= synced'
      /\ \A i \in 1..Len(wal) : i \in 1..Len(wal') /\ wal'[i] = wal[i]
      /\ \A i \in 1..Len(wal') : i \in 1..Len(wal) \/ i = Len(wal) + 1
  BY LogSteps
<1>2. CASE pending[w] = NoOp /\ pending'[w].base = nextVersion + 1 /\ \E op \in Calls[w] : Alloc(w, op)
  <2>1. walPc'[w] = "none" /\ wal' = wal
    BY <1>2 DEF Alloc, diskVars, DiskInv, RecordsOfCalls
  <2>2. ASSUME NEW i \in 1..Len(wal), NEW k \in Keys, wal[i].rows[k] # NoRow
        PROVE  wal[i].rows[k].ver < pending'[w].base
    <3>1. wal[i].rows[k].ver <= nextVersion
      BY <1>0, <2>2 DEF LogShaped
    <3>2. wal[i].rows[k] \in Row /\ nextVersion \in Nat
      BY <1>0, <1>1, <2>2, LogRows DEF TypeOK
    <3> QED BY <1>2, <3>1, <3>2 DEF Row
  <2> QED BY <2>1, <2>2
<1>3. ASSUME pending'[w] = pending[w], ~ AppendRecord(w), NEW i \in 1..Len(wal'), NEW k \in Keys,
             Names(pending[w].op, k), wal'[i].rows[k] # NoRow
      PROVE  i \in 1..Len(wal)
  <2> SUFFICES ASSUME i \notin 1..Len(wal) PROVE FALSE
    OBVIOUS
  <2>1. PICK v \in Writers : AppendRecord(v) /\ pending[v] # NoOp /\ Names(pending[v].op, k)
    BY <1>3, NewRow
  <2> QED BY <1>0, <1>3, <2>1 DEF CallsApart
<1>4. CASE pending'[w] = pending[w] /\ AppendRecord(w)
  <2>1. /\ wal' = Append(wal, WriteRecord(RowsOf(pending[w]))) /\ walPc' = [walPc EXCEPT ![w] = "appended"]
        /\ walPc \in [Writers -> {"none", "appended", "synced"}]
    BY <1>4 DEF AppendRecord, DiskInv, DurableTypeOK
  <2>2. Len(wal') = Len(wal) + 1 /\ wal'[Len(wal) + 1] = WriteRecord(RowsOf(pending[w]))
    <3>1. WriteRecord(RowsOf(pending[w])) \in LogRecord
      BY <1>0, <1>4, RowsOfType, RecordTypes DEF TypeOK
    <3> QED BY <1>1, <2>1, <3>1, AppendProperties
  <2>3. Len(wal) + 1 \in 1..Len(wal') /\ \A j \in 1..Len(wal') : ~ (j > Len(wal) + 1)
    BY <1>1, <2>2
  <2>4. walPc'[w] = "appended"
    BY <2>1
  <2> QED BY <1>4, <2>2, <2>3, <2>4
<1>5. CASE pending'[w] = pending[w] /\ ~ AppendRecord(w)
  <2>1. \/ walPc'[w] = walPc[w]
        \/ walPc[w] = "appended" /\ walPc'[w] = "synced" /\ synced' = Len(wal)
    BY <1>5, CallSteps
  <2>2. CASE walPc[w] = "none"
    <3>1. walPc'[w] = "none"
      BY <2>1, <2>2
    <3>2. ASSUME NEW i \in 1..Len(wal'), NEW k \in Keys, Names(pending[w].op, k),
                 wal'[i].rows[k] # NoRow
          PROVE  wal'[i].rows[k].ver < pending[w].base
      <4>1. i \in 1..Len(wal) /\ wal'[i] = wal[i]
        BY <1>1, <1>3, <1>5, <3>2
      <4> QED BY <1>0, <1>5, <2>2, <3>2, <4>1 DEF CallsInLog
    <3> QED BY <1>5, <3>1, <3>2
  <2>3. CASE walPc[w] # "none"
    <3>1. walPc'[w] # "none"
      BY <2>1, <2>3
    <3>2. PICK i \in 1..Len(wal) :
            /\ wal[i] = WriteRecord(RowsOf(pending[w]))
            /\ walPc[w] = "synced" => i <= synced
            /\ \A j \in 1..Len(wal), k \in Keys :
                 j > i /\ Names(pending[w].op, k) => wal[j].rows[k] = NoRow
      BY <1>0, <1>5, <2>3 DEF CallsInLog
    <3>3. i \in 1..Len(wal') /\ wal'[i] = WriteRecord(RowsOf(pending[w]))
      BY <1>1, <3>2
    <3>4. walPc'[w] = "synced" => i <= synced'
      BY <1>1, <2>1, <3>2
    <3>5. ASSUME NEW j \in 1..Len(wal'), NEW k \in Keys, j > i, Names(pending[w].op, k)
          PROVE  wal'[j].rows[k] = NoRow
      <4> SUFFICES ASSUME wal'[j].rows[k] # NoRow PROVE FALSE
        OBVIOUS
      <4>1. j \in 1..Len(wal) /\ wal'[j] = wal[j]
        BY <1>1, <1>3, <1>5, <3>5
      <4> QED BY <3>2, <3>5, <4>1
    <3> QED BY <1>5, <3>1, <3>3, <3>4, <3>5
  <2> QED BY <2>2, <2>3
<1> QED BY <1>0, <1>2, <1>4, <1>5, PendingSteps

\* Every step of a running engine keeps the log in order.
LEMMA StepLogInv ==
  ASSUME NoNulls, DiskInv, DiskInv', CallsNumbered, LogInv, AboveFlushes, EngineSteps, ~ clashed'
  PROVE  LogInv'
BY StepAllLogged, StepLogShaped, StepCallsApart, StepVersionsRise, StepCallsInLog DEF LogInv

-----------------------------------------------------------------------------
(* The log and what it covers, step by step *)

\* A checkpoint only covers more; a row leaves the doubt when latest takes it.
LEMMA StepInDoubt ==
  ASSUME DiskInv, DiskInv', LogInv, InDoubt, EngineSteps
  PROVE  InDoubt'
<1> SUFFICES ASSUME NEW k \in Keys, NEW i \in 1..Len(wal'), wal'[i].rows[k] # NoRow,
                    wal'[i].rows[k].ver > FlushedForSure', wal'[i].rows[k] \notin maybe'[k]
             PROVE  \E j \in i..synced' : /\ wal'[j].rows[k] # NoRow
                                          /\ latest'[k] \in {wal'[j].rows[k], Emptied(wal'[j].rows[k])}
  BY DEF InDoubt, From, Emptied
<1>0. IInv /\ TypeOK
  BY DEF DiskInv, IInv
<1>1. /\ wal \in Seq(LogRecord) /\ wal' \in Seq(LogRecord)
      /\ Len(wal) \in Nat /\ Len(wal') \in Nat
      /\ synced \in 0..Len(wal) /\ synced' \in 0..Len(wal') /\ synced <= synced'
      /\ \A j \in 1..Len(wal) : j \in 1..Len(wal') /\ wal'[j] = wal[j]
  BY LogSteps
<1>2. i \in 1..Len(wal)
  <2> SUFFICES ASSUME i \notin 1..Len(wal) PROVE FALSE
    OBVIOUS
  <2>1. \E w \in Writers : AppendRecord(w) /\ wal'[i].rows = RowsOf(pending[w])
    BY LogSteps
  <2> QED BY <2>1, DoubtSteps
<1>3. wal'[i] = wal[i]
  BY <1>1, <1>2
<1>4. ASSUME NEW w \in Writers, PutAndReturn(w), RowsOf(pending[w])[k] # NoRow
      PROVE  \E j \in i..synced' : /\ wal'[j].rows[k] # NoRow
                                   /\ latest'[k] \in {wal'[j].rows[k], Emptied(wal'[j].rows[k])}
  <2>1. latest'[k] = RowsOf(pending[w])[k]
    BY <1>4 DEF PutAndReturn, PutOne, PutBatch, Overwrite
  <2>2. PICK m \in 1..synced :
          /\ m \in 1..Len(wal) /\ wal[m].rows = RowsOf(pending[w])
          /\ \A j \in 1..Len(wal), l \in Keys :
               j > m /\ Names(pending[w].op, l) => wal[j].rows[l] = NoRow
    BY <1>4, ReturnedLogged
  <2>3. Names(pending[w].op, k)
    BY <1>4 DEF RowsOf, Names
  <2>4. ~ (i > m)
    BY <1>2, <1>3, <2>2, <2>3
  <2>5. m \in i..synced'
    BY <1>1, <1>2, <2>2, <2>4
  <2>6. wal'[m].rows[k] = RowsOf(pending[w])[k]
    BY <1>1, <2>2
  <2> QED BY <1>4, <2>1, <2>5, <2>6
<1>5. CASE wal[i].rows[k] \in maybe[k]
  BY <1>3, <1>4, <1>5, DoubtSteps
<1>6. CASE \E j \in i..synced : From(latest[k], j, k)
  <2>1. PICK j \in i..synced : From(latest[k], j, k)
    BY <1>6
  <2>2. j \in 1..Len(wal) /\ j \in i..synced'
    BY <1>1, <1>2
  <2>3. wal'[j] = wal[j]
    BY <1>1, <2>2
  <2>4. CASE latest'[k] = latest[k]
    BY <2>1, <2>2, <2>3, <2>4 DEF From
  <2> QED BY <1>0, <1>4, <2>4, SegmentSteps
<1>7. wal[i].rows[k].ver > FlushedForSure
  <2>1. FlushedForSure \in Nat /\ FlushedForSure' \in Nat /\ FlushedForSure <= FlushedForSure'
    BY LoggedStays
  <2>2. wal[i].rows[k] \in Row
    <3>1. wal[i].rows[k] \in Row \cup {NoRow}
      BY <1>1, <1>2, LogRows
    <3> QED BY <1>3, <3>1
  <2>3. wal[i].rows[k].ver > FlushedForSure'
    BY <1>3
  <2> HIDE DEF FlushedForSure
  <2> QED BY <2>1, <2>2, <2>3 DEF Row
<1> QED BY <1>2, <1>3, <1>5, <1>6, <1>7 DEF InDoubt

\* The versions of a call that returns are above those below all calls under way.
LEMMA ReturnedAbove ==
  ASSUME NoNulls, DiskInv, CallsNumbered, LogInv, NEW w \in Writers, PutAndReturn(w),
         NEW k \in Keys, RowsOf(pending[w])[k] # NoRow, NEW v \in Nat,
         \A u \in Writers : pending[u] # NoOp => pending[u].base > v
  PROVE  RowsOf(pending[w])[k].ver > v
<1>1. pending[w] # NoOp /\ TypeOK /\ CallsApart /\ Names(pending[w].op, k)
  BY DEF PutAndReturn, PutOne, PutBatch, DiskInv, IInv, LogInv, RowsOf, Names
<1>2. /\ pending[w].base \in Nat /\ pending[w].base <= RowsOf(pending[w])[k].ver
      /\ RowsOf(pending[w])[k] \in Row
  BY <1>1, CallRow
<1>3. RowsOf(pending[w])[k].ver \in Nat
  BY <1>2 DEF Row
<1> QED BY <1>1, <1>2, <1>3

\* What a checkpoint covers has left the memory: its flush has registered all it drained, and no
\* call was overtaken.
LEMMA StepAboveCheckpoints ==
  ASSUME NoNulls, DiskInv, DiskInv', CallsNumbered, LogInv, AboveCheckpoints, AboveFlushes,
         EngineSteps
  PROVE  AboveCheckpoints'
<1>0. IInv /\ IInv' /\ TypeOK /\ LogShaped /\ mode = "up"
  BY StepsOfEngine DEF DiskInv, IInv, LogInv
<1>1. Flushed \in Nat /\ Flushed' \in Nat
  BY FlushedSteps
<1>2. ASSUME NEW f \in Flushers, AppendCheckpoint(f)
      PROVE  /\ flushVer[f] \in Nat /\ flushVer[f] <= nextVersion
             /\ \A w \in Writers : pending[w] # NoOp => pending[w].base > flushVer[f]
             /\ \A k \in Keys : \A r \in InMemory(Flushers, k) : r.ver > flushVer[f]
  <2>1. flushPc[f] = "checkpoint"
    BY <1>2 DEF AppendCheckpoint, FlushCheckpoint
  <2>2. drained[f] = <<>>
    BY <1>0, <2>1 DEF IInv, DrainedWhileFlushing, Flushing
  <2>3. ASSUME NEW k \in Keys, NEW r \in InMemory(Flushers, k)
        PROVE  r \in InMemory(Flushers \ {f}, k)
    <3>1. RowsIn(drained[f], k) = {}
      BY <2>2 DEF RowsIn
    <3> QED BY <2>3, <3>1 DEF InMemory
  <2> QED BY <1>0, <2>1, <2>3 DEF AboveFlushes, TypeOK
<1>3. ASSUME NEW w \in Writers, pending'[w] # NoOp
      PROVE  pending'[w].base > Flushed'
  <2>1. CASE pending'[w] = pending[w]
    BY <1>2, <1>3, <2>1, FlushedSteps DEF AboveCheckpoints
  <2>2. CASE pending'[w].base = nextVersion + 1
    <3>1. nextVersion \in Nat
      BY <1>0 DEF TypeOK
    <3>2. Flushed <= nextVersion
      <4>1. \/ Flushed = 0
            \/ \E i \in 1..Len(wal) : wal[i].ckpt /\ wal[i].ver = Flushed
        BY LastFlushedIs DEF DiskInv, DurableTypeOK, Flushed
      <4> QED BY <1>0, <3>1, <4>1 DEF LogShaped
    <3>3. PICK v \in Nat : v = Flushed'
      BY <1>1
    <3>4. v <= nextVersion
      BY <1>2, <3>2, <3>3, FlushedSteps
    <3>5. nextVersion + 1 > v
      BY <3>1, <3>4
    <3> QED BY <2>2, <3>3, <3>5
  <2> QED BY <1>0, <1>3, <2>1, <2>2, PendingSteps
<1>4. ASSUME NEW k \in Keys, NEW r \in InMemory(Flushers, k)'
      PROVE  r.ver > Flushed'
  <2>1. r # NoRow
    BY <1>4 DEF InMemory
  <2>2. CASE r \in InMemory(Flushers, k)
    BY <1>2, <2>2, FlushedSteps DEF AboveCheckpoints
  <2>3. ASSUME NEW w \in Writers, PutAndReturn(w), r = RowsOf(pending[w])[k]
        PROVE  r.ver > Flushed'
    <3>1. PICK v \in Nat : v = Flushed'
      BY <1>1
    <3>2. \A u \in Writers : pending[u] # NoOp => pending[u].base > v
      BY <1>2, <3>1, FlushedSteps DEF AboveCheckpoints
    <3> QED BY <2>1, <2>3, <3>1, <3>2, ReturnedAbove
  <2> QED BY <1>0, <1>4, <2>2, <2>3, MemorySteps
<1> QED BY <1>3, <1>4 DEF AboveCheckpoints

\* The version of a flush is that of the counter when it drained, so later rows are above it.
LEMMA StepAboveFlushes ==
  ASSUME NoNulls, DiskInv, DiskInv', CallsNumbered, LogInv, AboveFlushes, EngineSteps,
         ~ raced', ~ overtaken'
  PROVE  AboveFlushes'
<1> SUFFICES ASSUME NEW f \in Flushers, flushPc'[f] # "idle"
             PROVE  /\ flushVer'[f] <= nextVersion'
                    /\ \A w \in Writers : pending'[w] # NoOp => pending'[w].base > flushVer'[f]
                    /\ \A k \in Keys : \A r \in InMemory(Flushers \ {f}, k)' : r.ver > flushVer'[f]
  BY DEF AboveFlushes
<1>0. IInv /\ IInv' /\ TypeOK
  BY DEF DiskInv, IInv
<1>1. nextVersion \in Nat /\ nextVersion' \in Nat /\ nextVersion <= nextVersion'
  BY <1>0, VersionSteps
<1>2. CASE BeginFlush(f)
  <2>1. /\ active' = EmptyMem /\ immutable' = <<>> /\ pending' = pending
        /\ drained' = [drained EXCEPT ![f] = Drain]
        /\ flushVer' = [flushVer EXCEPT ![f] = IF nextVersion > 0 THEN nextVersion - 1 ELSE 0]
        /\ nextVersion' = nextVersion
        /\ \A g \in Flushers \ {f} : ~ Flushing(g)
        /\ \A w \in Writers : pending[w] # NoOp => ~ (pending[w].base <= flushVer'[f])
    BY <1>2 DEF BeginFlush, FlushBegin
  <2>2. flushVer'[f] = IF nextVersion > 0 THEN nextVersion - 1 ELSE 0
    BY <1>0, <2>1 DEF TypeOK
  <2>3. \A w \in Writers : pending[w] # NoOp => pending[w].base \in Nat
    BY <1>0 DEF TypeOK, PendingCall
  <2>4. PICK v \in Nat : v = flushVer'[f] /\ v <= nextVersion
    BY <1>1, <2>2
  <2>5. \A w \in Writers : pending[w] # NoOp => pending[w].base > v
    BY <2>1, <2>3, <2>4
  <2>6. ASSUME NEW k \in Keys PROVE InMemory(Flushers \ {f}, k)' = {}
    <3>1. active'[k] = NoRow /\ RowsIn(immutable', k) = {}
      BY <2>1 DEF EmptyMem, RowsIn
    <3>2. \A g \in Flushers \ {f} : drained'[g] = <<>>
      BY <1>0, <2>1 DEF IInv, DrainedWhileFlushing, TypeOK
    <3>3. \A g \in Flushers \ {f} : RowsIn(drained'[g], k) = {}
      BY <3>2 DEF RowsIn
    <3> QED BY <3>1, <3>3 DEF InMemory, RowsIn
  <2> QED BY <2>1, <2>4, <2>5, <2>6
<1>3. CASE flushPc[f] # "idle" /\ flushVer'[f] = flushVer[f] /\ ~ BeginFlush(f) /\ ~ FailFlush(f)
  <2>1. /\ flushVer[f] \in Nat /\ flushVer[f] <= nextVersion
        /\ \A w \in Writers : pending[w] # NoOp => pending[w].base > flushVer[f]
        /\ \A k \in Keys : \A r \in InMemory(Flushers \ {f}, k) : r.ver > flushVer[f]
    BY <1>0, <1>3 DEF AboveFlushes, TypeOK
  <2>2. flushVer[f] <= nextVersion'
    BY <1>1, <2>1
  <2>3. ASSUME NEW w \in Writers, pending'[w] # NoOp
        PROVE  pending'[w].base > flushVer[f]
    <3>1. CASE pending'[w] = pending[w]
      BY <2>1, <2>3, <3>1
    <3>2. CASE pending'[w].base = nextVersion + 1
      <4>1. nextVersion + 1 > flushVer[f]
        BY <1>1, <2>1
      <4> QED BY <3>2, <4>1
    <3> QED BY <1>0, <2>3, <3>1, <3>2, PendingSteps
  <2>4. ASSUME NEW k \in Keys, NEW r \in InMemory(Flushers \ {f}, k)'
        PROVE  r.ver > flushVer[f]
    <3>1. r # NoRow
      BY <2>4 DEF InMemory
    <3>2. \A g \in Flushers : BeginFlush(g) \/ FailFlush(g) => g \in Flushers \ {f}
      BY <1>3
    <3>3. \/ r \in InMemory(Flushers \ {f}, k)
          \/ \E w \in Writers : PutAndReturn(w) /\ r = RowsOf(pending[w])[k]
      <4> DEFINE D == Flushers \ {f}
      <4>1. D \subseteq Flushers /\ r \in InMemory(D, k)'
        BY <2>4
      <4>2. \A g \in Flushers : BeginFlush(g) \/ FailFlush(g) => g \in D
        BY <3>2
      <4> HIDE DEF D
      <4>3. \/ r \in InMemory(D, k)
            \/ \E w \in Writers : PutAndReturn(w) /\ r = RowsOf(pending[w])[k]
        BY <1>0, <4>1, <4>2, MemorySteps
      <4> QED BY <4>3 DEF D
    <3> QED BY <2>1, <3>1, <3>3, ReturnedAbove
  <2> QED BY <1>3, <2>2, <2>3, <2>4
<1> QED BY <1>0, <1>2, <1>3, FlushSteps

-----------------------------------------------------------------------------
(* The files that nobody has registered, step by step *)

\* A segment with a higher ID that has the key.
LEMMA BehindHigher ==
  ASSUME NEW x, NEW k, NEW s \in segments', s.id > x.id, s.rows[k] # NoRow
  PROVE  Behind(x, k)'
BY DEF Behind

\* What a flush or a compaction was about to register does not hide a row either.
LEMMA OutputsBehind ==
  ASSUME DiskInv, AgeOrder, NEW k \in Keys, NEW x, x.rows[k] # NoRow
  PROVE  /\ \A f \in Flushers : flushPc[f] = "built" /\ x.rows = FlushRows(Head(drained[f]))
              => InMemory(Flushers, k) # {}
         /\ \A c \in Compactors :
              compPc[c] = "built" /\ x.id = compSeg[c] /\ x.rows = Merge(compSet[c])
              => \/ \E s \in segments : s.id > x.id /\ s.rows[k] # NoRow
                 \/ Merge(segments)[k] = x.rows[k]
<1>0. IInv /\ TypeOK
  BY DEF DiskInv, IInv
<1>1. ASSUME NEW f \in Flushers, flushPc[f] = "built", x.rows = FlushRows(Head(drained[f]))
      PROVE  InMemory(Flushers, k) # {}
  <2>1. drained[f] # <<>> /\ drained[f] \in Seq(MemTable)
    BY <1>0, <1>1 DEF IInv, DrainedWhileFlushing, Flushing, TypeOK
  <2>2. Head(drained[f]) \in MemTable /\ Head(drained[f])[k] \in RowsIn(drained[f], k)
    BY <2>1, RowsInQueue, HeadTailProperties
  <2>3. Head(drained[f])[k] # NoRow
    BY <1>1, <2>2, EmptiedIs
  <2>4. Head(drained[f])[k] \in InMemory(Flushers, k)
    BY <2>2, <2>3 DEF InMemory
  <2> QED BY <2>4
<1>2. ASSUME NEW c \in Compactors, compPc[c] = "built", x.id = compSeg[c],
             x.rows = Merge(compSet[c]), \A s \in segments : s.rows[k] # NoRow => ~ (s.id > x.id)
      PROVE  Merge(segments)[k] = x.rows[k]
  <2>1. \A s \in segments : s.id # compSeg[c]
    BY <1>0, <1>2 DEF IInv, SegmentIDsUnique, CompactOutIDs, RegisteredIDs
  <2>2. \A s \in Holders(segments, k) : s.id < compSeg[c]
    BY <1>0, <1>2, <2>1, SegmentFacts DEF Holders
  <2> QED BY <1>2, <2>2 DEF AgeOrder, BuiltInPlace
<1> QED BY <1>1, <1>2

\* A compaction that installs its output has every key of what it merged, under a higher
\* ID; a registered memtable has the highest ID of all.
LEMMA NewSegments ==
  ASSUME DiskInv, DiskInv', AgeOrder
  PROVE  /\ \A c \in Compactors : InstallCompact(c) =>
              /\ CompactedSegment(c) \in segments'
              /\ \A t \in compSet[c] : \A k \in Keys : t.rows[k] # NoRow =>
                   t.id < CompactedSegment(c).id /\ CompactedSegment(c).rows[k] # NoRow
              /\ \A k \in Keys : Merge(segments')[k] = Merge(segments)[k]
         /\ \A f \in Flushers : RegisterFlush(f) =>
              /\ FlushedSegment(f) \in segments' /\ FlushedSegment(f).id = flushSeg[f]
              /\ flushPc[f] = "built"
              /\ \A k \in Keys :
                   /\ Head(drained[f])[k] # NoRow => FlushedSegment(f).rows[k] # NoRow
                   /\ FlushedSegment(f).rows[k] = NoRow => Merge(segments')[k] = Merge(segments)[k]
<1>0. IInv /\ TypeOK /\ IDsAllocated /\ SegmentIDsUnique /\ DrainedWhileFlushing
  BY DEF DiskInv, IInv
<1>1. /\ segments \subseteq Segment /\ nextSegID \in Nat /\ \A s \in segments : s.id <= nextSegID
      /\ \A s, t \in segments : s.id = t.id => s = t
  BY <1>0, SegmentFacts
<1>2. ASSUME NEW c \in Compactors, InstallCompact(c)
      PROVE  /\ CompactedSegment(c) \in segments'
             /\ \A t \in compSet[c] : \A k \in Keys : t.rows[k] # NoRow =>
                  t.id < CompactedSegment(c).id /\ CompactedSegment(c).rows[k] # NoRow
             /\ \A k \in Keys : Merge(segments')[k] = Merge(segments)[k]
  <2>1. /\ compPc[c] = "built"
        /\ segments' = {s \in segments : s.id \notin CompactIDs(c)} \cup {CompactedSegment(c)}
    BY <1>2 DEF InstallCompact, CompactInstall
  <2>2. /\ CompactedSegment(c).id = compSeg[c] /\ CompactedSegment(c).rows = Merge(compSet[c])
        /\ CompactedSegment(c) \in Segment
    BY <1>0, CompactedSegmentType DEF CompactedSegment
  <2>3. \A t \in compSet[c] : t.id < compSeg[c]
    BY <2>1 DEF AgeOrder, BuiltInPlace
  <2>4. \A t \in compSet[c] : \A k \in Keys : t.rows[k] # NoRow =>
          t.id < CompactedSegment(c).id /\ CompactedSegment(c).rows[k] # NoRow
    BY <1>0, <2>2, <2>3, SnapshotMerge DEF Holders
  <2>5. \A s \in segments : s.id # CompactedSegment(c).id
    BY <1>0, <2>1, <2>2 DEF SegmentIDsUnique, CompactOutIDs, RegisteredIDs
  <2>6. \A i \in CompactIDs(c) : i < CompactedSegment(c).id
    BY <2>2, <2>3 DEF CompactIDs
  <2>7. ASSUME NEW k \in Keys PROVE Merge(segments')[k] = Merge(segments)[k]
    <3>1. (\A s \in Holders(segments, k) : s.id < CompactedSegment(c).id)
            => Merge(segments)[k] = CompactedSegment(c).rows[k]
      BY <2>1, <2>2 DEF AgeOrder, BuiltInPlace
    <3> DEFINE new == CompactedSegment(c)
               C == CompactIDs(c)
               U == segments'
               n == nextSegID
    <3>2. /\ segments \subseteq Segment /\ n \in Nat /\ \A s \in segments : s.id <= n
          /\ \A s, t \in segments : s.id = t.id => s = t
      BY <1>1
    <3>3. /\ new \in Segment /\ \A s \in segments : s.id # new.id
          /\ \A i \in C : i < new.id
          /\ (\A s \in Holders(segments, k) : s.id < new.id) => Merge(segments)[k] = new.rows[k]
      BY <2>2, <2>5, <2>6, <3>1
    <3>4. U = {s \in segments : s.id \notin C} \cup {new}
      BY <2>1
    <3> HIDE DEF new, C, U, n
    <3>5. /\ Merge(U)[k] = Merge(segments)[k]
          /\ \A x \in Nat : (\A s \in Holders(U, k) : s.id < x)
                              => \A s \in Holders(segments, k) : s.id < x
      BY <3>2, <3>3, <3>4, MergeReplace, SMTT(30)
    <3> QED BY <3>5 DEF U
  <2> QED BY <2>1, <2>4, <2>7
<1>3. ASSUME NEW f \in Flushers, RegisterFlush(f)
      PROVE  /\ FlushedSegment(f) \in segments' /\ FlushedSegment(f).id = flushSeg[f]
             /\ flushPc[f] = "built"
             /\ \A k \in Keys :
                  /\ Head(drained[f])[k] # NoRow => FlushedSegment(f).rows[k] # NoRow
                  /\ FlushedSegment(f).rows[k] = NoRow => Merge(segments')[k] = Merge(segments)[k]
  <2>1. flushPc[f] = "built" /\ segments' = segments \cup {FlushedSegment(f)}
    BY <1>3 DEF RegisterFlush, FlushRegister
  <2>2. FlushedSegment(f) \in Segment /\ Head(drained[f]) \in MemTable
    BY <1>0, <2>1, FlushedSegmentType DEF Flushing
  <2>3. FlushedSegment(f).id = flushSeg[f] /\ FlushedSegment(f).rows = FlushRows(Head(drained[f]))
    BY DEF FlushedSegment
  <2>4. \A k \in Keys : Head(drained[f])[k] # NoRow => FlushedSegment(f).rows[k] # NoRow
    BY <2>2, <2>3, FlushRowsType
  <2>5. \A s \in segments : s.id < FlushedSegment(f).id
    BY <2>1, <2>3 DEF AgeOrder, FlushIsNewest
  <2>6. ASSUME NEW k \in Keys, FlushedSegment(f).rows[k] = NoRow
        PROVE  Merge(segments')[k] = Merge(segments)[k]
    <3>1. Merge(segments \cup {FlushedSegment(f)})[k]
            = Above(FlushedSegment(f).rows[k], Merge(segments)[k])
      BY <1>1, <2>2, <2>5, MergeAdd
    <3> QED BY <2>1, <2>6, <3>1 DEF Above
  <2> QED BY <2>1, <2>3, <2>4, <2>6
<1> QED BY <1>2, <1>3

\* A file that hides no row goes on hiding none.
LEMMA BehindStays ==
  ASSUME DiskInv, DiskInv', AgeOrder, FlushAboveFiles, EngineSteps,
         NEW x \in WholeFiles(files), NEW k \in Keys, Behind(x, k)
  PROVE  Behind(x, k)'
<1>0. IInv /\ IInv' /\ TypeOK /\ x.id \in Nat /\ segments \subseteq Segment
  BY DEF DiskInv, IInv, DurableTypeOK, TypeOK, WholeFiles, File
<1>1. ASSUME NEW f \in Flushers, RegisterFlush(f), FlushedSegment(f).rows[k] # NoRow
      PROVE  Behind(x, k)'
  <2>1. /\ FlushedSegment(f) \in segments' /\ FlushedSegment(f).id = flushSeg[f]
        /\ flushPc[f] = "built"
    BY <1>1, NewSegments
  <2>2. PICK s \in segments' : s = FlushedSegment(f)
    BY <2>1
  <2>3. x.id < flushSeg[f] /\ flushSeg[f] \in Nat
    BY <1>0, <2>1 DEF FlushAboveFiles, TypeOK
  <2>4. s.id > x.id /\ s.rows[k] # NoRow
    BY <1>0, <1>1, <2>1, <2>2, <2>3
  <2> QED BY <2>4, BehindHigher
<1>2. CASE \E s \in segments : s.id > x.id /\ s.rows[k] # NoRow
  <2>1. PICK s \in segments : s.id > x.id /\ s.rows[k] # NoRow
    BY <1>2
  <2>2. CASE s \in segments'
    BY <2>1, <2>2, BehindHigher
  <2>3. ASSUME NEW c \in Compactors, InstallCompact(c), s \in compSet[c]
        PROVE  Behind(x, k)'
    <3>1. /\ CompactedSegment(c) \in segments' /\ CompactedSegment(c).rows[k] # NoRow
          /\ s.id < CompactedSegment(c).id
      BY <2>1, <2>3, NewSegments
    <3>2. CompactedSegment(c).id \in Nat /\ s.id \in Nat
      BY <1>0, <3>1, CompactedSegmentType DEF IInv, Segment
    <3>3. PICK t \in segments' : t = CompactedSegment(c)
      BY <3>1
    <3>4. t.id > x.id /\ t.rows[k] # NoRow
      BY <1>0, <2>1, <3>1, <3>2, <3>3
    <3> QED BY <3>4, BehindHigher
  <2> QED BY <1>0, <2>2, <2>3, SegmentSteps
<1>3. CASE Merge(segments)[k] = x.rows[k]
  <2>1. CASE Merge(segments')[k] = Merge(segments)[k]
    <3>1. Merge(segments')[k] = x.rows[k]
      BY <1>3, <2>1
    <3> QED BY <3>1 DEF Behind, Merge, Holders, NewestHolder
  <2>2. \/ Merge(segments')[k] = Merge(segments)[k]
        \/ \E f \in Flushers : RegisterFlush(f) /\ FlushedSegment(f).rows[k] # NoRow
    <3>1. \/ segments' = segments
          \/ \E f \in Flushers : RegisterFlush(f)
          \/ \E c \in Compactors : InstallCompact(c)
      BY DEF EngineSteps, WriterDoes, Alloc, AllocVersion, AppendRecord, SyncRecord,
         PutAndReturn, PutOne, PutBatch, CallFails, WriteFail, FlusherDoes, BeginFlush,
         FlushBegin, BuildFlush, FlushBuild, FailFlush, FlushFail, AppendCheckpoint,
         FlushCheckpoint, SyncCheckpoint, CompactorDoes, BeginCompact, CompactBegin,
         BuildCompact, CompactBuild, FailCompact, CompactFail, vars, segmentVars
    <3> QED BY <3>1, NewSegments
  <2> QED BY <1>1, <2>1, <2>2
<1>4. CASE InMemory(Flushers, k) # {}
  <2>1. CASE InMemory(Flushers, k)' # {}
    BY <2>1 DEF Behind, InMemory, RowsIn
  <2>2. ASSUME NEW f \in Flushers, RegisterFlush(f), Head(drained[f])[k] # NoRow
        PROVE  Behind(x, k)'
    BY <1>1, <2>2, NewSegments
  <2> QED BY <1>0, <1>4, <2>1, <2>2, HeldSteps
<1> QED BY <1>2, <1>3, <1>4 DEF Behind

\* What failed flushes, compactions and deletions leave on disk does not hide a row.
LEMMA StepLeftBehind ==
  ASSUME DiskInv, DiskInv', AgeOrder, LeftBehind, FlushAboveFiles, EngineSteps
  PROVE  LeftBehind'
<1> SUFFICES ASSUME NEW x \in WholeFiles(files'), NEW k \in Keys, x.rows[k] # NoRow
             PROVE  Behind(x, k)'
  BY DEF LeftBehind, WholeFiles, Behind, InMemory, RowsIn, Merge, Holders, NewestHolder
<1>0. IInv /\ IInv' /\ TypeOK
  BY DEF DiskInv, IInv
<1>1. CASE x \in WholeFiles(files)
  BY <1>1, BehindStays DEF LeftBehind
<1>2. ASSUME NEW f \in Flushers, FailFlush(f), flushPc[f] = "built",
             x.rows = FlushRows(Head(drained[f]))
      PROVE  Behind(x, k)'
  <2>1. InMemory(Flushers, k) # {}
    BY <1>2, OutputsBehind DEF DiskInv
  <2>2. \A g \in Flushers : ~ RegisterFlush(g)
    <3>1. flushPc' = [flushPc EXCEPT ![f] = "idle"] /\ segments' = segments
      BY <1>2 DEF FailFlush, FlushFail, segmentVars
    <3>2. ASSUME NEW g \in Flushers, RegisterFlush(g) PROVE FALSE
      <4>1. /\ flushPc[g] = "built"
            /\ flushPc' = [flushPc EXCEPT ![g] = IF Len(drained[g]) > 1 THEN "drained"
                                                 ELSE "checkpoint"]
        BY <3>2 DEF RegisterFlush, FlushRegister
      <4>2. flushPc \in [Flushers -> {"idle", "drained", "built", "checkpoint"}]
        BY <1>0 DEF TypeOK
      <4>3. flushPc'[g] # "idle" /\ (g # f => flushPc'[g] = "built")
        BY <3>1, <4>1, <4>2
      <4>4. flushPc'[g] # "built" /\ (g = f => flushPc'[g] = "idle")
        BY <3>1, <4>1, <4>2
      <4> QED BY <4>3, <4>4
    <3> QED BY <3>2
  <2>3. InMemory(Flushers, k)' # {}
    BY <1>0, <2>1, <2>2, HeldSteps
  <2> QED BY <2>3 DEF Behind, InMemory, RowsIn
<1>3. ASSUME NEW c \in Compactors, InstallCompact(c), NEW s \in segments, s \in compSet[c],
             x.id = s.id, x.rows = s.rows
      PROVE  Behind(x, k)'
  <2>1. /\ CompactedSegment(c) \in segments' /\ CompactedSegment(c).rows[k] # NoRow
        /\ s.id < CompactedSegment(c).id
    BY <1>3, NewSegments
  <2>2. CompactedSegment(c).id \in Nat /\ s.id \in Nat
    BY <1>0, CompactedSegmentType DEF IInv, TypeOK, Segment
  <2>3. PICK t \in segments' : t = CompactedSegment(c)
    BY <2>1
  <2>4. t.id > x.id /\ t.rows[k] # NoRow
    BY <1>3, <2>1, <2>2, <2>3
  <2> QED BY <2>4, BehindHigher
<1>4. ASSUME NEW c \in Compactors, FailCompact(c), compPc[c] = "built", x.id = compSeg[c],
             x.rows = Merge(compSet[c])
      PROVE  Behind(x, k)'
  <2>1. segments' = segments
    BY <1>4 DEF FailCompact, CompactFail, segmentVars
  <2>2. \/ \E s \in segments : s.id > x.id /\ s.rows[k] # NoRow
        \/ Merge(segments)[k] = x.rows[k]
    BY <1>4, OutputsBehind DEF DiskInv
  <2>3. CASE \E s \in segments : s.id > x.id /\ s.rows[k] # NoRow
    BY <2>1, <2>3, BehindHigher
  <2>4. CASE Merge(segments)[k] = x.rows[k]
    BY <2>1, <2>4 DEF Behind, Merge, Holders, NewestHolder
  <2> QED BY <2>2, <2>3, <2>4
<1> QED BY <1>1, <1>2, <1>3, <1>4, FileSteps

\* A flush gets its ID from the counter, which is above all readable files.
LEMMA StepFlushAboveFiles ==
  ASSUME DiskInv, DiskInv', AgeOrder, FlushAboveFiles, EngineSteps
  PROVE  FlushAboveFiles'
<1> SUFFICES ASSUME NEW f \in Flushers, flushPc'[f] = "built", NEW x \in WholeFiles(files')
             PROVE  x.id < flushSeg'[f]
  BY DEF FlushAboveFiles, WholeFiles
<1>0. IInv /\ TypeOK /\ TypeOK' /\ mode = "up" /\ FilesNamed /\ nextSegID \in Nat
  BY StepsOfEngine DEF DiskInv, IInv, TypeOK
<1>1. \A g \in Flushers : FailFlush(g) => flushPc[g] = "built" /\ flushPc'[g] = "idle"
  BY <1>0 DEF FailFlush, FlushFail, TypeOK
<1>2. \A g \in Flushers : flushPc[f] \in {"drained", "built"} /\ FailFlush(g) => FALSE
  BY <1>1 DEF AgeOrder, OneFlush, Flushing
<1>3. CASE flushPc[f] = "built" /\ flushSeg'[f] = flushSeg[f]
  <2>1. x \in WholeFiles(files) => x.id < flushSeg[f]
    BY <1>3 DEF FlushAboveFiles
  <2>2. \A s \in segments : s.id < flushSeg[f]
    BY <1>3 DEF AgeOrder, FlushIsNewest
  <2>3. \A c \in Compactors : compPc[c] = "built" => compSeg[c] < flushSeg[f]
    BY <1>3 DEF AgeOrder, FlushIsNewest
  <2> QED BY <1>2, <1>3, <2>1, <2>2, <2>3, FileSteps
<1>4. CASE BuildFlush(f)
  <2>1. flushPc[f] = "drained" /\ flushSeg'[f] = nextSegID + 1
    BY <1>0, <1>4 DEF BuildFlush, FlushBuild, TypeOK
  <2>2. x.id \in Nat /\ x.id <= nextSegID
    <3>1. \A y \in WholeFiles(files) : y.id \in Nat /\ y.id <= nextSegID
      BY <1>0 DEF FilesNamed, DiskInv, DurableTypeOK, WholeFiles, File
    <3>2. \A s \in segments : s.id \in Nat /\ s.id <= nextSegID
      BY <1>0, SegmentFacts
    <3>3. \A c \in Compactors :
            compPc[c] = "built" => compSeg[c] \in Nat /\ compSeg[c] <= nextSegID
      BY <1>0, SegmentFacts
    <3> QED BY <1>2, <2>1, <3>1, <3>2, <3>3, FileSteps
  <2>3. x.id < nextSegID + 1
    BY <1>0, <2>2
  <2> QED BY <2>1, <2>3
<1> QED BY <1>0, <1>3, <1>4, FlushSteps DEF IInv, DiskInv

\* Every step of a running engine keeps what a restart relies on.
LEMMA StepUpInv ==
  ASSUME NoNulls, DiskInv, DiskInv', CallsNumbered, LogInv, UpInv, EngineSteps, Sound'
  PROVE  UpInv'
<1>1. AgeOrder' /\ StoredCurrent'
  <2>1. [Next]_vars
    BY StepsOfEngine
  <2>2. StoreInv
    BY DEF StoreInv, DiskInv, UpInv
  <2>3. StoreInv'
    BY <2>1, <2>2, StepStoreInv
  <2> QED BY <2>3 DEF StoreInv, Sound
<1>2. InDoubt'
  BY StepInDoubt DEF UpInv
<1>3. AboveCheckpoints' /\ AboveFlushes'
  BY StepAboveCheckpoints, StepAboveFlushes DEF UpInv, Sound
<1>4. LeftBehind' /\ FlushAboveFiles'
  BY StepLeftBehind, StepFlushAboveFiles DEF UpInv
<1> QED BY <1>1, <1>2, <1>3, <1>4 DEF UpInv

-----------------------------------------------------------------------------
(* What a restart finds *)

\* A key that is not in memory has the row that the segments give it.
LEMMA NothingInMemory ==
  ASSUME TypeOK, NEW k \in Keys, InMemory(Flushers, k) = {}
  PROVE  StoredRow(k) = Merge(segments)[k]
<1>1. active[k] = NoRow
  BY DEF InMemory
<1>2. ASSUME NEW q, \A r \in RowsIn(q, k) : r = NoRow
      PROVE  TableHolders(q, k) = {}
  BY <1>2 DEF RowsIn, TableHolders
<1>3. \A r \in RowsIn(immutable, k) : r = NoRow
  BY DEF InMemory
<1>4. \A f \in Flushers : \A r \in RowsIn(drained[f], k) : r = NoRow
  BY DEF InMemory
<1> QED BY <1>1, <1>2, <1>3, <1>4 DEF StoredRow

\* The last record that a replay applies is of a row that the key may have.
LEMMA ReplayAcceptable ==
  ASSUME DiskInv, LogInv, InDoubt, mode = "up", NEW log \in Seq(LogRecord),
         Len(log) \in synced..Len(wal), \A i \in 1..Len(log) : log[i] = wal[i],
         NEW k \in Keys, NEW i \in Applied(log, k), \A j \in Applied(log, k) : j <= i
  PROVE  Acceptable(Emptied(log[i].rows[k]), k)
<1>0. /\ wal \in Seq(LogRecord) /\ Len(wal) \in Nat /\ synced \in 0..Len(wal) /\ Len(log) \in Nat
      /\ DOMAIN log = 1..Len(log) /\ LogShaped /\ VersionsRise
  BY LogRows, LenProperties DEF DiskInv, DurableTypeOK, LogInv
<1>1. /\ i \in 1..Len(log) /\ i \in 1..Len(wal) /\ log[i] = wal[i] /\ wal[i].rows[k] # NoRow
      /\ wal[i].rows[k].ver > LastFlushed(log)
  BY <1>0 DEF Applied
<1>2. wal[i].rows[k] \in Row
  <2>1. wal[i].rows[k] \in Row \cup {NoRow}
    BY <1>0, <1>1, LogRows
  <2> QED BY <1>1, <2>1
<1>3. wal[i].rows[k].ver \in Nat
  BY <1>2 DEF Row
<1>4. LastFlushed(log) \in Nat /\ FlushedForSure \in Nat /\ FlushedForSure <= LastFlushed(log)
  <2> DEFINE cut == SubSeq(wal, 1, synced)
  <2>1. cut \in Seq(LogRecord) /\ Len(cut) = synced /\ \A j \in 1..synced : cut[j] = wal[j]
    BY <1>0, CutIs
  <2> HIDE DEF cut
  <2>2. Len(cut) <= Len(log) /\ \A j \in 1..Len(cut) : log[j] = cut[j]
    BY <1>0, <2>1
  <2>3. LastFlushed(cut) <= LastFlushed(log)
    BY <2>1, <2>2, PrefixFlushed
  <2>4. LastFlushed(cut) \in Nat /\ LastFlushed(log) \in Nat
    BY <2>1, LastFlushedIs
  <2> QED BY <2>3, <2>4 DEF FlushedForSure, cut
<1>5. wal[i].rows[k].ver > FlushedForSure
  <2> HIDE DEF FlushedForSure
  <2> QED BY <1>1, <1>3, <1>4
<1>6. CASE wal[i].rows[k] \in maybe[k]
  <2>1. Current(Emptied(wal[i].rows[k]), wal[i].rows[k])
    <3>1. Emptied(wal[i].rows[k]) \in Row
      BY <1>2, EmptiedIs
    <3> QED BY <1>2, <3>1, EmptiedIs, SentinelAssumption DEF Current
  <2> QED BY <1>1, <1>6, <2>1 DEF Acceptable
<1>7. CASE \E j \in i..synced : From(latest[k], j, k)
  <2>1. PICK j \in i..synced : From(latest[k], j, k)
    BY <1>7
  <2>2. j \in 1..Len(log) /\ j \in 1..Len(wal) /\ log[j] = wal[j] /\ wal[j].rows[k] # NoRow
    BY <1>0, <1>1, <2>1 DEF From
  <2>3. j = i
    <3> SUFFICES ASSUME i < j PROVE FALSE
      BY <1>0, <1>1, <2>1
    <3>1. wal[i].rows[k].ver < wal[j].rows[k].ver
      BY <1>0, <1>1, <2>2 DEF VersionsRise
    <3>2. wal[j].rows[k].ver \in Nat
      <4>1. wal[j].rows[k] \in Row \cup {NoRow}
        BY <1>0, <2>2, LogRows
      <4> QED BY <2>2, <4>1 DEF Row
    <3>3. log[j].rows[k].ver > LastFlushed(log)
      BY <1>1, <1>3, <1>4, <2>2, <3>1, <3>2
    <3>4. Decodable(log[j])
      BY <1>0, <2>2 DEF Decodable, KeysOf, LogShaped
    <3>5. j \in Applied(log, k)
      BY <1>0, <2>2, <3>3, <3>4 DEF Applied
    <3> QED BY <1>0, <1>1, <2>2, <3>5
  <2>4. latest[k] \in {wal[i].rows[k], Emptied(wal[i].rows[k])}
    BY <2>1, <2>3 DEF From
  <2>5. /\ Emptied(wal[i].rows[k]) \in Row
        /\ Emptied(wal[i].rows[k]).ver = wal[i].rows[k].ver
        /\ \/ Emptied(wal[i].rows[k]) = wal[i].rows[k]
           \/ /\ wal[i].rows[k].kind = "tombstone"
              /\ Emptied(wal[i].rows[k]).kind = "empty"
    BY <1>2, EmptiedIs
  <2>6. Emptied(wal[i].rows[k]) # NoRow
    BY <2>5, SentinelAssumption
  <2>7. Current(Emptied(wal[i].rows[k]), latest[k])
    BY <1>1, <2>4, <2>5, <2>6 DEF Current
  <2> QED BY <1>1, <2>7 DEF Acceptable
<1> QED BY <1>1, <1>5, <1>6, <1>7 DEF InDoubt

\* A key whose row no record gives is not in memory: what is in memory is in the log, and
\* no checkpoint covers it.
LEMMA NotReplayed ==
  ASSUME DiskInv, LogInv, AboveCheckpoints, mode = "up", NEW log \in Seq(LogRecord),
         Len(log) \in synced..Len(wal), \A i \in 1..Len(log) : log[i] = wal[i],
         NEW k \in Keys, Applied(log, k) = {}
  PROVE  InMemory(Flushers, k) = {}
<1> SUFFICES ASSUME NEW r \in InMemory(Flushers, k) PROVE FALSE
  OBVIOUS
<1>0. /\ wal \in Seq(LogRecord) /\ Len(wal) \in Nat /\ synced \in 0..Len(wal) /\ Len(log) \in Nat
      /\ DOMAIN log = 1..Len(log) /\ LogShaped /\ AllLogged /\ TypeOK
  BY LogRows, LenProperties DEF DiskInv, DurableTypeOK, LogInv
<1>1. r \in Row
  BY <1>0, InMemoryIs
<1>2. PICK i \in 1..synced : From(r, i, k)
  BY <1>0 DEF AllLogged, Logged
<1>3. i \in 1..Len(log) /\ i \in 1..Len(wal) /\ log[i] = wal[i] /\ wal[i].rows[k] # NoRow
  BY <1>0, <1>2 DEF From
<1>4. wal[i].rows[k] \in Row
  <2>1. wal[i].rows[k] \in Row \cup {NoRow}
    BY <1>0, <1>3, LogRows
  <2> QED BY <1>3, <2>1
<1>5. r.ver = wal[i].rows[k].ver
  BY <1>2, <1>4, EmptiedIs DEF From
<1>6. r.ver > Flushed
  BY DEF AboveCheckpoints
<1>7. Flushed \in Nat /\ LastFlushed(log) \in Nat /\ LastFlushed(log) <= Flushed
  BY <1>0, LastFlushedIs, PrefixFlushed DEF Flushed
<1>8. log[i].rows[k].ver > LastFlushed(log)
  <2> HIDE DEF Flushed
  <2> QED BY <1>1, <1>3, <1>5, <1>6, <1>7 DEF Row
<1>9. Decodable(log[i])
  BY <1>0, <1>3 DEF Decodable, KeysOf, LogShaped
<1> QED BY <1>0, <1>3, <1>8, <1>9 DEF Applied

\* A restart takes the row of such a key from the segments: the other readable files do
\* not hide it.
LEMMA LoadedRow ==
  ASSUME DiskInv, NEW G, G \subseteq File, IsFiniteSet(G), SegmentFiles \subseteq G,
         \A x, y \in WholeFiles(G) : x.id = y.id => x = y,
         NEW k \in Keys, InMemory(Flushers, k) = {},
         \A x \in WholeFiles(G) \ SegmentFiles : x.rows[k] # NoRow => Behind(x, k)
  PROVE  Merge(Loaded(G))[k] = Merge(segments)[k]
<1> DEFINE L == Loaded(G)
<1>0. IInv
  BY DEF DiskInv
<1>1. /\ segments \subseteq Segment /\ nextSegID \in Nat /\ \A s \in segments : s.id <= nextSegID
      /\ \A s, t \in segments : s.id = t.id => s = t
  BY <1>0, SegmentFacts
<1>2. /\ L \subseteq Segment
      /\ \A s \in L : FileOf(s.id, s.rows, TRUE) \in WholeFiles(G)
      /\ \A s, t \in L : s.id = t.id => s = t
      /\ \A x \in WholeFiles(G) : \E s \in L : s.id = x.id /\ s.rows = x.rows
  BY LoadedSegments
<1>3. PICK n \in Nat : \A s \in L : s.id <= n
  <2>1. HighestID(G) \in Nat /\ \A x \in G : x.id <= HighestID(G)
    BY HighestIDIs
  <2>2. \A s \in L : s.id <= HighestID(G)
    <3> TAKE s \in L
    <3>1. FileOf(s.id, s.rows, TRUE) \in G
      BY <1>2 DEF WholeFiles
    <3> QED BY <2>1, <3>1 DEF FileOf
  <2> QED BY <2>1, <2>2
<1> HIDE DEF L
<1>4. ASSUME NEW t \in segments
      PROVE  \E s \in L : s.id = t.id /\ s.rows = t.rows
  <2>1. FileOf(t.id, t.rows, TRUE) \in WholeFiles(G)
    BY DEF SegmentFiles, WholeFiles, FileOf
  <2> QED BY <1>2, <2>1 DEF FileOf
<1>5. CASE \A s \in L : s.rows[k] = NoRow
  <2>1. \A t \in segments : t.rows[k] = NoRow
    BY <1>4, <1>5
  <2>2. Merge(segments)[k] = NoRow
    BY <2>1, MergeNone
  <2>3. Merge(L)[k] = NoRow
    BY <1>5, MergeNone
  <2> QED BY <2>2, <2>3 DEF L
<1>6. ASSUME NEW s \in L, s.rows[k] # NoRow, \A t \in L : t.rows[k] # NoRow => t = s \/ t.id < s.id
      PROVE  Merge(L)[k] = Merge(segments)[k]
  <2>1. Merge(L)[k] = s.rows[k]
    BY <1>2, <1>6, MergeIs
  <2>2. PICK x \in WholeFiles(G) : x.id = s.id /\ x.rows = s.rows
    BY <1>2 DEF FileOf
  <2>3. ASSUME NEW t \in segments, t.id = s.id, t.rows = s.rows
        PROVE  Merge(segments)[k] = s.rows[k]
    <3>1. \A u \in segments : u.rows[k] # NoRow => u = t \/ u.id < t.id
      BY <1>1, <1>4, <1>6, <2>3
    <3> QED BY <1>1, <1>6, <2>3, <3>1, MergeIs
  <2>4. CASE x \in SegmentFiles
    BY <2>1, <2>2, <2>3, <2>4 DEF SegmentFiles, FileOf
  <2>5. CASE \E t \in segments : t.id > x.id /\ t.rows[k] # NoRow
    <3>1. PICK t \in segments : t.id > x.id /\ t.rows[k] # NoRow
      BY <2>5
    <3>2. PICK u \in L : u.id = t.id /\ u.rows = t.rows
      BY <1>4
    <3>3. u.id \in Nat /\ s.id \in Nat
      BY <1>2 DEF Segment
    <3> QED BY <1>6, <2>2, <3>1, <3>2, <3>3
  <2>6. CASE Merge(segments)[k] = x.rows[k]
    BY <2>1, <2>2, <2>6
  <2> QED BY <1>6, <2>2, <2>4, <2>5, <2>6 DEF Behind
<1> QED BY <1>2, <1>3, <1>5, <1>6, MergeCases DEF L

\* Every key has a row it may have after a restart from any part of the log that is not
\* shorter than what is synced, and the files that are there then.
LEMMA Survives ==
  ASSUME DiskInv, LogInv, UpInv, mode = "up", NEW log \in Seq(LogRecord),
         Len(log) \in synced..Len(wal), \A i \in 1..Len(log) : log[i] = wal[i],
         NEW G, G \subseteq File, IsFiniteSet(G), SegmentFiles \subseteq G,
         \A x, y \in WholeFiles(G) : x.id = y.id => x = y,
         \A x \in WholeFiles(G) \ SegmentFiles, k \in Keys : x.rows[k] # NoRow => Behind(x, k),
         NEW k \in Keys
  PROVE  Acceptable(Restored(log, G, k), k)
<1>1. CASE Applied(log, k) # {}
  <2>1. PICK i \in Applied(log, k) : \A j \in Applied(log, k) : j <= i
    BY <1>1, ReplayRow
  <2>2. ReplayMem(log)[k] = Emptied(log[i].rows[k])
    BY <2>1, ReplayRow
  <2>3. ReplayMem(log)[k] # NoRow
    <3>1. i \in 1..Len(log) /\ log[i].rows[k] # NoRow
      BY <2>1, ReplayRow DEF Applied
    <3>2. log[i].rows[k] \in Row \cup {NoRow}
      BY <3>1, LogRows
    <3>3. Emptied(log[i].rows[k]) \in Row
      BY <3>1, <3>2, EmptiedIs
    <3> QED BY <2>2, <3>3, SentinelAssumption
  <2>4. Acceptable(Emptied(log[i].rows[k]), k)
    BY <2>1, ReplayAcceptable DEF UpInv
  <2> QED BY <2>2, <2>3, <2>4 DEF Restored
<1>2. CASE Applied(log, k) = {}
  <2>1. ReplayMem(log)[k] = NoRow
    BY <1>2, ReplayRow
  <2>2. InMemory(Flushers, k) = {}
    BY <1>2, NotReplayed DEF UpInv
  <2>3. Merge(Loaded(G))[k] = Merge(segments)[k]
    BY <2>2, LoadedRow
  <2>4. StoredRow(k) = Merge(segments)[k]
    BY <2>2, NothingInMemory DEF DiskInv, IInv
  <2>5. Current(Merge(segments)[k], latest[k])
    BY <2>4 DEF UpInv, StoredCurrent
  <2> QED BY <2>1, <2>3, <2>5 DEF Restored, Acceptable
<1> QED BY <1>1, <1>2

-----------------------------------------------------------------------------
(* The end of a process *)

\* What is left of the log has what the files and the last Puts need.
LEMMA EndKeepsLog ==
  ASSUME DiskInv, DiskInv', LogInv, LoseMemory, synced' = Len(wal'),
         Len(wal') \in synced..Len(wal), \A i \in 1..Len(wal') : wal'[i] = wal[i],
         \A x \in WholeFiles(files'), k \in Keys : x.rows[k] # NoRow => Logged(x.rows[k], k)
  PROVE  LogInv'
<1>0. /\ AllLogged /\ LogShaped /\ VersionsRise
      /\ wal \in Seq(LogRecord) /\ Len(wal) \in Nat /\ synced \in 0..Len(wal)
      /\ mode' = "down" /\ DownEmpty'
  BY LogRows DEF LogInv, DiskInv, DurableTypeOK, LoseMemory
<1>1. PICK m \in Nat : m = Len(wal') /\ m = synced'
  BY <1>0
<1>2. /\ m \in synced..Len(wal) /\ \A i \in 1..m : i \in 1..Len(wal) /\ wal'[i] = wal[i]
      /\ \A i \in 1..synced : i \in 1..m
  BY <1>0, <1>1
<1> DEFINE LoggedThen(r, k) == \E i \in 1..synced' :
             /\ wal'[i].rows[k] # NoRow
             /\ r \in {wal'[i].rows[k], Emptied(wal'[i].rows[k])}
<1>3. ASSUME NEW k \in Keys, NEW r, Logged(r, k)
      PROVE  LoggedThen(r, k)
  <2>1. PICK i \in 1..synced : From(r, i, k)
    BY <1>3 DEF Logged
  <2>2. i \in 1..m /\ wal'[i] = wal[i]
    BY <1>2
  <2>3. wal'[i].rows[k] # NoRow /\ r \in {wal'[i].rows[k], Emptied(wal'[i].rows[k])}
    BY <2>1, <2>2 DEF From
  <2> QED BY <1>1, <2>2, <2>3
<1>4. AllLogged'
  <2> SUFFICES ASSUME NEW k \in Keys
               PROVE  /\ \A r \in InMemory(Flushers, k)' : LoggedThen(r, k)
                      /\ \A s \in segments' : s.rows[k] # NoRow => LoggedThen(s.rows[k], k)
                      /\ \A c \in Compactors : \A s \in compSet'[c] :
                           s.rows[k] # NoRow => LoggedThen(s.rows[k], k)
                      /\ \A x \in WholeFiles(files') : x.rows[k] # NoRow => LoggedThen(x.rows[k], k)
                      /\ latest'[k] # NoRow => LoggedThen(latest'[k], k)
    BY DEF AllLogged, WholeFiles, Logged, From, Emptied, InMemory, RowsIn
  <2>1. /\ active' = EmptyMem /\ immutable' = <<>> /\ segments' = {} /\ latest' = latest
        /\ \A f \in Flushers : drained'[f] = <<>>
        /\ \A c \in Compactors : compSet'[c] = {}
    BY DEF LoseMemory
  <2>2. InMemory(Flushers, k)' = {}
    <3>1. active'[k] = NoRow /\ RowsIn(immutable', k) = {}
      BY <2>1 DEF EmptyMem, RowsIn
    <3>2. \A f \in Flushers : RowsIn(drained'[f], k) = {}
      BY <2>1 DEF RowsIn
    <3> QED BY <3>1, <3>2 DEF InMemory, RowsIn
  <2>3. latest[k] # NoRow => Logged(latest[k], k)
    BY <1>0 DEF AllLogged
  <2> HIDE DEF LoggedThen
  <2> QED BY <1>3, <2>1, <2>2, <2>3
<1>5. LogShaped'
  BY <1>0, <1>1, <1>2 DEF LogShaped
<1>6. VersionsRise'
  BY <1>0, <1>1, <1>2 DEF VersionsRise
<1>7. \A w \in Writers : pending'[w] = NoOp
  BY DEF LoseMemory
<1>8. CallsApart' /\ CallsInLog'
  BY <1>7 DEF CallsApart, CallsInLog
<1> QED BY <1>4, <1>5, <1>6, <1>8 DEF LogInv

\* The end of a process leaves what every returned call needs.
LEMMA EndSurvives ==
  ASSUME DiskInv, DiskInv', LogInv, UpInv, mode = "up", LoseMemory, synced' = Len(wal'),
         Len(wal') \in synced..Len(wal), \A i \in 1..Len(wal') : wal'[i] = wal[i],
         SegmentFiles \subseteq files',
         \A x \in WholeFiles(files') \ SegmentFiles, k \in Keys :
           x.rows[k] # NoRow => Behind(x, k)
  PROVE  SurvivesNow'
<1>0. /\ wal' \in Seq(LogRecord) /\ files' \subseteq File /\ IsFiniteSet(files')
      /\ \A x, y \in files' : x.id = y.id => x = y
      /\ Len(wal) \in Nat /\ synced \in 0..Len(wal)
  BY LogRows DEF DiskInv, DurableTypeOK, FilesNamed
<1>1. PICK G : G = files'
  OBVIOUS
<1>2. segments' = {} /\ latest' = latest /\ maybe' = maybe
  BY DEF LoseMemory
<1>3. SegmentFiles' = {}
  BY <1>2 DEF SegmentFiles
<1>4. PICK m \in Nat : m = Len(wal') /\ m = synced'
  BY <1>0
<1>5. PICK log : log = SubSeq(wal', 1, m)
  OBVIOUS
<1>6. /\ log \in Seq(LogRecord) /\ Len(log) = m /\ \A i \in 1..m : log[i] = wal'[i]
  <2>1. m \in 0..Len(wal')
    BY <1>4
  <2> QED BY <1>0, <1>5, <2>1, CutIs
<1>7. Len(log) \in synced..Len(wal) /\ \A i \in 1..Len(log) : log[i] = wal[i]
  BY <1>4, <1>6
<1>8. /\ G \subseteq File /\ IsFiniteSet(G) /\ SegmentFiles \subseteq G
      /\ \A x, y \in WholeFiles(G) : x.id = y.id => x = y
      /\ \A x \in WholeFiles(G) \ SegmentFiles, k \in Keys : x.rows[k] # NoRow => Behind(x, k)
  BY <1>0, <1>1 DEF WholeFiles
<1>9. ASSUME NEW k \in Keys PROVE Acceptable(Restored(log, G, k), k)
  BY <1>6, <1>7, <1>8, Survives
<1>10. SUFFICES ASSUME NEW n \in synced'..Len(wal'), NEW k \in Keys
                PROVE  \/ Current(Restored(SubSeq(wal', 1, n), files' \cup SegmentFiles', k), latest'[k])
                       \/ \E r \in maybe'[k] :
                            Current(Restored(SubSeq(wal', 1, n), files' \cup SegmentFiles', k), r)
  BY DEF SurvivesNow, Acceptable
<1>11. n = m /\ files' \cup SegmentFiles' = G
  BY <1>1, <1>3, <1>4
<1> QED BY <1>2, <1>5, <1>9, <1>11 DEF Acceptable

\* The readable files after a crash: those that were there, the segments, and what the
\* flushes and compactions were writing.
LEMMA CrashFiles ==
  ASSUME DiskInv, Crash, NEW x \in WholeFiles(files')
  PROVE  \/ x \in WholeFiles(files)
         \/ x \in SegmentFiles
         \/ \E f \in Flushers : flushPc[f] = "built" /\ x.rows = FlushRows(Head(drained[f]))
         \/ \E c \in Compactors :
              compPc[c] = "built" /\ x.id = compSeg[c] /\ x.rows = Merge(compSet[c])
<1>0. IInv /\ x \in files' /\ x.whole /\ (x \in files => x \in WholeFiles(files))
  BY DEF DiskInv, WholeFiles
<1>1. PICK leftF \in [Flushers -> Endings], leftC \in [Compactors -> Endings] :
        /\ \A f \in Flushers : flushPc[f] # "built" => leftF[f] = "none"
        /\ \A c \in Compactors : compPc[c] # "built" => leftC[c] = "none"
        /\ files' = files \cup SegmentFiles
             \cup (UNION {Left(leftF[f], flushSeg[f], FlushRows(Head(drained[f]))) : f \in Flushers})
             \cup (UNION {Left(leftC[c], compSeg[c], Merge(compSet[c])) : c \in Compactors})
  BY DEF Crash
<1>2. ASSUME NEW f \in Flushers, x \in Left(leftF[f], flushSeg[f], FlushRows(Head(drained[f])))
      PROVE  flushPc[f] = "built" /\ x.rows = FlushRows(Head(drained[f]))
  <2>1. flushPc[f] = "built"
    BY <1>1, <1>2 DEF Left
  <2>2. flushSeg[f] \in Nat /\ FlushRows(Head(drained[f])) \in MemTable /\ leftF[f] \in Endings
    BY <1>0, <2>1, OutputTypes
  <2> QED BY <1>0, <1>2, <2>1, <2>2, LeftIs
<1>3. ASSUME NEW c \in Compactors, x \in Left(leftC[c], compSeg[c], Merge(compSet[c]))
      PROVE  compPc[c] = "built" /\ x.id = compSeg[c] /\ x.rows = Merge(compSet[c])
  <2>1. compPc[c] = "built"
    BY <1>1, <1>3 DEF Left
  <2>2. compSeg[c] \in Nat /\ Merge(compSet[c]) \in MemTable /\ leftC[c] \in Endings
    BY <1>0, OutputTypes
  <2> QED BY <1>0, <1>3, <2>1, <2>2, LeftIs
<1> QED BY <1>0, <1>1, <1>2, <1>3

\* A power failure does so: the files that were being written are unfinished or not needed.
LEMMA CrashSurvives ==
  ASSUME DiskInv, DiskInv', LogInv, UpInv, Crash
  PROVE  LogInv' /\ SurvivesNow'
<1>0. IInv /\ AgeOrder /\ AllLogged /\ mode = "up" /\ LoseMemory
  BY DEF DiskInv, UpInv, LogInv, Crash
<1>1. PICK n \in synced..Len(wal) : wal' = SubSeq(wal, 1, n) /\ synced' = n
  BY DEF Crash
<1>2. /\ wal \in Seq(LogRecord) /\ Len(wal) \in Nat /\ synced \in 0..Len(wal)
  BY LogRows DEF DiskInv, DurableTypeOK
<1>3. Len(wal') = n /\ \A i \in 1..n : wal'[i] = wal[i]
  <2>1. n \in 0..Len(wal)
    BY <1>2
  <2> QED BY <1>1, <1>2, <2>1, CutIs
<1>4. synced' = Len(wal') /\ Len(wal') \in synced..Len(wal) /\ \A i \in 1..Len(wal') : wal'[i] = wal[i]
  BY <1>1, <1>3
<1>5. ASSUME NEW x \in WholeFiles(files'), NEW k \in Keys, x.rows[k] # NoRow
      PROVE  /\ Logged(x.rows[k], k)
             /\ x \notin SegmentFiles => Behind(x, k)
  <2>1. CASE x \in WholeFiles(files)
    BY <1>0, <1>5, <2>1 DEF AllLogged, UpInv, LeftBehind
  <2>2. CASE x \in SegmentFiles
    <3>1. PICK s \in segments : x = FileOf(s.id, s.rows, TRUE)
      BY <2>2 DEF SegmentFiles
    <3>2. x.rows = s.rows
      BY <3>1 DEF FileOf
    <3> QED BY <1>0, <1>5, <2>2, <3>2 DEF AllLogged
  <2>3. ASSUME NEW f \in Flushers, flushPc[f] = "built", x.rows = FlushRows(Head(drained[f]))
        PROVE  Logged(x.rows[k], k) /\ Behind(x, k)
    <3>1. Logged(x.rows[k], k)
      BY <1>0, <1>5, <2>3, OutputsLogged
    <3>2. InMemory(Flushers, k) # {}
      BY <1>0, <1>5, <2>3, OutputsBehind
    <3> QED BY <3>1, <3>2 DEF Behind
  <2>4. ASSUME NEW c \in Compactors, compPc[c] = "built", x.id = compSeg[c],
               x.rows = Merge(compSet[c])
        PROVE  Logged(x.rows[k], k) /\ Behind(x, k)
    <3>1. Logged(x.rows[k], k)
      BY <1>0, <1>5, <2>4, OutputsLogged
    <3>2. \/ \E s \in segments : s.id > x.id /\ s.rows[k] # NoRow
          \/ Merge(segments)[k] = x.rows[k]
      BY <1>0, <1>5, <2>4, OutputsBehind
    <3> QED BY <3>1, <3>2 DEF Behind
  <2> QED BY <2>1, <2>2, <2>3, <2>4, CrashFiles
<1>6. SegmentFiles \subseteq files'
  BY DEF Crash
<1>7. LogInv'
  BY <1>0, <1>4, <1>5, EndKeepsLog
<1>8. SurvivesNow'
  BY <1>0, <1>4, <1>5, <1>6, EndSurvives
<1> QED BY <1>7, <1>8

\* Close leaves the files that were there but for torn ones, the segments, and the
\* memtables it could write.
LEMMA CloseFiles ==
  ASSUME DiskInv, Close, NEW x \in WholeFiles(files')
  PROVE  \/ x \in WholeFiles(files)
         \/ x \in SegmentFiles
         \/ \E i \in DOMAIN Drain : Drain[i] \in MemTable /\ x.rows = FlushRows(Drain[i])
<1>0. /\ TypeOK /\ nextSegID \in Nat /\ x \in files' /\ x.whole
      /\ x \in files => x \in WholeFiles(files)
  BY DEF DiskInv, IInv, TypeOK, WholeFiles
<1>1. PICK left \in [DOMAIN Drain -> Endings] :
        files' = {y \in files : \A i \in DOMAIN Drain : y.id # nextSegID + i}
                 \cup SegmentFiles
                 \cup UNION {Left(left[i], nextSegID + i, FlushRows(Drain[i])) : i \in DOMAIN Drain}
  BY DEF Close
<1>2. ASSUME NEW i \in DOMAIN Drain, x \in Left(left[i], nextSegID + i, FlushRows(Drain[i]))
      PROVE  Drain[i] \in MemTable /\ x.rows = FlushRows(Drain[i])
  <2>1. Drain \in Seq(MemTable)
    BY <1>0, DrainType
  <2>2. DOMAIN Drain = 1..Len(Drain) /\ Len(Drain) \in Nat
    BY <2>1, LenProperties
  <2>3. Drain[i] \in MemTable
    BY <2>1, <2>2, ElementOfSeq
  <2>4. nextSegID + i \in Nat /\ FlushRows(Drain[i]) \in MemTable /\ left[i] \in Endings
    BY <1>0, <2>2, <2>3, FlushRowsType
  <2> QED BY <1>0, <1>2, <2>3, <2>4, LeftIs
<1> QED BY <1>0, <1>1, <1>2

\* So does Close: it writes what is in memory, in files above the others.
LEMMA CloseSurvives ==
  ASSUME DiskInv, DiskInv', LogInv, UpInv, Close
  PROVE  LogInv' /\ SurvivesNow'
<1>0. IInv /\ TypeOK /\ AllLogged /\ mode = "up" /\ LoseMemory
  BY DEF DiskInv, IInv, LogInv, Close
<1>1. Len(wal) \in Nat /\ synced \in 0..Len(wal) /\ wal' = wal /\ synced' = Len(wal)
  BY LogRows DEF DiskInv, DurableTypeOK, Close
<1>2. synced' = Len(wal') /\ Len(wal') \in synced..Len(wal) /\ \A i \in 1..Len(wal') : wal'[i] = wal[i]
  BY <1>1
<1>3. ASSUME NEW k \in Keys, NEW i \in DOMAIN Drain, Drain[i] \in MemTable,
             FlushRows(Drain[i])[k] # NoRow
      PROVE  Drain[i][k] \in InMemory(Flushers, k)
  <2>1. Drain[i][k] # NoRow
    BY <1>3, EmptiedIs
  <2>2. Drain[i][k] \in RowsIn(Drain, k)
    BY DEF RowsIn
  <2>3. RowsIn(Drain, k) \subseteq RowsIn(immutable, k) \cup {active[k]}
    BY <1>0, RowsInQueue DEF Drain, TypeOK
  <2> QED BY <2>1, <2>2, <2>3 DEF InMemory
<1>4. ASSUME NEW x \in WholeFiles(files'), NEW k \in Keys, x.rows[k] # NoRow
      PROVE  /\ Logged(x.rows[k], k)
             /\ x \notin SegmentFiles => Behind(x, k)
  <2>1. CASE x \in WholeFiles(files)
    BY <1>0, <1>4, <2>1 DEF AllLogged, UpInv, LeftBehind
  <2>2. CASE x \in SegmentFiles
    <3>1. PICK s \in segments : x = FileOf(s.id, s.rows, TRUE)
      BY <2>2 DEF SegmentFiles
    <3>2. x.rows = s.rows
      BY <3>1 DEF FileOf
    <3> QED BY <1>0, <1>4, <2>2, <3>2 DEF AllLogged
  <2>3. ASSUME NEW i \in DOMAIN Drain, Drain[i] \in MemTable, x.rows = FlushRows(Drain[i])
        PROVE  Logged(x.rows[k], k) /\ Behind(x, k)
    <3>1. Drain[i][k] \in InMemory(Flushers, k)
      BY <1>3, <1>4, <2>3
    <3>2. Logged(x.rows[k], k)
      BY <1>0, <2>3, <3>1, OutputsLogged
    <3> QED BY <3>1, <3>2 DEF Behind
  <2> QED BY <2>1, <2>2, <2>3, CloseFiles
<1>5. SegmentFiles \subseteq files'
  BY DEF Close
<1>6. LogInv'
  BY <1>0, <1>2, <1>4, EndKeepsLog
<1>7. SurvivesNow'
  BY <1>0, <1>2, <1>4, <1>5, EndSurvives
<1> QED BY <1>6, <1>7

-----------------------------------------------------------------------------
(* The restart *)

\* A replay gives a key the last row that no checkpoint covers, in the form of a file.
LEMMA ReplayedRow ==
  ASSUME NEW log \in Seq(LogRecord), NEW k \in Keys, ReplayMem(log)[k] # NoRow
  PROVE  \E i \in Applied(log, k) :
           /\ \A j \in Applied(log, k) : j <= i
           /\ i \in 1..Len(log) /\ log[i].rows[k] \in Row
           /\ ReplayMem(log)[k] = Emptied(log[i].rows[k])
           /\ ReplayMem(log)[k].ver > LastFlushed(log)
<1>1. Applied(log, k) # {}
  BY ReplayRow
<1>2. PICK i \in Applied(log, k) : \A j \in Applied(log, k) : j <= i
  BY <1>1, ReplayRow
<1>3. i \in 1..Len(log) /\ ReplayMem(log)[k] = Emptied(log[i].rows[k])
  BY <1>2, ReplayRow
<1>4. log[i].rows[k] # NoRow /\ log[i].rows[k].ver > LastFlushed(log)
  BY DEF Applied
<1>5. log[i].rows[k] \in Row
  <2>1. log[i].rows[k] \in Row \cup {NoRow}
    BY <1>3, LogRows
  <2> QED BY <1>4, <2>1
<1> QED BY <1>2, <1>3, <1>4, <1>5, EmptiedIs

\* What a restart makes of log and files.
LEMMA RestartIs ==
  ASSUME DiskInv, LogInv, Restart
  PROVE  /\ wal \in Seq(LogRecord) /\ Len(wal) \in Nat /\ synced = Len(wal)
         /\ UNCHANGED <<wal, synced>>
         /\ \A i \in 1..Len(wal), k \in Keys :
              wal[i].rows[k] # NoRow /\ wal[i].rows[k].ver > LastFlushed(wal)
                => i \in Applied(wal, k)
         /\ active' = ReplayMem(wal) /\ segments' = Loaded(files) /\ WholeFiles(files') = {}
         /\ \A w \in Writers : pending'[w] = NoOp
         /\ \A f \in Flushers : flushPc'[f] = "idle"
         /\ \A c \in Compactors : compPc'[c] = "idle" /\ compSet'[c] = {}
         /\ \A k \in Keys :
              /\ InMemory(Flushers, k)' = {ReplayMem(wal)[k]} \ {NoRow}
              /\ TableHolders(immutable', k) = {}
              /\ \A f \in Flushers : TableHolders(drained'[f], k) = {}
<1>0. mode = "down" /\ DownEmpty /\ LogShaped
  BY DEF Restart, DiskInv, LogInv
<1>1. wal \in Seq(LogRecord) /\ Len(wal) \in Nat /\ synced = Len(wal) /\ DOMAIN wal = 1..Len(wal)
  BY <1>0, LogRows, LenProperties DEF DiskInv, DurableTypeOK, DownEmpty
<1>2. ASSUME NEW i \in 1..Len(wal), NEW k \in Keys, wal[i].rows[k] # NoRow,
             wal[i].rows[k].ver > LastFlushed(wal)
      PROVE  i \in Applied(wal, k)
  <2>1. Decodable(wal[i])
    BY <1>0 DEF Decodable, KeysOf, LogShaped
  <2> QED BY <1>1, <1>2, <2>1 DEF Applied
<1>3. /\ immutable' = <<>> /\ active' = ReplayMem(wal) /\ segments' = Loaded(files)
      /\ \A f \in Flushers : drained'[f] = <<>> /\ flushPc'[f] = "idle"
      /\ \A c \in Compactors : compPc'[c] = "idle" /\ compSet'[c] = {}
      /\ \A w \in Writers : pending'[w] = NoOp
      /\ UNCHANGED <<wal, synced>> /\ files' = files \ WholeFiles(files)
  BY <1>0 DEF Restart, DownEmpty, flushVars, compactVars
<1>4. WholeFiles(files') = {}
  BY <1>3 DEF WholeFiles
<1>5. ASSUME NEW k \in Keys
      PROVE  /\ InMemory(Flushers, k)' = {ReplayMem(wal)[k]} \ {NoRow}
             /\ TableHolders(immutable', k) = {}
             /\ \A f \in Flushers : TableHolders(drained'[f], k) = {}
  <2>1. RowsIn(immutable', k) = {} /\ \A f \in Flushers : RowsIn(drained'[f], k) = {}
    BY <1>3 DEF RowsIn
  <2>2. InMemory(Flushers, k)' = {ReplayMem(wal)[k]} \ {NoRow}
    BY <1>3, <2>1 DEF InMemory, RowsIn
  <2> QED BY <1>3, <2>2, EmptyQueueRow
<1> QED BY <1>1, <1>2, <1>3, <1>4, <1>5

\* NewEngine leaves the log as it is, and the counter above its rows unless it has regressed.
LEMMA RestartKeepsLog ==
  ASSUME DiskInv, DiskInv', LogInv, Restart, ~ regressed'
  PROVE  LogInv'
<1> DEFINE LoggedThen(r, k) == \E i \in 1..synced' :
             /\ wal'[i].rows[k] # NoRow
             /\ r \in {wal'[i].rows[k], Emptied(wal'[i].rows[k])}
<1>0. /\ AllLogged /\ LogShaped /\ VersionsRise
  BY DEF LogInv
<1>1. /\ wal \in Seq(LogRecord) /\ Len(wal) \in Nat /\ synced = Len(wal) /\ wal' = wal
      /\ synced' = synced
  BY RestartIs
<1>2. ASSUME NEW k \in Keys, NEW r, Logged(r, k)
      PROVE  LoggedThen(r, k)
  BY <1>1, <1>2 DEF Logged, From
<1>3. ASSUME NEW k \in Keys, ReplayMem(wal)[k] # NoRow
      PROVE  LoggedThen(ReplayMem(wal)[k], k)
  <2>1. PICK i \in 1..Len(wal) : wal[i].rows[k] \in Row /\ ReplayMem(wal)[k] = Emptied(wal[i].rows[k])
    BY <1>1, <1>3, ReplayedRow
  <2> QED BY <1>1, <2>1, SentinelAssumption
<1>4. /\ Loaded(files) \subseteq Segment
      /\ \A s \in Loaded(files) : FileOf(s.id, s.rows, TRUE) \in WholeFiles(files)
      /\ HighestID(files) \in Nat /\ \A s \in Loaded(files) : s.id <= HighestID(files)
  <2>1. /\ files \subseteq File /\ IsFiniteSet(files)
        /\ \A x, y \in WholeFiles(files) : x.id = y.id => x = y
    BY DEF DiskInv, DurableTypeOK, FilesNamed, WholeFiles
  <2>2. /\ Loaded(files) \subseteq Segment
        /\ \A s \in Loaded(files) : FileOf(s.id, s.rows, TRUE) \in WholeFiles(files)
    BY <2>1, LoadedSegments
  <2>3. HighestID(files) \in Nat /\ \A x \in files : x.id <= HighestID(files)
    BY <2>1, HighestIDIs
  <2>4. \A s \in Loaded(files) : s.id <= HighestID(files)
    <3> TAKE s \in Loaded(files)
    <3>1. FileOf(s.id, s.rows, TRUE) \in files
      BY <2>2 DEF WholeFiles
    <3> QED BY <2>3, <3>1 DEF FileOf
  <2> QED BY <2>2, <2>3, <2>4
<1>5. ASSUME NEW k \in Keys, NEW s \in Loaded(files), s.rows[k] # NoRow
      PROVE  Logged(s.rows[k], k)
  <2>1. FileOf(s.id, s.rows, TRUE).rows = s.rows
    BY DEF FileOf
  <2> QED BY <1>0, <1>4, <1>5, <2>1 DEF AllLogged
<1>6. ASSUME NEW k \in Keys, latest'[k] # NoRow
      PROVE  LoggedThen(latest'[k], k)
  <2>1. latest'[k] = IF ReplayMem(wal)[k] # NoRow THEN ReplayMem(wal)[k]
                     ELSE Merge(Loaded(files))[k]
    BY DEF Restart
  <2>2. CASE ReplayMem(wal)[k] # NoRow
    BY <1>3, <2>1, <2>2
  <2>3. CASE ReplayMem(wal)[k] = NoRow
    <3>1. PICK s \in Loaded(files) : s.rows[k] = Merge(Loaded(files))[k]
      BY <1>4, <1>6, <2>1, <2>3, MergedRow
    <3> QED BY <1>2, <1>5, <1>6, <2>1, <2>3, <3>1
  <2> QED BY <2>2, <2>3
<1>7. AllLogged'
  <2> SUFFICES ASSUME NEW k \in Keys
               PROVE  /\ \A r \in InMemory(Flushers, k)' : LoggedThen(r, k)
                      /\ \A s \in segments' : s.rows[k] # NoRow => LoggedThen(s.rows[k], k)
                      /\ \A c \in Compactors : \A s \in compSet'[c] :
                           s.rows[k] # NoRow => LoggedThen(s.rows[k], k)
                      /\ \A x \in WholeFiles(files') : x.rows[k] # NoRow => LoggedThen(x.rows[k], k)
                      /\ latest'[k] # NoRow => LoggedThen(latest'[k], k)
    BY DEF AllLogged, WholeFiles, Logged, From, Emptied, InMemory, RowsIn
  <2> HIDE DEF LoggedThen
  <2>1. /\ InMemory(Flushers, k)' = {ReplayMem(wal)[k]} \ {NoRow}
        /\ segments' = Loaded(files) /\ WholeFiles(files') = {}
        /\ \A c \in Compactors : compSet'[c] = {}
    BY RestartIs
  <2> QED BY <1>2, <1>3, <1>5, <1>6, <2>1
<1>8. LogShaped'
  <2>1. nextVersion' = MaxReplayed(wal) + 1 /\ ~ (MaxReplayed(wal) + 1 < LastFlushed(wal))
    BY DEF Restart
  <2>2. /\ MaxReplayed(wal) \in Nat /\ LastFlushed(wal) \in Nat
        /\ \A k \in Keys : \A i \in Applied(wal, k) : wal[i].rows[k].ver <= MaxReplayed(wal)
        /\ \A i \in 1..Len(wal) : wal[i].ckpt => wal[i].ver <= LastFlushed(wal)
    BY <1>1, ReplayType, LastFlushedIs
  <2>3. ASSUME NEW i \in 1..Len(wal)
        PROVE  /\ \A k \in Keys : wal[i].rows[k] # NoRow =>
                    /\ wal[i].rows[k].kind \in {"value", "tombstone"}
                    /\ wal[i].rows[k].ver <= MaxReplayed(wal) + 1
               /\ wal[i].ckpt => wal[i].ver <= MaxReplayed(wal) + 1
    <3>1. ASSUME NEW k \in Keys, wal[i].rows[k] # NoRow
          PROVE  wal[i].rows[k].ver <= MaxReplayed(wal) + 1
      <4>1. wal[i].rows[k].ver \in Nat
        <5>1. wal[i].rows[k] \in Row \cup {NoRow}
          BY <1>1, LogRows
        <5> QED BY <3>1, <5>1 DEF Row
      <4>2. CASE wal[i].rows[k].ver > LastFlushed(wal)
        <5>1. wal[i].rows[k].ver <= MaxReplayed(wal)
          BY <2>2, <3>1, <4>2, RestartIs
        <5> QED BY <2>2, <4>1, <5>1
      <4>3. CASE ~ (wal[i].rows[k].ver > LastFlushed(wal))
        BY <2>1, <2>2, <4>1, <4>3
      <4> QED BY <4>2, <4>3
    <3>2. wal[i].ckpt => wal[i].ver <= MaxReplayed(wal) + 1
      <4>1. wal[i].ver \in Nat
        BY <1>1, LogRows
      <4> QED BY <2>1, <2>2, <4>1
    <3> QED BY <1>0, <3>1, <3>2 DEF LogShaped
  <2> QED BY <1>1, <2>1, <2>3 DEF LogShaped
<1>9. VersionsRise'
  BY <1>0, <1>1 DEF VersionsRise
<1>10. CallsApart' /\ CallsInLog'
  <2>1. \A w \in Writers : pending'[w] = NoOp
    BY RestartIs
  <2> QED BY <2>1 DEF CallsApart, CallsInLog
<1> QED BY <1>7, <1>8, <1>9, <1>10 DEF LogInv

\* The engine that NewEngine makes relies on no more than its log and its segments.
LEMMA RestartUpInv ==
  ASSUME DiskInv, DiskInv', LogInv, Restart
  PROVE  UpInv'
<1>1. /\ wal \in Seq(LogRecord) /\ Len(wal) \in Nat /\ synced = Len(wal) /\ wal' = wal
      /\ synced' = synced /\ active' = ReplayMem(wal) /\ segments' = Loaded(files)
      /\ WholeFiles(files') = {}
      /\ \A w \in Writers : pending'[w] = NoOp
      /\ \A f \in Flushers : flushPc'[f] = "idle"
      /\ \A c \in Compactors : compPc'[c] = "idle"
  BY RestartIs
<1>2. AgeOrder'
  BY <1>1 DEF AgeOrder, OneFlush, NoCrossing, FlushIsNewest, MergingIsAll, BuiltInPlace, Flushing
<1>3. \A k \in Keys : latest'[k] = IF ReplayMem(wal)[k] # NoRow THEN ReplayMem(wal)[k]
                                   ELSE Merge(Loaded(files))[k]
  BY DEF Restart
<1>4. StoredCurrent'
  <2> SUFFICES ASSUME NEW k \in Keys PROVE StoredRow(k)' = latest'[k]
    BY DEF StoredCurrent, Current
  <2>1. /\ TableHolders(immutable', k) = {}
        /\ \A f \in Flushers : TableHolders(drained'[f], k) = {}
    BY RestartIs
  <2>2. StoredRow(k)' = IF active'[k] # NoRow THEN active'[k] ELSE Merge(segments')[k]
    <3>1. TypeOK /\ TypeOK'
      BY DEF DiskInv, IInv
    <3>2. StoredRow(k)' = RowIn(active', immutable', drained', segments', k)
      BY <3>1, StoredRowIs
    <3> QED BY <2>1, <3>2 DEF RowIn, Above, QueueRow, FlushRow
  <2> QED BY <1>1, <1>3, <2>2
<1>5. InDoubt'
  <2> SUFFICES ASSUME NEW k \in Keys, NEW i \in 1..Len(wal'), wal'[i].rows[k] # NoRow,
                      wal'[i].rows[k].ver > FlushedForSure'
               PROVE  \E j \in i..synced' : /\ wal'[j].rows[k] # NoRow
                                            /\ latest'[k] \in {wal'[j].rows[k], Emptied(wal'[j].rows[k])}
    BY DEF InDoubt, From, Emptied
  <2>1. /\ FlushedForSure' = LastFlushed(SubSeq(wal, 1, synced)) /\ LastFlushed(wal) \in Nat
        /\ LastFlushed(wal) <= FlushedForSure' /\ FlushedForSure' \in Nat
    <3>1. FlushedForSure' = LastFlushed(SubSeq(wal, 1, synced))
      BY <1>1 DEF FlushedForSure, LastFlushed
    <3> DEFINE cut == SubSeq(wal, 1, synced)
    <3>2. cut \in Seq(LogRecord) /\ Len(cut) = synced /\ \A j \in 1..synced : cut[j] = wal[j]
      <4>1. synced \in 0..Len(wal)
        BY <1>1
      <4> QED BY <1>1, <4>1, CutIs
    <3> HIDE DEF cut
    <3>3. Len(wal) <= Len(cut) /\ \A j \in 1..Len(wal) : cut[j] = wal[j]
      BY <1>1, <3>2
    <3>4. LastFlushed(wal) <= LastFlushed(cut) /\ LastFlushed(wal) \in Nat /\ LastFlushed(cut) \in Nat
      BY <1>1, <3>2, <3>3, PrefixFlushed, LastFlushedIs
    <3> QED BY <3>1, <3>4 DEF cut
  <2>2. PICK v \in Nat : v = FlushedForSure'
    BY <2>1
  <2>3. i \in 1..Len(wal) /\ wal[i].rows[k] # NoRow /\ wal[i].rows[k].ver > LastFlushed(wal)
    <3>1. i \in 1..Len(wal) /\ wal[i].rows[k] # NoRow /\ wal[i].rows[k].ver > v
      BY <1>1, <2>2
    <3>2. wal[i].rows[k] \in Row \cup {NoRow}
      BY <1>1, <3>1, LogRows
    <3>3. wal[i].rows[k].ver \in Nat
      BY <3>1, <3>2 DEF Row
    <3>4. LastFlushed(wal) <= v /\ LastFlushed(wal) \in Nat
      BY <2>1, <2>2
    <3> QED BY <3>1, <3>3, <3>4
  <2>4. i \in Applied(wal, k)
    BY <2>3, RestartIs
  <2>5. PICK j \in Applied(wal, k) : \A m \in Applied(wal, k) : m <= j
    BY <1>1, <2>4, ReplayRow
  <2>6. j \in 1..Len(wal) /\ ReplayMem(wal)[k] = Emptied(wal[j].rows[k]) /\ wal[j].rows[k] # NoRow
    BY <1>1, <2>5, ReplayRow DEF Applied
  <2>7. Emptied(wal[j].rows[k]) # NoRow
    <3>1. wal[j].rows[k] \in Row \cup {NoRow}
      BY <1>1, <2>6, LogRows
    <3>2. Emptied(wal[j].rows[k]) \in Row
      BY <2>6, <3>1, EmptiedIs
    <3> QED BY <3>2, SentinelAssumption
  <2>8. latest'[k] = Emptied(wal[j].rows[k])
    BY <1>3, <2>6, <2>7
  <2>9. j \in i..synced'
    BY <1>1, <2>3, <2>4, <2>5, <2>6
  <2> QED BY <1>1, <2>6, <2>8, <2>9
<1>6. AboveCheckpoints'
  <2>1. ASSUME NEW k \in Keys, NEW r \in InMemory(Flushers, k)'
        PROVE  r.ver > Flushed'
    <3>1. Flushed' = LastFlushed(wal)
      BY <1>1 DEF Flushed, LastFlushed
    <3>2. r = ReplayMem(wal)[k] /\ r # NoRow
      BY <2>1, RestartIs
    <3> QED BY <1>1, <3>1, <3>2, ReplayedRow
  <2> QED BY <1>1, <2>1 DEF AboveCheckpoints
<1>7. AboveFlushes' /\ FlushAboveFiles'
  BY <1>1 DEF AboveFlushes, FlushAboveFiles
<1>8. LeftBehind'
  BY <1>1 DEF LeftBehind, WholeFiles
<1> QED BY <1>2, <1>4, <1>5, <1>6, <1>7, <1>8 DEF UpInv

-----------------------------------------------------------------------------
(* The invariant *)

\* What went wrong stays on record.
LEMMA FlawsStay ==
  ASSUME DiskInv, [DurableNext]_allVars, Sound'
  PROVE  Sound
<1>1. ASSUME UNCHANGED <<raced, clashed, overtaken, regressed>> PROVE Sound
  BY <1>1 DEF Sound
<1>2. ASSUME raced => raced', clashed => clashed', overtaken => overtaken',
             regressed => regressed'
      PROVE  Sound
  BY <1>2, Zenon DEF Sound
<1>3. CASE EngineSteps
  <2>1. raced => raced'
    BY <1>3, StepsOfEngine, RacedStays
  <2>2. /\ clashed => clashed'
        /\ overtaken => overtaken'
        /\ regressed => regressed'
    <3>1. ASSUME NEW w \in Writers, WriterDoes(w)
          PROVE  (clashed => clashed') /\ UNCHANGED <<overtaken, regressed>>
      <4>1. ASSUME NEW op \in Calls[w], Alloc(w, op)
            PROVE  (clashed => clashed') /\ UNCHANGED <<overtaken, regressed>>
        BY <4>1, Zenon DEF Alloc
      <4>2. ASSUME ~ \E op \in Calls[w] : Alloc(w, op)
            PROVE  UNCHANGED <<clashed, overtaken, regressed>>
        BY <3>1, <4>2 DEF WriterDoes, AppendRecord, SyncRecord, PutAndReturn, CallFails, flawVars
      <4> QED BY <4>1, <4>2
    <3>2. ASSUME NEW f \in Flushers, FlusherDoes(f)
          PROVE  (overtaken => overtaken') /\ UNCHANGED <<clashed, regressed>>
      <4>1. ASSUME BeginFlush(f)
            PROVE  (overtaken => overtaken') /\ UNCHANGED <<clashed, regressed>>
        BY <4>1, Zenon DEF BeginFlush
      <4>2. ASSUME ~ BeginFlush(f)
            PROVE  UNCHANGED <<clashed, overtaken, regressed>>
        BY <3>2, <4>2 DEF FlusherDoes, BuildFlush, RegisterFlush, FailFlush,
           AppendCheckpoint, SyncCheckpoint, flawVars, durableVars
      <4> QED BY <4>1, <4>2
    <3>3. ASSUME NEW c \in Compactors, CompactorDoes(c)
          PROVE  UNCHANGED <<clashed, overtaken, regressed>>
      BY <3>3 DEF CompactorDoes, BeginCompact, BuildCompact, InstallCompact, FailCompact,
         flawVars, durableVars
    <3> QED BY <1>3, <3>1, <3>2, <3>3 DEF EngineSteps
  <2> QED BY <1>2, <2>1, <2>2
<1>4. CASE Crash \/ Close
  BY <1>1, <1>4 DEF Crash, Close, LoseMemory, flawVars
<1>5. CASE Restart
  BY <1>2, <1>5 DEF Restart
<1>6. CASE RefuseStart \/ Rest \/ UNCHANGED allVars
  BY <1>1, <1>6 DEF RefuseStart, Rest, allVars, vars, durableVars, flawVars
<1> QED BY <1>3, <1>4, <1>5, <1>6 DEF DurableNext, EngineSteps

\* No call is under way when a process begins or ends.
LEMMA NumberedAtEnds ==
  ASSUME DiskInv, Crash \/ Close \/ Restart
  PROVE  CallsNumbered'
<1>1. \A w \in Writers : pending'[w] = NoOp
  BY DEF Crash, Close, LoseMemory, Restart, DiskInv, DownEmpty
<1> QED BY <1>1 DEF CallsNumbered

\* A step that changes at most the mode of an engine that does not run.
LEMMA QuietKeeps ==
  ASSUME DurableInv, DiskInv',
         UNCHANGED <<vars, diskVars, walPc, ckptPc, restarts, maybe, flawVars>>,
         mode' = mode \/ (mode = "down" /\ mode' = "stuck")
  PROVE  DurableInv'
<1>1. UNCHANGED <<nextVersion, active, immutable, pending, latest, segments, l0Count, segSeq,
                  nextSegID, flushPc, drained, flushVer, flushSeg, compPc, compSet, compSeg,
                  raced, wal, synced, files, walPc, ckptPc, restarts, maybe, clashed,
                  overtaken, regressed>>
  BY DEF vars, engineVars, segmentVars, flushVars, compactVars, diskVars, flawVars
<1>2. CallsNumbered' /\ Sound' = Sound
  BY <1>1 DEF DurableInv, CallsNumbered, Sound
<1>3. ASSUME Sound PROVE LogInv'
  <2>1. AllLogged'
    <3>1. /\ \A k \in Keys : InMemory(Flushers, k)' = InMemory(Flushers, k)
          /\ \A r : \A k \in Keys : Logged(r, k)' = Logged(r, k)
      BY <1>1 DEF InMemory, RowsIn, Logged, From, Emptied
    <3>2. WholeFiles(files)' = WholeFiles(files)
      BY <1>1 DEF WholeFiles
    <3>3. AllLogged
      BY <1>3 DEF DurableInv, LogInv
    <3> QED BY <1>1, <3>1, <3>2, <3>3 DEF AllLogged
  <2>2. LogShaped' /\ CallsApart' /\ VersionsRise' /\ CallsInLog'
    BY <1>1, <1>3 DEF DurableInv, LogInv, LogShaped, CallsApart, VersionsRise, CallsInLog
  <2> QED BY <2>1, <2>2 DEF LogInv
<1>4. ASSUME Sound, mode = "up" PROVE UpInv'
  <2>0. UpInv /\ StoreInv
    BY <1>4 DEF DurableInv, UpInv, StoreInv, DiskInv
  <2>1. AgeOrder' /\ StoredCurrent'
    <3>1. StoreInv'
      BY <2>0, StepStoreInv
    <3> QED BY <1>1, <1>2, <1>4, <3>1 DEF StoreInv, Sound
  <2>2. InDoubt'
    <3>1. FlushedForSure' = FlushedForSure
      BY <1>1 DEF FlushedForSure, LastFlushed
    <3>2. \A k \in Keys, j \in Nat : From(latest[k], j, k)' = From(latest[k], j, k)
      BY <1>1 DEF From, Emptied
    <3>3. InDoubt /\ Len(wal) \in Nat /\ synced \in Nat
      BY <2>0, LogRows DEF UpInv, DurableInv, DiskInv, DurableTypeOK
    <3>4. \A k \in Keys, i \in 1..Len(wal) : \A j \in i..synced : j \in Nat
      BY <3>3
    <3> HIDE DEF FlushedForSure
    <3> QED BY <1>1, <3>1, <3>2, <3>3, <3>4 DEF InDoubt
  <2>3. \A k \in Keys : /\ InMemory(Flushers, k)' = InMemory(Flushers, k)
                       /\ \A f \in Flushers :
                            InMemory(Flushers \ {f}, k)' = InMemory(Flushers \ {f}, k)
    BY <1>1 DEF InMemory, RowsIn
  <2>4. AboveCheckpoints'
    BY <1>1, <2>0, <2>3 DEF UpInv, AboveCheckpoints, Flushed, LastFlushed
  <2>5. AboveFlushes'
    BY <1>1, <2>0, <2>3 DEF UpInv, AboveFlushes
  <2>6. WholeFiles(files') = WholeFiles(files) /\ Merge(segments)' = Merge(segments)
    BY <1>1
  <2>7. LeftBehind' /\ FlushAboveFiles'
    BY <1>1, <2>0, <2>3, <2>6 DEF UpInv, LeftBehind, Behind, FlushAboveFiles
  <2> QED BY <2>1, <2>2, <2>4, <2>5, <2>7 DEF UpInv
<1>5. ASSUME Sound, mode # "up" PROVE SurvivesNow'
  <2>1. SurvivesNow
    BY <1>5 DEF DurableInv
  <2>2. SegmentFiles' = SegmentFiles
    BY <1>1 DEF SegmentFiles
  <2> QED BY <1>1, <2>1, <2>2 DEF SurvivesNow, Acceptable, Restored
<1> QED BY <1>2, <1>3, <1>4, <1>5 DEF DurableInv

\* A new database has an empty log and no files.
LEMMA InitDurable == DurableInit => DurableInv
<1> SUFFICES ASSUME DurableInit PROVE DurableInv
  OBVIOUS
<1>0. DiskInv /\ StoreInv
  BY InitDisk, InitStoreInv DEF DurableInit
<1>1. /\ active = EmptyMem /\ immutable = <<>> /\ segments = {} /\ latest = EmptyMem
      /\ wal = <<>> /\ Len(wal) = 0 /\ synced = 0 /\ files = {} /\ mode = "up" /\ ~ raced
      /\ \A w \in Writers : pending[w] = NoOp
      /\ \A f \in Flushers : drained[f] = <<>> /\ flushPc[f] = "idle"
      /\ \A c \in Compactors : compSet[c] = {}
  BY EmptySeq DEF DurableInit, Init
<1>2. \A k \in Keys : InMemory(Flushers, k) = {}
  BY <1>1 DEF InMemory, RowsIn, EmptyMem
<1>3. LogInv
  <2>1. AllLogged
    BY <1>1, <1>2 DEF AllLogged, WholeFiles, EmptyMem
  <2>2. LogShaped /\ CallsApart /\ VersionsRise /\ CallsInLog
    BY <1>1 DEF LogShaped, CallsApart, VersionsRise, CallsInLog
  <2> QED BY <2>1, <2>2 DEF LogInv
<1>4. UpInv
  <2>1. AgeOrder /\ StoredCurrent
    BY <1>0, <1>1 DEF StoreInv
  <2>2. InDoubt
    BY <1>1 DEF InDoubt
  <2>3. AboveCheckpoints /\ AboveFlushes
    BY <1>1, <1>2 DEF AboveCheckpoints, AboveFlushes
  <2>4. LeftBehind /\ FlushAboveFiles
    BY <1>1 DEF LeftBehind, FlushAboveFiles, WholeFiles
  <2> QED BY <2>1, <2>2, <2>3, <2>4 DEF UpInv
<1> QED BY <1>0, <1>1, <1>3, <1>4 DEF DurableInv, StoreInv

\* The invariant is inductive.
LEMMA StepDurableInv ==
  ASSUME NoNulls, DurableInv, [DurableNext]_allVars
  PROVE  DurableInv'
<1>0. DiskInv /\ DiskInv' /\ CallsNumbered
  BY StepDisk DEF DurableInv
<1>1. ASSUME Sound' PROVE Sound /\ LogInv
  BY <1>0, <1>1, FlawsStay DEF DurableInv
<1>2. CASE EngineSteps
  <2>1. [Next]_vars /\ mode = "up" /\ mode' = mode
    BY <1>0, <1>2, StepsOfEngine
  <2>2. CallsNumbered'
    BY <1>0, <2>1, StepCallsNumbered DEF DiskInv
  <2>3. ASSUME Sound' PROVE LogInv' /\ UpInv'
    <3>1. LogInv /\ UpInv
      BY <1>1, <2>1, <2>3 DEF DurableInv
    <3>2. AboveFlushes /\ ~ clashed'
      BY <2>3, <3>1 DEF UpInv, Sound
    <3> QED BY <1>0, <1>2, <2>3, <3>1, <3>2, StepLogInv, StepUpInv
  <2> QED BY <1>0, <2>1, <2>2, <2>3 DEF DurableInv
<1>3. CASE Crash \/ Close
  <2>1. mode = "up" /\ mode' = "down"
    BY <1>3 DEF Crash, Close, LoseMemory
  <2>2. ASSUME Sound' PROVE LogInv' /\ SurvivesNow'
    <3>1. LogInv /\ UpInv
      BY <1>1, <2>1, <2>2 DEF DurableInv
    <3> QED BY <1>0, <1>3, <3>1, CrashSurvives, CloseSurvives
  <2> QED BY <1>0, <1>3, <2>1, <2>2, NumberedAtEnds DEF DurableInv
<1>4. CASE Restart
  <2>1. mode' = "up"
    BY <1>4 DEF Restart
  <2>2. ASSUME Sound' PROVE LogInv' /\ UpInv'
    <3>1. LogInv /\ ~ regressed'
      BY <1>1, <2>2 DEF Sound
    <3> QED BY <1>0, <1>4, <3>1, RestartKeepsLog, RestartUpInv
  <2> QED BY <1>0, <1>4, <2>1, <2>2, NumberedAtEnds DEF DurableInv
<1>5. CASE RefuseStart
  BY <1>0, <1>5, QuietKeeps DEF RefuseStart
<1>6. CASE Rest \/ UNCHANGED allVars
  <2>1. UNCHANGED <<vars, diskVars, walPc, ckptPc, restarts, maybe, flawVars>> /\ mode' = mode
    BY <1>6 DEF Rest, allVars, durableVars
  <2> QED BY <1>0, <2>1, QuietKeeps
<1> QED BY <1>2, <1>3, <1>4, <1>5, <1>6 DEF DurableNext, EngineSteps

\* A power failure of a running engine leaves what every returned call needs.
LEMMA UpSurvives ==
  ASSUME DiskInv, LogInv, UpInv, mode = "up"
  PROVE  SurvivesNow
<1>0. /\ wal \in Seq(LogRecord) /\ Len(wal) \in Nat /\ synced \in 0..Len(wal)
      /\ files \subseteq File /\ IsFiniteSet(files) /\ FilesNamed /\ LeftBehind
      /\ SegmentFiles \subseteq File /\ IsFiniteSet(SegmentFiles)
  BY LogRows, SegmentFilesAre DEF DiskInv, DurableTypeOK, FilesNamed, UpInv
<1> DEFINE G == files \cup SegmentFiles
<1>1. /\ G \subseteq File /\ SegmentFiles \subseteq G
      /\ \A x, y \in WholeFiles(G) : x.id = y.id => x = y
      /\ \A x \in WholeFiles(G) \ SegmentFiles, k \in Keys : x.rows[k] # NoRow => Behind(x, k)
  BY <1>0 DEF FilesNamed, WholeFiles, LeftBehind
<1>2. IsFiniteSet(G)
  BY <1>0, FS_Union
<1>3. SUFFICES ASSUME NEW n \in synced..Len(wal), NEW k \in Keys
               PROVE  Acceptable(Restored(SubSeq(wal, 1, n), G, k), k)
  BY DEF SurvivesNow
<1>4. PICK log : log = SubSeq(wal, 1, n)
  OBVIOUS
<1>5. log \in Seq(LogRecord) /\ Len(log) = n /\ \A i \in 1..n : log[i] = wal[i]
  <2>1. n \in 0..Len(wal)
    BY <1>0
  <2> QED BY <1>0, <1>4, <2>1, CutIs
<1> HIDE DEF G
<1>6. Acceptable(Restored(log, G, k), k)
  BY <1>1, <1>2, <1>5, Survives
<1> QED BY <1>4, <1>6

\* After a power failure at any moment, and through any number of restarts, every key has
\* the row of the last returned call on it or of one that was under way (Put, DeleteRow,
\* Flush, Compact, the WAL and NewEngine together).  Excepted are the runs in which a flush
\* crossed a compaction or overtook a call, two calls on one key overlapped, or a restart
\* set nextVersion back; and calls with NULLs.
THEOREM ReturnedCallsSurvive == ASSUME NoNulls PROVE DurableSpec => []AckedSurvives
<1>1. DurableInv => AckedSurvives
  BY UpSurvives DEF DurableInv, AckedSurvives, Sound
<1> QED BY <1>1, InitDurable, StepDurableInv, PTL DEF DurableSpec
=============================================================================
