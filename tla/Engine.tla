------------------------------- MODULE Engine -------------------------------
(***************************************************************************)
(* The in-memory side of the LSM storage engine (pkg/storage): writers,    *)
(* memtables, flushes and compactions running at the same time.            *)
(*                                                                         *)
(* Every block of code that runs under Engine.mu is one action; whatever   *)
(* the code does after unlocking and before locking again may interleave   *)
(* with the other threads.  Flush and Compact are called by the background *)
(* scheduler and by the admin HTTP handlers, so several of each may run.   *)
(*                                                                         *)
(* Abstractions.                                                           *)
(*   - a row is the version the engine gave it and what its columns hold   *)
(*     (Kinds); the column values themselves are left out;                 *)
(*   - a memtable, and the contents of a segment, is a function from keys  *)
(*     to rows; its size in bytes is its number of keys;                   *)
(*   - a failed WAL append or sync is the action WriteFail; what the WAL   *)
(*     holds is in module Durable, which extends this one;                 *)
(*   - MaxVersion and MaxSegID bound the runs, not the code.               *)
(***************************************************************************)
EXTENDS Naturals, Sequences, FiniteSets

CONSTANTS
  Keys,        \* primary keys
  Writers,     \* client threads calling Write, WriteBatch or Delete
  Flushers,    \* threads calling Flush: the scheduler, the admin handler
  Compactors,  \* threads calling Compact: the scheduler, the admin handler
  Calls,       \* per writer, the calls it may make
  MemLimit,    \* number of keys at which a memtable is full (maxSize)
  NoRow,       \* "this table has no row for the key"
  NoOp,        \* "this writer is between two calls"
  MaxVersion,  \* bound: versions allocated in a run
  MaxSegID     \* bound: segment IDs allocated in a run

Kinds == {"value",     \* every column has a value
          "nulls",     \* a row with a NULL among its values
          "tombstone", \* Row{Tombstone: true}, Columns nil
          "empty"}     \* a row without any value that is not a tombstone

OpType == [call : {"Write", "WriteBatch", "Delete"},
           keys : Seq(Keys),
           kind : Kinds]

\* An empty batch returns at once and is not a call.
ASSUME CallsAssumption ==
  /\ Calls \in [Writers -> SUBSET OpType]
  /\ \A w \in Writers : \A op \in Calls[w] :
       /\ op.keys # <<>>
       /\ op.call # "WriteBatch" => Len(op.keys) = 1
       /\ op.call = "Delete" <=> op.kind = "tombstone"
       /\ op.kind # "empty"

ASSUME SizeAssumption ==
  /\ IsFiniteSet(Keys)
  /\ MemLimit \in Nat \ {0}
  /\ MaxVersion \in Nat
  /\ MaxSegID \in Nat

Row == [ver : Nat, kind : Kinds]
PendingCall == [op : OpType, base : Nat]

ASSUME SentinelAssumption == NoRow \notin Row /\ NoOp \notin PendingCall

VARIABLES
  nextVersion, \* Engine.nextVersion: the last version handed out
  active,      \* Engine.activeMem
  immutable,   \* Engine.immutable, oldest first
  segments,    \* Engine.segments with segmentLevels and segmentMap
  l0Count,     \* Engine.l0SegmentCount
  segSeq,      \* registrations so far: the next position in Engine.segments
  nextSegID,   \* segmentIDGen: the last segment ID handed out
  pending,     \* per writer: the call between version allocation and Put
  flushPc,     \* per flusher: where in Flush it is
  drained,     \* per flusher: the memtables it took out of the engine
  flushVer,    \* per flusher: flushVersion
  flushSeg,    \* per flusher: the ID of the segment it is writing
  compPc,      \* per compactor: where in Compact it is
  compSet,     \* per compactor: allSegments, the segments it merges
  compSeg,     \* per compactor: the ID of the segment it is writing
  \* History variables, read by the properties only.
  latest,      \* per key: the row the last Put wrote
  raced        \* a flush and a compaction, or two flushes, crossed

engineVars == <<nextVersion, active, immutable, pending, latest>>
segmentVars == <<segments, l0Count, segSeq, nextSegID>>
flushVars == <<flushPc, drained, flushVer, flushSeg>>
compactVars == <<compPc, compSet, compSeg>>
vars == <<engineVars, segmentVars, flushVars, compactVars, raced>>

-----------------------------------------------------------------------------
(* Memtables and segments *)

MemTable == [Keys -> Row \cup {NoRow}]
EmptyMem == [k \in Keys |-> NoRow]
KeysOf(m) == {k \in Keys : m[k] # NoRow}
Overwrite(m, rows) == [k \in Keys |-> IF rows[k] # NoRow THEN rows[k] ELSE m[k]]
ShouldFlush(m) == Cardinality(KeysOf(m)) >= MemLimit

Segment == [id : Nat, level : {0, 1}, pos : Nat, rows : MemTable]

\* The last row of a batch with key k.
RowsWith(keys, k) == {i \in DOMAIN keys : keys[i] = k}
LastWith(keys, k) == CHOOSE i \in RowsWith(keys, k) : \A j \in RowsWith(keys, k) : j <= i

\* The rows a call puts: row i of a batch gets version base + i - 1.
RowsOf(p) ==
  [k \in Keys |->
     IF RowsWith(p.op.keys, k) = {} THEN NoRow
     ELSE [ver |-> p.base + LastWith(p.op.keys, k) - 1, kind |-> p.op.kind]]

\* Segments are columnar and have no tombstone mark: a deleted row comes back
\* from a segment as a row whose columns are all NULL.
FlushRows(m) ==
  [k \in Keys |->
     IF m[k] # NoRow /\ m[k].kind = "tombstone"
     THEN [ver |-> m[k].ver, kind |-> "empty"] ELSE m[k]]

Holders(S, k) == {s \in S : s.rows[k] # NoRow}
\* Faulty variant: the first holder wins instead of the last.
OldestHolder(S, k) == CHOOSE s \in Holders(S, k) :
                         \A t \in Holders(S, k) : t.id >= s.id

NewestHolder(S, k) == CHOOSE s \in Holders(S, k) :
                         \A t \in Holders(S, k) : t.id <= s.id

\* mergeSegments: for each key the row of the segment with the highest ID.
Merge(S) ==
  [k \in Keys |-> IF Holders(S, k) = {} THEN NoRow ELSE NewestHolder(S, k).rows[k]]

Level(S, n) == {s \in S : s.level = n}

-----------------------------------------------------------------------------
(* Reads.  Get and Scan hold Engine.mu.RLock throughout, so they are state  *)
(* functions.                                                               *)

TableHolders(q, k) == {i \in DOMAIN q : q[i][k] # NoRow}
NewestTable(q, k) == CHOOSE i \in TableHolders(q, k) :
                        \A j \in TableHolders(q, k) : j <= i

\* What Get finds in the memtables, and then in the segments by ID.
GetRow(k) ==
  IF active[k] # NoRow THEN active[k]
  ELSE IF TableHolders(immutable, k) # {} THEN immutable[NewestTable(immutable, k)][k]
  ELSE Merge(segments)[k]

\* The merge iterator of Scan prefers the iterator with the highest index, and
\* segments are in the order in which they were registered.
ScanRow(k) ==
  IF active[k] # NoRow THEN active[k]
  ELSE IF TableHolders(immutable, k) # {} THEN immutable[NewestTable(immutable, k)][k]
  ELSE IF Holders(segments, k) = {} THEN NoRow
  ELSE (CHOOSE s \in Holders(segments, k) :
          \A t \in Holders(segments, k) : t.pos <= s.pos).rows[k]

-----------------------------------------------------------------------------
(* Writers *)

Init ==
  /\ nextVersion = 0
  /\ active = EmptyMem
  /\ immutable = <<>>
  /\ segments = {}
  /\ l0Count = 0
  /\ segSeq = 0
  /\ nextSegID = 0
  /\ pending = [w \in Writers |-> NoOp]
  /\ flushPc = [f \in Flushers |-> "idle"]
  /\ drained = [f \in Flushers |-> <<>>]
  /\ flushVer = [f \in Flushers |-> 0]
  /\ flushSeg = [f \in Flushers |-> 0]
  /\ compPc = [c \in Compactors |-> "idle"]
  /\ compSet = [c \in Compactors |-> {}]
  /\ compSeg = [c \in Compactors |-> 0]
  /\ latest = EmptyMem
  /\ raced = FALSE

\* nextVersion.Add(n), without Engine.mu.
AllocVersion(w, op) ==
  /\ pending[w] = NoOp
  /\ nextVersion + Len(op.keys) <= MaxVersion
  /\ nextVersion' = nextVersion + Len(op.keys)
  /\ pending' = [pending EXCEPT ![w] = [op |-> op, base |-> nextVersion + 1]]
  /\ UNCHANGED <<active, immutable, latest, segmentVars, flushVars, compactVars, raced>>

\* The WAL append or sync failed: the call returns its error, the version is lost.
WriteFail(w) ==
  /\ pending[w] # NoOp
  /\ pending' = [pending EXCEPT ![w] = NoOp]
  /\ UNCHANGED <<nextVersion, active, immutable, latest, segmentVars, flushVars,
                 compactVars, raced>>

\* Write and Delete rotate a full memtable first and then put the row.
PutOne(w) ==
  /\ pending[w] # NoOp
  /\ pending[w].op.call # "WriteBatch"
  /\ LET rows == RowsOf(pending[w]) IN
       /\ IF ShouldFlush(active)
          THEN /\ immutable' = Append(immutable, active)
               /\ active' = Overwrite(EmptyMem, rows)
          ELSE /\ active' = Overwrite(active, rows)
               /\ UNCHANGED immutable
       /\ latest' = Overwrite(latest, rows)
  /\ pending' = [pending EXCEPT ![w] = NoOp]
  /\ UNCHANGED <<nextVersion, segmentVars, flushVars, compactVars, raced>>

\* WriteBatch puts all its rows first and then rotates a full memtable.
PutBatch(w) ==
  /\ pending[w] # NoOp
  /\ pending[w].op.call = "WriteBatch"
  /\ LET rows == RowsOf(pending[w])
         full == Overwrite(active, rows) IN
       /\ IF ShouldFlush(full)
          THEN /\ immutable' = Append(immutable, full)
               /\ active' = EmptyMem
          ELSE /\ active' = full
               /\ UNCHANGED immutable
       /\ latest' = Overwrite(latest, rows)
  /\ pending' = [pending EXCEPT ![w] = NoOp]
  /\ UNCHANGED <<nextVersion, segmentVars, flushVars, compactVars, raced>>

-----------------------------------------------------------------------------
(* Flush *)

Flushing(f) == flushPc[f] \in {"drained", "built"}

\* drainImmutable's result: the immutable memtables and, unless it is empty, the
\* active one.
Drain == IF KeysOf(active) = {} THEN immutable ELSE Append(immutable, active)

\* Faulty variant: nextVersion - 1 underflows before the first write, after it is
\* one too low.
FlushBeginLow(f) ==
  /\ flushPc[f] = "idle"
  /\ Drain # <<>>
  /\ flushVer' = [flushVer EXCEPT ![f] = IF nextVersion > 0 THEN nextVersion - 2 ELSE 0]
  /\ drained' = [drained EXCEPT ![f] = Drain]
  /\ immutable' = <<>>
  /\ active' = EmptyMem
  /\ flushPc' = [flushPc EXCEPT ![f] = "drained"]
  /\ raced' = (raced \/ \E g \in Flushers \ {f} : Flushing(g))
  /\ UNCHANGED <<nextVersion, pending, latest, segmentVars, flushSeg, compactVars>>

\* First critical section of Flush: fix the version for the checkpoint, take
\* the memtables out of the engine.  With nothing to flush it returns.
FlushBegin(f) ==
  /\ flushPc[f] = "idle"
  /\ Drain # <<>>
  /\ flushVer' = [flushVer EXCEPT ![f] = IF nextVersion > 0 THEN nextVersion - 1 ELSE 0]
  /\ drained' = [drained EXCEPT ![f] = Drain]
  /\ immutable' = <<>>
  /\ active' = EmptyMem
  /\ flushPc' = [flushPc EXCEPT ![f] = "drained"]
  /\ raced' = (raced \/ \E g \in Flushers \ {f} : Flushing(g))
  /\ UNCHANGED <<nextVersion, pending, latest, segmentVars, flushSeg, compactVars>>

\* Flusher.Flush on the oldest drained memtable: it takes the next segment ID
\* and writes the file.
FlushBuild(f) ==
  /\ flushPc[f] = "drained"
  /\ nextSegID < MaxSegID
  /\ nextSegID' = nextSegID + 1
  /\ flushSeg' = [flushSeg EXCEPT ![f] = nextSegID + 1]
  /\ flushPc' = [flushPc EXCEPT ![f] = "built"]
  /\ raced' = (raced \/ \E c \in Compactors : compPc[c] = "merging")
  /\ UNCHANGED <<engineVars, segments, l0Count, segSeq, drained, flushVer, compactVars>>

FlushedSegment(f) == [id |-> flushSeg[f], level |-> 0, pos |-> segSeq + 1,
                      rows |-> FlushRows(Head(drained[f]))]

\* addSegment(seg, 0) under Engine.mu.
FlushRegister(f) ==
  /\ flushPc[f] = "built"
  /\ segments' = segments \cup {FlushedSegment(f)}
  /\ l0Count' = l0Count + 1
  /\ segSeq' = segSeq + 1
  /\ drained' = [drained EXCEPT ![f] = Tail(@)]
  /\ flushPc' = [flushPc EXCEPT ![f] = IF Len(drained[f]) > 1 THEN "drained"
                                       ELSE "checkpoint"]
  /\ UNCHANGED <<engineVars, nextSegID, flushVer, flushSeg, compactVars, raced>>

\* Faulty variant: the memtables go back behind those frozen since.
FlushFailBehind(f) ==
  /\ flushPc[f] = "built"
  /\ immutable' = immutable \o drained[f]
  /\ drained' = [drained EXCEPT ![f] = <<>>]
  /\ flushPc' = [flushPc EXCEPT ![f] = "idle"]
  /\ UNCHANGED <<nextVersion, active, pending, latest, segmentVars, flushVer, flushSeg,
                 compactVars, raced>>

\* Faulty variant: the checkpoint is written all the same.
FlushFailCheckpoint(f) ==
  /\ flushPc[f] = "built"
  /\ immutable' = drained[f] \o immutable
  /\ drained' = [drained EXCEPT ![f] = <<>>]
  /\ flushPc' = [flushPc EXCEPT ![f] = "checkpoint"]
  /\ UNCHANGED <<nextVersion, active, pending, latest, segmentVars, flushVer, flushSeg,
                 compactVars, raced>>

\* Encoding or writing the file failed: what is not yet flushed goes back in
\* front of the immutable queue, and there is no checkpoint.
FlushFail(f) ==
  /\ flushPc[f] = "built"
  /\ immutable' = drained[f] \o immutable
  /\ drained' = [drained EXCEPT ![f] = <<>>]
  /\ flushPc' = [flushPc EXCEPT ![f] = "idle"]
  /\ UNCHANGED <<nextVersion, active, pending, latest, segmentVars, flushVer, flushSeg,
                 compactVars, raced>>

\* writeCheckpoint; what it appends to the WAL is in module Durable.
FlushCheckpoint(f) ==
  /\ flushPc[f] = "checkpoint"
  /\ flushPc' = [flushPc EXCEPT ![f] = "idle"]
  /\ UNCHANGED <<engineVars, segmentVars, drained, flushVer, flushSeg, compactVars, raced>>

-----------------------------------------------------------------------------
(* Compact *)

\* First critical section: remember the segments of levels 0 and 1.
CompactBegin(c) ==
  /\ compPc[c] = "idle"
  /\ Level(segments, 0) # {}
  /\ compSet' = [compSet EXCEPT ![c] = Level(segments, 0) \cup Level(segments, 1)]
  /\ compPc' = [compPc EXCEPT ![c] = "merging"]
  /\ raced' = (raced \/ \E f \in Flushers : flushPc[f] = "built")
  /\ UNCHANGED <<engineVars, segmentVars, flushVars, compSeg>>

\* Faulty variant: the output is named after the newest input.
CompactBuildReuse(c) ==
  /\ compPc[c] = "merging"
  /\ compSeg' = [compSeg EXCEPT ![c] = nextSegID]
  /\ compPc' = [compPc EXCEPT ![c] = "built"]
  /\ UNCHANGED <<engineVars, segmentVars, flushVars, compSet, raced>>

\* Compactor.Compact: merge, and only then take the ID and write the file.
CompactBuild(c) ==
  /\ compPc[c] = "merging"
  /\ nextSegID < MaxSegID
  /\ nextSegID' = nextSegID + 1
  /\ compSeg' = [compSeg EXCEPT ![c] = nextSegID + 1]
  /\ compPc' = [compPc EXCEPT ![c] = "built"]
  /\ UNCHANGED <<engineVars, segments, l0Count, segSeq, flushVars, compSet, raced>>

CompactedSegment(c) == [id |-> compSeg[c], level |-> 1, pos |-> segSeq + 1,
                        rows |-> Merge(compSet[c])]
CompactIDs(c) == {s.id : s \in compSet[c]}

\* Faulty variants: the counter is reset instead of recounted; every level-0
\* segment is removed, not those that were merged.
CompactInstallReset(c) ==
  /\ compPc[c] = "built"
  /\ segments' = {s \in segments : s.id \notin CompactIDs(c)} \cup {CompactedSegment(c)}
  /\ l0Count' = 0
  /\ segSeq' = segSeq + 1
  /\ compPc' = [compPc EXCEPT ![c] = "idle"]
  /\ compSet' = [compSet EXCEPT ![c] = {}]
  /\ UNCHANGED <<engineVars, nextSegID, flushVars, compSeg, raced>>

CompactInstallAll(c) ==
  /\ compPc[c] = "built"
  /\ segments' = {CompactedSegment(c)}
  /\ l0Count' = 0
  /\ segSeq' = segSeq + 1
  /\ compPc' = [compPc EXCEPT ![c] = "idle"]
  /\ compSet' = [compSet EXCEPT ![c] = {}]
  /\ UNCHANGED <<engineVars, nextSegID, flushVars, compSeg, raced>>

\* addSegment(newSeg, 1), removeCompactedSegments and CleanupSegments.
CompactInstall(c) ==
  /\ compPc[c] = "built"
  /\ LET remaining == {s \in segments : s.id \notin CompactIDs(c)} IN
       /\ segments' = remaining \cup {CompactedSegment(c)}
       /\ l0Count' = Cardinality(Level(remaining, 0))
  /\ segSeq' = segSeq + 1
  /\ compPc' = [compPc EXCEPT ![c] = "idle"]
  /\ compSet' = [compSet EXCEPT ![c] = {}]
  /\ UNCHANGED <<engineVars, nextSegID, flushVars, compSeg, raced>>

\* A segment could not be decoded, or the file not be written: nothing changes.
CompactFail(c) ==
  /\ compPc[c] \in {"merging", "built"}
  /\ compPc' = [compPc EXCEPT ![c] = "idle"]
  /\ compSet' = [compSet EXCEPT ![c] = {}]
  /\ UNCHANGED <<engineVars, segmentVars, flushVars, compSeg, raced>>

-----------------------------------------------------------------------------

\* The clients have made all the calls of a run.
Quiesce ==
  /\ \A w \in Writers : pending[w] = NoOp
  /\ \A w \in Writers : \A op \in Calls[w] : nextVersion + Len(op.keys) > MaxVersion
  /\ UNCHANGED vars

WriterStep(w) == \/ \E op \in Calls[w] : AllocVersion(w, op)
                 \/ WriteFail(w)
                 \/ PutOne(w)
                 \/ PutBatch(w)
FlushStep(f) == \/ FlushBegin(f)
                \/ FlushBuild(f)
                \/ FlushRegister(f)
                \/ FlushFail(f)
                \/ FlushCheckpoint(f)
CompactStep(c) == \/ CompactBegin(c)
                  \/ CompactBuild(c)
                  \/ CompactInstall(c)
                  \/ CompactFail(c)

Next == \/ \E w \in Writers : WriterStep(w)
        \/ \E f \in Flushers : FlushStep(f)
        \/ \E c \in Compactors : CompactStep(c)
        \/ Quiesce

Spec == Init /\ [][Next]_vars
-----------------------------------------------------------------------------
(* Properties *)

TypeOK ==
  /\ nextVersion \in Nat
  /\ active \in MemTable
  /\ immutable \in Seq(MemTable)
  /\ segments \subseteq Segment
  /\ l0Count \in Nat
  /\ segSeq \in Nat
  /\ nextSegID \in Nat
  /\ pending \in [Writers -> PendingCall \cup {NoOp}]
  /\ flushPc \in [Flushers -> {"idle", "drained", "built", "checkpoint"}]
  /\ drained \in [Flushers -> Seq(MemTable)]
  /\ flushVer \in [Flushers -> Nat]
  /\ flushSeg \in [Flushers -> Nat]
  /\ compPc \in [Compactors -> {"idle", "merging", "built"}]
  /\ compSet \in [Compactors -> SUBSET Segment]
  /\ compSeg \in [Compactors -> Nat]
  /\ latest \in MemTable
  /\ raced \in BOOLEAN

\* The IDs in use: of the registered segments, and of those being written.
FlushIDs == {flushSeg[f] : f \in {g \in Flushers : flushPc[g] = "built"}}
CompactOutIDs == {compSeg[c] : c \in {d \in Compactors : compPc[d] = "built"}}
RegisteredIDs == {s.id : s \in segments}

\* A segment ID never names two segments: not two registered ones, nor a
\* registered one and one that a flush or a compaction is still writing.
\* segmentMap, the indexes and the file names all go by it.
SegmentIDsUnique ==
  /\ \A s, t \in segments : s.id = t.id => s = t
  /\ FlushIDs \cap CompactOutIDs = {}
  /\ (FlushIDs \cup CompactOutIDs) \cap RegisteredIDs = {}
  /\ \A f, g \in Flushers : f # g /\ flushPc[f] = "built" /\ flushPc[g] = "built"
                             => flushSeg[f] # flushSeg[g]
  /\ \A c, d \in Compactors : c # d /\ compPc[c] = "built" /\ compPc[d] = "built"
                               => compSeg[c] # compSeg[d]

\* l0SegmentCount, kept by hand in addSegment and recounted by
\* removeCompactedSegments, is the number of level-0 segments, whatever was
\* registered while a compaction ran.  It decides when to compact.
L0CountExact == l0Count = Cardinality(Level(segments, 0))

\* Where a key can be while the engine runs.
Held(k) == \/ active[k] # NoRow
           \/ TableHolders(immutable, k) # {}
           \/ \E f \in Flushers : TableHolders(drained[f], k) # {}
           \/ Holders(segments, k) # {}

\* No step of the running engine makes a key vanish from every table it is in:
\* not a failed flush, and not a compaction that installs its output over a set
\* of segments that changed since it read them.
KeyRetained == [][\A k \in Keys : Held(k) => Held(k)']_vars

\* What Get should return, up to what a segment cannot represent.
Current(row, last) ==
  IF last = NoRow THEN row = NoRow
  ELSE /\ row # NoRow
       /\ row.ver = last.ver
       /\ row.kind \in {last.kind, "empty"}
       /\ row.kind # last.kind => last.kind = "tombstone"

AtRest == \A f \in Flushers : drained[f] = <<>>

\* Unless a flush and a compaction (or two flushes) crossed, Get finds the row of
\* the last Put whenever no flush holds memtables, in whatever order flushes,
\* their failures and retries, and compactions ran before.
GetCurrentAtRest == AtRest /\ ~raced => \A k \in Keys : Current(GetRow(k), latest[k])

\* compaction.go: "the same key keeps the highest segment ID (newest version)".
\* The ID order is the age order only while no flush and compaction cross: with a
\* crossing, Get returns a row that was overwritten, and goes on doing so.
GetCurrent == AtRest => \A k \in Keys : Current(GetRow(k), latest[k])

\* Get and Scan resolve a key that several segments hold by the highest ID and by
\* the last registered.  A flush that takes its ID after a running compaction and
\* registers before it makes the two differ: Scan then returns the older row.
ScanAgreesWithGet == ~raced => \A k \in Keys : ScanRow(k) = GetRow(k)
=============================================================================
