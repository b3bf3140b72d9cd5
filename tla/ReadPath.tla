------------------------------ MODULE ReadPath ------------------------------
(***************************************************************************)
(* How a row is found again: MemTables, segments with their encodings and  *)
(* indexes, the column cache, Get, the scans and SELECT over them          *)
(* (pkg/storage/engine_ops.go, iterator.go, compaction.go; pkg/query).     *)
(*                                                                         *)
(* Abstractions.                                                           *)
(*   - Flush and Compact are atomic; how they cross writers and each other *)
(*     is module Engine;                                                   *)
(*   - every write has a value for every column, of the column's type;     *)
(*   - a MemTable is full with MemLimit keys.                              *)
(* A SELECT without column predicates scans without Engine.mu and is here  *)
(* in three steps; every other reader holds the lock and takes one.        *)
(***************************************************************************)
EXTENDS BlockCache, Executor

CONSTANTS
  Keys,       \* the keys that are written
  RowsFor,    \* the rows that may be written under a key
  MemLimit,   \* keys of a full MemTable
  MaxWrites,  \* bound: calls that write
  MaxID,      \* bound: segment IDs
  Queries,    \* the SELECTs that are asked
  ChunkSizes  \* rows of a chunk

ASSUME RowsAssumption ==
  \A k \in Keys : k # "" /\ \A v \in RowsFor[k] : DOMAIN v = ColumnNames
\* Pages end within the range of uint64, and so does every count of rows.
ASSUME UintAssumption == UintLimit \in Nat /\ UintLimit > Cardinality(Keys) + 1

VARIABLES
  active,     \* the active MemTable: its keys and their rows
  immutable,  \* the tables that wait for a flush, oldest first
  segments,   \* registered segments, in the order of registration
  levels,     \* their levels
  nextID,     \* the last segment ID given out
  cache,      \* the column cache
  scan,       \* an unlocked scan: what it has captured, and what it might return
  last,       \* history: the row written last under a key
  writes      \* calls made

vars == <<active, immutable, segments, levels, nextID, cache, scan, last, writes>>

Row(vals) == [tomb |-> FALSE, vals |-> vals]
Tombstone == [tomb |-> TRUE, vals |-> NullColumns]
Rows == {Row(v) : v \in UNION {RowsFor[k] : k \in Keys}} \cup {Tombstone}

Empty == << >>
ShouldFlush(m) == Cardinality(DOMAIN m) >= MemLimit
With(m, rows) == [k \in DOMAIN m \cup DOMAIN rows |-> IF k \in DOMAIN rows THEN rows[k] ELSE m[k]]

-----------------------------------------------------------------------------
(* Reading *)

\* A column as a reader sees it; whether the cache has it changes no value.
ColumnData(c, s, col) == ReadColumn(c, s, col, 0).vec
RowAt(c, s, i) == [n \in ColumnNames |-> ValueAt(ColumnData(c, s, Position(n)), i)]

\* Segments read column by column, in order.
Fetched(c, segs, limit) ==
  FoldLeft(LAMBDA d, s : FoldLeft(LAMBDA e, col : ReadColumn(e, s, col, limit).cache,
                                  d, [i \in Cols |-> i]),
           c, segs)

HoldersOf(segs, k) ==
  {s \in Lookup(ToSet(segs), k) : MayContain(s, k) /\ FindRow(s, k) # 0}
NewestSegment(S) == CHOOSE s \in S : \A t \in S : t.id <= s.id

\* Get: memory first, newest table first; then segments by descending ID.  A row of
\* a segment is never a tombstone.
InMemory(act, im, k) == k \in DOMAIN act \/ \E i \in DOMAIN im : k \in DOMAIN im[i]
GetRow(act, im, segs, c, k) ==
  IF k \in DOMAIN act THEN act[k]
  ELSE IF InMemory(act, im, k)
  THEN LET at == {i \in DOMAIN im : k \in DOMAIN im[i]} IN im[Max(at)][k]
  ELSE LET S == HoldersOf(segs, k) IN
       IF S = {} THEN Tombstone
       ELSE Row(RowAt(c, NewestSegment(S), FindRow(NewestSegment(S), k)))

\* What the iterators of a scan run over, in the order they are built.
Within(k, r) == ~StrLess(k, r.start) /\ ~StrLess(r.end, k)
Overlapping(segs, r) ==
  SelectSeq(segs, LAMBDA s : ~StrLess(r.end, s.minKey) /\ ~StrLess(s.maxKey, r.start))
SegmentRows(c, s, r) ==
  LET at == RowRange(s, r.start, r.end) IN
  [k \in {s.keys[i] : i \in at} |-> Row(RowAt(c, s, CHOOSE i \in at : s.keys[i] = k))]
TableRows(m, r) == [k \in {j \in DOMAIN m : Within(j, r)} |-> m[k]]
Sources(act, im, segs, c, r) ==
  [i \in DOMAIN segs |-> SegmentRows(c, segs[i], r)]
  \o [i \in DOMAIN im |-> TableRows(im[i], r)] \o <<TableRows(act, r)>>

\* Faulty variant: of the rows of a key the oldest wins.
WinnerOldest(sources, k) == sources[Min({i \in DOMAIN sources : k \in DOMAIN sources[i]})][k]

\* MergeIterator: of the rows of a key the one from the last source wins.
Winner(sources, k) == sources[Max({i \in DOMAIN sources : k \in DOMAIN sources[i]})][k]

\* What a scan returns: a tombstone that wins hides its key.
Entries(sources) ==
  LET keys == UNION {DOMAIN sources[i] : i \in DOMAIN sources}
      found == {k \in keys : ~Winner(sources, k).tomb}
      order == SetToSortSeq(found, StrLess)
  IN [i \in DOMAIN order |-> [key |-> order[i], vals |-> Winner(sources, order[i]).vals]]

FullRange == [start |-> "", end |-> HighestKey]
ScanRange(r) == Entries(Sources(active, immutable, Overlapping(segments, r), cache, r))

\* buildScanIteratorsWithPruning
Unskipped(segs, r, preds) ==
  SelectSeq(Overlapping(segs, r), LAMBDA s : ~CanSkipSegment(s, preds))

\* What a statement asks of the storage.
AskFor(plan, pred) ==
  [plan |-> plan, pred |-> pred, range |-> KeyRange(pred), preds |-> ColumnPredicates(pred)]
RequestFor(plan) == AskFor(plan, ScanOf(plan).pred)
RequestOf(q) == RequestFor(Optimize(Analyze(q)))
Request == [q \in Queries |-> RequestOf(q)]

SegmentsFor(request) == Unskipped(segments, request.range, request.preds)
EntriesFor(request) ==
  Entries(Sources(active, immutable, SegmentsFor(request), cache, request.range))
Found(request) == {e \in ToSet(EntriesFor(request)) : Matches(request.pred, e.vals)}

-----------------------------------------------------------------------------
(* Actions *)

NoScan == [pc |-> "idle", segs |-> <<>>, im |-> <<>>, could |-> << >>, crossed |-> FALSE,
           left |-> {}]

Init ==
  /\ active = Empty /\ immutable = <<>> /\ segments = <<>> /\ levels = <<>>
  /\ nextID = 0
  /\ cache = EmptyCache
  /\ scan = NoScan
  /\ last = Empty
  /\ writes = 0

\* A running scan notes the rows that became current, and whether a table moved
\* behind its back: to the segments before it read the waiting tables, or out of the
\* active table before it read that.
Noted(act, im, segs, c, moved) ==
  IF scan.pc = "idle" THEN scan
  ELSE [scan EXCEPT !.could = [k \in Keys |-> @[k] \cup {GetRow(act, im, segs, c, k)}],
                    !.crossed = @ \/ moved]

\* Engine.Write and Engine.Delete: a full table is put aside first.
Write(k, row) ==
  /\ writes < MaxWrites
  /\ LET full == ShouldFlush(active) IN
       /\ active' = With(IF full THEN Empty ELSE active, k :> row)
       /\ immutable' = IF full THEN Append(immutable, active) ELSE immutable
       /\ scan' = Noted(active', immutable', segments, cache, full /\ scan.pc = "tables")
  /\ last' = With(last, k :> row)
  /\ writes' = writes + 1
  /\ UNCHANGED <<segments, levels, nextID, cache>>

\* Engine.WriteBatch: the table is put aside afterwards.
WriteBatch(rows) ==
  /\ writes < MaxWrites
  /\ LET new == With(active, rows)
         full == ShouldFlush(new)
     IN /\ active' = IF full THEN Empty ELSE new
        /\ immutable' = IF full THEN Append(immutable, new) ELSE immutable
        /\ scan' = Noted(active', immutable', segments, cache, full /\ scan.pc = "tables")
  /\ last' = With(last, rows)
  /\ writes' = writes + 1
  /\ UNCHANGED <<segments, levels, nextID, cache>>

\* A table becomes a segment; its tombstones become rows of NULLs.
SegmentOfTable(id, m) ==
  LET keys == SetToSortSeq(DOMAIN m, StrLess) IN
  SegmentFrom(id, [i \in DOMAIN keys |-> [key |-> keys[i], vals |-> m[keys[i]].vals]])

Flush ==
  LET drained == IF active = Empty THEN immutable ELSE Append(immutable, active) IN
  /\ drained # <<>>
  /\ nextID + Len(drained) <= MaxID
  /\ segments' = segments \o [i \in DOMAIN drained |-> SegmentOfTable(nextID + i, drained[i])]
  /\ levels' = levels \o [i \in DOMAIN drained |-> 0]
  /\ nextID' = nextID + Len(drained)
  /\ active' = Empty /\ immutable' = <<>>
  /\ scan' = Noted(Empty, <<>>, segments', cache,
                   scan.pc = "segments" \/ (scan.pc = "tables" /\ active # Empty))
  /\ UNCHANGED <<cache, last, writes>>

\* mergeSegments: the rows of all segments, of a key the one with the highest ID.
MergedRows ==
  LET all == ToSet(segments)
      keys == SetToSortSeq(UNION {ToSet(s.keys) : s \in all}, StrLess)
      owner(k) == NewestSegment({s \in all : k \in ToSet(s.keys)})
  IN [i \in DOMAIN keys |->
        [key |-> keys[i],
         vals |-> RowAt(EmptyCache, owner(keys[i]), FindRow(owner(keys[i]), keys[i]))]]

\* Faulty variant: the levels of the merged segments stay.
CompactKeepingLevels ==
  /\ 0 \in ToSet(levels)
  /\ nextID < MaxID
  /\ segments' = <<SegmentFrom(nextID + 1, MergedRows)>>
  /\ levels' = Append(levels, 1)
  /\ nextID' = nextID + 1
  /\ UNCHANGED <<active, immutable, cache, scan, last, writes>>

\* Compact: with the new segment in place the old ones leave segments, indexes and
\* caches.
Compact ==
  /\ 0 \in ToSet(levels)
  /\ nextID < MaxID
  /\ segments' = <<SegmentFrom(nextID + 1, MergedRows)>>
  /\ levels' = <<1>>
  /\ nextID' = nextID + 1
  /\ cache' = FoldLeft(LAMBDA c, s : Invalidate(c, s.id), cache, segments)
  /\ scan' = [Noted(active, immutable, segments', cache', FALSE) EXCEPT
                !.left = @ \cup {s.id : s \in ToSet(scan.segs) \cap ToSet(segments)}]
  /\ UNCHANGED <<active, immutable, last, writes>>

\* Engine.Get of a key that only a segment has goes through the cache.
Get(k) ==
  /\ ~InMemory(active, immutable, k)
  /\ HoldersOf(segments, k) # {}
  /\ cache' = Fetched(cache, <<NewestSegment(HoldersOf(segments, k))>>, MaxEntry)
  /\ UNCHANGED <<active, immutable, segments, levels, nextID, scan, last, writes>>

\* The statements with column predicates that read a segment; the others leave the
\* cache as it is.
PrunedSelects == {q \in Queries : Request[q].preds # {} /\ SegmentsFor(Request[q]) # <<>>}

\* A SELECT with column predicates: ScanRangeWithPruning, under the lock.
SelectScan(q) ==
  /\ cache' = Fetched(cache, SegmentsFor(Request[q]), CacheCapacity)
  /\ UNCHANGED <<active, immutable, segments, levels, nextID, scan, last, writes>>

\* ScanRange without the lock: the segments, the waiting tables, the active table.
ScanSegments ==
  /\ scan.pc = "idle"
  /\ segments # <<>>
  /\ scan' = [scan EXCEPT !.pc = "segments", !.segs = segments, !.crossed = FALSE,
                !.could = [k \in Keys |-> {GetRow(active, immutable, segments, cache, k)}]]
  /\ UNCHANGED <<active, immutable, segments, levels, nextID, cache, last, writes>>

ScanTables ==
  /\ scan.pc = "segments"
  /\ scan' = [scan EXCEPT !.pc = "tables", !.im = immutable]
  /\ UNCHANGED <<active, immutable, segments, levels, nextID, cache, last, writes>>

\* Decoded columns go into the cache, those of a segment that is gone too.
ScanActive ==
  /\ scan.pc = "tables"
  /\ cache' = Fetched(cache, scan.segs, CacheCapacity)
  /\ scan' = [NoScan EXCEPT !.left = scan.left]
  /\ UNCHANGED <<active, immutable, segments, levels, nextID, last, writes>>

Next ==
  \/ \E k \in Keys : \E row \in {Row(v) : v \in RowsFor[k]} \cup {Tombstone} : Write(k, row)
  \/ \E rows \in [Keys -> Rows \ {Tombstone}] :
       (\A k \in Keys : rows[k].vals \in RowsFor[k]) /\ WriteBatch(rows)
  \/ Flush
  \/ Compact
  \/ \E k \in Keys : Get(k)
  \/ \E q \in PrunedSelects : SelectScan(q)
  \/ ScanSegments
  \/ ScanTables
  \/ ScanActive

Spec == Init /\ [][Next]_vars

-----------------------------------------------------------------------------
(* Properties *)

\* Types, and what relates the variables: every segment has a level and an ID that
\* was given out, its keys are sorted, and its columns are as long as its keys.
ReadPathTypeOK ==
  /\ DOMAIN active \subseteq Keys /\ \A i \in DOMAIN immutable : DOMAIN immutable[i] \subseteq Keys
  /\ \A k \in DOMAIN active : active[k] \in Rows
  /\ Len(levels) = Len(segments) /\ ToSet(levels) \subseteq {0, 1}
  /\ \A i \in DOMAIN segments : LET s == segments[i] IN
       /\ s.id \in 1..nextID
       /\ \A a, b \in DOMAIN s.keys : a < b => StrLess(s.keys[a], s.keys[b])
       /\ \A c \in Cols : s.columns[c].rows = Len(s.keys)
  /\ scan.pc \in {"idle", "segments", "tables"}
  /\ writes \in 0..MaxWrites

\* A segment written to a file and read back is the segment that was built: the
\* reader finds every block, the footer and the keys where the writer put them.
FilesRoundTrip ==
  \A i \in DOMAIN segments : SegmentOfFile(segments[i].id, FileOfSegment(segments[i])) = segments[i]

Current(k) == GetRow(active, immutable, segments, cache, k)

\* What is left of a row once it is in a segment: a deletion is a row of NULLs, and
\* of a BOOL only whether it is NULL.
SameAfterFlush(found, written) ==
  /\ ~found.tomb
  /\ \A n \in ColumnNames : LET x == found.vals[n] y == written.vals[n] IN
       IF Schema[Position(n)].typ = "bool" THEN IsNull(x) = IsNull(y) ELSE x = y

\* Get finds what was written last under the key, through MemTables, flushes,
\* encodings, compactions, indexes and the column cache.  Two defects of the code are
\* spelled out: a flushed deletion comes back as a row of NULLs, and a flushed BOOL
\* may have another value.
GetIsLogical ==
  \A k \in Keys :
    IF k \notin DOMAIN last THEN Current(k).tomb
    ELSE IF InMemory(active, immutable, k) THEN Current(k) = last[k]
    ELSE SameAfterFlush(Current(k), last[k])

Ranges == {[start |-> a, end |-> b] : a \in Keys \cup {""}, b \in Keys \cup {HighestKey}}

\* A range scan under the lock and Get agree: the scan returns, in key order, the row
\* Get finds for every key of the range that has one, and nothing else.
ScanIsGet ==
  \A r \in Ranges :
    LET keys == {k \in Keys : Within(k, r) /\ ~Current(k).tomb}
        order == SetToSortSeq(keys, StrLess)
    IN ScanRange(r) = [i \in DOMAIN order |-> [key |-> order[i], vals |-> Current(order[i]).vals]]

\* What the unlocked scan returns when it ends in this state.
Scanned(k) ==
  LET sources == Sources(active, scan.im, scan.segs, cache, FullRange)
  IN IF \E i \in DOMAIN sources : k \in DOMAIN sources[i] THEN Winner(sources, k) ELSE Tombstone

\* The server's scans run without Engine.mu.  For every key one returns a row that
\* was current while it ran, unless a table passed it: into the segments before the
\* waiting tables were read, or out of the active table before that was read.
ScanMissesOnlyWhenPassed ==
  [][scan.pc = "tables" /\ scan'.pc = "idle" =>
       scan.crossed \/ \A k \in Keys : Scanned(k) \in scan.could[k]]_vars

Predicates ==
  UNION {Request[q].preds : q \in Queries} \cup
  {[col |-> "n", op |-> op, val |-> IntVal(i)] : op \in Comparisons, i \in 0..1} \cup
  {[col |-> "s", op |-> op, val |-> StrVal("a")] : op \in Comparisons}

DictionarySorted(e) ==
  \A i, j \in DOMAIN e.dict : i < j => StrLess(e.dict[i], e.dict[j])

\* A dictionary out of order that lets a segment be skipped.
Disordered(s, p) ==
  LET e == s.columns[Position(p.col)] IN
  e.enc = "dict" /\ ~DictionarySorted(e) /\ CanSkip(s, p)

\* Statistics let a segment be skipped only if none of its rows matches.  The
\* exception is a string column whose dictionary is not in order: its first and last
\* entries pass for the least and the greatest.
PruneSafe ==
  \A s \in ToSet(segments) : \A p \in Predicates :
    CanSkip(s, p) => LET vec == Decode(s.columns[Position(p.col)]) IN
      \/ \A r \in DOMAIN s.keys :
           IsNull(ValueAt(vec, r)) \/ ~Holds(p.op, ValueAt(vec, r), p.val)
      \/ Disordered(s, p)

\* The segments whose row of the key is current: one, or none.
Owner(k) ==
  IF InMemory(active, immutable, k) THEN {}
  ELSE {s \in HoldersOf(segments, k) : \A t \in HoldersOf(segments, k) : t.id <= s.id}
Now == [k \in Keys |-> [row |-> Current(k), owner |-> Owner(k)]]
Skips(request, owner) == \E s \in owner : CanSkipSegment(s, request.preds)

Sound(request, found, now) ==
  \A e \in found : now[e.key].row = Row(e.vals) \/ Skips(request, now[e.key].owner)

\* SELECT returns no row that is not current, unless it skipped the segment with the
\* current one: then an overwritten row of an older segment comes to light.
SelectSound ==
  LET now == Now IN \A q \in Queries : Sound(Request[q], Found(Request[q]), now)

Complete(request, found, now) ==
  \A k \in Keys :
    ~now[k].row.tomb /\ Matches(request.pred, now[k].row.vals) =>
      \/ \E e \in found : e.key = k /\ Row(e.vals) = now[k].row
      \/ ~Within(k, request.range)
      \/ \E s \in now[k].owner : \E p \in request.preds : Disordered(s, p)

\* SELECT misses no current row that matches, except for two defects: a condition on
\* the first column is taken for a range of keys in the order of their text, and a
\* dictionary out of order lets its segment be skipped.
SelectComplete ==
  LET now == Now IN \A q \in Queries : Complete(Request[q], Found(Request[q]), now)

\* A fast condition of a plan that finds another column of the scan's in its place.
RECURSIVE Misplaced(_)
Misplaced(p) ==
  CASE p.k = "scan" -> FALSE
    [] p.k = "filter" ->
         LET cols == p.child.cols IN
         FastCondition(cols, p.cond) /\ cols[FastColumn(cols, p.cond.l)].name # p.cond.l.name
    [] OTHER -> Misplaced(p.child)

Rest == ScanRange(FullRange)
PlainPlan == [q \in Queries |-> Analyze(q)]

\* What a client sees of a result: whether there is one, its columns and its rows.
Observed(r) ==
  [ok |-> r.ok, names |-> [c \in DOMAIN r.cols |-> r.cols[c].name], rows |-> RowsOf(r)]

\* The rules of the optimizer change no result, whatever the size of a chunk.  A plan
\* that was not optimized may itself be wrong: its filter looks a column up by its
\* place in the table in a scan that reads fewer columns.
OptimizerPreserves ==
  LET rest == Rest IN
  \A q \in Queries : \A size \in ChunkSizes :
    \/ Misplaced(PlainPlan[q])
    \/ Cardinality({Observed(Execute(p, rest, size)) : p \in {PlainPlan[q], Request[q].plan}}) = 1

GroupPlan ==
  LET item(e) == [e |-> e, as |-> ""]
      cols == <<item(Name("b")), item(Name("s")), item(Agg("COUNT", Star))>>
  IN RequestOf([cols |-> cols, where |-> None, groups |-> <<Name("b"), Name("s")>>,
                limit |-> <<>>]).plan

\* A NULL and the string "NULL" have one text.
SameText(x, y) == x = y \/ {x, y} = {Null, StrVal("NULL")}

\* GROUP BY: every combination of values that occurs has one row in the result, with
\* the number of its rows; without rows there is one row of NULLs and a zero.  The
\* exception is a NULL and the string "NULL", which share a group (buildGroupKey): it
\* goes under the one that comes first.
GroupsPartition ==
  LET rest == Rest
      out == RowsOf(Execute(GroupPlan, rest, 2))
      alike(i, j) == \A n \in {"s", "b"} : SameText(rest[i].vals[n], rest[j].vals[n])
      groups == {{j \in DOMAIN rest : alike(i, j)} : i \in DOMAIN rest}
      rowOf(g) == LET first == rest[Min(g)].vals
                  IN <<first["b"], first["s"], IntVal(Cardinality(g))>>
  IN IF rest = <<>> THEN out = << <<Null, Null, IntVal(0)>> >>
     ELSE Len(out) = Cardinality(groups) /\ ToSet(out) = {rowOf(g) : g \in groups}

\* SELECT *, whole and by pages of an offset and a count, the greatest count included.
Pages == {<<0, 1>>, <<1, 1>>, <<1, 2>>, <<2, 1>>, <<0, 0>>}
         \cup {<<n, UintLimit - 1>> : n \in 0..1}
PagePlan == [p \in Pages \cup {<<>>} |->
  RequestOf([cols |-> <<[e |-> Star, as |-> ""]>>, where |-> None, groups |-> <<>>, limit |-> p]).plan]
PagesOf(rest, size) == [p \in DOMAIN PagePlan |-> RowsOf(Execute(PagePlan[p], rest, size))]

\* A page is the part of the whole result it should be, but for a BOOL when the page
\* begins in the middle of a word.
SamePage(rows, p, size) ==
  LET page == rows[p]
      want == SubSeq(rows[<<>>], p[1] + 1, Min({p[1] + p[2], Len(rows[<<>>])}))
      shifted == (p[1] % size) % WordBits # 0
  IN /\ Len(page) = Len(want)
     /\ \A r \in DOMAIN want : \A c \in Cols :
          IF Schema[c].typ = "bool" /\ shifted THEN IsNull(page[r][c]) = IsNull(want[r][c])
          ELSE page[r][c] = want[r][c]

\* The place of the first row in its chunk and the count have a sum beyond uint64.
Wraps(p, size) == (p[1] % size) + p[2] >= UintLimit

\* The pages of a SELECT are cut from its result, whatever the size of a chunk.  The
\* exception is a page whose end wraps in its first chunk (executor_ops.go:340): it is
\* empty, and whether it is depends on where the chunks begin.
PagesAreSlices ==
  LET rest == Rest IN
  \A size \in ChunkSizes : LET rows == PagesOf(rest, size) IN
    \A p \in Pages : IF Wraps(p, size) THEN rows[p] = <<>> ELSE SamePage(rows, p, size)

\* The column cache accounts for what it holds and stays within its capacity; its
\* index names exactly its entries; an entry is the column of its segment; and an
\* entry of a segment that is gone was put there by a scan that a compaction passed.
CacheSound ==
  LET entry(i) == cache.order[i] IN
  /\ cache.used = FoldSeq(LAMBDA e, n : n + e.size, 0, cache.order)
  /\ cache.used <= CacheCapacity
  /\ {<<entry(i).seg, entry(i).col>> : i \in DOMAIN cache.order}
       = UNION {{seg} \X cache.bySeg[seg] : seg \in DOMAIN cache.bySeg}
  /\ \A i, j \in DOMAIN cache.order : i # j =>
       <<entry(i).seg, entry(i).col>> # <<entry(j).seg, entry(j).col>>
  /\ \A i \in DOMAIN cache.order :
       \/ \E s \in ToSet(segments) : entry(i).seg = s.id /\ entry(i).data = Decode(s.columns[entry(i).col])
       \/ entry(i).seg \in scan.left
=============================================================================
