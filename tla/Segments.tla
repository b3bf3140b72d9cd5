------------------------------ MODULE Segments ------------------------------
(***************************************************************************)
(* Segments: what a flush or a compaction builds from sorted rows, the     *)
(* file it is written to, the searches in it, and the indexes that decide  *)
(* whether it is read at all (pkg/storage/segment*.go, flusher.go,         *)
(* pkg/index).                                                             *)
(*                                                                         *)
(* A file is a sequence of cells: a length, a header field or an element   *)
(* takes one cell each, however many bytes that is.                        *)
(***************************************************************************)
EXTENDS Columns, SequencesExt

CONSTANTS
  Schema,         \* the table's columns in order: [name, typ]
  FalsePositives  \* keys that every Bloom filter takes for its own

Cols == DOMAIN Schema
ColumnNames == {Schema[c].name : c \in Cols}
Position(name) == CHOOSE c \in Cols : Schema[c].name = name
NullColumns == [n \in ColumnNames |-> Null]

\* A row on its way into a segment: its key and the values of its columns, a
\* missing one being NULL.
SegmentFrom(id, rows) ==
  LET enc == [c \in Cols |->
                Encode(Schema[c].typ, [i \in DOMAIN rows |-> rows[i].vals[Schema[c].name]])]
      keys == [i \in DOMAIN rows |-> rows[i].key]
  IN [id |-> id, minKey |-> keys[1], maxKey |-> keys[Len(keys)], keys |-> keys,
      columns |-> enc, stats |-> [c \in Cols |-> StatOf(enc[c])], bloom |-> ToSet(keys)]

-----------------------------------------------------------------------------
(* The file *)

Counted(cells) == <<Len(cells)>> \o cells
NullCells(e) == IF e.nulls = {} THEN <<>> ELSE <<e.nulls>>

\* SerializeColumnBlock: column number, encoding, compression, type, rows, and
\* the four counted parts; the offsets of plain strings are never used.
Block(c, e) == <<c, e.enc, 0, e.typ, e.rows>> \o Counted(NullCells(e)) \o Counted(e.data)
                 \o Counted(<<>>) \o Counted(e.dict)

FooterCells(s) == Counted(s.stats) \o <<s.bloom>> \o Counted(s.keys)

\* Serialize: magic, version, blocks, footer length, footer, footer position.
FileOfSegment(s) ==
  LET body == <<"magic", 1>> \o FlattenSeq([c \in DOMAIN s.columns |-> Block(c, s.columns[c])])
      footer == FooterCells(s)
  IN body \o <<Len(footer)>> \o footer \o <<Len(body) + 2>>

Header == 5   \* cells of a block before its counted parts

\* The position behind the counted part at p.
Behind(f, p) == p + 1 + f[p]
Part(f, p) == SubSeq(f, p + 1, p + f[p])

\* skipColumnBlock computes where the next block begins.
SkipBlock(f, p) == Behind(f, Behind(f, Behind(f, Behind(f, p + Header))))

\* Faulty variant: the dictionary is looked for where the offsets are.
ReadBlockOffsets(f, p) ==
  LET nulls == p + Header
      data == Behind(f, nulls)
      dict == Behind(f, data)
  IN [enc |-> f[p + 1], typ |-> f[p + 3], rows |-> f[p + 4],
      nulls |-> IF f[nulls] = 0 THEN {} ELSE f[nulls + 1],
      data |-> Part(f, data), dict |-> Part(f, dict)]

ReadBlock(f, p) ==
  LET nulls == p + Header
      data == Behind(f, nulls)
      dict == Behind(f, Behind(f, data))
  IN [enc |-> f[p + 1], typ |-> f[p + 3], rows |-> f[p + 4],
      nulls |-> IF f[nulls] = 0 THEN {} ELSE f[nulls + 1],
      data |-> Part(f, data), dict |-> Part(f, dict)]

\* readColumns walks the blocks up to the footer length.
ReadColumns(f, end) ==
  LET walk[p \in 3..end] == IF p >= end THEN <<>>
                            ELSE <<ReadBlock(f, p)>> \o walk[SkipBlock(f, p)]
  IN walk[3]

\* DeserializeSegment, with the identity and the bounds loadSegments sets.
SegmentOfFile(id, f) ==
  LET start == f[Len(f)]
      bloom == Behind(f, start)
      keys == Part(f, bloom + 1)
  IN [id |-> id, minKey |-> keys[1], maxKey |-> keys[Len(keys)], keys |-> keys,
      columns |-> ReadColumns(f, start - 1), stats |-> Part(f, start), bloom |-> f[bloom]]

-----------------------------------------------------------------------------
(* Searches: binary over the sorted keys, 0 when nothing is found *)

FindRow(s, key) ==
  LET n == Len(s.keys)
      find[lo \in 1..n + 1, hi \in 0..n] ==
        IF lo > hi THEN 0
        ELSE LET mid == lo + (hi - lo) \div 2 IN
             IF s.keys[mid] = key THEN mid
             ELSE IF StrLess(s.keys[mid], key) THEN find[mid + 1, hi] ELSE find[lo, mid - 1]
  IN find[1, n]

\* The first row whose key is not below key.
FindRowGE(s, key) ==
  LET n == Len(s.keys)
      find[lo \in 1..n + 1, hi \in 1..n + 1] ==
        IF lo = hi THEN lo
        ELSE LET mid == (lo + hi) \div 2 IN
             IF StrLess(s.keys[mid], key) THEN find[mid + 1, hi] ELSE find[lo, mid]
      at == find[1, n + 1]
  IN IF at > n THEN 0 ELSE at

\* Faulty variant: a key that is there is taken for a larger one.
FindRowLEStrict(s, key) ==
  Cardinality({i \in DOMAIN s.keys : StrLess(s.keys[i], key)})

\* The last row whose key is not above key.
FindRowLE(s, key) ==
  LET n == Len(s.keys)
      find[lo \in 1..n + 1, hi \in 1..n + 1] ==
        IF lo = hi THEN lo
        ELSE LET mid == (lo + hi) \div 2 IN
             IF ~StrLess(key, s.keys[mid]) THEN find[mid + 1, hi] ELSE find[lo, mid]
  IN find[1, n + 1] - 1

\* ComputeRange: the rows with keys from start to end.
RowRange(s, start, end) ==
  LET lo == FindRowGE(s, start) hi == FindRowLE(s, end) IN
  IF lo = 0 \/ hi = 0 THEN {} ELSE lo..hi

-----------------------------------------------------------------------------
(* Indexes *)

\* PrimaryIndex.Lookup: the segments whose bounds enclose the key.  A segment
\* with two empty bounds encloses nothing.
KeyInRange(s, key) ==
  /\ ~(s.minKey = "" /\ s.maxKey = "")
  /\ ~StrLess(key, s.minKey) /\ ~StrLess(s.maxKey, key)

Lookup(S, key) == {s \in S : KeyInRange(s, key)}

MayContain(s, key) == key \in s.bloom \cup FalsePositives

\* SparseIndex.CanSkip on the statistics registered for a column.  An empty
\* string among the bounds leaves the column without statistics.
HasStat(st) == /\ ~IsNull(st.min)
               /\ \A x \in {st.min, st.max} : ~(x.typ = "str" /\ x.raw = "")

\* Faulty variant: >= as >.
CanSkipStatOff(st, op, x) ==
  \/ op = "=" /\ (Less(x, st.min) \/ Less(st.max, x))
  \/ op = "<" /\ ~Less(st.min, x)
  \/ op = "<=" /\ Less(x, st.min)
  \/ op \in {">", ">="} /\ ~Less(x, st.max)

\* The predicates that exclude every value between the bounds.
CanSkipStat(st, op, x) ==
  \/ op = "=" /\ (Less(x, st.min) \/ Less(st.max, x))
  \/ op = "<" /\ ~Less(st.min, x)
  \/ op = "<=" /\ Less(x, st.min)
  \/ op = ">" /\ ~Less(x, st.max)
  \/ op = ">=" /\ Less(st.max, x)

CanSkip(s, p) == LET st == s.stats[Position(p.col)] IN
                 HasStat(st) /\ CanSkipStat(st, p.op, p.val)

\* canSkipSegment: one predicate that excludes the segment is enough.
CanSkipSegment(s, preds) == \E p \in preds : CanSkip(s, p)
=============================================================================
