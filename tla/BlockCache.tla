----------------------------- MODULE BlockCache -----------------------------
(***************************************************************************)
(* The LRU cache of decoded segment columns (pkg/storage/cache.go).  An    *)
(* entry is evicted from the end of the order; what was used last is in    *)
(* front.  BlockCache holds its lock for the whole of each operation, so   *)
(* the operations are functions of the cache.                              *)
(***************************************************************************)
EXTENDS Segments

CONSTANTS
  CacheCapacity,  \* total size of the entries
  MaxEntry        \* Get caches no larger column (BlockCacheMaxEntrySize)

\* bySeg is segIndex: per segment, the columns that have an entry.
EmptyCache == [order |-> <<>>, used |-> 0, bySeg |-> << >>]

\* estimateDecodedSize: one for the entry and one per row.
SizeOf(vec) == 1 + Len(vec.data)

Is(e, seg, col) == e.seg = seg /\ e.col = col
Cached(c, seg, col) == \E i \in DOMAIN c.order : Is(c.order[i], seg, col)
EntryAt(c, seg, col) == CHOOSE i \in DOMAIN c.order : Is(c.order[i], seg, col)

MoveToFront(c, i) == [c EXCEPT !.order = <<c.order[i]>> \o RemoveAt(c.order, i)]

ColumnsOf(c, seg) == IF seg \in DOMAIN c.bySeg THEN c.bySeg[seg] ELSE {}

\* addToSegIndex and removeFromSegIndex; a segment without entries has no index.
Indexed(bySeg, seg, cols) ==
  IF cols = {} THEN [s \in DOMAIN bySeg \ {seg} |-> bySeg[s]]
  ELSE [s \in DOMAIN bySeg \cup {seg} |-> IF s = seg THEN cols ELSE bySeg[s]]

\* Faulty variant: the index keeps what was evicted.
DropKeepingIndex(c, i) ==
  LET e == c.order[i] IN
  [order |-> RemoveAt(c.order, i), used |-> c.used - e.size, bySeg |-> c.bySeg]

Drop(c, i) ==
  LET e == c.order[i] IN
  [order |-> RemoveAt(c.order, i), used |-> c.used - e.size,
   bySeg |-> Indexed(c.bySeg, e.seg, ColumnsOf(c, e.seg) \ {e.col})]

\* The oldest entries go until size fits.
Evicted(c, size) ==
  LET drop[n \in 0..Len(c.order)] == IF n = 0 THEN c ELSE Drop(drop[n - 1], Len(c.order) - n + 1)
      enough == {n \in 0..Len(c.order) :
                   drop[n].used + size <= CacheCapacity \/ n = Len(c.order)}
  IN drop[CHOOSE n \in enough : \A m \in enough : n <= m]

\* put: an entry that is there is replaced and leaves if it does not fit any more;
\* one that can never fit is refused.
Put(c, seg, col, vec) ==
  LET size == SizeOf(vec)
      entry == [seg |-> seg, col |-> col, data |-> vec, size |-> size]
  IN IF CacheCapacity <= 0 THEN c
     ELSE IF Cached(c, seg, col)
     THEN LET moved == MoveToFront(c, EntryAt(c, seg, col))
              new == [moved EXCEPT !.order[1] = entry,
                                   !.used = @ - moved.order[1].size + size]
          IN IF new.used > CacheCapacity THEN Drop(new, 1) ELSE new
     ELSE IF size > CacheCapacity THEN c
     ELSE LET room == Evicted(c, size) IN
          [order |-> <<entry>> \o room.order, used |-> room.used + size,
           bySeg |-> Indexed(room.bySeg, seg, ColumnsOf(room, seg) \cup {col})]

\* Invalidate removes the entries the index names.
Invalidate(c, seg) ==
  LET gone(e) == e.seg = seg /\ e.col \in ColumnsOf(c, seg)
      left == SelectSeq(c.order, LAMBDA e : ~gone(e))
  IN [order |-> left, used |-> FoldSeq(LAMBDA e, n : n + e.size, 0, left),
      bySeg |-> Indexed(c.bySeg, seg, {})]

\* A column of a segment as a reader gets it, and the cache afterwards: a hit moves
\* to the front, a decoded column is put if the reader's limit lets it.
ReadColumn(c, s, col, limit) ==
  IF CacheCapacity > 0 /\ Cached(c, s.id, col)
  THEN LET i == EntryAt(c, s.id, col) IN [cache |-> MoveToFront(c, i), vec |-> c.order[i].data]
  ELSE LET vec == Decode(s.columns[col]) IN
       [cache |-> IF SizeOf(vec) <= limit THEN Put(c, s.id, col, vec) ELSE c, vec |-> vec]
=============================================================================
