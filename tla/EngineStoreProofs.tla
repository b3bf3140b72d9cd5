------------------------- MODULE EngineStoreProofs --------------------------
(***************************************************************************)
(* Proofs about module EngineRefinement, for any number of keys, writers,  *)
(* flushers and compactors: as long as no flush and compaction cross, the  *)
(* newest row of every key is the one its last Put wrote, and the engine   *)
(* implements module KVStore.                                              *)
(***************************************************************************)
EXTENDS EngineRefinement, EngineProofs

(* The inductive invariant.                                                *)

\* Every call in progress has versions of its own, already handed out.
CallsNumbered ==
  /\ \A w \in Writers : pending[w] # NoOp =>
       pending[w].op \in Calls[w] /\ pending[w].base \in 1..nextVersion
  /\ \A v, w \in Writers : v # w /\ pending[v] # NoOp /\ pending[w] # NoOp
                             => pending[v].base # pending[w].base

\* One flush at a time holds memtables.
OneFlush == \A f, g \in Flushers : Flushing(f) /\ Flushing(g) => f = g

\* While a flush writes a file no compaction reads segments.
NoCrossing ==
  \A f \in Flushers, c \in Compactors : flushPc[f] = "built" => compPc[c] # "merging"

\* The memtable a flush writes has the highest ID, as it has the newest rows.
FlushIsNewest ==
  \A f \in Flushers : flushPc[f] = "built" =>
    /\ \A s \in segments : s.id < flushSeg[f]
    /\ \A c \in Compactors : compPc[c] = "built" => compSeg[c] < flushSeg[f]

\* A compaction merges all that is in segments, until it has its ID.
MergingIsAll ==
  \A c \in Compactors : compPc[c] = "merging" =>
    \A k \in Keys : Merge(compSet[c])[k] = Merge(segments)[k]

\* Its output has, for each key, the row that is in force unless a segment with a
\* higher ID has one; and a higher ID than its inputs.
BuiltInPlace ==
  \A c \in Compactors : compPc[c] = "built" =>
    /\ \A t \in compSet[c] : t.id < compSeg[c]
    /\ \A k \in Keys : (\A s \in Holders(segments, k) : s.id < compSeg[c])
                         => Merge(segments)[k] = Merge(compSet[c])[k]

AgeOrder == OneFlush /\ NoCrossing /\ FlushIsNewest /\ MergingIsAll /\ BuiltInPlace

\* The newest row of every key is the one its last Put wrote.
StoredCurrent == \A k \in Keys : Current(StoredRow(k), latest[k])

StoreInv == /\ IInv
            /\ CallsNumbered
            /\ ~raced => AgeOrder /\ StoredCurrent

-----------------------------------------------------------------------------
(* Lemmas about looking rows up *)

\* The first of two rows unless there is none.
Above(r, s) == IF r # NoRow THEN r ELSE s

\* The row of k in a queue of memtables, oldest first.
QueueRow(q, k) == IF TableHolders(q, k) # {} THEN q[NewestTable(q, k)][k] ELSE NoRow

\* The row in a queue is that of the last memtable with one.
LEMMA QueueRowIs ==
  ASSUME NEW q \in Seq(MemTable), NEW k \in Keys, NEW i \in 1..Len(q), q[i][k] # NoRow,
         \A j \in 1..Len(q) : j > i => q[j][k] = NoRow
  PROVE  QueueRow(q, k) = q[i][k]
<1>1. DOMAIN q = 1..Len(q) /\ Len(q) \in Nat
  BY LenProperties
<1>2. i \in TableHolders(q, k) /\ \A j \in TableHolders(q, k) : j <= i
  BY <1>1 DEF TableHolders
<1>3. /\ NewestTable(q, k) \in TableHolders(q, k)
      /\ \A j \in TableHolders(q, k) : j <= NewestTable(q, k)
  BY <1>2 DEF NewestTable
<1>4. NewestTable(q, k) = i
  BY <1>1, <1>2, <1>3 DEF TableHolders
<1> QED BY <1>2, <1>4 DEF QueueRow

\* A key that no memtable of the queue holds.
LEMMA QueueRowNone ==
  ASSUME NEW q \in Seq(MemTable), NEW k \in Keys, \A j \in 1..Len(q) : q[j][k] = NoRow
  PROVE  QueueRow(q, k) = NoRow
<1>1. DOMAIN q = 1..Len(q)
  BY LenProperties
<1> QED BY <1>1 DEF QueueRow, TableHolders

\* Either no memtable of the queue has a row or there is a last one that has.
LEMMA QueueRowCases ==
  ASSUME NEW q \in Seq(MemTable), NEW k \in Keys
  PROVE  \/ \A j \in 1..Len(q) : q[j][k] = NoRow
         \/ \E i \in 1..Len(q) : q[i][k] # NoRow /\ \A j \in 1..Len(q) : j > i => q[j][k] = NoRow
<1> SUFFICES ASSUME \E j \in 1..Len(q) : q[j][k] # NoRow
             PROVE  \E i \in 1..Len(q) : /\ q[i][k] # NoRow
                                         /\ \A j \in 1..Len(q) : j > i => q[j][k] = NoRow
  OBVIOUS
<1> DEFINE T == {j \in 1..Len(q) : q[j][k] # NoRow}
<1>1. Len(q) \in Nat
  BY LenProperties
<1>2. T \subseteq Nat /\ T # {} /\ \A j \in T : j <= Len(q)
  BY <1>1
<1>3. PICK i \in T : \A j \in T : j <= i
  <2> HIDE DEF T
  <2> QED BY <1>1, <1>2, GreatestNatural
<1>4. \A j \in 1..Len(q) : j > i => q[j][k] = NoRow
  BY <1>1, <1>3
<1> QED BY <1>3, <1>4

\* What a queue says about a key is a row exactly if one of its memtables has one.
LEMMA QueueRowType ==
  ASSUME NEW q \in Seq(MemTable), NEW k \in Keys
  PROVE  /\ QueueRow(q, k) \in Row \cup {NoRow}
         /\ QueueRow(q, k) # NoRow <=> TableHolders(q, k) # {}
<1>1. DOMAIN q = 1..Len(q) /\ \A i \in 1..Len(q) : q[i][k] \in Row \cup {NoRow}
  BY LenProperties, ElementOfSeq DEF MemTable
<1>2. CASE \A j \in 1..Len(q) : q[j][k] = NoRow
  BY <1>1, <1>2, QueueRowNone DEF TableHolders
<1>3. ASSUME NEW i \in 1..Len(q), q[i][k] # NoRow, \A j \in 1..Len(q) : j > i => q[j][k] = NoRow
      PROVE  QueueRow(q, k) \in Row /\ QueueRow(q, k) # NoRow /\ TableHolders(q, k) # {}
  <2>1. QueueRow(q, k) = q[i][k]
    BY <1>3, QueueRowIs
  <2>2. i \in TableHolders(q, k)
    BY <1>1, <1>3 DEF TableHolders
  <2> QED BY <1>1, <1>3, <2>1, <2>2
<1> QED BY <1>2, <1>3, QueueRowCases

\* Where the row of a queue comes from after Append, \o, Head and Tail.
LEMMA AppendRow ==
  ASSUME NEW q \in Seq(MemTable), NEW m \in MemTable, NEW k \in Keys
  PROVE  QueueRow(Append(q, m), k) = Above(m[k], QueueRow(q, k))
<1> DEFINE r == Append(q, m)
<1>1. /\ r \in Seq(MemTable) /\ Len(r) = Len(q) + 1 /\ Len(q) \in Nat
      /\ \A i \in 1..Len(q) : r[i] = q[i]
      /\ r[Len(q) + 1] = m
  BY AppendProperties, LenProperties
<1> HIDE DEF r
<1>2. CASE m[k] # NoRow
  <2>1. Len(r) \in 1..Len(r) /\ r[Len(r)][k] = m[k] /\ \A j \in 1..Len(r) : ~ (j > Len(r))
    BY <1>1
  <2>2. QueueRow(r, k) = m[k]
    BY <1>1, <1>2, <2>1, QueueRowIs
  <2> QED BY <1>2, <2>2 DEF Above, r
<1>3. CASE m[k] = NoRow
  <2>1. CASE \A j \in 1..Len(q) : q[j][k] = NoRow
    <3>1. \A j \in 1..Len(r) : r[j][k] = NoRow
      BY <1>1, <1>3, <2>1
    <3>2. QueueRow(r, k) = NoRow /\ QueueRow(q, k) = NoRow
      BY <1>1, <2>1, <3>1, QueueRowNone
    <3> QED BY <1>3, <3>2 DEF Above, r
  <2>2. ASSUME NEW i \in 1..Len(q), q[i][k] # NoRow, \A j \in 1..Len(q) : j > i => q[j][k] = NoRow
        PROVE  QueueRow(r, k) = QueueRow(q, k)
    <3>1. i \in 1..Len(r) /\ r[i][k] = q[i][k] /\ \A j \in 1..Len(r) : j > i => r[j][k] = NoRow
      BY <1>1, <1>3, <2>2
    <3>2. QueueRow(r, k) = r[i][k]
      BY <1>1, <2>2, <3>1, QueueRowIs
    <3> QED BY <2>2, <3>1, <3>2, QueueRowIs
  <2> QED BY <1>3, <2>1, <2>2, QueueRowCases DEF Above, r
<1> QED BY <1>2, <1>3

\* Of two queues in a row, the second one, the newer, speaks first.
LEMMA ConcatRow ==
  ASSUME NEW p \in Seq(MemTable), NEW q \in Seq(MemTable), NEW k \in Keys
  PROVE  QueueRow(p \o q, k) = Above(QueueRow(q, k), QueueRow(p, k))
<1> DEFINE r == p \o q
<1>1. /\ r \in Seq(MemTable) /\ Len(r) = Len(p) + Len(q) /\ Len(p) \in Nat /\ Len(q) \in Nat
      /\ \A i \in 1..Len(p) : r[i] = p[i]
      /\ \A i \in 1..Len(q) : r[Len(p) + i] = q[i]
      /\ \A i \in 1..Len(r) : i > Len(p) => r[i] = q[i - Len(p)] /\ i - Len(p) \in 1..Len(q)
  BY ConcatProperties, LenProperties
<1> HIDE DEF r
<1>2. ASSUME NEW i \in 1..Len(q), q[i][k] # NoRow, \A j \in 1..Len(q) : j > i => q[j][k] = NoRow
      PROVE  QueueRow(r, k) = Above(QueueRow(q, k), QueueRow(p, k))
  <2>1. QueueRow(q, k) = q[i][k]
    BY <1>2, QueueRowIs
  <2>2. /\ Len(p) + i \in 1..Len(r) /\ r[Len(p) + i][k] = q[i][k]
    BY <1>1
  <2>5. \A j \in 1..Len(r) : j > Len(p) + i =>
          r[j] = q[j - Len(p)] /\ j - Len(p) \in 1..Len(q) /\ j - Len(p) > i
    BY <1>1
  <2>6. \A j \in 1..Len(r) : j > Len(p) + i => r[j][k] = NoRow
    BY <1>2, <2>5
  <2>3. QueueRow(r, k) = q[i][k]
    BY <1>1, <1>2, <2>2, <2>6, QueueRowIs
  <2> QED BY <1>2, <2>1, <2>3 DEF Above
<1>3. CASE \A j \in 1..Len(q) : q[j][k] = NoRow
  <2>1. QueueRow(q, k) = NoRow
    BY <1>3, QueueRowNone
  <2>2. CASE \A j \in 1..Len(p) : p[j][k] = NoRow
    <3>1. \A j \in 1..Len(r) : j <= Len(p) => r[j][k] = NoRow
      BY <1>1, <2>2
    <3>2. \A j \in 1..Len(r) : j > Len(p) => r[j][k] = NoRow
      BY <1>1, <1>3
    <3>3. \A j \in 1..Len(r) : r[j][k] = NoRow
      BY <1>1, <3>1, <3>2
    <3>4. QueueRow(r, k) = NoRow /\ QueueRow(p, k) = NoRow
      BY <1>1, <2>2, <3>3, QueueRowNone
    <3> QED BY <2>1, <3>4 DEF Above, r
  <2>3. ASSUME NEW i \in 1..Len(p), p[i][k] # NoRow, \A j \in 1..Len(p) : j > i => p[j][k] = NoRow
        PROVE  QueueRow(r, k) = QueueRow(p, k)
    <3>1. i \in 1..Len(r) /\ r[i][k] = p[i][k]
      BY <1>1
    <3>2. \A j \in 1..Len(r) : j > i /\ j <= Len(p) => r[j][k] = NoRow
      BY <1>1, <2>3
    <3>3. \A j \in 1..Len(r) : j > Len(p) => r[j][k] = NoRow
      BY <1>1, <1>3
    <3>4. \A j \in 1..Len(r) : j > i => r[j][k] = NoRow
      BY <1>1, <3>2, <3>3
    <3>5. QueueRow(r, k) = r[i][k]
      BY <1>1, <2>3, <3>1, <3>4, QueueRowIs
    <3> QED BY <2>3, <3>1, <3>5, QueueRowIs
  <2> QED BY <2>1, <2>2, <2>3, QueueRowCases DEF Above, r
<1> QED BY <1>2, <1>3, QueueRowCases DEF r

\* The oldest memtable speaks when the rest of the queue is silent.
LEMMA HeadTailRow ==
  ASSUME NEW q \in Seq(MemTable), q # <<>>, NEW k \in Keys
  PROVE  QueueRow(q, k) = Above(QueueRow(Tail(q), k), Head(q)[k])
<1> DEFINE r == Tail(q)
<1>1. /\ r \in Seq(MemTable) /\ Len(r) = Len(q) - 1 /\ Len(q) \in Nat /\ Len(q) > 0
      /\ \A i \in 1..Len(r) : r[i] = q[i + 1]
      /\ Head(q) = q[1]
  BY HeadTailProperties, LenProperties, EmptySeq
<1> HIDE DEF r
<1>2. ASSUME NEW i \in 1..Len(r), r[i][k] # NoRow, \A j \in 1..Len(r) : j > i => r[j][k] = NoRow
      PROVE  QueueRow(q, k) = Above(QueueRow(r, k), q[1][k])
  <2>1. QueueRow(r, k) = r[i][k]
    BY <1>1, <1>2, QueueRowIs
  <2>2. i + 1 \in 1..Len(q) /\ q[i + 1][k] = r[i][k]
    BY <1>1
  <2>3. \A j \in 1..Len(q) : j > i + 1 => q[j] = r[j - 1] /\ j - 1 \in 1..Len(r) /\ j - 1 > i
    BY <1>1
  <2>4. \A j \in 1..Len(q) : j > i + 1 => q[j][k] = NoRow
    BY <1>2, <2>3
  <2>5. QueueRow(q, k) = r[i][k]
    BY <1>2, <2>2, <2>4, QueueRowIs
  <2> QED BY <1>2, <2>1, <2>5 DEF Above
<1>3. CASE \A j \in 1..Len(r) : r[j][k] = NoRow
  <2>1. QueueRow(r, k) = NoRow
    BY <1>1, <1>3, QueueRowNone
  <2>2. \A j \in 1..Len(q) : j > 1 => q[j] = r[j - 1] /\ j - 1 \in 1..Len(r)
    BY <1>1
  <2>3. \A j \in 1..Len(q) : j > 1 => q[j][k] = NoRow
    BY <1>3, <2>2
  <2>4. 1 \in 1..Len(q) /\ \A j \in 1..Len(q) : j = 1 \/ j > 1
    BY <1>1
  <2>5. QueueRow(q, k) = q[1][k]
    <3>1. CASE q[1][k] # NoRow
      BY <2>3, <2>4, <3>1, QueueRowIs
    <3>2. CASE q[1][k] = NoRow
      <4>1. \A j \in 1..Len(q) : q[j][k] = NoRow
        BY <2>3, <2>4, <3>2
      <4> QED BY <3>2, <4>1, QueueRowNone
    <3> QED BY <3>1, <3>2
  <2> QED BY <2>1, <2>5 DEF Above, r
<1> QED BY <1>1, <1>2, <1>3, QueueRowCases DEF r

-----------------------------------------------------------------------------
(* Lemmas about merging *)

\* With IDs of their own, the segment with the highest ID gives the row.
LEMMA MergeIs ==
  ASSUME NEW S, S \subseteq Segment, NEW k \in Keys, NEW s \in S, s.rows[k] # NoRow,
         \A t \in S : t.rows[k] # NoRow => t = s \/ t.id < s.id
  PROVE  Merge(S)[k] = s.rows[k]
<1>1. s \in Holders(S, k) /\ \A t \in Holders(S, k) : t.id \in Nat
  BY DEF Holders, Segment
<1>2. \A t \in Holders(S, k) : t.id <= s.id
  BY <1>1 DEF Holders
<1>3. /\ NewestHolder(S, k) \in Holders(S, k)
      /\ \A t \in Holders(S, k) : t.id <= NewestHolder(S, k).id
  BY <1>1, <1>2 DEF NewestHolder
<1>4. ~ (NewestHolder(S, k).id < s.id)
  BY <1>1, <1>3
<1>5. NewestHolder(S, k) = s
  BY <1>3, <1>4 DEF Holders
<1> QED BY <1>1, <1>5 DEF Merge

\* A key that no segment holds.
LEMMA MergeNone ==
  ASSUME NEW S, NEW k \in Keys, \A t \in S : t.rows[k] = NoRow
  PROVE  Merge(S)[k] = NoRow
BY DEF Merge, Holders

\* Either no segment has a row or there is a newest one that has.
LEMMA MergeCases ==
  ASSUME NEW S, S \subseteq Segment, NEW n \in Nat, \A s \in S : s.id <= n,
         \A s, t \in S : s.id = t.id => s = t, NEW k \in Keys
  PROVE  \/ \A t \in S : t.rows[k] = NoRow
         \/ \E s \in S : /\ s.rows[k] # NoRow
                         /\ \A t \in S : t.rows[k] # NoRow => t = s \/ t.id < s.id
<1> SUFFICES ASSUME \E t \in S : t.rows[k] # NoRow
             PROVE  \E s \in S : /\ s.rows[k] # NoRow
                                 /\ \A t \in S : t.rows[k] # NoRow => t = s \/ t.id < s.id
  OBVIOUS
<1> DEFINE T == {t.id : t \in Holders(S, k)}
<1>1. T \subseteq Nat /\ T # {} /\ \A j \in T : j <= n
  BY DEF Holders, Segment
<1>2. PICK i \in T : \A j \in T : j <= i
  <2> HIDE DEF T
  <2> QED BY <1>1, GreatestNatural
<1>3. PICK s \in S : s.rows[k] # NoRow /\ s.id = i
  BY <1>2 DEF Holders
<1>4. \A t \in S : t.rows[k] # NoRow => t.id <= s.id
  BY <1>2, <1>3 DEF Holders
<1>5. \A t \in S : t.id \in Nat
  BY DEF Segment
<1>6. \A t \in S : t.rows[k] # NoRow => t = s \/ t.id < s.id
  BY <1>3, <1>4, <1>5
<1> QED BY <1>3, <1>6

\* A segment with an ID above all others gives the rows it has.
LEMMA MergeAdd ==
  ASSUME NEW S, S \subseteq Segment, NEW n \in Nat, \A s \in S : s.id <= n,
         \A s, t \in S : s.id = t.id => s = t, NEW k \in Keys,
         NEW new \in Segment, \A s \in S : s.id < new.id
  PROVE  Merge(S \cup {new})[k] = Above(new.rows[k], Merge(S)[k])
<1> DEFINE U == S \cup {new}
<1>1. U \subseteq Segment /\ \A t \in U : t = new \/ t \in S
  OBVIOUS
<1>2. CASE new.rows[k] # NoRow
  <2>1. \A t \in U : t = new \/ t.id < new.id
    BY <1>1
  <2>2. Merge(U)[k] = new.rows[k]
    BY <1>1, <1>2, <2>1, MergeIs
  <2> QED BY <1>2, <2>2 DEF Above
<1>3. CASE new.rows[k] = NoRow
  <2>1. CASE \A t \in S : t.rows[k] = NoRow
    <3>1. Merge(U)[k] = NoRow /\ Merge(S)[k] = NoRow
      BY <1>1, <1>3, <2>1, MergeNone
    <3> QED BY <1>3, <3>1 DEF Above
  <2>2. ASSUME NEW s \in S, s.rows[k] # NoRow,
               \A t \in S : t.rows[k] # NoRow => t = s \/ t.id < s.id
        PROVE  Merge(U)[k] = Merge(S)[k]
    <3>1. \A t \in U : t.rows[k] # NoRow => t = s \/ t.id < s.id
      BY <1>1, <1>3, <2>2
    <3>2. Merge(U)[k] = s.rows[k] /\ s \in U
      BY <1>1, <2>2, <3>1, MergeIs
    <3> QED BY <2>2, <3>2, MergeIs
  <2> QED BY <1>3, <2>1, <2>2, MergeCases DEF Above
<1> QED BY <1>2, <1>3

\* Replacing segments by one with a higher ID than theirs that has the row in
\* force, unless an even newer segment gives it, changes no row; and what is older
\* than the holders of a key afterwards was older than those before.
LEMMA MergeReplace ==
  ASSUME NEW S, S \subseteq Segment, NEW n \in Nat, \A s \in S : s.id <= n,
         \A s, t \in S : s.id = t.id => s = t, NEW k \in Keys,
         NEW new \in Segment, \A s \in S : s.id # new.id,
         NEW C, \A i \in C : i < new.id,
         (\A s \in Holders(S, k) : s.id < new.id) => Merge(S)[k] = new.rows[k],
         NEW U, U = {s \in S : s.id \notin C} \cup {new}
  PROVE  /\ Merge(U)[k] = Merge(S)[k]
         /\ \A x \in Nat : (\A s \in Holders(U, k) : s.id < x)
                             => \A s \in Holders(S, k) : s.id < x
<1>1. U \subseteq Segment /\ \A t \in U : t = new \/ t \in S
  OBVIOUS
<1>2. new.id \in Nat /\ \A s \in S : s.id \in Nat
  BY DEF Segment
<1>3. CASE \A t \in S : t.rows[k] = NoRow
  <2>1. Merge(S)[k] = NoRow /\ Holders(S, k) = {}
    BY <1>3, MergeNone DEF Holders
  <2>2. new.rows[k] = NoRow
    BY <2>1
  <2>3. Merge(U)[k] = NoRow
    BY <1>1, <1>3, <2>2, MergeNone
  <2> QED BY <2>1, <2>3
<1>4. ASSUME NEW s \in S, s.rows[k] # NoRow,
             \A t \in S : t.rows[k] # NoRow => t = s \/ t.id < s.id
      PROVE  /\ Merge(U)[k] = Merge(S)[k]
             /\ \A x \in Nat : (\A u \in Holders(U, k) : u.id < x)
                                 => \A t \in Holders(S, k) : t.id < x
  <2>1. Merge(S)[k] = s.rows[k]
    BY <1>4, MergeIs
  <2>2. CASE s.id < new.id
    <3>1. \A t \in Holders(S, k) : t.id < new.id
      BY <1>2, <1>4, <2>2 DEF Holders
    <3>2. new.rows[k] = s.rows[k]
      BY <2>1, <3>1
    <3>3. \A t \in U : t.rows[k] # NoRow => t = new \/ t.id < new.id
      BY <1>1, <3>1 DEF Holders
    <3>4. Merge(U)[k] = new.rows[k]
      BY <1>1, <1>4, <3>2, <3>3, MergeIs
    <3>5. new \in Holders(U, k)
      BY <1>4, <3>2 DEF Holders
    <3> QED BY <1>2, <2>1, <3>1, <3>2, <3>4, <3>5 DEF Holders
  <2>3. CASE ~ (s.id < new.id)
    <3>1. new.id < s.id
      BY <1>2, <2>3
    <3>2. s.id \notin C
      BY <1>2, <3>1
    <3>3. s \in U
      BY <3>2
    <3>4. \A t \in U : t.rows[k] # NoRow => t = s \/ t.id < s.id
      BY <1>1, <1>4, <3>1
    <3>5. Merge(U)[k] = s.rows[k]
      BY <1>1, <1>4, <3>3, <3>4, MergeIs
    <3>6. s \in Holders(U, k) /\ \A t \in Holders(S, k) : t = s \/ t.id < s.id
      BY <1>4, <3>3 DEF Holders
    <3> QED BY <1>2, <2>1, <3>5, <3>6 DEF Holders
  <2> QED BY <2>2, <2>3
<1> QED BY <1>3, <1>4, MergeCases

-----------------------------------------------------------------------------
(* The row in force, place by place *)

FlushRow(dr, k) ==
  IF \E f \in Flushers : TableHolders(dr[f], k) # {}
  THEN QueueRow(dr[CHOOSE f \in Flushers : TableHolders(dr[f], k) # {}], k)
  ELSE NoRow

RowIn(a, im, dr, S, k) ==
  Above(a[k], Above(QueueRow(im, k), Above(FlushRow(dr, k), Merge(S)[k])))

\* The state a step finds and the one it leaves.
LEMMA StoredRowIs ==
  ASSUME TypeOK, TypeOK', NEW k \in Keys
  PROVE  /\ StoredRow(k) = RowIn(active, immutable, drained, segments, k)
         /\ StoredRow(k)' = RowIn(active', immutable', drained', segments', k)
<1> DEFINE StoredIn(a, im, dr, S) ==
             IF a[k] # NoRow THEN a[k]
             ELSE IF TableHolders(im, k) # {} THEN im[NewestTable(im, k)][k]
             ELSE IF \E f \in Flushers : TableHolders(dr[f], k) # {}
                  THEN LET q == dr[CHOOSE f \in Flushers : TableHolders(dr[f], k) # {}]
                       IN q[NewestTable(q, k)][k]
             ELSE Merge(S)[k]
<1>1. ASSUME NEW q \in Seq(MemTable)
      PROVE  TableHolders(q, k) # {} <=> QueueRow(q, k) # NoRow
  BY <1>1, QueueRowType
<1>2. ASSUME NEW dr \in [Flushers -> Seq(MemTable)],
             NEW im \in Seq(MemTable), NEW a, NEW S
      PROVE  RowIn(a, im, dr, S, k) = StoredIn(a, im, dr, S)
  <2>1. CASE \E f \in Flushers : TableHolders(dr[f], k) # {}
    <3> DEFINE g == CHOOSE f \in Flushers : TableHolders(dr[f], k) # {}
    <3>1. g \in Flushers /\ TableHolders(dr[g], k) # {}
      BY <2>1
    <3>2. dr[g] \in Seq(MemTable)
      BY <3>1
    <3>3. QueueRow(dr[g], k) # NoRow /\ QueueRow(dr[g], k) = dr[g][NewestTable(dr[g], k)][k]
      BY <1>1, <3>1, <3>2 DEF QueueRow
    <3> HIDE DEF g
    <3>4. FlushRow(dr, k) = QueueRow(dr[g], k)
      BY <2>1 DEF FlushRow, g
    <3>5. TableHolders(im, k) # {} <=> QueueRow(im, k) # NoRow
      BY <1>1
    <3> QED BY <2>1, <3>3, <3>4, <3>5 DEF RowIn, Above, QueueRow, g
  <2>2. CASE ~ \E f \in Flushers : TableHolders(dr[f], k) # {}
    <3>1. FlushRow(dr, k) = NoRow
      BY <2>2 DEF FlushRow
    <3>2. TableHolders(im, k) # {} <=> QueueRow(im, k) # NoRow
      BY <1>1
    <3> QED BY <2>2, <3>1, <3>2 DEF RowIn, Above, QueueRow
  <2> QED BY <2>1, <2>2
<1>3. /\ immutable \in Seq(MemTable) /\ drained \in [Flushers -> Seq(MemTable)]
      /\ immutable' \in Seq(MemTable) /\ drained' \in [Flushers -> Seq(MemTable)]
  BY DEF TypeOK
<1>4. StoredRow(k) = RowIn(active, immutable, drained, segments, k)
  <2>1. StoredRow(k) = StoredIn(active, immutable, drained, segments)
    BY DEF StoredRow
  <2> HIDE DEF StoredIn
  <2> QED BY <1>2, <1>3, <2>1
<1>5. StoredRow(k)' = RowIn(active', immutable', drained', segments', k)
  <2>1. StoredRow(k)' = StoredIn(active', immutable', drained', segments')
    BY DEF StoredRow
  <2> HIDE DEF StoredIn
  <2> QED BY <1>2, <1>3, <2>1
<1> QED BY <1>4, <1>5

\* An empty queue holds nothing.
LEMMA EmptyQueueRow == ASSUME NEW k PROVE QueueRow(<<>>, k) = NoRow /\ TableHolders(<<>>, k) = {}
BY DEF QueueRow, TableHolders

\* When at most one flush holds memtables, its queue is what the flushes hold.
LEMMA FlushRowIs ==
  ASSUME NEW dr \in [Flushers -> Seq(MemTable)], NEW f \in Flushers,
         \A g \in Flushers \ {f} : dr[g] = <<>>, NEW k \in Keys
  PROVE  FlushRow(dr, k) = QueueRow(dr[f], k)
<1>1. \A g \in Flushers : TableHolders(dr[g], k) # {} => g = f
  BY EmptyQueueRow
<1>2. CASE TableHolders(dr[f], k) # {}
  <2>1. (CHOOSE g \in Flushers : TableHolders(dr[g], k) # {}) = f
    BY <1>1, <1>2
  <2> QED BY <1>2, <2>1 DEF FlushRow
<1>3. CASE TableHolders(dr[f], k) = {}
  BY <1>1, <1>3 DEF FlushRow, QueueRow
<1> QED BY <1>2, <1>3

-----------------------------------------------------------------------------
(* Steps of flushes *)

\* A tombstone that a flush wrote is a row without values; otherwise rows stay.
Becomes(r, s) == \/ s = r
                 \/ /\ r # NoRow /\ s # NoRow
                    /\ s.ver = r.ver /\ r.kind = "tombstone" /\ s.kind = "empty"

RowsKept == \A k \in Keys : Becomes(StoredRow(k), StoredRow(k)')

\* What the segments and the queues are made of.
LEMMA SegmentFacts ==
  ASSUME IInv
  PROVE  /\ segments \subseteq Segment /\ nextSegID \in Nat
         /\ \A s \in segments : s.id \in Nat /\ s.id <= nextSegID
         /\ \A s, t \in segments : s.id = t.id => s = t
         /\ \A f \in Flushers : flushSeg[f] \in Nat /\ drained[f] \in Seq(MemTable)
         /\ \A f \in Flushers : flushPc[f] = "built" => flushSeg[f] <= nextSegID
         /\ \A c \in Compactors : compSeg[c] \in Nat /\ compSet[c] \subseteq Segment
         /\ \A c \in Compactors : compPc[c] = "built" => compSeg[c] <= nextSegID
         /\ \A c \in Compactors : \A t \in compSet[c] : t.id \in Nat /\ t.id <= nextSegID
         /\ drained \in [Flushers -> Seq(MemTable)]
         /\ active \in MemTable /\ immutable \in Seq(MemTable)
BY DEF IInv, TypeOK, IDsAllocated, SegmentIDsUnique, Segment

\* Draining moves the rows behind those in memory; nothing was drained before.
LEMMA FlushBeginKeeps ==
  ASSUME IInv, IInv', AgeOrder, NEW f \in Flushers, FlushBegin(f), ~ raced'
  PROVE  AgeOrder' /\ RowsKept
<1>1. /\ \A g \in Flushers \ {f} : ~ Flushing(g) /\ flushPc'[g] = flushPc[g]
                                   /\ drained[g] = <<>> /\ drained'[g] = <<>>
      /\ flushPc'[f] = "drained" /\ drained'[f] = Drain /\ drained[f] = <<>>
      /\ active' = EmptyMem /\ immutable' = <<>>
      /\ UNCHANGED <<segments, flushSeg, compPc, compSet, compSeg>>
  BY DEF IInv, TypeOK, FlushBegin, DrainedWhileFlushing, Flushing, segmentVars, compactVars
<1>2. OneFlush' /\ NoCrossing' /\ FlushIsNewest'
  BY <1>1 DEF OneFlush, NoCrossing, FlushIsNewest, Flushing
<1>3. MergingIsAll' /\ BuiltInPlace'
  BY <1>1 DEF AgeOrder, MergingIsAll, BuiltInPlace
<1>4. ASSUME NEW k \in Keys
      PROVE  StoredRow(k)' = StoredRow(k)
  <2>1. /\ StoredRow(k) = RowIn(active, immutable, drained, segments, k)
        /\ StoredRow(k)' = RowIn(active', immutable', drained', segments', k)
    BY StoredRowIs DEF IInv
  <2>2. /\ drained \in [Flushers -> Seq(MemTable)] /\ drained' \in [Flushers -> Seq(MemTable)]
        /\ active \in MemTable /\ immutable \in Seq(MemTable)
    BY DEF IInv, TypeOK
  <2>3. FlushRow(drained, k) = NoRow /\ FlushRow(drained', k) = QueueRow(Drain, k)
    BY <1>1, <2>2, FlushRowIs, EmptyQueueRow
  <2>4. QueueRow(Drain, k) = Above(active[k], QueueRow(immutable, k))
    <3>1. CASE KeysOf(active) = {}
      BY <3>1 DEF Drain, KeysOf, Above
    <3>2. CASE KeysOf(active) # {}
      BY <2>2, <3>2, AppendRow DEF Drain
    <3> QED BY <3>1, <3>2
  <2>5. EmptyMem[k] = NoRow /\ QueueRow(<<>>, k) = NoRow
    BY EmptyQueueRow DEF EmptyMem
  <2> QED BY <1>1, <2>1, <2>3, <2>4, <2>5 DEF RowIn, Above
<1> QED BY <1>2, <1>3, <1>4 DEF AgeOrder, RowsKept, Becomes

\* FlushMemTable has built its segment; its id is larger than any other.
LEMMA FlushBuildKeeps ==
  ASSUME IInv, IInv', AgeOrder, NEW f \in Flushers, FlushBuild(f), ~ raced'
  PROVE  AgeOrder' /\ RowsKept
<1>1. /\ \A g \in Flushers \ {f} : flushPc'[g] = flushPc[g] /\ flushSeg'[g] = flushSeg[g]
      /\ flushPc[f] = "drained" /\ flushPc'[f] = "built" /\ flushSeg'[f] = nextSegID + 1
      /\ \A c \in Compactors : compPc[c] # "merging"
      /\ UNCHANGED <<active, immutable, drained, segments, compPc, compSet, compSeg>>
  BY DEF IInv, TypeOK, FlushBuild, engineVars, compactVars
<1>2. \A g \in Flushers : flushPc'[g] = "built" => g = f
  BY <1>1 DEF AgeOrder, OneFlush, Flushing
<1>3. OneFlush' /\ NoCrossing'
  BY <1>1 DEF AgeOrder, OneFlush, NoCrossing, Flushing
<1>4. FlushIsNewest'
  BY <1>1, <1>2, SegmentFacts DEF FlushIsNewest
<1>5. MergingIsAll' /\ BuiltInPlace'
  BY <1>1 DEF AgeOrder, MergingIsAll, BuiltInPlace
<1>6. \A k \in Keys : StoredRow(k)' = StoredRow(k)
  BY <1>1, StoredRowIs DEF IInv
<1> QED BY <1>3, <1>4, <1>5, <1>6 DEF AgeOrder, RowsKept, Becomes

\* The oldest memtable of the queue becomes the segment with the highest ID.
LEMMA FlushRegisterKeeps ==
  ASSUME IInv, IInv', AgeOrder, NEW f \in Flushers, FlushRegister(f), ~ raced'
  PROVE  AgeOrder' /\ RowsKept
<1> DEFINE seg == FlushedSegment(f)
<1>1. /\ \A g \in Flushers \ {f} : flushPc'[g] = flushPc[g] /\ drained'[g] = drained[g]
      /\ flushPc[f] = "built" /\ flushPc'[f] \in {"drained", "checkpoint"}
      /\ segments' = segments \cup {seg} /\ drained'[f] = Tail(drained[f])
      /\ UNCHANGED <<active, immutable, flushSeg, compPc, compSet, compSeg>>
  BY DEF IInv, TypeOK, FlushRegister, engineVars, compactVars
<1>2. \A g \in Flushers \ {f} : drained[g] = <<>> /\ drained'[g] = <<>>
  BY <1>1 DEF AgeOrder, OneFlush, IInv, DrainedWhileFlushing, Flushing
<1>3. \A g \in Flushers : flushPc'[g] # "built"
  BY <1>1 DEF AgeOrder, OneFlush, Flushing
<1>4. seg \in Segment /\ seg.id = flushSeg[f] /\ seg.rows = FlushRows(Head(drained[f]))
  BY <1>1, FlushedSegmentType DEF IInv, FlushedSegment, Flushing
<1>5. \A s \in segments : s.id < seg.id
  BY <1>1, <1>4 DEF AgeOrder, FlushIsNewest
<1> HIDE DEF seg
<1>6. \A k \in Keys : Merge(segments')[k] = Above(seg.rows[k], Merge(segments)[k])
  BY <1>1, <1>4, <1>5, SegmentFacts, MergeAdd
<1>7. OneFlush' /\ NoCrossing' /\ FlushIsNewest'
  BY <1>1, <1>3 DEF AgeOrder, OneFlush, NoCrossing, FlushIsNewest, Flushing
<1>8. MergingIsAll'
  BY <1>1 DEF AgeOrder, NoCrossing, MergingIsAll
<1>9. BuiltInPlace'
  <2>1. ASSUME NEW c \in Compactors, compPc[c] = "built", NEW k \in Keys,
               \A s \in Holders(segments', k) : s.id < compSeg[c]
        PROVE  Merge(segments')[k] = Merge(compSet[c])[k]
    <3>1. compSeg[c] < seg.id
      BY <1>1, <1>4, <2>1 DEF AgeOrder, FlushIsNewest
    <3>2. seg.id \in Nat /\ compSeg[c] \in Nat
      BY <1>4, SegmentFacts DEF Segment
    <3>3. seg \notin Holders(segments', k)
      BY <2>1, <3>1, <3>2
    <3>4. seg.rows[k] = NoRow
      BY <1>1, <3>3 DEF Holders
    <3>5. \A s \in Holders(segments, k) : s.id < compSeg[c]
      BY <1>1, <2>1 DEF Holders
    <3>6. Merge(segments)[k] = Merge(compSet[c])[k]
      BY <2>1, <3>5 DEF AgeOrder, BuiltInPlace
    <3> QED BY <1>6, <3>4, <3>6 DEF Above
  <2>2. ASSUME NEW c \in Compactors, compPc'[c] = "built"
        PROVE  /\ \A t \in compSet'[c] : t.id < compSeg'[c]
               /\ \A k \in Keys : (\A s \in Holders(segments', k) : s.id < compSeg'[c])
                                    => Merge(segments')[k] = Merge(compSet'[c])[k]
    BY <1>1, <2>1, <2>2 DEF AgeOrder, BuiltInPlace
  <2> QED BY <2>2 DEF BuiltInPlace, Merge, Holders, NewestHolder
<1>10. ASSUME NEW k \in Keys
       PROVE  Becomes(StoredRow(k), StoredRow(k)')
  <2> DEFINE m == Head(drained[f])
  <2>1. /\ StoredRow(k) = RowIn(active, immutable, drained, segments, k)
        /\ StoredRow(k)' = RowIn(active, immutable, drained', segments', k)
    BY <1>1, StoredRowIs DEF IInv
  <2>2. /\ drained \in [Flushers -> Seq(MemTable)] /\ drained' \in [Flushers -> Seq(MemTable)]
        /\ drained[f] \in Seq(MemTable) /\ drained[f] # <<>>
    BY <1>1 DEF IInv, TypeOK, DrainedWhileFlushing, Flushing
  <2>3. /\ FlushRow(drained, k) = QueueRow(drained[f], k)
        /\ FlushRow(drained', k) = QueueRow(Tail(drained[f]), k)
    BY <1>1, <1>2, <2>2, FlushRowIs
  <2>4. QueueRow(drained[f], k) = Above(QueueRow(Tail(drained[f]), k), m[k])
    BY <2>2, HeadTailRow
  <2>5. m[k] = NoRow => seg.rows[k] = NoRow
    BY <1>4 DEF FlushRows
  <2>6. m[k] # NoRow => seg.rows[k] # NoRow /\ Becomes(m[k], seg.rows[k])
    <3>1. m \in MemTable
      BY <2>2
    <3>2. m[k] # NoRow => seg.rows[k] # NoRow
      BY <1>4, <3>1, FlushRowsType
    <3>3. seg.rows[k] = IF m[k] # NoRow /\ m[k].kind = "tombstone"
                        THEN [ver |-> m[k].ver, kind |-> "empty"] ELSE m[k]
      BY <1>4 DEF FlushRows
    <3> HIDE DEF m
    <3> QED BY <3>2, <3>3 DEF Becomes
  <2> HIDE DEF m
  <2>7. StoredRow(k) = Above(active[k], Above(QueueRow(immutable, k),
                         Above(QueueRow(Tail(drained[f]), k), Above(m[k], Merge(segments)[k]))))
    BY <2>1, <2>3, <2>4 DEF RowIn, Above
  <2>8. StoredRow(k)' = Above(active[k], Above(QueueRow(immutable, k),
                         Above(QueueRow(Tail(drained[f]), k),
                               Above(seg.rows[k], Merge(segments)[k]))))
    BY <1>6, <2>1, <2>3 DEF RowIn
  <2> QED BY <2>5, <2>6, <2>7, <2>8 DEF Above, Becomes
<1> QED BY <1>7, <1>8, <1>9, <1>10 DEF AgeOrder, RowsKept

\* A failed flush puts its memtables back below those that came since.
LEMMA FlushFailKeeps ==
  ASSUME IInv, IInv', AgeOrder, NEW f \in Flushers, FlushFail(f), ~ raced'
  PROVE  AgeOrder' /\ RowsKept
<1>1. /\ \A g \in Flushers \ {f} : flushPc'[g] = flushPc[g] /\ drained'[g] = drained[g]
      /\ flushPc[f] = "built" /\ flushPc'[f] = "idle"
      /\ immutable' = drained[f] \o immutable /\ drained'[f] = <<>>
      /\ UNCHANGED <<active, segments, flushSeg, compPc, compSet, compSeg>>
  BY DEF IInv, TypeOK, FlushFail, segmentVars, compactVars
<1>2. \A g \in Flushers \ {f} : drained[g] = <<>> /\ drained'[g] = <<>>
  BY <1>1 DEF AgeOrder, OneFlush, IInv, DrainedWhileFlushing, Flushing
<1>3. OneFlush' /\ NoCrossing' /\ FlushIsNewest'
  BY <1>1 DEF AgeOrder, OneFlush, NoCrossing, FlushIsNewest, Flushing
<1>4. MergingIsAll' /\ BuiltInPlace'
  BY <1>1 DEF AgeOrder, MergingIsAll, BuiltInPlace
<1>5. ASSUME NEW k \in Keys
      PROVE  StoredRow(k)' = StoredRow(k)
  <2>1. /\ StoredRow(k) = RowIn(active, immutable, drained, segments, k)
        /\ StoredRow(k)' = RowIn(active, immutable', drained', segments, k)
    BY <1>1, StoredRowIs DEF IInv
  <2>2. /\ drained \in [Flushers -> Seq(MemTable)] /\ drained' \in [Flushers -> Seq(MemTable)]
        /\ drained[f] \in Seq(MemTable) /\ immutable \in Seq(MemTable)
    BY DEF IInv, TypeOK
  <2>3. FlushRow(drained, k) = QueueRow(drained[f], k)
    BY <1>2, <2>2, FlushRowIs
  <2>5. FlushRow(drained', k) = QueueRow(drained'[f], k)
    BY <1>2, <2>2, FlushRowIs
  <2>6. FlushRow(drained', k) = NoRow
    BY <1>1, <2>5, EmptyQueueRow
  <2>4. QueueRow(immutable', k) = Above(QueueRow(immutable, k), QueueRow(drained[f], k))
    BY <1>1, <2>2, ConcatRow
  <2> QED BY <2>1, <2>3, <2>4, <2>6 DEF RowIn, Above
<1> QED BY <1>3, <1>4, <1>5 DEF AgeOrder, RowsKept, Becomes

\* The end of a flush: its memtables are in an installed segment.
LEMMA FlushCheckpointKeeps ==
  ASSUME IInv, IInv', AgeOrder, NEW f \in Flushers, FlushCheckpoint(f), ~ raced'
  PROVE  AgeOrder' /\ RowsKept
<1>1. /\ \A g \in Flushers \ {f} : flushPc'[g] = flushPc[g]
      /\ flushPc'[f] = "idle"
      /\ UNCHANGED <<active, immutable, drained, segments, flushSeg, compPc, compSet, compSeg>>
  BY DEF IInv, TypeOK, FlushCheckpoint, engineVars, segmentVars, compactVars
<1>2. OneFlush' /\ NoCrossing' /\ FlushIsNewest'
  BY <1>1 DEF AgeOrder, OneFlush, NoCrossing, FlushIsNewest, Flushing
<1>3. MergingIsAll' /\ BuiltInPlace'
  BY <1>1 DEF AgeOrder, MergingIsAll, BuiltInPlace
<1>4. \A k \in Keys : StoredRow(k)' = StoredRow(k)
  BY <1>1, StoredRowIs DEF IInv
<1> QED BY <1>2, <1>3, <1>4 DEF AgeOrder, RowsKept, Becomes

-----------------------------------------------------------------------------
(* Steps of compactions *)

\* The segments a compaction remembers are all there are.
LEMMA CompactBeginKeeps ==
  ASSUME IInv, IInv', AgeOrder, NEW c \in Compactors, CompactBegin(c), ~ raced'
  PROVE  AgeOrder' /\ RowsKept
<1>1. /\ \A d \in Compactors \ {c} : compPc'[d] = compPc[d] /\ compSet'[d] = compSet[d]
      /\ compPc'[c] = "merging" /\ compSet'[c] = Level(segments, 0) \cup Level(segments, 1)
      /\ \A f \in Flushers : flushPc[f] # "built"
      /\ UNCHANGED <<active, immutable, drained, segments, flushPc, flushSeg, compSeg>>
  BY DEF IInv, TypeOK, CompactBegin, engineVars, segmentVars, flushVars
<1>2. compSet'[c] = segments
  BY <1>1, SegmentFacts DEF Level, Segment
<1>3. OneFlush' /\ NoCrossing' /\ FlushIsNewest'
  BY <1>1 DEF AgeOrder, OneFlush, NoCrossing, FlushIsNewest, Flushing
<1>4. MergingIsAll' /\ BuiltInPlace'
  BY <1>1, <1>2 DEF AgeOrder, MergingIsAll, BuiltInPlace
<1>5. \A k \in Keys : StoredRow(k)' = StoredRow(k)
  BY <1>1, StoredRowIs DEF IInv
<1> QED BY <1>3, <1>4, <1>5 DEF AgeOrder, RowsKept, Becomes

\* The output gets the highest ID, and has every row in force.
LEMMA CompactBuildKeeps ==
  ASSUME IInv, IInv', AgeOrder, NEW c \in Compactors, CompactBuild(c), ~ raced'
  PROVE  AgeOrder' /\ RowsKept
<1>1. /\ \A d \in Compactors \ {c} : compPc'[d] = compPc[d] /\ compSeg'[d] = compSeg[d]
      /\ compPc[c] = "merging" /\ compPc'[c] = "built" /\ compSeg'[c] = nextSegID + 1
      /\ UNCHANGED <<active, immutable, drained, segments, flushPc, flushSeg, compSet>>
  BY DEF IInv, TypeOK, CompactBuild, engineVars, flushVars
<1>2. \A f \in Flushers : flushPc[f] # "built"
  BY <1>1 DEF AgeOrder, NoCrossing
<1>3. OneFlush' /\ NoCrossing' /\ FlushIsNewest'
  BY <1>1, <1>2 DEF AgeOrder, OneFlush, NoCrossing, FlushIsNewest, Flushing
<1>4. MergingIsAll'
  BY <1>1 DEF AgeOrder, MergingIsAll
<1>5. BuiltInPlace'
  <2>1. \A t \in compSet[c] : t.id < nextSegID + 1
    BY SegmentFacts
  <2>2. \A k \in Keys : Merge(segments)[k] = Merge(compSet[c])[k]
    BY <1>1 DEF AgeOrder, MergingIsAll
  <2> QED BY <1>1, <2>1, <2>2 DEF AgeOrder, BuiltInPlace
<1>6. \A k \in Keys : StoredRow(k)' = StoredRow(k)
  BY <1>1, StoredRowIs DEF IInv
<1> QED BY <1>3, <1>4, <1>5, <1>6 DEF AgeOrder, RowsKept, Becomes

\* The merged segment takes the place of those it was made of.
LEMMA CompactInstallKeeps ==
  ASSUME IInv, IInv', AgeOrder, NEW c \in Compactors, CompactInstall(c), ~ raced'
  PROVE  AgeOrder' /\ RowsKept
<1> DEFINE new == CompactedSegment(c)
<1>1. /\ \A d \in Compactors \ {c} : compPc'[d] = compPc[d] /\ compSet'[d] = compSet[d]
      /\ compPc[c] = "built" /\ compPc'[c] = "idle"
      /\ segments' = {s \in segments : s.id \notin CompactIDs(c)} \cup {new}
      /\ UNCHANGED <<active, immutable, drained, flushPc, flushSeg, compSeg>>
  BY DEF IInv, TypeOK, CompactInstall, engineVars, flushVars
<1>2. new \in Segment /\ new.id = compSeg[c] /\ new.rows = Merge(compSet[c])
  BY CompactedSegmentType DEF IInv, CompactedSegment
<1>3. \A s \in segments : s.id # new.id
  BY <1>1, <1>2 DEF IInv, SegmentIDsUnique, CompactOutIDs, RegisteredIDs
<1>4. \A i \in CompactIDs(c) : i < new.id
  BY <1>1, <1>2 DEF AgeOrder, BuiltInPlace, CompactIDs
<1>5. \A k \in Keys : (\A s \in Holders(segments, k) : s.id < new.id)
                        => Merge(segments)[k] = new.rows[k]
  BY <1>1, <1>2 DEF AgeOrder, BuiltInPlace
<1> HIDE DEF new
<1>6. ASSUME NEW k \in Keys
      PROVE  /\ Merge(segments')[k] = Merge(segments)[k]
             /\ \A x \in Nat : (\A s \in Holders(segments', k) : s.id < x)
                                 => \A s \in Holders(segments, k) : s.id < x
  <2> DEFINE C == CompactIDs(c)
             U == segments'
             n == nextSegID
  <2>1. /\ segments \subseteq Segment /\ n \in Nat /\ \A s \in segments : s.id <= n
        /\ \A s, t \in segments : s.id = t.id => s = t
    BY SegmentFacts
  <2>2. /\ new \in Segment /\ \A s \in segments : s.id # new.id
        /\ \A i \in C : i < new.id
        /\ (\A s \in Holders(segments, k) : s.id < new.id) => Merge(segments)[k] = new.rows[k]
    BY <1>2, <1>3, <1>4, <1>5
  <2>3. U = {s \in segments : s.id \notin C} \cup {new}
    BY <1>1
  <2> HIDE DEF C, U, n
  <2>4. /\ Merge(U)[k] = Merge(segments)[k]
        /\ \A x \in Nat : (\A s \in Holders(U, k) : s.id < x)
                            => \A s \in Holders(segments, k) : s.id < x
    BY <2>1, <2>2, <2>3, MergeReplace, SMTT(30)
  <2> QED BY <2>4 DEF U
<1>7. OneFlush' /\ NoCrossing'
  BY <1>1 DEF AgeOrder, OneFlush, NoCrossing, Flushing
<1>8. FlushIsNewest'
  <2>1. \A f \in Flushers : flushPc[f] = "built" => new.id < flushSeg[f]
    BY <1>1, <1>2 DEF AgeOrder, FlushIsNewest
  <2>2. \A s \in segments' : s \in segments \/ s = new
    BY <1>1
  <2>3. \A d \in Compactors : compPc'[d] = "built" => compPc[d] = "built"
    BY <1>1
  <2> QED BY <1>1, <2>1, <2>2, <2>3 DEF AgeOrder, FlushIsNewest
<1>9. MergingIsAll'
  BY <1>1, <1>6 DEF AgeOrder, MergingIsAll
<1>10. BuiltInPlace'
  <2>1. ASSUME NEW d \in Compactors, compPc'[d] = "built"
        PROVE  /\ \A t \in compSet'[d] : t.id < compSeg'[d]
               /\ \A k \in Keys : (\A s \in Holders(segments', k) : s.id < compSeg'[d])
                                    => Merge(segments')[k] = Merge(compSet'[d])[k]
    <3>1. compPc[d] = "built" /\ compSet'[d] = compSet[d] /\ compSeg'[d] = compSeg[d]
          /\ compSeg[d] \in Nat
      BY <1>1, <2>1, SegmentFacts
    <3>2. \A t \in compSet[d] : t.id < compSeg[d]
      BY <3>1 DEF AgeOrder, BuiltInPlace
    <3>3. ASSUME NEW k \in Keys, \A s \in Holders(segments', k) : s.id < compSeg[d]
          PROVE  Merge(segments')[k] = Merge(compSet[d])[k]
      <4>1. \A s \in Holders(segments, k) : s.id < compSeg[d]
        BY <1>6, <3>1, <3>3
      <4>2. Merge(segments)[k] = Merge(compSet[d])[k]
        BY <3>1, <4>1 DEF AgeOrder, BuiltInPlace
      <4> QED BY <1>6, <4>2
    <3> QED BY <3>1, <3>2, <3>3
  <2> QED BY <2>1 DEF BuiltInPlace
<1>11. ASSUME NEW k \in Keys
       PROVE  StoredRow(k)' = StoredRow(k)
  <2>1. /\ StoredRow(k) = RowIn(active, immutable, drained, segments, k)
        /\ StoredRow(k)' = RowIn(active, immutable, drained, segments', k)
    BY <1>1, StoredRowIs DEF IInv
  <2> QED BY <1>6, <2>1 DEF RowIn
<1> QED BY <1>7, <1>8, <1>9, <1>10, <1>11 DEF AgeOrder, RowsKept, Becomes

\* A compaction that fails leaves everything as it was.
LEMMA CompactFailKeeps ==
  ASSUME IInv, IInv', AgeOrder, NEW c \in Compactors, CompactFail(c), ~ raced'
  PROVE  AgeOrder' /\ RowsKept
<1>1. /\ \A d \in Compactors \ {c} : compPc'[d] = compPc[d] /\ compSet'[d] = compSet[d]
      /\ compPc'[c] = "idle"
      /\ UNCHANGED <<active, immutable, drained, segments, flushPc, flushSeg, compSeg>>
  BY DEF IInv, TypeOK, CompactFail, engineVars, segmentVars, flushVars
<1>2. OneFlush' /\ NoCrossing' /\ FlushIsNewest'
  BY <1>1 DEF AgeOrder, OneFlush, NoCrossing, FlushIsNewest, Flushing
<1>3. MergingIsAll' /\ BuiltInPlace'
  BY <1>1 DEF AgeOrder, MergingIsAll, BuiltInPlace
<1>4. \A k \in Keys : StoredRow(k)' = StoredRow(k)
  BY <1>1, StoredRowIs DEF IInv
<1> QED BY <1>2, <1>3, <1>4 DEF AgeOrder, RowsKept, Becomes

\* No step of a flush or a compaction changes the row of a key, but for how a
\* deleted one is represented.
LEMMA BackgroundKeeps ==
  ASSUME IInv, IInv', AgeOrder, ~ raced',
         \/ \E f \in Flushers : FlushStep(f)
         \/ \E c \in Compactors : CompactStep(c)
  PROVE  AgeOrder' /\ RowsKept
BY FlushBeginKeeps, FlushBuildKeeps, FlushRegisterKeeps, FlushFailKeeps, FlushCheckpointKeeps,
   CompactBeginKeeps, CompactBuildKeeps, CompactInstallKeeps, CompactFailKeeps
   DEF FlushStep, CompactStep

-----------------------------------------------------------------------------
(* Steps of writers *)

\* What depends on flushes and compactions only.
LEMMA WriterAgeOrder ==
  ASSUME AgeOrder, UNCHANGED <<segments, flushPc, flushSeg, compPc, compSet, compSeg>>
  PROVE  AgeOrder'
<1>1. OneFlush' /\ NoCrossing' /\ FlushIsNewest'
  BY DEF AgeOrder, OneFlush, NoCrossing, FlushIsNewest, Flushing
<1>2. MergingIsAll' /\ BuiltInPlace'
  BY DEF AgeOrder, MergingIsAll, BuiltInPlace
<1> QED BY <1>1, <1>2 DEF AgeOrder

\* A Put is a row above all others, whether or not the memtable is rotated.
LEMMA PutRow ==
  ASSUME IInv, IInv', NEW w \in Writers, PutOne(w) \/ PutBatch(w), NEW k \in Keys
  PROVE  StoredRow(k)' = Above(RowsOf(pending[w])[k], StoredRow(k))
<1> DEFINE rows == RowsOf(pending[w])
           full == Overwrite(active, rows)
<1>1. /\ StoredRow(k) = RowIn(active, immutable, drained, segments, k)
      /\ StoredRow(k)' = RowIn(active', immutable', drained, segments, k)
  <2>1. UNCHANGED <<drained, segments>>
    BY DEF PutOne, PutBatch, segmentVars, flushVars
  <2> QED BY <2>1, StoredRowIs DEF IInv
<1>2. rows \in MemTable /\ active \in MemTable /\ immutable \in Seq(MemTable)
  BY RowsOfType DEF IInv, TypeOK, PutOne, PutBatch
<1>3. full \in MemTable /\ EmptyMem \in MemTable
  BY <1>2, OverwriteType, EmptyMemType
<1>4. /\ full[k] = Above(rows[k], active[k])
      /\ Overwrite(EmptyMem, rows)[k] = rows[k]
      /\ EmptyMem[k] = NoRow
  BY DEF Overwrite, EmptyMem, Above
<1>5. \/ active' = full /\ immutable' = immutable
      \/ active' = Overwrite(EmptyMem, rows) /\ immutable' = Append(immutable, active)
      \/ active' = EmptyMem /\ immutable' = Append(immutable, full)
  BY DEF PutOne, PutBatch
<1>6. /\ QueueRow(Append(immutable, active), k) = Above(active[k], QueueRow(immutable, k))
      /\ QueueRow(Append(immutable, full), k) = Above(full[k], QueueRow(immutable, k))
  BY <1>2, <1>3, AppendRow
<1> HIDE DEF rows, full
<1>7. StoredRow(k)' = Above(rows[k], StoredRow(k))
  BY <1>1, <1>4, <1>5, <1>6 DEF RowIn, Above
<1> QED BY <1>7 DEF rows

-----------------------------------------------------------------------------
(* The invariant *)

\* The engine starts empty and at rest.
LEMMA InitStoreInv == Init => StoreInv
<1> SUFFICES ASSUME Init PROVE StoreInv
  OBVIOUS
<1>1. IInv
  BY InitIInv
<1>2. CallsNumbered
  BY DEF Init, CallsNumbered
<1>3. AgeOrder
  BY DEF Init, AgeOrder, OneFlush, NoCrossing, FlushIsNewest, MergingIsAll, BuiltInPlace,
         Flushing
<1>4. ASSUME NEW k \in Keys
      PROVE  Current(StoredRow(k), latest[k])
  <2>1. /\ active[k] = NoRow /\ latest[k] = NoRow /\ immutable = <<>> /\ segments = {}
        /\ \A f \in Flushers : drained[f] = <<>>
    BY DEF Init, EmptyMem
  <2>2. Merge({})[k] = NoRow
    BY MergeNone
  <2>3. StoredRow(k) = NoRow
    BY <2>1, <2>2, EmptyQueueRow DEF StoredRow
  <2> QED BY <2>1, <2>3 DEF Current
<1> QED BY <1>1, <1>2, <1>3, <1>4 DEF StoreInv, StoredCurrent

\* A call takes versions above all others, and is forgotten when it ends.
LEMMA StepCallsNumbered ==
  ASSUME IInv, CallsNumbered, [Next]_vars
  PROVE  CallsNumbered'
<1>1. nextVersion \in Nat /\ pending \in [Writers -> PendingCall \cup {NoOp}]
  BY DEF IInv, TypeOK
<1>2. CASE UNCHANGED <<nextVersion, pending>>
  BY <1>2 DEF CallsNumbered
<1>3. ASSUME NEW w \in Writers, NEW op \in Calls[w], AllocVersion(w, op)
      PROVE  CallsNumbered'
  <2>1. op \in OpType /\ op.keys # <<>>
    BY CallsAssumption
  <2>2. Len(op.keys) \in Nat /\ Len(op.keys) > 0
    BY <2>1, LenProperties, EmptySeq DEF OpType
  <2>3. /\ pending'[w] = [op |-> op, base |-> nextVersion + 1]
        /\ \A v \in Writers \ {w} : pending'[v] = pending[v]
        /\ nextVersion' = nextVersion + Len(op.keys)
    BY <1>1, <1>3 DEF AllocVersion
  <2>4. /\ pending'[w].op = op /\ pending'[w].base = nextVersion + 1
        /\ nextVersion + 1 \in 1..nextVersion' /\ 1..nextVersion \subseteq 1..nextVersion'
        /\ nextVersion + 1 \notin 1..nextVersion
    BY <1>1, <2>2, <2>3
  <2> QED BY <2>3, <2>4 DEF CallsNumbered
<1>4. ASSUME NEW w \in Writers, WriteFail(w) \/ PutOne(w) \/ PutBatch(w)
      PROVE  CallsNumbered'
  <2>1. /\ pending'[w] = NoOp /\ nextVersion' = nextVersion
        /\ \A v \in Writers \ {w} : pending'[v] = pending[v]
    BY <1>1, <1>4 DEF WriteFail, PutOne, PutBatch
  <2> QED BY <2>1 DEF CallsNumbered
<1>5. ASSUME NEW w \in Writers, WriterStep(w)
      PROVE  CallsNumbered'
  BY <1>3, <1>4, <1>5 DEF WriterStep
<1>6. ASSUME NEW f \in Flushers, FlushStep(f)
      PROVE  CallsNumbered'
  BY <1>2, <1>6 DEF FlushStep, FlushBegin, FlushBuild, FlushRegister, FlushFail,
                    FlushCheckpoint, engineVars
<1>7. ASSUME NEW c \in Compactors, CompactStep(c)
      PROVE  CallsNumbered'
  BY <1>2, <1>7 DEF CompactStep, CompactBegin, CompactBuild, CompactInstall, CompactFail,
                    engineVars
<1>8. CASE UNCHANGED vars
  BY <1>2, <1>8 DEF vars, engineVars
<1> QED BY <1>5, <1>6, <1>7, <1>8 DEF Next, Quiesce

\* Nothing makes a crossing undone.
LEMMA RacedStays ==
  ASSUME [Next]_vars, raced
  PROVE  raced'
BY DEF Next, WriterStep, FlushStep, CompactStep, AllocVersion, WriteFail, PutOne, PutBatch,
       FlushBegin, FlushBuild, FlushRegister, FlushFail, FlushCheckpoint,
       CompactBegin, CompactBuild, CompactInstall, CompactFail, Quiesce, vars

\* What the steps of writers and of the background threads do to the rows.
LEMMA StepRows ==
  ASSUME IInv, IInv', AgeOrder, [Next]_vars, ~ raced'
  PROVE  /\ AgeOrder'
         /\ \/ RowsKept /\ UNCHANGED latest
            \/ \E w \in Writers :
                 /\ PutOne(w) \/ PutBatch(w)
                 /\ \A k \in Keys : /\ StoredRow(k)' = Above(RowsOf(pending[w])[k], StoredRow(k))
                                    /\ latest'[k] = Above(RowsOf(pending[w])[k], latest[k])
<1>1. CASE \/ \E f \in Flushers : FlushStep(f)
           \/ \E c \in Compactors : CompactStep(c)
  <2>1. UNCHANGED latest
    BY <1>1 DEF FlushStep, FlushBegin, FlushBuild, FlushRegister, FlushFail, FlushCheckpoint,
                CompactStep, CompactBegin, CompactBuild, CompactInstall, CompactFail, engineVars
  <2> QED BY <1>1, <2>1, BackgroundKeeps
<1>2. ASSUME NEW w \in Writers, PutOne(w) \/ PutBatch(w)
      PROVE  /\ AgeOrder'
             /\ \A k \in Keys : /\ StoredRow(k)' = Above(RowsOf(pending[w])[k], StoredRow(k))
                                /\ latest'[k] = Above(RowsOf(pending[w])[k], latest[k])
  <2>1. UNCHANGED <<segments, flushPc, flushSeg, compPc, compSet, compSeg>>
    BY <1>2 DEF PutOne, PutBatch, segmentVars, flushVars, compactVars
  <2>2. \A k \in Keys : latest'[k] = Above(RowsOf(pending[w])[k], latest[k])
    BY <1>2 DEF PutOne, PutBatch, Overwrite, Above
  <2> QED BY <1>2, <2>1, <2>2, WriterAgeOrder, PutRow
<1>3. CASE /\ UNCHANGED <<active, immutable, drained, latest>>
           /\ UNCHANGED <<segments, flushPc, flushSeg, compPc, compSet, compSeg>>
  <2>1. \A k \in Keys : StoredRow(k)' = StoredRow(k)
    BY <1>3, StoredRowIs DEF IInv
  <2> QED BY <1>3, <2>1, WriterAgeOrder DEF RowsKept, Becomes
<1>4. ASSUME NEW w \in Writers, (\E op \in Calls[w] : AllocVersion(w, op)) \/ WriteFail(w)
      PROVE  /\ UNCHANGED <<active, immutable, drained, latest>>
             /\ UNCHANGED <<segments, flushPc, flushSeg, compPc, compSet, compSeg>>
  BY <1>4 DEF AllocVersion, WriteFail, segmentVars, flushVars, compactVars
<1>5. CASE UNCHANGED vars
  BY <1>3, <1>5 DEF vars, engineVars, segmentVars, flushVars, compactVars
<1> QED BY <1>1, <1>2, <1>3, <1>4, <1>5 DEF Next, WriterStep, Quiesce

\* The invariant, over all actions of the engine.
LEMMA StepStoreInv == StoreInv /\ [Next]_vars => StoreInv'
<1> SUFFICES ASSUME StoreInv, [Next]_vars PROVE StoreInv'
  OBVIOUS
<1>1. IInv /\ IInv' /\ CallsNumbered'
  BY StepIInv, StepCallsNumbered DEF StoreInv
<1>2. ASSUME ~ raced'
      PROVE  AgeOrder' /\ StoredCurrent'
  <2>1. AgeOrder /\ \A k \in Keys : Current(StoredRow(k), latest[k])
    BY <1>2, RacedStays DEF StoreInv, StoredCurrent
  <2>2. ASSUME RowsKept, UNCHANGED latest
        PROVE  StoredCurrent'
    <3>1. ASSUME NEW k \in Keys
          PROVE  Current(StoredRow(k)', latest'[k])
      <4>1. Current(StoredRow(k), latest[k]) /\ Becomes(StoredRow(k), StoredRow(k)')
        BY <2>1, <2>2 DEF RowsKept
      <4> QED BY <2>2, <4>1 DEF Current, Becomes
    <3> QED BY <3>1 DEF StoredCurrent
  <2>3. ASSUME NEW w \in Writers,
               \A k \in Keys : /\ StoredRow(k)' = Above(RowsOf(pending[w])[k], StoredRow(k))
                               /\ latest'[k] = Above(RowsOf(pending[w])[k], latest[k])
        PROVE  StoredCurrent'
    <3>1. ASSUME NEW k \in Keys
          PROVE  Current(StoredRow(k)', latest'[k])
      <4>1. Current(StoredRow(k), latest[k])
        BY <2>1
      <4>2. \A r, x, l : Current(x, l) => Current(Above(r, x), Above(r, l))
        BY DEF Current, Above
      <4> QED BY <2>3, <4>1, <4>2
    <3> QED BY <3>1 DEF StoredCurrent
  <2> QED BY <1>1, <1>2, <2>1, <2>2, <2>3, StepRows DEF StoredCurrent
<1> QED BY <1>1, <1>2 DEF StoreInv

\* The invariant holds as long as the engine runs.
LEMMA StoreInvariant == Spec => []StoreInv
BY InitStoreInv, StepStoreInv, PTL DEF Spec

\* Whatever flushes, failed flushes and compactions have run, Get finds the row of
\* the last Put when no flush holds memtables, unless some of them crossed.
THEOREM CurrentAtRest == Spec => []GetCurrentAtRest
<1>1. StoreInv => GetCurrentAtRest
  <2> SUFFICES ASSUME StoreInv, AtRest, ~ raced, NEW k \in Keys
               PROVE  Current(GetRow(k), latest[k])
    BY DEF GetCurrentAtRest
  <2>1. Current(StoredRow(k), latest[k])
    BY DEF StoreInv, StoredCurrent
  <2>2. \A f \in Flushers : TableHolders(drained[f], k) = {}
    BY EmptyQueueRow DEF AtRest
  <2>3. StoredRow(k) = GetRow(k)
    BY <2>2 DEF StoredRow, GetRow
  <2> QED BY <2>1, <2>3
<1> QED BY <1>1, StoreInvariant, PTL

-----------------------------------------------------------------------------
(* The refinement *)

VersionOf(r) == IF r = NoRow THEN 0 ELSE r.ver
CallOf(w) == [keys |-> pending[w].op.keys, base |-> pending[w].base]

\* The last position of a key in a batch.
LEMMA LastWithIs ==
  ASSUME NEW keys \in Seq(Keys), NEW k \in Keys, RowsWith(keys, k) # {}
  PROVE  /\ LastWith(keys, k) \in 1..Len(keys) /\ keys[LastWith(keys, k)] = k
         /\ \A j \in (LastWith(keys, k) + 1)..Len(keys) : keys[j] # k
<1> DEFINE T == RowsWith(keys, k)
<1>1. DOMAIN keys = 1..Len(keys) /\ Len(keys) \in Nat
  BY LenProperties
<1>2. T \subseteq Nat /\ T # {} /\ \A j \in T : j <= Len(keys)
  BY <1>1 DEF RowsWith
<1>3. \E i \in T : \A j \in T : j <= i
  <2> HIDE DEF T
  <2> QED BY <1>1, <1>2, GreatestNatural
<1>4. LastWith(keys, k) \in T /\ \A j \in T : j <= LastWith(keys, k)
  BY <1>3 DEF LastWith
<1>5. \A i \in T : i \in 1..Len(keys) /\ keys[i] = k
  BY <1>1 DEF RowsWith
<1>6. \A j \in 1..Len(keys) : keys[j] = k => j \in T
  BY <1>1 DEF RowsWith
<1> DEFINE i == LastWith(keys, k)
<1> HIDE DEF T, i
<1>7. i \in 1..Len(keys) /\ keys[i] = k
  BY <1>4, <1>5 DEF i
<1>8. \A j \in (i + 1)..Len(keys) : j \in 1..Len(keys) /\ ~ (j <= i)
  BY <1>1, <1>7
<1>9. \A j \in (i + 1)..Len(keys) : keys[j] # k
  BY <1>4, <1>6, <1>8 DEF i
<1> QED BY <1>7, <1>9 DEF i

\* The calls in progress, before and after one of them ends.
LEMMA CallEnds ==
  ASSUME IInv, CallsNumbered, NEW w \in Writers, pending[w] # NoOp,
         pending' = [pending EXCEPT ![w] = NoOp]
  PROVE  CallOf(w) \in OpenCalls /\ OpenCalls' = OpenCalls \ {CallOf(w)}
<1>1. pending \in [Writers -> PendingCall \cup {NoOp}]
  BY DEF IInv, TypeOK
<1>2. OpenCalls = {CallOf(v) : v \in {u \in Writers : pending[u] # NoOp}}
  BY DEF OpenCalls, CallOf
<1>3. OpenCalls' = {CallOf(v) : v \in {u \in Writers : pending[u] # NoOp /\ u # w}}
  BY <1>1 DEF OpenCalls, CallOf
<1>4. \A v \in Writers : pending[v] # NoOp /\ v # w => CallOf(v) # CallOf(w)
  <2> SUFFICES ASSUME NEW v \in Writers, pending[v] # NoOp, v # w
               PROVE  CallOf(v) # CallOf(w)
    OBVIOUS
  <2>1. pending[v].base # pending[w].base
    BY DEF CallsNumbered
  <2>2. CallOf(v).base = pending[v].base /\ CallOf(w).base = pending[w].base
    BY DEF CallOf
  <2> QED BY <2>1, <2>2
<1> QED BY <1>2, <1>3, <1>4

\* The rows of a call are the versions that it took, the last of each key.
LEMMA CallRows ==
  ASSUME IInv, NEW w \in Writers, pending[w] # NoOp, NEW k \in Keys,
         NEW s, NEW t, VersionOf(t) = VersionOf(Above(RowsOf(pending[w])[k], s))
  PROVE  LET c == CallOf(w) IN
         IF \E i \in DOMAIN c.keys : c.keys[i] = k
         THEN \E i \in DOMAIN c.keys :
                /\ c.keys[i] = k /\ \A j \in (i + 1)..Len(c.keys) : c.keys[j] # k
                /\ VersionOf(t) = c.base + i - 1
         ELSE VersionOf(t) = VersionOf(s)
<1> DEFINE keys == pending[w].op.keys
           row == RowsOf(pending[w])[k]
<1>1. pending[w] \in PendingCall
  BY DEF IInv, TypeOK
<1>2. keys \in Seq(Keys) /\ DOMAIN keys = 1..Len(keys) /\ RowsOf(pending[w]) \in MemTable
  BY <1>1, RowsOfType, LenProperties DEF PendingCall, OpType
<1>3. row \in Row \cup {NoRow}
  BY <1>2 DEF MemTable
<1>4. CallOf(w).keys = keys /\ CallOf(w).base = pending[w].base
  BY DEF CallOf
<1>5. CASE RowsWith(keys, k) = {}
  <2>1. row = NoRow
    BY <1>5 DEF RowsOf
  <2>2. ~ \E i \in DOMAIN keys : keys[i] = k
    BY <1>5 DEF RowsWith
  <2> QED BY <1>4, <2>1, <2>2 DEF Above
<1>6. CASE RowsWith(keys, k) # {}
  <2> DEFINE i == LastWith(keys, k)
  <2>1. /\ i \in DOMAIN keys /\ keys[i] = k
        /\ \A j \in (i + 1)..Len(keys) : keys[j] # k
    BY <1>2, <1>6, LastWithIs
  <2>2. row = [ver |-> pending[w].base + i - 1, kind |-> pending[w].op.kind]
    BY <1>6 DEF RowsOf
  <2>3. row # NoRow
    <3>1. PICK n \in Nat : n = Len(keys)
      BY <1>2, LenProperties
    <3>2. i \in 1..n /\ pending[w].base \in Nat
      BY <1>1, <1>2, <2>1, <3>1 DEF PendingCall
    <3>3. pending[w].base + i - 1 \in Nat /\ pending[w].op.kind \in Kinds
      BY <1>1, <3>2 DEF PendingCall, OpType
    <3>4. row \in Row
      BY <2>2, <3>3 DEF Row
    <3> QED BY <3>4, SentinelAssumption
  <2> HIDE DEF i
  <2>4. VersionOf(t) = pending[w].base + i - 1
    BY <2>2, <2>3 DEF VersionOf, Above
  <2> QED BY <1>4, <2>1, <2>4
<1> QED BY <1>5, <1>6

\* The engine starts as an empty store.
LEMMA InitStore == Init => Store!Init
<1> SUFFICES ASSUME Init PROVE Store!Init
  OBVIOUS
<1>1. \A k \in Keys : StoredRow(k) = NoRow
  <2>1. /\ \A k \in Keys : active[k] = NoRow
        /\ immutable = <<>> /\ segments = {} /\ \A f \in Flushers : drained[f] = <<>>
    BY DEF Init, EmptyMem
  <2>2. \A k \in Keys : Merge({})[k] = NoRow
    BY MergeNone
  <2> QED BY <2>1, <2>2, EmptyQueueRow DEF StoredRow
<1>2. nextVersion = 0 /\ raced = FALSE /\ OpenCalls = {}
  BY DEF Init, OpenCalls
<1> QED BY <1>1, <1>2 DEF Store!Init

\* Every step of the engine is one step of the store, or none.
LEMMA StepStore ==
  StoreInv /\ [Next]_vars =>
    [Store!Next]_<<[k \in Keys |-> IF StoredRow(k) = NoRow THEN 0 ELSE StoredRow(k).ver],
                   nextVersion, OpenCalls, ~ raced>>
<1> SUFFICES ASSUME StoreInv, [Next]_vars
             PROVE  \/ Store!Next
                    \/ UNCHANGED <<[k \in Keys |-> IF StoredRow(k) = NoRow THEN 0
                                                   ELSE StoredRow(k).ver],
                                   nextVersion, OpenCalls, ~ raced>>
  OBVIOUS
<1>1. CASE raced'
  BY <1>1 DEF Store!Next, Store!Forsake
<1>2. CASE ~ raced'
  <2> DEFINE st == [k \in Keys |-> IF StoredRow(k) = NoRow THEN 0 ELSE StoredRow(k).ver]
  <2>1. IInv /\ IInv' /\ CallsNumbered /\ AgeOrder /\ raced = FALSE /\ raced' = FALSE
    <3>1. ~ raced
      BY <1>2, RacedStays
    <3> QED BY <1>2, <3>1, StepIInv DEF StoreInv, IInv, TypeOK
  <2>2. /\ \A k \in Keys : st[k] = VersionOf(StoredRow(k))
        /\ \A k \in Keys : (st')[k] = VersionOf(StoredRow(k)')
        /\ st = [k \in Keys |-> VersionOf(StoredRow(k))]
        /\ st' = [k \in Keys |-> VersionOf(StoredRow(k)')]
    BY DEF VersionOf
  <2> HIDE DEF st
  <2>3. ASSUME RowsKept
        PROVE  st' = st
    <3>1. \A k \in Keys : VersionOf(StoredRow(k)') = VersionOf(StoredRow(k))
      BY <2>3 DEF RowsKept, Becomes, VersionOf
    <3> QED BY <2>2, <3>1
  <2>4. ASSUME NEW w \in Writers, NEW op \in Calls[w], AllocVersion(w, op)
        PROVE  Store!Next
    <3>1. RowsKept
      <4>1. \A k \in Keys : StoredRow(k)' = StoredRow(k)
        BY <2>1, <2>4, StoredRowIs DEF IInv, AllocVersion, segmentVars, flushVars
      <4> QED BY <4>1 DEF RowsKept, Becomes
    <3>2. /\ pending'[w] = [op |-> op, base |-> nextVersion + 1]
          /\ \A v \in Writers \ {w} : pending'[v] = pending[v]
          /\ pending[w] = NoOp /\ nextVersion' = nextVersion + Len(op.keys)
      BY <2>1, <2>4 DEF AllocVersion, IInv, TypeOK
    <3>3. pending'[w] # NoOp
      <4>1. op \in OpType /\ nextVersion + 1 \in Nat
        BY <2>1, CallsAssumption DEF IInv, TypeOK
      <4> QED BY <3>2, <4>1, SentinelAssumption DEF PendingCall
    <3>4. OpenCalls' = OpenCalls \cup {[keys |-> op.keys, base |-> nextVersion + 1]}
      BY <3>2, <3>3 DEF OpenCalls
    <3>5. op.keys \in {o.keys : o \in UNION {Calls[v] : v \in Writers}}
      OBVIOUS
    <3>6. st' = st
      BY <2>3, <3>1
    <3> QED BY <2>1, <3>2, <3>4, <3>5, <3>6 DEF Store!Next, Store!Begin, st
  <2>5. ASSUME NEW w \in Writers, WriteFail(w)
        PROVE  Store!Next
    <3>1. RowsKept
      <4>1. \A k \in Keys : StoredRow(k)' = StoredRow(k)
        BY <2>1, <2>5, StoredRowIs DEF IInv, WriteFail, segmentVars, flushVars
      <4> QED BY <4>1 DEF RowsKept, Becomes
    <3>2. /\ CallOf(w) \in OpenCalls /\ OpenCalls' = OpenCalls \ {CallOf(w)}
          /\ nextVersion' = nextVersion
      BY <2>1, <2>5, CallEnds DEF WriteFail
    <3>3. st' = st
      BY <2>3, <3>1
    <3> QED BY <2>1, <3>2, <3>3 DEF Store!Next, Store!Fail, st
  <2>6. ASSUME NEW w \in Writers, PutOne(w) \/ PutBatch(w)
        PROVE  Store!Next
    <3>1. /\ pending[w] # NoOp /\ CallOf(w) \in OpenCalls
          /\ OpenCalls' = OpenCalls \ {CallOf(w)} /\ nextVersion' = nextVersion
      BY <2>1, <2>6, CallEnds DEF PutOne, PutBatch
    <3> DEFINE c == CallOf(w)
    <3>2. \A k \in Keys :
            IF \E i \in DOMAIN c.keys : c.keys[i] = k
            THEN \E i \in DOMAIN c.keys :
                   /\ c.keys[i] = k /\ \A j \in (i + 1)..Len(c.keys) : c.keys[j] # k
                   /\ (st')[k] = c.base + i - 1
            ELSE (st')[k] = st[k]
      <4> TAKE k \in Keys
      <4>1. StoredRow(k)' = Above(RowsOf(pending[w])[k], StoredRow(k))
        BY <2>1, <2>6, PutRow
      <4>2. (st')[k] = VersionOf(StoredRow(k)') /\ st[k] = VersionOf(StoredRow(k))
        BY <2>2
      <4> HIDE DEF c
      <4> QED BY <2>1, <3>1, <4>1, <4>2, CallRows DEF c
    <3> HIDE DEF c
    <3>3. c \in OpenCalls /\ OpenCalls' = OpenCalls \ {c}
      BY <3>1 DEF c
    <3>4. Store!TakeEffect(c)
      BY <2>1, <3>1, <3>2, <3>3 DEF Store!TakeEffect, st
    <3> QED BY <2>1, <3>3, <3>4 DEF Store!Next
  <2>7. CASE \/ \E f \in Flushers : FlushStep(f)
             \/ \E c \in Compactors : CompactStep(c)
    <3>1. UNCHANGED <<nextVersion, pending>>
      BY <2>7 DEF FlushStep, FlushBegin, FlushBuild, FlushRegister, FlushFail,
                  FlushCheckpoint, CompactStep, CompactBegin, CompactBuild, CompactInstall,
                  CompactFail, engineVars
    <3>2. OpenCalls' = OpenCalls
      BY <3>1 DEF OpenCalls
    <3>3. st' = st
      BY <1>2, <2>1, <2>3, <2>7, BackgroundKeeps
    <3> QED BY <2>1, <3>1, <3>2, <3>3 DEF st
  <2>8. CASE UNCHANGED vars
    <3>1. UNCHANGED <<nextVersion, pending, active, immutable, drained, segments>>
      BY <2>8 DEF vars, engineVars, segmentVars, flushVars
    <3>2. \A k \in Keys : StoredRow(k)' = StoredRow(k)
      BY <2>1, <3>1, StoredRowIs DEF IInv
    <3>3. OpenCalls' = OpenCalls /\ st' = st
      BY <2>2, <3>1, <3>2 DEF OpenCalls
    <3> QED BY <2>1, <3>1, <3>3 DEF st
  <2> QED BY <2>4, <2>5, <2>6, <2>7, <2>8 DEF Next, WriterStep, Quiesce
<1> QED BY <1>1, <1>2

\* The engine implements the store: calls take effect once, as a whole and between
\* their beginning and their return, and nothing else changes what a key holds, as
\* long as no flush and compaction, and no two flushes, have crossed.
THEOREM EngineImplementsStore == Spec => ImplementsStore
BY InitStore, StepStore, StoreInvariant, PTL DEF Spec, ImplementsStore, Store!Spec
=============================================================================
