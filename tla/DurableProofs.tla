--------------------------- MODULE DurableProofs ----------------------------
(***************************************************************************)
(* Proofs about module Durable, for any keys, calls, writers, flushers and *)
(* compactors, and any number of crashes: no readable segment file is      *)
(* written over, and no two files have one name.                           *)
(***************************************************************************)
EXTENDS Durable, EngineStoreProofs

(* The inductive invariant.                                                *)

\* Of an engine that is down nothing is in memory.
DownEmpty ==
  mode # "up" =>
    /\ active = EmptyMem /\ immutable = <<>> /\ segments = {} /\ nextVersion = 0
    /\ \A w \in Writers : pending[w] = NoOp
    /\ \A f \in Flushers : flushPc[f] = "idle" /\ ckptPc[f] = "none" /\ drained[f] = <<>>
    /\ \A c \in Compactors : compPc[c] = "idle" /\ compSet[c] = {}
    /\ synced = Len(wal)

\* A record on its way belongs to a call.
RecordsOfCalls ==
  \A w \in Writers : walPc[w] # "none" => pending[w] # NoOp

\* Files have names of their own, none is being written, and the IDs to come are above
\* those of the readable ones.
FilesNamed ==
  LET present == files \cup SegmentFiles IN
  /\ IsFiniteSet(files)
  /\ \A x, y \in present : x.id = y.id => x = y
  /\ \A x \in files : x.id \notin FlushIDs \cup CompactOutIDs
  /\ mode = "up" => \A x \in WholeFiles(files) : x.id <= nextSegID

DiskInv == /\ DurableTypeOK
           /\ IInv
           /\ DownEmpty
           /\ RecordsOfCalls
           /\ FilesNamed

\* What a row becomes in a file, and in a replay.
Emptied(r) == IF r # NoRow /\ r.kind = "tombstone" THEN [ver |-> r.ver, kind |-> "empty"] ELSE r

-----------------------------------------------------------------------------
(* Lemmas about sets of naturals, logs and files *)

\* A finite set of naturals is bounded: a smallest one that is not would have an element
\* without which it is.
LEMMA FiniteBounded ==
  ASSUME NEW S, S \subseteq Nat, IsFiniteSet(S)
  PROVE  \E b \in Nat : \A x \in S : x <= b
<1> DEFINE Bounded(U) == \E b \in Nat : \A x \in U : x <= b
           N == {Cardinality(U) : U \in {V \in SUBSET S : ~ Bounded(V)}}
<1>1. \A U \in SUBSET S : IsFiniteSet(U) /\ Cardinality(U) \in Nat
  BY FS_Subset, FS_CardinalityType
<1>2. SUFFICES ASSUME ~ Bounded(S) PROVE FALSE
  OBVIOUS
<1>3. N \subseteq Nat /\ N # {}
  BY <1>1, <1>2
<1>4. PICK n \in N : \A m \in N : n <= m
  <2> HIDE DEF N
  <2> QED BY <1>3, LeastNatural
<1>5. PICK U \in SUBSET S : Cardinality(U) = n /\ ~ Bounded(U)
  OBVIOUS
<1>6. U # {}
  <2>1. Bounded({})
    OBVIOUS
  <2> QED BY <1>5, <2>1
<1>7. PICK x \in U : TRUE
  BY <1>6
<1>8. Cardinality(U \ {x}) = n - 1 /\ U \ {x} \in SUBSET S /\ n \in Nat
  BY <1>1, <1>5, FS_RemoveElement
<1>9. Bounded(U \ {x})
  <2>1. n - 1 \notin N
    <3> HIDE DEF N
    <3> QED BY <1>3, <1>4, <1>8
  <2>2. \A V \in SUBSET S : ~ Bounded(V) => Cardinality(V) \in N
    OBVIOUS
  <2> HIDE DEF N, Bounded
  <2> QED BY <1>8, <2>1, <2>2
<1>10. PICK b \in Nat : \A y \in U \ {x} : y <= b
  BY <1>9
<1>11. \A y \in U : y <= b + x
  BY <1>10
<1>12. b + x \in Nat
  BY <1>10
<1>13. Bounded(U)
  BY <1>11, <1>12
<1> QED BY <1>5, <1>13

\* Max of module FiniteSetsExt is what its name says.
LEMMA MaxIs ==
  ASSUME NEW S, S \subseteq Nat, IsFiniteSet(S), S # {}
  PROVE  Max(S) \in S /\ \A y \in S : y <= Max(S)
<1>1. PICK b \in Nat : \A x \in S : x <= b
  BY FiniteBounded
<1>2. PICK x \in S : \A y \in S : y <= x
  BY <1>1, GreatestNatural
<1>3. \A y \in S : x >= y
  BY <1>2
<1>4. Max(S) \in S /\ \A y \in S : Max(S) >= y
  BY <1>3 DEF Max
<1> QED BY <1>4

\* The same for the sets with a 0 that the code begins a maximum with.
LEMMA MaxFromZero ==
  ASSUME NEW S, S \subseteq Nat, IsFiniteSet(S)
  PROVE  /\ Max({0} \cup S) \in Nat /\ \A y \in S : y <= Max({0} \cup S)
         /\ Max({0} \cup S) = 0 \/ Max({0} \cup S) \in S
<1>1. IsFiniteSet({0} \cup S)
  BY FS_AddElement
<1>2. {0} \cup S \subseteq Nat /\ {0} \cup S # {}
  OBVIOUS
<1> QED BY <1>1, <1>2, MaxIs

\* The image of a finite set is finite.
LEMMA FiniteImage ==
  ASSUME NEW S, IsFiniteSet(S), NEW f, f = [x \in S |-> f[x]]
  PROVE  IsFiniteSet({f[x] : x \in S})
<1> DEFINE T == {f[x] : x \in S}
<1>1. f \in Surjection(S, T)
  <2>1. f \in [S -> T]
    OBVIOUS
  <2>2. \A t \in T : \E s \in S : f[s] = t
    OBVIOUS
  <2> QED BY <2>1, <2>2 DEF Surjection
<1> HIDE DEF T
<1>2. IsFiniteSet(T)
  BY <1>1, FS_Surjection
<1> QED BY <1>2 DEF T

\* HighestID bounds the IDs of the files it was given.
LEMMA HighestIDIs ==
  ASSUME NEW F, F \subseteq File, IsFiniteSet(F)
  PROVE  HighestID(F) \in Nat /\ \A x \in F : x.id <= HighestID(F)
<1> DEFINE f == [x \in F |-> x.id]
           T == {f[x] : x \in F}
<1>1. IsFiniteSet(T)
  <2>1. f = [x \in F |-> f[x]]
    OBVIOUS
  <2> HIDE DEF f
  <2> QED BY <2>1, FiniteImage
<1>2. T \subseteq Nat
  BY DEF File
<1>3. T = {x.id : x \in F}
  OBVIOUS
<1>4. \A x \in F : x.id \in T
  OBVIOUS
<1> HIDE DEF T
<1>5. Max({0} \cup T) \in Nat /\ \A y \in T : y <= Max({0} \cup T)
  BY <1>1, <1>2, MaxFromZero
<1> QED BY <1>3, <1>4, <1>5 DEF HighestID

\* The version that LastFlushed finds is that of a checkpoint record, and none is higher.
LEMMA LastFlushedIs ==
  ASSUME NEW log \in Seq(LogRecord)
  PROVE  /\ LastFlushed(log) \in Nat
         /\ \A i \in 1..Len(log) : log[i].ckpt => log[i].ver <= LastFlushed(log)
         /\ \/ LastFlushed(log) = 0
            \/ \E i \in 1..Len(log) : log[i].ckpt /\ log[i].ver = LastFlushed(log)
<1> DEFINE D == {j \in DOMAIN log : log[j].ckpt}
           f == [i \in D |-> log[i].ver]
           T == {f[i] : i \in D}
<1>1. DOMAIN log = 1..Len(log) /\ Len(log) \in Nat /\ \A i \in 1..Len(log) : log[i] \in LogRecord
  BY LenProperties, ElementOfSeq
<1>2. IsFiniteSet(D)
  <2>1. IsFiniteSet(1..Len(log)) /\ D \in SUBSET (1..Len(log))
    BY <1>1, FS_Interval
  <2> HIDE DEF D
  <2> QED BY <2>1, FS_Subset
<1>3. IsFiniteSet(T)
  <2>1. f = [x \in D |-> f[x]]
    OBVIOUS
  <2> HIDE DEF f
  <2> QED BY <1>2, <2>1, FiniteImage
<1>4. T \subseteq Nat
  BY <1>1 DEF LogRecord
<1>5. T = {log[i].ver : i \in D}
  OBVIOUS
<1>6. \A i \in 1..Len(log) : log[i].ckpt => log[i].ver \in T
  BY <1>1
<1>7. \A y \in T : \E i \in 1..Len(log) : log[i].ckpt /\ log[i].ver = y
  BY <1>1
<1> HIDE DEF T
<1>8. /\ Max({0} \cup T) \in Nat /\ \A y \in T : y <= Max({0} \cup T)
      /\ Max({0} \cup T) = 0 \/ Max({0} \cup T) \in T
  BY <1>3, <1>4, MaxFromZero
<1>9. LastFlushed(log) = Max({0} \cup T)
  BY <1>5 DEF LastFlushed
<1> QED BY <1>6, <1>7, <1>8, <1>9

\* The records that a replay applies for a key; the last of them gives its row.
LEMMA ReplayRow ==
  ASSUME NEW log \in Seq(LogRecord), NEW k \in Keys
  PROVE  /\ Applied(log, k) \subseteq 1..Len(log)
         /\ Applied(log, k) = {} => ReplayMem(log)[k] = NoRow
         /\ \A i \in Applied(log, k) : (\A j \in Applied(log, k) : j <= i)
              => ReplayMem(log)[k] = Emptied(log[i].rows[k])
         /\ Applied(log, k) # {} =>
              \E i \in Applied(log, k) : \A j \in Applied(log, k) : j <= i
<1> DEFINE A == Applied(log, k)
           m == [l \in Keys |-> IF Applied(log, l) = {} THEN NoRow
                                ELSE log[Max(Applied(log, l))].rows[l]]
<1>1. DOMAIN log = 1..Len(log) /\ Len(log) \in Nat /\ \A i \in 1..Len(log) : log[i] \in LogRecord
  BY LenProperties, ElementOfSeq
<1>2. A \subseteq 1..Len(log)
  BY <1>1 DEF Applied
<1>3. A \subseteq Nat /\ IsFiniteSet(A)
  <2>1. IsFiniteSet(1..Len(log)) /\ A \in SUBSET (1..Len(log))
    BY <1>1, <1>2, FS_Interval
  <2>2. A \subseteq Nat
    BY <1>1, <1>2
  <2> HIDE DEF A
  <2> QED BY <2>1, <2>2, FS_Subset
<1>4. ReplayMem(log) = FlushRows(m)
  BY DEF ReplayMem
<1>5. m[k] = IF A = {} THEN NoRow ELSE log[Max(A)].rows[k]
  OBVIOUS
<1>6. ReplayMem(log)[k] = Emptied(m[k])
  <2> HIDE DEF m
  <2> QED BY <1>4 DEF FlushRows, Emptied
<1>7. A # {} => Max(A) \in A /\ \A j \in A : j <= Max(A)
  <2> HIDE DEF A
  <2> QED BY <1>3, MaxIs
<1>8. A = {} => ReplayMem(log)[k] = NoRow
  BY <1>5, <1>6 DEF Emptied
<1>9. ASSUME NEW i \in A, \A j \in A : j <= i
      PROVE  ReplayMem(log)[k] = Emptied(log[i].rows[k])
  <2> HIDE DEF A, m
  <2>1. A # {}
    OBVIOUS
  <2>2. Max(A) = i
    <3>1. Max(A) \in A /\ i <= Max(A)
      BY <1>7, <2>1
    <3>2. Max(A) <= i
      BY <1>9, <3>1
    <3>3. i \in Nat /\ Max(A) \in Nat
      BY <1>3, <3>1
    <3> QED BY <3>1, <3>2, <3>3
  <2> QED BY <1>5, <1>6, <2>1, <2>2
<1>10. A # {} => \E i \in A : \A j \in A : j <= i
  BY <1>7
<1> QED BY <1>2, <1>8, <1>9, <1>10

\* A replay gives rows, and no row of a version above MaxReplayed.
LEMMA ReplayType ==
  ASSUME NEW log \in Seq(LogRecord)
  PROVE  /\ ReplayMem(log) \in MemTable
         /\ MaxReplayed(log) \in Nat
         /\ \A k \in Keys : \A i \in Applied(log, k) : log[i].rows[k].ver <= MaxReplayed(log)
<1> DEFINE P == {q \in (DOMAIN log) \X Keys : q[1] \in Applied(log, q[2])}
           f == [p \in P |-> log[p[1]].rows[p[2]].ver]
           T == {f[p] : p \in P}
<1>1. DOMAIN log = 1..Len(log) /\ Len(log) \in Nat /\ \A i \in 1..Len(log) : log[i] \in LogRecord
  BY LenProperties, ElementOfSeq
<1>2. ReplayMem(log) \in MemTable
  <2>1. \A k \in Keys : ReplayMem(log)[k] \in Row \cup {NoRow}
    <3> TAKE k \in Keys
    <3>1. CASE Applied(log, k) = {}
      BY <3>1, ReplayRow
    <3>2. CASE Applied(log, k) # {}
      <4>1. PICK i \in Applied(log, k) : \A j \in Applied(log, k) : j <= i
        BY <3>2, ReplayRow
      <4>2. i \in 1..Len(log) /\ ReplayMem(log)[k] = Emptied(log[i].rows[k])
        BY <4>1, ReplayRow
      <4>3. log[i].rows[k] \in Row \cup {NoRow}
        BY <1>1, <4>2 DEF LogRecord, MemTable
      <4> QED BY <4>2, <4>3 DEF Emptied, Row, Kinds
    <3> QED BY <3>1, <3>2
  <2>2. ReplayMem(log) = [k \in Keys |-> ReplayMem(log)[k]]
    BY DEF ReplayMem, FlushRows
  <2> QED BY <2>1, <2>2 DEF MemTable
<1>3. IsFiniteSet(T)
  <2>1. IsFiniteSet((DOMAIN log) \X Keys)
    <3>1. IsFiniteSet(1..Len(log)) /\ IsFiniteSet(Keys)
      BY <1>1, SizeAssumption, FS_Interval
    <3>2. IsFiniteSet((1..Len(log)) \X Keys)
      BY <3>1, FS_Product
    <3> QED BY <1>1, <3>2
  <2>2. IsFiniteSet(P)
    BY <2>1, FS_Subset
  <2>3. f = [p \in P |-> f[p]]
    OBVIOUS
  <2> HIDE DEF f, P
  <2> QED BY <2>2, <2>3, FiniteImage
<1>4. T \subseteq Nat
  <2>1. \A p \in P : f[p] \in Nat
    <3> TAKE p \in P
    <3>1. p[1] \in 1..Len(log) /\ p[2] \in Keys /\ p[1] \in Applied(log, p[2])
      BY <1>1
    <3>2. log[p[1]].rows[p[2]] # NoRow
      BY <3>1 DEF Applied
    <3>3. log[p[1]].rows[p[2]] \in Row
      BY <1>1, <3>1, <3>2 DEF LogRecord, MemTable
    <3>4. log[p[1]].rows[p[2]].ver \in Nat
      BY <3>3 DEF Row
    <3> QED BY <3>4
  <2> QED BY <2>1
<1>5. \A k \in Keys : \A i \in Applied(log, k) : log[i].rows[k].ver \in T
  <2> TAKE k \in Keys
  <2> TAKE i \in Applied(log, k)
  <2>1. i \in DOMAIN log
    BY DEF Applied
  <2>2. <<i, k>> \in P /\ f[<<i, k>>] = log[i].rows[k].ver
    BY <2>1
  <2> QED BY <2>2
<1>6. T = {log[p[1]].rows[p[2]].ver : p \in P}
  OBVIOUS
<1>7. MaxReplayed(log) = Max({0} \cup T)
  BY <1>6 DEF MaxReplayed
<1> HIDE DEF T
<1>8. Max({0} \cup T) \in Nat /\ \A y \in T : y <= Max({0} \cup T)
  BY <1>3, <1>4, MaxFromZero
<1> QED BY <1>2, <1>5, <1>7, <1>8

\* What loadSegments makes of the files: for each readable one a segment of level 0.
LEMMA LoadedSegments ==
  ASSUME NEW F, F \subseteq File, IsFiniteSet(F),
         \A x, y \in WholeFiles(F) : x.id = y.id => x = y
  PROVE  /\ Loaded(F) \subseteq Segment /\ IsFiniteSet(Loaded(F))
         /\ Cardinality(Loaded(F)) = Cardinality(WholeFiles(F))
         /\ Cardinality(WholeFiles(F)) \in Nat
         /\ \A s \in Loaded(F) : s.level = 0 /\ FileOf(s.id, s.rows, TRUE) \in WholeFiles(F)
         /\ \A s, t \in Loaded(F) : s.id = t.id => s = t
         /\ \A x \in WholeFiles(F) : \E s \in Loaded(F) : s.id = x.id /\ s.rows = x.rows
<1> DEFINE W == WholeFiles(F)
           Pos(x) == 1 + Cardinality({y \in W : NameBefore(y.id, x.id)})
           f == [x \in W |-> [id |-> x.id, level |-> 0, rows |-> x.rows, pos |-> Pos(x)]]
<1>1. W \subseteq File /\ IsFiniteSet(W)
  <2>1. W \in SUBSET F
    BY DEF WholeFiles
  <2> QED BY <2>1, FS_Subset
<1>2. \A x \in W : Pos(x) \in Nat
  <2> TAKE x \in W
  <2> DEFINE B == {y \in W : NameBefore(y.id, x.id)}
  <2>1. IsFiniteSet(B)
    <3>1. B \in SUBSET W
      OBVIOUS
    <3> HIDE DEF B, W
    <3> QED BY <1>1, <3>1, FS_Subset
  <2>2. Cardinality(B) \in Nat
    <3> HIDE DEF B
    <3> QED BY <2>1, FS_CardinalityType
  <2> QED BY <2>2
<1>3. Loaded(F) = {f[x] : x \in W}
  BY DEF Loaded
<1>4. \A x \in W : f[x].id = x.id /\ f[x].level = 0 /\ f[x].rows = x.rows /\ f[x] \in Segment
  <2> HIDE DEF Pos
  <2> QED BY <1>1, <1>2 DEF File, Segment
<1>5. \A x \in W : x = FileOf(x.id, x.rows, TRUE)
  BY <1>1 DEF WholeFiles, File, FileOf
<1>6. f \in Bijection(W, Loaded(F))
  <2>1. f \in [W -> Loaded(F)]
    BY <1>3
  <2>2. \A a, b \in W : f[a] = f[b] => a = b
    <3> HIDE DEF f
    <3> QED BY <1>4, <1>5
  <2>3. \A t \in Loaded(F) : \E s \in W : f[s] = t
    BY <1>3
  <2> HIDE DEF f, W
  <2> QED BY <2>1, <2>2, <2>3 DEF Bijection, Injection, Surjection, IsInjective
<1> HIDE DEF f, Pos
<1>7. IsFiniteSet(Loaded(F)) /\ Cardinality(Loaded(F)) = Cardinality(W)
  BY <1>1, <1>6, FS_Bijection DEF ExistsBijection
<1>8. Cardinality(W) \in Nat
  BY <1>1, FS_CardinalityType
<1>9. \A s \in Loaded(F) : s \in Segment /\ s.level = 0 /\ FileOf(s.id, s.rows, TRUE) \in W
  <2> TAKE s \in Loaded(F)
  <2>1. PICK x \in W : s = f[x]
    BY <1>3
  <2>2. s.id = x.id /\ s.level = 0 /\ s.rows = x.rows /\ s \in Segment
    BY <1>4, <2>1
  <2>3. FileOf(s.id, s.rows, TRUE) = FileOf(x.id, x.rows, TRUE)
    BY <2>2
  <2>4. x = FileOf(x.id, x.rows, TRUE)
    BY <1>5
  <2> HIDE DEF W
  <2> QED BY <2>2, <2>3, <2>4
<1>10. \A s, t \in Loaded(F) : s.id = t.id => s = t
  BY <1>3, <1>4
<1>11. \A x \in W : \E s \in Loaded(F) : s.id = x.id /\ s.rows = x.rows
  BY <1>3, <1>4
<1> QED BY <1>7, <1>8, <1>9, <1>10, <1>11

\* A file whose writing stopped half-way has the name and the rows it was to have.
LEMMA LeftIs ==
  ASSUME NEW ending \in Endings, NEW id \in Nat, NEW rows \in MemTable
  PROVE  /\ Left(ending, id, rows) \subseteq File /\ IsFiniteSet(Left(ending, id, rows))
         /\ \A x, y \in Left(ending, id, rows) :
              /\ x.id = id /\ x = y
              /\ x.whole => ending = "whole" /\ x.rows = rows
<1>1. EmptyMem \in MemTable
  BY EmptyMemType
<1>2. CASE ending = "none"
  BY <1>2, FS_EmptySet DEF Left
<1>3. CASE ending # "none"
  <2> DEFINE x == FileOf(id, IF ending = "whole" THEN rows ELSE EmptyMem, ending = "whole")
  <2>1. Left(ending, id, rows) = {x}
    BY <1>3 DEF Left
  <2>2. x \in File /\ x.id = id /\ (x.whole => ending = "whole" /\ x.rows = rows)
    BY <1>1, <1>3 DEF FileOf, File, Endings
  <2> HIDE DEF x
  <2>3. IsFiniteSet({x})
    BY FS_Singleton
  <2>4. \A y \in {x} : y = x
    OBVIOUS
  <2>5. {x} \subseteq File
    BY <2>2
  <2> QED BY <2>1, <2>2, <2>3, <2>4, <2>5
<1> QED BY <1>2, <1>3

\* What is being written has an ID and rows.
LEMMA OutputTypes ==
  ASSUME IInv
  PROVE  /\ \A f \in Flushers : flushPc[f] = "built" =>
              flushSeg[f] \in Nat /\ FlushRows(Head(drained[f])) \in MemTable
         /\ \A c \in Compactors : compSeg[c] \in Nat /\ Merge(compSet[c]) \in MemTable
<1>1. ASSUME NEW f \in Flushers, flushPc[f] = "built"
      PROVE  FlushRows(Head(drained[f])) \in MemTable
  <2>1. Head(drained[f]) \in MemTable
    BY <1>1, FlushedSegmentType DEF IInv, Flushing
  <2> QED BY <2>1, FlushRowsType
<1>2. \A c \in Compactors : Merge(compSet[c]) \in MemTable
  BY SnapshotMerge DEF IInv
<1>3. \A f \in Flushers : flushSeg[f] \in Nat
  BY DEF IInv, TypeOK
<1>4. \A c \in Compactors : compSeg[c] \in Nat
  BY DEF IInv, TypeOK
<1> QED BY <1>1, <1>2, <1>3, <1>4

-----------------------------------------------------------------------------
(* Steps of the running engine and the directory *)

\* The steps that Durable takes over from Engine, and those that only concern the log.
EngineSteps == \/ \E w \in Writers : WriterDoes(w)
               \/ \E f \in Flushers : FlusherDoes(f)
               \/ \E c \in Compactors : CompactorDoes(c)

\* They are steps of Engine, taken while the engine is up.
LEMMA StepsOfEngine ==
  ASSUME DiskInv, EngineSteps
  PROVE  [Next]_vars /\ mode = "up" /\ UNCHANGED <<mode, restarts>>
<1> USE DEF DiskInv
<1>1. ASSUME NEW w \in Writers, WriterDoes(w)
      PROVE  [Next]_vars /\ mode = "up" /\ UNCHANGED <<mode, restarts>>
  <2>1. CASE \E op \in Calls[w] : Alloc(w, op)
    BY <2>1 DEF Alloc, Next, WriterStep
  <2>2. CASE AppendRecord(w) \/ SyncRecord(w)
    BY <2>2 DEF AppendRecord, SyncRecord, DownEmpty, RecordsOfCalls
  <2>3. CASE PutAndReturn(w)
    BY <2>3 DEF PutAndReturn, PutOne, PutBatch, DownEmpty, Next, WriterStep
  <2>4. CASE CallFails(w)
    BY <2>4 DEF CallFails, WriteFail, DownEmpty, Next, WriterStep
  <2> QED BY <1>1, <2>1, <2>2, <2>3, <2>4 DEF WriterDoes
<1>2. ASSUME NEW f \in Flushers, FlusherDoes(f)
      PROVE  [Next]_vars /\ mode = "up" /\ UNCHANGED <<mode, restarts>>
  <2>1. CASE BeginFlush(f)
    <3>1. Drain # <<>> => mode = "up"
      BY DEF DownEmpty, Drain, KeysOf, EmptyMem
    <3> QED BY <2>1, <3>1 DEF BeginFlush, FlushBegin, Next, FlushStep
  <2>2. CASE BuildFlush(f)
    BY <2>2 DEF BuildFlush, FlushBuild, DownEmpty, Next, FlushStep
  <2>3. CASE RegisterFlush(f)
    BY <2>3 DEF RegisterFlush, FlushRegister, DownEmpty, Next, FlushStep, durableVars
  <2>4. CASE FailFlush(f)
    BY <2>4 DEF FailFlush, FlushFail, DownEmpty, Next, FlushStep
  <2>5. CASE AppendCheckpoint(f)
    BY <2>5 DEF AppendCheckpoint, FlushCheckpoint, DownEmpty, Next, FlushStep
  <2>6. CASE SyncCheckpoint(f)
    BY <2>6 DEF SyncCheckpoint, DownEmpty
  <2> QED BY <1>2, <2>1, <2>2, <2>3, <2>4, <2>5, <2>6 DEF FlusherDoes
<1>3. ASSUME NEW c \in Compactors, CompactorDoes(c)
      PROVE  [Next]_vars /\ mode = "up" /\ UNCHANGED <<mode, restarts>>
  <2>1. CASE BeginCompact(c)
    BY <2>1 DEF BeginCompact, CompactBegin, Level, DownEmpty, Next, CompactStep, durableVars
  <2>2. CASE BuildCompact(c)
    BY <2>2 DEF BuildCompact, CompactBuild, DownEmpty, Next, CompactStep
  <2>3. CASE InstallCompact(c)
    BY <2>3 DEF InstallCompact, CompactInstall, DownEmpty, Next, CompactStep
  <2>4. CASE FailCompact(c)
    BY <2>4 DEF FailCompact, CompactFail, DownEmpty, Next, CompactStep
  <2> QED BY <1>3, <2>1, <2>2, <2>3, <2>4 DEF CompactorDoes
<1> QED BY <1>1, <1>2, <1>3 DEF EngineSteps

\* A directory that only loses files, while new IDs are those of no file.
LEMMA FilesQuiet ==
  ASSUME FilesNamed, files' \subseteq files, UNCHANGED <<segments, mode>>,
         nextSegID \in Nat, nextSegID' \in Nat, nextSegID <= nextSegID', files \subseteq File,
         \A id \in FlushIDs' \cup CompactOutIDs' :
           id \in FlushIDs \cup CompactOutIDs \/ \A x \in files' : x.id # id
  PROVE  FilesNamed'
<1>1. SegmentFiles' = SegmentFiles
  BY DEF SegmentFiles
<1>2. IsFiniteSet(files')
  BY FS_Subset DEF FilesNamed
<1>3. \A x \in files' : x.id \notin FlushIDs' \cup CompactOutIDs'
  BY DEF FilesNamed
<1>4. mode' = "up" => \A x \in WholeFiles(files') : x.id <= nextSegID'
  <2>1. \A x \in WholeFiles(files') : x \in WholeFiles(files) /\ x.id \in Nat
    BY DEF WholeFiles, File
  <2>2. mode = "up" => \A x \in WholeFiles(files) : x.id <= nextSegID
    BY DEF FilesNamed
  <2>3. \A n \in Nat : n <= nextSegID => n <= nextSegID'
    OBVIOUS
  <2> QED BY <2>1, <2>2, <2>3
<1>5. \A x, y \in files' \cup SegmentFiles' : x.id = y.id => x = y
  BY <1>1 DEF FilesNamed
<1> QED BY <1>2, <1>3, <1>4, <1>5 DEF FilesNamed

\* One file more, under an ID that was being written and is not any longer.
LEMMA FilesAdded ==
  ASSUME FilesNamed, NEW id \in Nat, NEW L, files' = files \cup L, IsFiniteSet(L),
         \A x, y \in L : x.id = id /\ x = y,
         id \in FlushIDs \cup CompactOutIDs, id \notin RegisteredIDs, id <= nextSegID,
         FlushIDs' \cup CompactOutIDs' \subseteq (FlushIDs \cup CompactOutIDs) \ {id},
         UNCHANGED <<segments, mode, nextSegID>>
  PROVE  FilesNamed'
<1>1. SegmentFiles' = SegmentFiles /\ \A x \in SegmentFiles : x.id # id
  BY DEF SegmentFiles, FileOf, RegisteredIDs
<1>2. IsFiniteSet(files')
  BY FS_Union DEF FilesNamed
<1>3. \A x \in files : x.id # id
  BY DEF FilesNamed
<1>4. \A x \in files' : x.id \notin FlushIDs' \cup CompactOutIDs'
  BY DEF FilesNamed
<1>5. mode' = "up" => \A x \in WholeFiles(files') : x.id <= nextSegID'
  BY DEF FilesNamed, WholeFiles
<1>6. \A x, y \in files' \cup SegmentFiles' : x.id = y.id => x = y
  BY <1>1, <1>3 DEF FilesNamed
<1> QED BY <1>2, <1>4, <1>5, <1>6 DEF FilesNamed

\* The names of files under the steps of writers, flushes and compactions.
LEMMA WriterFiles ==
  ASSUME DiskInv, NEW w \in Writers, WriterDoes(w)
  PROVE  FilesNamed'
<1>1. UNCHANGED <<segments, mode, nextSegID, files, flushPc, flushSeg, compPc, compSeg>>
  BY DEF WriterDoes, Alloc, AllocVersion, AppendRecord, SyncRecord, PutAndReturn, PutOne,
         PutBatch, CallFails, WriteFail, segmentVars, flushVars, compactVars, vars, diskVars
<1>2. FlushIDs' = FlushIDs /\ CompactOutIDs' = CompactOutIDs
  BY <1>1 DEF FlushIDs, CompactOutIDs
<1>3. nextSegID \in Nat /\ files \subseteq File
  BY DEF DiskInv, DurableTypeOK, TypeOK
<1> QED BY <1>1, <1>2, <1>3, FilesQuiet DEF DiskInv

\* A flush names its file by a new ID, and a failed one leaves it unfinished.
LEMMA FlusherFiles ==
  ASSUME DiskInv, NEW f \in Flushers, FlusherDoes(f)
  PROVE  FilesNamed'
<1>0. TypeOK /\ FilesNamed /\ SegmentIDsUnique /\ IDsAllocated /\ files \subseteq File
  BY DEF DiskInv, IInv, DurableTypeOK
<1>1. CASE BeginFlush(f) \/ AppendCheckpoint(f) \/ SyncCheckpoint(f)
  <2>1. /\ UNCHANGED <<segments, mode, nextSegID, files, flushSeg, compPc, compSeg>>
        /\ \A g \in Flushers : flushPc'[g] = "built" => flushPc[g] = "built"
    BY <1>0, <1>1 DEF TypeOK, BeginFlush, FlushBegin, AppendCheckpoint, FlushCheckpoint,
         SyncCheckpoint, vars, segmentVars, flushVars, compactVars, diskVars
  <2>2. FlushIDs' \subseteq FlushIDs /\ CompactOutIDs' = CompactOutIDs
    BY <2>1 DEF FlushIDs, CompactOutIDs
  <2>3. nextSegID \in Nat
    BY <1>0 DEF TypeOK
  <2> QED BY <1>0, <2>1, <2>2, <2>3, FilesQuiet
<1>2. CASE BuildFlush(f)
  <2>1. /\ UNCHANGED <<segments, mode, compPc, compSeg>>
        /\ nextSegID' = nextSegID + 1 /\ nextSegID \in Nat
        /\ \A g \in Flushers : flushPc'[g] = "built" =>
             \/ g = f /\ flushSeg'[g] = nextSegID + 1
             \/ flushPc[g] = "built" /\ flushSeg'[g] = flushSeg[g]
        /\ flushSeg'[f] = nextSegID + 1
    BY <1>0, <1>2 DEF TypeOK, BuildFlush, FlushBuild, compactVars
  <2>2. files' = {x \in files : x.id # nextSegID + 1}
    BY <1>2, <2>1 DEF BuildFlush
  <2>3. CompactOutIDs' = CompactOutIDs
    BY <2>1 DEF CompactOutIDs
  <2>4. \A id \in FlushIDs' : id \in FlushIDs \/ id = nextSegID + 1
    BY <2>1 DEF FlushIDs
  <2> QED BY <1>0, <2>1, <2>2, <2>3, <2>4, FilesQuiet
<1>3. CASE RegisterFlush(f)
  <2>1. /\ flushPc[f] = "built" /\ UNCHANGED <<mode, files, nextSegID, flushSeg, compPc, compSeg>>
        /\ \A g \in Flushers : flushPc'[g] = "built" => flushPc[g] = "built"
        /\ segments' = segments \cup {FlushedSegment(f)}
    BY <1>0, <1>3 DEF TypeOK, RegisterFlush, FlushRegister, durableVars, diskVars, compactVars
  <2>2. FlushIDs' \subseteq FlushIDs /\ CompactOutIDs' = CompactOutIDs
    BY <2>1 DEF FlushIDs, CompactOutIDs
  <2>3. flushSeg[f] \in FlushIDs
    BY <2>1 DEF FlushIDs
  <2>4. FlushedSegment(f).id = flushSeg[f]
    BY DEF FlushedSegment
  <2> DEFINE new == FileOf(flushSeg[f], FlushedSegment(f).rows, TRUE)
  <2>5. SegmentFiles' = SegmentFiles \cup {new}
    BY <2>1, <2>4 DEF SegmentFiles
  <2>6. \A x \in SegmentFiles : x.id # flushSeg[f]
    BY <1>0, <2>3 DEF SegmentFiles, FileOf, SegmentIDsUnique, RegisteredIDs
  <2>7. new.id = flushSeg[f]
    BY DEF FileOf
  <2>8. \A x \in files : x.id # flushSeg[f]
    BY <1>0, <2>3 DEF FilesNamed
  <2>9. \A x, y \in files \cup SegmentFiles \cup {new} : x.id = y.id => x = y
    <3> HIDE DEF new
    <3> QED BY <1>0, <2>6, <2>7, <2>8 DEF FilesNamed
  <2> QED BY <1>0, <2>1, <2>2, <2>5, <2>9 DEF FilesNamed
<1>4. CASE FailFlush(f)
  <2> DEFINE id == flushSeg[f]
  <2>1. /\ flushPc[f] = "built" /\ UNCHANGED <<segments, mode, nextSegID, flushSeg, compPc, compSeg>>
        /\ flushPc' = [flushPc EXCEPT ![f] = "idle"]
    BY <1>4 DEF FailFlush, FlushFail, segmentVars, compactVars
  <2>2. PICK ending \in Endings : files' = files \cup Left(ending, id, FlushRows(Head(drained[f])))
    BY <1>4 DEF FailFlush, Unfinished
  <2>3. id \in Nat /\ FlushRows(Head(drained[f])) \in MemTable /\ id <= nextSegID
    BY <1>0, <2>1, OutputTypes DEF IDsAllocated, DiskInv
  <2>4. CompactOutIDs' = CompactOutIDs /\ id \in FlushIDs /\ id \notin CompactOutIDs
    BY <1>0, <2>1 DEF FlushIDs, CompactOutIDs, SegmentIDsUnique
  <2>5. FlushIDs' \subseteq FlushIDs \ {id}
    <3>1. \A g \in Flushers : flushPc'[g] = "built" => g # f /\ flushPc[g] = "built"
      BY <1>0, <2>1 DEF TypeOK
    <3> QED BY <1>0, <2>1, <3>1 DEF FlushIDs, SegmentIDsUnique
  <2>6. id \notin RegisteredIDs
    BY <1>0, <2>4 DEF SegmentIDsUnique
  <2> DEFINE L == Left(ending, id, FlushRows(Head(drained[f])))
  <2>7. IsFiniteSet(L) /\ \A x, y \in L : x.id = id /\ x = y
    BY <2>3, LeftIs
  <2> HIDE DEF id, L
  <2> QED BY <1>0, <2>1, <2>2, <2>3, <2>4, <2>5, <2>6, <2>7, FilesAdded DEF L
<1> QED BY <1>1, <1>2, <1>3, <1>4 DEF FlusherDoes

\* So does a compaction; the files it could not delete keep the names of their segments.
LEMMA CompactorFiles ==
  ASSUME DiskInv, NEW c \in Compactors, CompactorDoes(c)
  PROVE  FilesNamed'
<1>0. /\ TypeOK /\ FilesNamed /\ SegmentIDsUnique /\ IDsAllocated /\ SnapshotsFaithful
      /\ files \subseteq File /\ nextSegID \in Nat /\ IsFiniteSet(segments)
  BY DEF DiskInv, IInv, DurableTypeOK, TypeOK
<1>1. CASE BeginCompact(c)
  <2>1. /\ UNCHANGED <<segments, mode, nextSegID, files, flushPc, flushSeg, compSeg>>
        /\ \A d \in Compactors : compPc'[d] = "built" => compPc[d] = "built"
    BY <1>0, <1>1 DEF TypeOK, BeginCompact, CompactBegin, segmentVars, flushVars, durableVars,
         diskVars
  <2>2. FlushIDs' = FlushIDs /\ CompactOutIDs' \subseteq CompactOutIDs
    BY <2>1 DEF FlushIDs, CompactOutIDs
  <2> QED BY <1>0, <2>1, <2>2, FilesQuiet
<1>2. CASE BuildCompact(c)
  <2>1. /\ UNCHANGED <<segments, mode, flushPc, flushSeg>> /\ nextSegID' = nextSegID + 1
        /\ \A d \in Compactors : compPc'[d] = "built" =>
             \/ d = c /\ compSeg'[d] = nextSegID + 1
             \/ compPc[d] = "built" /\ compSeg'[d] = compSeg[d]
        /\ compSeg'[c] = nextSegID + 1
    BY <1>0, <1>2 DEF TypeOK, BuildCompact, CompactBuild, flushVars
  <2>2. files' = {x \in files : x.id # nextSegID + 1}
    BY <1>2, <2>1 DEF BuildCompact
  <2>3. FlushIDs' = FlushIDs
    BY <2>1 DEF FlushIDs
  <2>4. \A id \in CompactOutIDs' : id \in CompactOutIDs \/ id = nextSegID + 1
    BY <2>1 DEF CompactOutIDs
  <2> QED BY <1>0, <2>1, <2>2, <2>3, <2>4, FilesQuiet
<1>3. CASE InstallCompact(c)
  <2> DEFINE merged == compSet[c] \cap segments
             new == FileOf(compSeg[c], CompactedSegment(c).rows, TRUE)
  <2>1. /\ compPc[c] = "built" /\ UNCHANGED <<mode, nextSegID, flushPc, flushSeg, compSeg>>
        /\ \A d \in Compactors : compPc'[d] = "built" => compPc[d] = "built"
        /\ segments' = {s \in segments : s.id \notin CompactIDs(c)} \cup {CompactedSegment(c)}
    BY <1>0, <1>3 DEF TypeOK, InstallCompact, CompactInstall, flushVars
  <2>2. PICK left \in SUBSET merged :
          files' = files \cup {FileOf(s.id, s.rows, TRUE) : s \in left}
    BY <1>3 DEF InstallCompact, NotDeleted
  <2> DEFINE K == {FileOf(s.id, s.rows, TRUE) : s \in left}
  <2>3. FlushIDs' = FlushIDs /\ CompactOutIDs' \subseteq CompactOutIDs /\ compSeg[c] \in CompactOutIDs
    BY <2>1 DEF FlushIDs, CompactOutIDs
  <2>4. \A x \in K : \E s \in left : x.id = s.id /\ s \in segments /\ s \in compSet[c]
    BY DEF FileOf
  <2>5. \A x \in K : x.id \in RegisteredIDs /\ x.id \in CompactIDs(c) /\ x \in SegmentFiles
    BY <2>4 DEF RegisteredIDs, CompactIDs, SegmentFiles
  <2>6. SegmentFiles' \subseteq SegmentFiles \cup {new} /\ new.id = compSeg[c]
    BY <2>1 DEF SegmentFiles, CompactedSegment, FileOf
  <2>7. /\ \A x \in SegmentFiles : x.id # compSeg[c]
        /\ \A x \in files : x.id # compSeg[c]
    BY <1>0, <2>3 DEF SegmentFiles, FileOf, SegmentIDsUnique, RegisteredIDs, FilesNamed
  <2>8. IsFiniteSet(K)
    <3> DEFINE g == [s \in left |-> FileOf(s.id, s.rows, TRUE)]
    <3>1. IsFiniteSet(left)
      BY <1>0, FS_Subset
    <3>2. g = [s \in left |-> g[s]]
      OBVIOUS
    <3>3. K = {g[s] : s \in left}
      OBVIOUS
    <3> HIDE DEF g, K
    <3> QED BY <3>1, <3>2, <3>3, FiniteImage
  <2>9. \A x \in K : x.id <= nextSegID
    BY <1>0, <2>4 DEF IDsAllocated
  <2>10. IsFiniteSet(files')
    <3> HIDE DEF K
    <3> QED BY <1>0, <2>2, <2>8, FS_Union DEF FilesNamed, K
  <2>11. \A x \in files' : x.id \notin FlushIDs' \cup CompactOutIDs'
    BY <1>0, <2>2, <2>3, <2>5 DEF FilesNamed, SegmentIDsUnique
  <2>12. mode' = "up" => \A x \in WholeFiles(files') : x.id <= nextSegID'
    <3> HIDE DEF K
    <3> QED BY <1>0, <2>1, <2>2, <2>9 DEF FilesNamed, WholeFiles, K
  <2>13. \A x, y \in files \cup SegmentFiles \cup {new} : x.id = y.id => x = y
    <3> HIDE DEF new
    <3> QED BY <1>0, <2>6, <2>7 DEF FilesNamed
  <2>14. files' \cup SegmentFiles' \subseteq files \cup SegmentFiles \cup {new}
    BY <2>2, <2>5, <2>6
  <2> QED BY <2>10, <2>11, <2>12, <2>13, <2>14 DEF FilesNamed
<1>4. CASE FailCompact(c)
  <2> DEFINE id == compSeg[c]
             L(ending) == Left(ending, id, Merge(compSet[c]))
  <2>1. /\ UNCHANGED <<segments, mode, nextSegID, compSeg, flushPc, flushSeg>>
        /\ compPc' = [compPc EXCEPT ![c] = "idle"]
    BY <1>4 DEF FailCompact, CompactFail, segmentVars, flushVars
  <2>2. FlushIDs' = FlushIDs
    BY <2>1 DEF FlushIDs
  <2>3. \A d \in Compactors : compPc'[d] = "built" => d # c /\ compPc[d] = "built"
    BY <1>0, <2>1 DEF TypeOK
  <2>4. CASE compPc[c] # "built"
    <3>1. UNCHANGED files
      BY <1>4, <2>4 DEF FailCompact
    <3>2. CompactOutIDs' \subseteq CompactOutIDs
      BY <2>1, <2>3 DEF CompactOutIDs
    <3> QED BY <1>0, <2>1, <2>2, <3>1, <3>2, FilesQuiet
  <2>5. CASE compPc[c] = "built"
    <3>1. PICK ending \in Endings : files' = files \cup L(ending)
      BY <1>4, <2>5 DEF FailCompact, Unfinished
    <3>2. id \in Nat /\ Merge(compSet[c]) \in MemTable /\ id <= nextSegID
      BY <1>0, <2>5, OutputTypes DEF IDsAllocated, DiskInv
    <3>3. id \in CompactOutIDs /\ id \notin FlushIDs /\ id \notin RegisteredIDs
      BY <1>0, <2>5 DEF FlushIDs, CompactOutIDs, SegmentIDsUnique
    <3>4. CompactOutIDs' \subseteq CompactOutIDs \ {id}
      BY <1>0, <2>1, <2>3, <2>5 DEF CompactOutIDs, SegmentIDsUnique
    <3>5. IsFiniteSet(L(ending)) /\ \A x, y \in L(ending) : x.id = id /\ x = y
      BY <3>2, LeftIs
    <3> DEFINE M == L(ending)
    <3> HIDE DEF id, M, L
    <3> QED BY <1>0, <2>1, <2>2, <3>1, <3>2, <3>3, <3>4, <3>5, FilesAdded DEF M
  <2> QED BY <2>4, <2>5
<1> QED BY <1>1, <1>2, <1>3, <1>4 DEF CompactorDoes

\* The types of the log, the directory and the history under the same steps.
LEMMA RecordTypes ==
  /\ \A m \in MemTable : WriteRecord(m) \in LogRecord
  /\ \A v \in Nat : CkptRecord(v) \in LogRecord
BY EmptyMemType DEF WriteRecord, CkptRecord, LogRecord

\* Every step of a running engine keeps the types and the state of the calls.
LEMMA StepDurableTypes ==
  ASSUME DiskInv, EngineSteps
  PROVE  DurableTypeOK' /\ IInv' /\ RecordsOfCalls'
<1>0. [Next]_vars /\ mode = "up" /\ UNCHANGED <<mode, restarts>>
  BY StepsOfEngine
<1>1. IInv'
  BY <1>0, StepIInv DEF DiskInv
<1>2. /\ DurableTypeOK /\ TypeOK /\ RecordsOfCalls /\ IInv
      /\ wal \in Seq(LogRecord) /\ Len(wal) \in Nat /\ synced \in 0..Len(wal)
  BY LenProperties DEF DiskInv, DurableTypeOK
<1>3. ASSUME wal' \in Seq(LogRecord), synced' \in 0..Len(wal'),
             walPc' \in [Writers -> {"none", "appended", "synced"}],
             ckptPc' \in [Flushers -> {"none", "appended"}],
             files' \subseteq File, maybe' \in [Keys -> SUBSET Row],
             clashed' \in BOOLEAN, overtaken' \in BOOLEAN, UNCHANGED regressed
      PROVE  DurableTypeOK'
  BY <1>0, <1>1, <1>2, <1>3 DEF DurableTypeOK, IInv
<1>4. ASSUME NEW rec \in LogRecord, wal' = Append(wal, rec), UNCHANGED synced
      PROVE  wal' \in Seq(LogRecord) /\ synced' \in 0..Len(wal')
  <2>1. wal' \in Seq(LogRecord) /\ Len(wal') = Len(wal) + 1
    BY <1>2, <1>4, AppendProperties
  <2> QED BY <1>2, <1>4, <2>1
<1>5. ASSUME NEW w \in Writers, WriterDoes(w)
      PROVE  DurableTypeOK' /\ RecordsOfCalls'
  <2>1. CASE \E op \in Calls[w] : Alloc(w, op)
    <3>1. UNCHANGED <<wal, synced, files, walPc, ckptPc, maybe, overtaken, regressed>>
          /\ clashed' \in BOOLEAN
      BY <1>2, <2>1 DEF Alloc, diskVars, DurableTypeOK
    <3>2. \A v \in Writers : walPc'[v] # "none" => pending'[v] # NoOp
      <4>1. pending[w] = NoOp /\ \A v \in Writers \ {w} : pending'[v] = pending[v]
        BY <1>2, <2>1 DEF Alloc, AllocVersion, TypeOK
      <4> QED BY <1>2, <3>1, <4>1 DEF RecordsOfCalls
    <3> QED BY <1>2, <1>3, <3>1, <3>2 DEF DurableTypeOK, RecordsOfCalls
  <2>2. CASE AppendRecord(w)
    <3>1. pending[w] \in PendingCall
      BY <1>2, <2>2 DEF AppendRecord, TypeOK
    <3>2. RowsOf(pending[w]) \in MemTable
      BY <3>1, RowsOfType
    <3>3. wal' \in Seq(LogRecord) /\ synced' \in 0..Len(wal')
      BY <1>4, <2>2, <3>2, RecordTypes DEF AppendRecord
    <3>4. maybe' \in [Keys -> SUBSET Row]
      BY <1>2, <2>2, <3>2 DEF AppendRecord, RowAsSet, MemTable, DurableTypeOK
    <3>5. UNCHANGED <<files, ckptPc, clashed, overtaken, regressed, pending>>
          /\ walPc' = [walPc EXCEPT ![w] = "appended"] /\ pending[w] # NoOp
      BY <2>2 DEF AppendRecord, vars, engineVars, flawVars
    <3> QED BY <1>2, <1>3, <3>3, <3>4, <3>5 DEF DurableTypeOK, RecordsOfCalls
  <2>3. CASE SyncRecord(w)
    <3>1. /\ UNCHANGED <<wal, files, ckptPc, maybe, clashed, overtaken, regressed, pending>>
          /\ walPc' = [walPc EXCEPT ![w] = "synced"] /\ walPc[w] = "appended"
          /\ synced' = Len(wal)
      BY <2>3 DEF SyncRecord, vars, engineVars, flawVars
    <3>2. synced' \in 0..Len(wal)
      BY <1>2, <3>1
    <3> QED BY <1>2, <1>3, <3>1, <3>2 DEF DurableTypeOK, RecordsOfCalls
  <2>4. CASE PutAndReturn(w)
    <3>1. /\ UNCHANGED <<wal, synced, files, ckptPc, clashed, overtaken, regressed>>
          /\ walPc' = [walPc EXCEPT ![w] = "none"]
          /\ pending' = [pending EXCEPT ![w] = NoOp]
          /\ maybe' = [k \in Keys |-> maybe[k] \ RowAsSet(RowsOf(pending[w]), k)]
      BY <2>4 DEF PutAndReturn, PutOne, PutBatch, diskVars, flawVars
    <3>2. maybe' \in [Keys -> SUBSET Row]
      <4>1. \A k \in Keys : maybe[k] \ RowAsSet(RowsOf(pending[w]), k) \in SUBSET Row
        BY <1>2 DEF DurableTypeOK
      <4> QED BY <3>1, <4>1
    <3> QED BY <1>2, <1>3, <3>1, <3>2 DEF DurableTypeOK, RecordsOfCalls, TypeOK
  <2>5. CASE CallFails(w)
    <3>1. /\ UNCHANGED <<wal, synced, files, ckptPc, clashed, overtaken, regressed, maybe>>
          /\ walPc' = [walPc EXCEPT ![w] = "none"]
          /\ pending' = [pending EXCEPT ![w] = NoOp]
      BY <2>5 DEF CallFails, WriteFail, diskVars, flawVars
    <3> QED BY <1>2, <1>3, <3>1 DEF DurableTypeOK, RecordsOfCalls, TypeOK
  <2> QED BY <1>5, <2>1, <2>2, <2>3, <2>4, <2>5 DEF WriterDoes
<1>6. ASSUME NEW f \in Flushers, FlusherDoes(f)
      PROVE  DurableTypeOK' /\ RecordsOfCalls'
  <2>1. UNCHANGED <<walPc, pending, clashed, regressed, maybe>> /\ overtaken' \in BOOLEAN
    BY <1>2, <1>6 DEF FlusherDoes, BeginFlush, FlushBegin, BuildFlush, FlushBuild, RegisterFlush,
         FlushRegister, FailFlush, FlushFail, AppendCheckpoint, FlushCheckpoint, SyncCheckpoint,
         durableVars, vars, engineVars, flawVars, DurableTypeOK
  <2>2. RecordsOfCalls'
    BY <1>2, <2>1 DEF RecordsOfCalls
  <2>3. CASE BeginFlush(f) \/ RegisterFlush(f)
    <3>1. UNCHANGED <<wal, synced, files, ckptPc>>
      BY <2>3 DEF BeginFlush, RegisterFlush, durableVars, diskVars
    <3> QED BY <1>2, <1>3, <2>1, <2>2, <3>1 DEF DurableTypeOK
  <2>4. CASE BuildFlush(f)
    <3>1. UNCHANGED <<wal, synced, ckptPc>> /\ files' \subseteq files
      BY <2>4 DEF BuildFlush
    <3> QED BY <1>2, <1>3, <2>1, <2>2, <3>1 DEF DurableTypeOK
  <2>5. CASE FailFlush(f)
    <3>1. UNCHANGED <<wal, synced, ckptPc>> /\ flushPc[f] = "built"
      BY <2>5 DEF FailFlush, FlushFail
    <3>2. PICK ending \in Endings :
            files' = files \cup Left(ending, flushSeg[f], FlushRows(Head(drained[f])))
      BY <2>5 DEF FailFlush, Unfinished
    <3>3. flushSeg[f] \in Nat /\ FlushRows(Head(drained[f])) \in MemTable
      BY <1>2, <3>1, OutputTypes
    <3>4. Left(ending, flushSeg[f], FlushRows(Head(drained[f]))) \subseteq File
      BY <3>3, LeftIs
    <3>5. files' \subseteq File
      BY <1>2, <3>2, <3>4 DEF DurableTypeOK
    <3> QED BY <1>2, <1>3, <2>1, <2>2, <3>1, <3>5 DEF DurableTypeOK
  <2>6. CASE AppendCheckpoint(f)
    <3>1. UNCHANGED <<synced, files>> /\ ckptPc' = [ckptPc EXCEPT ![f] = "appended"]
          /\ wal' = Append(wal, CkptRecord(flushVer[f]))
      BY <2>6 DEF AppendCheckpoint
    <3>2. CkptRecord(flushVer[f]) \in LogRecord
      BY <1>2, RecordTypes DEF TypeOK
    <3>3. wal' \in Seq(LogRecord) /\ synced' \in 0..Len(wal')
      BY <1>4, <3>1, <3>2
    <3> QED BY <1>2, <1>3, <2>1, <2>2, <3>1, <3>3 DEF DurableTypeOK
  <2>7. CASE SyncCheckpoint(f)
    <3>1. /\ UNCHANGED <<wal, files>> /\ ckptPc' = [ckptPc EXCEPT ![f] = "none"]
          /\ synced' = Len(wal)
      BY <2>7 DEF SyncCheckpoint
    <3>2. synced' \in 0..Len(wal)
      BY <1>2, <3>1
    <3> QED BY <1>2, <1>3, <2>1, <2>2, <3>1, <3>2 DEF DurableTypeOK
  <2> QED BY <1>6, <2>3, <2>4, <2>5, <2>6, <2>7 DEF FlusherDoes
<1>7. ASSUME NEW c \in Compactors, CompactorDoes(c)
      PROVE  DurableTypeOK' /\ RecordsOfCalls'
  <2>1. /\ UNCHANGED <<walPc, pending, clashed, regressed, overtaken, maybe, wal, synced, ckptPc>>
    BY <1>7 DEF CompactorDoes, BeginCompact, CompactBegin, BuildCompact, CompactBuild,
         InstallCompact, CompactInstall, FailCompact, CompactFail, durableVars, engineVars,
         flawVars, diskVars
  <2>2. RecordsOfCalls'
    BY <1>2, <2>1 DEF RecordsOfCalls
  <2>3. files' \subseteq File
    <3>1. CASE BeginCompact(c) \/ BuildCompact(c)
      <4>1. files' \subseteq files
        BY <3>1 DEF BeginCompact, BuildCompact, durableVars, diskVars
      <4> QED BY <1>2, <4>1 DEF DurableTypeOK
    <3>2. CASE InstallCompact(c)
      <4>1. PICK left \in SUBSET segments :
              files' = files \cup {FileOf(s.id, s.rows, TRUE) : s \in left}
        BY <3>2 DEF InstallCompact, NotDeleted
      <4>2. \A s \in left : FileOf(s.id, s.rows, TRUE) \in File
        BY <1>2 DEF TypeOK, Segment, File, FileOf
      <4> QED BY <1>2, <4>1, <4>2 DEF DurableTypeOK
    <3>3. CASE FailCompact(c)
      <4>1. \/ UNCHANGED files
            \/ \E ending \in Endings : files' = files \cup Left(ending, compSeg[c], Merge(compSet[c]))
        BY <3>3 DEF FailCompact, Unfinished
      <4>2. compSeg[c] \in Nat /\ Merge(compSet[c]) \in MemTable
        BY <1>2, OutputTypes
      <4>3. \A ending \in Endings : Left(ending, compSeg[c], Merge(compSet[c])) \subseteq File
        BY <4>2, LeftIs
      <4> QED BY <1>2, <4>1, <4>3 DEF DurableTypeOK
    <3> QED BY <1>7, <3>1, <3>2, <3>3 DEF CompactorDoes
  <2> QED BY <1>2, <1>3, <2>1, <2>2, <2>3 DEF DurableTypeOK
<1> QED BY <1>1, <1>5, <1>6, <1>7 DEF EngineSteps

-----------------------------------------------------------------------------
(* The end of a process and the next one, and the directory *)

\* With the memory everything is gone that IInv speaks of.
LEMMA LoseMemoryKeeps ==
  ASSUME DiskInv, LoseMemory, restarts < MaxRestarts, wal' \in Seq(LogRecord),
         synced' = Len(wal'), files' \subseteq File
  PROVE  DurableTypeOK' /\ IInv' /\ DownEmpty' /\ RecordsOfCalls'
<1>0. /\ DurableTypeOK /\ TypeOK
      /\ restarts \in Nat /\ MaxRestarts \in Nat /\ Len(wal') \in Nat
  BY DurableAssumption, LenProperties DEF DiskInv, DurableTypeOK
<1>1. TypeOK'
  BY <1>0, EmptyMemType DEF LoseMemory, TypeOK
<1>2. DurableTypeOK'
  BY <1>0, <1>1 DEF LoseMemory, DurableTypeOK, flawVars
<1>3. IInv'
  <2>1. /\ DrainedWhileFlushing' /\ IDsAllocated' /\ SnapshotsFaithful'
    BY DEF LoseMemory, DrainedWhileFlushing, IDsAllocated, SnapshotsFaithful, Flushing
  <2>2. SegmentIDsUnique'
    BY DEF LoseMemory, SegmentIDsUnique, FlushIDs, CompactOutIDs, RegisteredIDs
  <2>3. IsFiniteSet(segments') /\ L0CountExact'
    <3>1. Level({}, 0) = {}
      BY DEF Level
    <3> QED BY <3>1, FS_EmptySet DEF LoseMemory, L0CountExact
  <2> QED BY <1>1, <2>1, <2>2, <2>3 DEF IInv
<1>4. DownEmpty'
  BY DEF LoseMemory, DownEmpty
<1>5. RecordsOfCalls'
  BY DEF LoseMemory, RecordsOfCalls
<1> QED BY <1>2, <1>3, <1>4, <1>5

\* The registered segments as files.
LEMMA SegmentFilesAre ==
  ASSUME IInv
  PROVE  /\ SegmentFiles \subseteq File /\ IsFiniteSet(SegmentFiles)
         /\ \A x \in SegmentFiles : /\ x.whole /\ x.id \in RegisteredIDs /\ x.id <= nextSegID
                                    /\ x.id \notin FlushIDs \cup CompactOutIDs
<1>1. \A s \in segments : /\ FileOf(s.id, s.rows, TRUE) \in File /\ FileOf(s.id, s.rows, TRUE).whole
                          /\ FileOf(s.id, s.rows, TRUE).id = s.id
  BY DEF IInv, TypeOK, Segment, File, FileOf
<1>2. IsFiniteSet(SegmentFiles)
  <2> DEFINE g == [s \in segments |-> FileOf(s.id, s.rows, TRUE)]
  <2>1. g = [s \in segments |-> g[s]]
    OBVIOUS
  <2>2. SegmentFiles = {g[s] : s \in segments}
    BY DEF SegmentFiles
  <2> HIDE DEF g
  <2> QED BY <2>1, <2>2, FiniteImage DEF IInv
<1>3. \A x \in SegmentFiles : \E s \in segments : x = FileOf(s.id, s.rows, TRUE)
  BY DEF SegmentFiles
<1>4. \A s \in segments : s.id \in RegisteredIDs /\ s.id <= nextSegID
                          /\ s.id \notin FlushIDs \cup CompactOutIDs
  BY DEF IInv, RegisteredIDs, IDsAllocated, SegmentIDsUnique
<1> QED BY <1>1, <1>2, <1>3, <1>4

\* A finite union of finite sets of files.
LEMMA FamilyFinite ==
  ASSUME NEW T, IsFiniteSet(T), NEW L, L = [t \in T |-> L[t]], \A t \in T : IsFiniteSet(L[t])
  PROVE  IsFiniteSet(UNION {L[t] : t \in T})
<1>1. IsFiniteSet({L[t] : t \in T})
  BY FiniteImage
<1>2. \A S \in {L[t] : t \in T} : IsFiniteSet(S)
  OBVIOUS
<1> QED BY <1>1, <1>2, FS_UNION

\* Files that a process that ends leaves under names of their own.
LEMMA FilesLeft ==
  ASSUME FilesNamed, IInv, LoseMemory, NEW old, old \subseteq files,
         NEW U, IsFiniteSet(U), \A x, y \in U : x.id = y.id => x = y,
         \A x \in U : x.id \notin RegisteredIDs /\ \A y \in old : y.id # x.id,
         files' = old \cup SegmentFiles \cup U
  PROVE  FilesNamed'
<1>1. IsFiniteSet(SegmentFiles) /\ \A x \in SegmentFiles : x.id \in RegisteredIDs
  BY SegmentFilesAre
<1>2. IsFiniteSet(files')
  <2>1. IsFiniteSet(old)
    BY FS_Subset DEF FilesNamed
  <2>2. IsFiniteSet(old \cup SegmentFiles)
    BY <1>1, <2>1, FS_Union
  <2> QED BY <2>2, FS_Union
<1>3. SegmentFiles' = {} /\ FlushIDs' = {} /\ CompactOutIDs' = {} /\ mode' # "up"
  BY DEF LoseMemory, SegmentFiles, FlushIDs, CompactOutIDs
<1>4. \A x, y \in old \cup SegmentFiles : x.id = y.id => x = y
  BY DEF FilesNamed
<1>5. \A x \in U : \A y \in old \cup SegmentFiles : x.id # y.id
  BY <1>1
<1>6. \A x, y \in files' : x.id = y.id => x = y
  BY <1>4, <1>5
<1> QED BY <1>2, <1>3, <1>6 DEF FilesNamed

\* A crash leaves unfinished files under the IDs of the flushes and compactions that ran.
LEMMA CrashDisk ==
  ASSUME DiskInv, Crash
  PROVE  DiskInv'
<1>0. /\ DurableTypeOK /\ TypeOK /\ IInv /\ FilesNamed /\ SegmentIDsUnique
      /\ wal \in Seq(LogRecord) /\ Len(wal) \in Nat /\ synced \in 0..Len(wal)
  BY LenProperties DEF DiskInv, DurableTypeOK, IInv
<1>1. PICK n \in synced..Len(wal) : wal' = SubSeq(wal, 1, n) /\ synced' = n
  BY DEF Crash
<1>2. wal' \in Seq(LogRecord) /\ synced' = Len(wal')
  <2>1. 1 \in 1..(Len(wal) + 1) /\ n \in 0..Len(wal) /\ n \in Nat
    BY <1>0, <1>1
  <2>2. SubSeq(wal, 1, n) \in Seq(LogRecord) /\ Len(SubSeq(wal, 1, n)) = n
    BY <1>0, <2>1, SubSeqProperties
  <2> QED BY <1>1, <2>2
<1>3. PICK leftF \in [Flushers -> Endings], leftC \in [Compactors -> Endings] :
        /\ \A f \in Flushers : flushPc[f] # "built" => leftF[f] = "none"
        /\ \A c \in Compactors : compPc[c] # "built" => leftC[c] = "none"
        /\ files' = files \cup SegmentFiles
          \cup (UNION {Left(leftF[f], flushSeg[f], FlushRows(Head(drained[f]))) : f \in Flushers})
          \cup (UNION {Left(leftC[c], compSeg[c], Merge(compSet[c])) : c \in Compactors})
  BY DEF Crash
<1> DEFINE LF == [f \in Flushers |-> Left(leftF[f], flushSeg[f], FlushRows(Head(drained[f])))]
           LC == [c \in Compactors |-> Left(leftC[c], compSeg[c], Merge(compSet[c]))]
           UF == UNION {LF[f] : f \in Flushers}
           UC == UNION {LC[c] : c \in Compactors}
<1>4. \A f \in Flushers :
        /\ LF[f] \subseteq File /\ IsFiniteSet(LF[f])
        /\ \A x, y \in LF[f] : flushPc[f] = "built" /\ x.id = flushSeg[f] /\ x = y
  <2> TAKE f \in Flushers
  <2>1. CASE flushPc[f] = "built"
    <3>1. flushSeg[f] \in Nat /\ FlushRows(Head(drained[f])) \in MemTable /\ leftF[f] \in Endings
      BY <1>0, <1>3, <2>1, OutputTypes
    <3> QED BY <2>1, <3>1, LeftIs
  <2>2. CASE flushPc[f] # "built"
    BY <1>3, <2>2, FS_EmptySet DEF Left
  <2> QED BY <2>1, <2>2
<1>5. \A c \in Compactors :
        /\ LC[c] \subseteq File /\ IsFiniteSet(LC[c])
        /\ \A x, y \in LC[c] : compPc[c] = "built" /\ x.id = compSeg[c] /\ x = y
  <2> TAKE c \in Compactors
  <2>1. CASE compPc[c] = "built"
    <3>1. compSeg[c] \in Nat /\ Merge(compSet[c]) \in MemTable /\ leftC[c] \in Endings
      BY <1>0, <1>3, OutputTypes
    <3> QED BY <2>1, <3>1, LeftIs
  <2>2. CASE compPc[c] # "built"
    BY <1>3, <2>2, FS_EmptySet DEF Left
  <2> QED BY <2>1, <2>2
<1>6. LF = [f \in Flushers |-> LF[f]] /\ LC = [c \in Compactors |-> LC[c]]
  OBVIOUS
<1>7. files' = files \cup SegmentFiles \cup (UF \cup UC)
  <2>1. UF = UNION {Left(leftF[f], flushSeg[f], FlushRows(Head(drained[f]))) : f \in Flushers}
    BY Zenon
  <2>2. UC = UNION {Left(leftC[c], compSeg[c], Merge(compSet[c])) : c \in Compactors}
    BY Zenon
  <2> HIDE DEF UF, UC
  <2>3. files' = files \cup SegmentFiles \cup UF \cup UC
    BY <1>3, <2>1, <2>2, Zenon
  <2> QED BY <2>3
<1> HIDE DEF LF, LC
<1>8. IsFiniteSet(UF \cup UC)
  <2>1. IsFiniteSet(UF)
    BY <1>4, <1>6, DurableAssumption, FamilyFinite
  <2>2. IsFiniteSet(UC)
    BY <1>5, <1>6, DurableAssumption, FamilyFinite
  <2> QED BY <2>1, <2>2, FS_Union
<1>9. /\ \A x \in UF : \E f \in Flushers : x \in LF[f]
      /\ \A x \in UC : \E c \in Compactors : x \in LC[c]
      /\ UF \cup UC \subseteq File
  BY <1>4, <1>5
<1> HIDE DEF UF, UC
<1>10. /\ \A x \in UF : x.id \in FlushIDs
       /\ \A x \in UC : x.id \in CompactOutIDs
  BY <1>4, <1>5, <1>9 DEF FlushIDs, CompactOutIDs
<1>11. \A x, y \in UF : x.id = y.id => x = y
  <2>1. \A f, g \in Flushers : flushPc[f] = "built" /\ flushPc[g] = "built"
                                 /\ flushSeg[f] = flushSeg[g] => f = g
    BY <1>0 DEF SegmentIDsUnique
  <2> QED BY <1>4, <1>9, <2>1
<1>12. \A x, y \in UC : x.id = y.id => x = y
  <2>1. \A c, d \in Compactors : compPc[c] = "built" /\ compPc[d] = "built"
                                   /\ compSeg[c] = compSeg[d] => c = d
    BY <1>0 DEF SegmentIDsUnique
  <2> QED BY <1>5, <1>9, <2>1
<1>13. \A x, y \in UF \cup UC : x.id = y.id => x = y
  BY <1>0, <1>10, <1>11, <1>12 DEF SegmentIDsUnique
<1>14. \A x \in UF \cup UC : x.id \notin RegisteredIDs /\ \A y \in files : y.id # x.id
  BY <1>0, <1>10 DEF SegmentIDsUnique, FilesNamed
<1>15. LoseMemory /\ restarts < MaxRestarts
  BY DEF Crash
<1>16. FilesNamed'
  <2> DEFINE U == UF \cup UC
  <2> HIDE DEF U
  <2> QED BY <1>0, <1>7, <1>8, <1>13, <1>14, <1>15, FilesLeft DEF U
<1>17. files' \subseteq File
  BY <1>0, <1>7, <1>9, SegmentFilesAre DEF DurableTypeOK
<1> QED BY <1>2, <1>15, <1>16, <1>17, LoseMemoryKeeps DEF DiskInv

\* Close leaves them under the IDs that follow the last.
LEMMA CloseDisk ==
  ASSUME DiskInv, Close
  PROVE  DiskInv'
<1>0. /\ DurableTypeOK /\ TypeOK /\ IInv /\ FilesNamed /\ IDsAllocated /\ nextSegID \in Nat
      /\ wal \in Seq(LogRecord) /\ Len(wal) \in Nat /\ files \subseteq File
  BY LenProperties DEF DiskInv, DurableTypeOK, TypeOK, IInv
<1>1. Drain \in Seq(MemTable) /\ Len(Drain) \in Nat /\ DOMAIN Drain = 1..Len(Drain)
      /\ \A i \in DOMAIN Drain : Drain[i] \in MemTable
  BY <1>0, DrainType, LenProperties, ElementOfSeq
<1> DEFINE D == DOMAIN Drain
           old == {x \in files : \A i \in D : x.id # nextSegID + i}
<1>2. PICK left \in [D -> Endings] :
        files' = old \cup SegmentFiles
                 \cup UNION {Left(left[i], nextSegID + i, FlushRows(Drain[i])) : i \in D}
  BY DEF Close
<1> DEFINE L == [i \in D |-> Left(left[i], nextSegID + i, FlushRows(Drain[i]))]
           U == UNION {L[i] : i \in D}
<1>3. L = [i \in D |-> L[i]] /\ files' = old \cup SegmentFiles \cup U
  BY <1>2
<1>4. \A i \in D : /\ i \in Nat /\ i > 0
                   /\ L[i] \subseteq File /\ IsFiniteSet(L[i])
                   /\ \A x, y \in L[i] : x.id = nextSegID + i /\ x = y
  <2> TAKE i \in D
  <2>1. i \in Nat /\ i > 0 /\ nextSegID + i \in Nat
    BY <1>0, <1>1
  <2>2. FlushRows(Drain[i]) \in MemTable /\ left[i] \in Endings
    BY <1>1, <1>2, FlushRowsType
  <2> QED BY <2>1, <2>2, LeftIs
<1> HIDE DEF L
<1>5. IsFiniteSet(U)
  <2>1. IsFiniteSet(D)
    BY <1>1, FS_Interval
  <2> HIDE DEF D
  <2> QED BY <1>3, <1>4, <2>1, FamilyFinite
<1>6. U \subseteq File /\ \A x \in U : \E i \in D : x \in L[i]
  BY <1>4
<1> HIDE DEF U
<1>7. \A x, y \in U : x.id = y.id => x = y
  <2> TAKE x, y \in U
  <2> HAVE x.id = y.id
  <2>1. PICK i \in D : x \in L[i]
    BY <1>6
  <2>2. PICK j \in D : y \in L[j]
    BY <1>6
  <2>3. i = j
    BY <1>0, <1>4, <2>1, <2>2
  <2> QED BY <1>4, <2>1, <2>2, <2>3
<1>8. \A x \in U : x.id \notin RegisteredIDs /\ \A y \in old : y.id # x.id
  <2> TAKE x \in U
  <2>1. PICK i \in D : x \in L[i]
    BY <1>6
  <2>2. x.id = nextSegID + i /\ i > 0 /\ i \in Nat
    BY <1>4, <2>1
  <2>3. \A s \in segments : s.id \in Nat /\ s.id <= nextSegID
    BY <1>0 DEF IDsAllocated, TypeOK, Segment
  <2>4. \A s \in segments : s.id # x.id
    BY <1>0, <2>2, <2>3
  <2> QED BY <2>2, <2>4 DEF RegisteredIDs
<1>9. LoseMemory /\ restarts < MaxRestarts /\ wal' = wal /\ synced' = Len(wal)
  BY DEF Close
<1>10. FilesNamed'
  <2>1. old \subseteq files
    OBVIOUS
  <2> HIDE DEF old
  <2> QED BY <1>0, <1>3, <1>5, <1>7, <1>8, <1>9, <2>1, FilesLeft
<1>11. files' \subseteq File
  BY <1>0, <1>3, <1>6, SegmentFilesAre
<1> QED BY <1>0, <1>9, <1>10, <1>11, LoseMemoryKeeps DEF DiskInv

\* The next process finds on disk what it can go on with.
LEMMA RestartDisk ==
  ASSUME DiskInv, Restart
  PROVE  DiskInv'
<1> DEFINE W == WholeFiles(files)
<1>0. /\ DurableTypeOK /\ TypeOK /\ IInv /\ FilesNamed /\ DownEmpty /\ mode = "down"
      /\ files \subseteq File /\ IsFiniteSet(files) /\ wal \in Seq(LogRecord)
  BY DEF DiskInv, DurableTypeOK, IInv, FilesNamed, Restart
<1>1. W \subseteq files /\ IsFiniteSet(W) /\ \A x, y \in W : x.id = y.id => x = y
  <2>1. W \subseteq files
    BY DEF WholeFiles
  <2> QED BY <1>0, <2>1, FS_Subset DEF FilesNamed
<1>2. /\ Loaded(files) \subseteq Segment /\ IsFiniteSet(Loaded(files))
      /\ Cardinality(Loaded(files)) = Cardinality(W) /\ Cardinality(W) \in Nat
      /\ \A s \in Loaded(files) : s.level = 0 /\ FileOf(s.id, s.rows, TRUE) \in W
      /\ \A s, t \in Loaded(files) : s.id = t.id => s = t
  BY <1>0, <1>1, LoadedSegments
<1>3. HighestID(W) \in Nat /\ \A x \in W : x.id <= HighestID(W)
  BY <1>0, <1>1, HighestIDIs
<1>4. /\ segments' = Loaded(files) /\ l0Count' = Cardinality(W) /\ segSeq' = Cardinality(W)
      /\ nextSegID' = HighestID(W) /\ files' = files \ W
      /\ active' = ReplayMem(wal) /\ nextVersion' = MaxReplayed(wal) + 1
      /\ mode' = "up" /\ maybe' = [k \in Keys |-> {}]
      /\ UNCHANGED <<immutable, pending, flushPc, drained, flushVer, flushSeg, compPc, compSet,
                     compSeg, raced, wal, synced, walPc, ckptPc, restarts, clashed, overtaken>>
  BY DEF Restart, flushVars, compactVars
<1>5. latest' \in MemTable
  <2>1. /\ ReplayMem(wal) \in MemTable /\ Merge(Loaded(files)) \in MemTable
    <3>1. \A s \in Loaded(files) : s.id <= HighestID(W)
      BY <1>2, <1>3 DEF FileOf
    <3> QED BY <1>0, <1>2, <1>3, <3>1, ReplayType, MergeKeepsKeys
  <2>2. latest' = [k \in Keys |-> IF ReplayMem(wal)[k] # NoRow THEN ReplayMem(wal)[k]
                                  ELSE Merge(Loaded(files))[k]]
    BY DEF Restart
  <2> QED BY <2>1, <2>2 DEF MemTable
<1>6. TypeOK'
  <2>1. active' \in MemTable /\ nextVersion' \in Nat
    BY <1>0, <1>4, ReplayType
  <2> QED BY <1>0, <1>2, <1>3, <1>4, <1>5, <2>1 DEF TypeOK
<1>7. DurableTypeOK'
  <2>1. regressed' \in BOOLEAN
    BY <1>0 DEF Restart, DurableTypeOK
  <2> QED BY <1>0, <1>4, <1>6, <2>1 DEF DurableTypeOK
<1>8. /\ \A f \in Flushers : flushPc'[f] = "idle" /\ drained'[f] = <<>>
      /\ \A c \in Compactors : compPc'[c] = "idle" /\ compSet'[c] = {}
  BY <1>0, <1>4 DEF DownEmpty
<1>9. FlushIDs' = {} /\ CompactOutIDs' = {}
  BY <1>8 DEF FlushIDs, CompactOutIDs
<1>10. IInv'
  <2>1. DrainedWhileFlushing' /\ SnapshotsFaithful'
    BY <1>8 DEF DrainedWhileFlushing, Flushing, SnapshotsFaithful
  <2>2. IDsAllocated'
    <3>1. \A s \in segments' : s.id <= nextSegID'
      BY <1>2, <1>3, <1>4 DEF FileOf
    <3> QED BY <1>8, <3>1 DEF IDsAllocated
  <2>3. SegmentIDsUnique'
    <3>1. \A s, t \in segments' : s.id = t.id => s = t
      BY <1>2, <1>4
    <3> QED BY <1>8, <1>9, <3>1 DEF SegmentIDsUnique
  <2>4. IsFiniteSet(segments') /\ L0CountExact'
    <3>1. Level(Loaded(files), 0) = Loaded(files)
      BY <1>2 DEF Level
    <3> QED BY <1>2, <1>4, <3>1 DEF L0CountExact
  <2> QED BY <1>6, <2>1, <2>2, <2>3, <2>4 DEF IInv
<1>11. FilesNamed'
  <2>1. IsFiniteSet(files')
    BY <1>0, <1>4, FS_Subset
  <2>2. files' \cup SegmentFiles' \subseteq files
    <3>1. \A x \in SegmentFiles' : x \in W
      BY <1>2, <1>4 DEF SegmentFiles
    <3> HIDE DEF W
    <3> QED BY <1>1, <1>4, <3>1
  <2>3. WholeFiles(files') = {}
    BY <1>4 DEF WholeFiles
  <2> QED BY <1>0, <1>9, <2>1, <2>2, <2>3 DEF FilesNamed
<1>12. DownEmpty' /\ RecordsOfCalls'
  BY <1>4 DEF DownEmpty, RecordsOfCalls, DiskInv
<1> QED BY <1>7, <1>10, <1>11, <1>12 DEF DiskInv

-----------------------------------------------------------------------------
(* The directory *)

\* The invariant holds in a new database.
LEMMA InitDisk == DurableInit => DiskInv
<1> SUFFICES ASSUME DurableInit PROVE DiskInv
  OBVIOUS
<1> USE DEF DurableInit
<1>1. IInv
  BY InitIInv
<1>2. DurableTypeOK
  <2>1. <<>> \in Seq(LogRecord) /\ Len(<<>>) = 0
    BY EmptySeq
  <2>2. restarts \in 0..MaxRestarts /\ synced \in 0..Len(wal)
    BY <2>1, DurableAssumption
  <2>3. maybe \in [Keys -> SUBSET Row]
    OBVIOUS
  <2> QED BY <1>1, <2>1, <2>2, <2>3 DEF DurableTypeOK, IInv
<1>3. FilesNamed
  <2>1. SegmentFiles = {}
    BY DEF SegmentFiles, Init
  <2> QED BY <2>1, FS_EmptySet DEF FilesNamed, WholeFiles
<1>4. DownEmpty /\ RecordsOfCalls
  BY DEF DownEmpty, RecordsOfCalls
<1> QED BY <1>1, <1>2, <1>3, <1>4 DEF DiskInv

\* The invariant is inductive.
LEMMA StepDisk == DiskInv /\ [DurableNext]_allVars => DiskInv'
<1> SUFFICES ASSUME DiskInv, [DurableNext]_allVars PROVE DiskInv'
  OBVIOUS
<1>1. CASE EngineSteps
  <2>1. DurableTypeOK' /\ IInv' /\ RecordsOfCalls' /\ DownEmpty'
    BY <1>1, StepDurableTypes, StepsOfEngine DEF DownEmpty
  <2>2. FilesNamed'
    BY <1>1, WriterFiles, FlusherFiles, CompactorFiles DEF EngineSteps
  <2> QED BY <2>1, <2>2 DEF DiskInv
<1>2. ASSUME UNCHANGED <<vars, diskVars, walPc, ckptPc, restarts, maybe, flawVars>>,
             mode' = mode \/ (mode = "down" /\ mode' = "stuck")
      PROVE  DiskInv'
  <2>1. UNCHANGED <<nextVersion, active, immutable, pending, latest, segments, l0Count, segSeq,
                    nextSegID, flushPc, drained, flushVer, flushSeg, compPc, compSet, compSeg,
                    raced, wal, synced, files, walPc, ckptPc, restarts, maybe, clashed,
                    overtaken, regressed>>
    BY <1>2 DEF vars, engineVars, segmentVars, flushVars, compactVars, diskVars, flawVars
  <2>2. IInv'
    BY <1>2, StepIInv DEF DiskInv
  <2>3. DurableTypeOK' /\ RecordsOfCalls' /\ DownEmpty'
    BY <1>2, <2>1, <2>2 DEF DiskInv, DurableTypeOK, IInv, RecordsOfCalls, DownEmpty
  <2>4. FlushIDs' = FlushIDs /\ CompactOutIDs' = CompactOutIDs /\ SegmentFiles' = SegmentFiles
    BY <2>1 DEF FlushIDs, CompactOutIDs, SegmentFiles
  <2>5. FilesNamed'
    BY <1>2, <2>1, <2>4 DEF DiskInv, FilesNamed, WholeFiles
  <2> QED BY <2>2, <2>3, <2>5 DEF DiskInv
<1>3. CASE RefuseStart
  BY <1>2, <1>3 DEF RefuseStart
<1>4. CASE Rest \/ UNCHANGED allVars
  <2>1. UNCHANGED <<vars, diskVars, walPc, ckptPc, restarts, maybe, flawVars>> /\ mode' = mode
    BY <1>4 DEF Rest, allVars, durableVars
  <2> QED BY <1>2, <2>1
<1> QED BY <1>1, <1>3, <1>4, CrashDisk, CloseDisk, RestartDisk DEF DurableNext, EngineSteps

\* It holds in every state.
LEMMA DiskInvariant == DurableSpec => []DiskInv
<1> QED BY InitDisk, StepDisk, PTL DEF DurableSpec

\* Every variable of the engine and its disk has its type, through any number of crashes,
\* Closes and restarts of the process.
THEOREM DurableTypes == DurableSpec => []DurableTypeOK
<1>1. DiskInv => DurableTypeOK
  BY DEF DiskInv
<1> QED BY <1>1, DiskInvariant, PTL

\* No readable segment file is ever written over: segment_%d of a new flush or compaction
\* is the name of none (loadSegments, segmentIDGen), and no two files have one name.
THEOREM NoFileOverwritten == DurableSpec => []FilesKept
<1>1. DiskInv => FilesKept
  <2> SUFFICES ASSUME DiskInv PROVE FilesKept
    OBVIOUS
  <2>1. FilesNamed /\ IInv
    BY DEF DiskInv
  <2>2. \A x \in WholeFiles(files \cup SegmentFiles) : x \in WholeFiles(files) \/ x \in SegmentFiles
    BY DEF WholeFiles
  <2>3. \A x \in WholeFiles(files) : x \in files
    BY DEF WholeFiles
  <2> QED BY <2>1, <2>2, <2>3, SegmentFilesAre DEF FilesKept, FilesNamed
<1> QED BY <1>1, DiskInvariant, PTL

=============================================================================
