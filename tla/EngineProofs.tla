---------------------------- MODULE EngineProofs ----------------------------
(***************************************************************************)
(* Proofs about module Engine, for any number of keys, writers, flushers   *)
(* and compactors: its types, the uniqueness of segment IDs, the level-0   *)
(* counter, and that no step loses a key.                                  *)
(***************************************************************************)
EXTENDS Engine, FiniteSetTheorems, SequenceTheorems, WellFoundedInduction, TLAPS

(* What TypeOK, SegmentIDsUnique and KeyRetained need to be inductive.      *)

\* A flush holds memtables exactly while it has something left to write.
DrainedWhileFlushing == \A f \in Flushers : Flushing(f) <=> drained[f] # <<>>

\* IDs are given out in order: nothing has one that is still to come.
IDsAllocated ==
  /\ \A s \in segments : s.id <= nextSegID
  /\ \A f \in Flushers : flushPc[f] = "built" => flushSeg[f] <= nextSegID
  /\ \A c \in Compactors : compPc[c] = "built" => compSeg[c] <= nextSegID
  /\ \A c \in Compactors : \A t \in compSet[c] : t.id <= nextSegID

\* The segments a compaction merges are the registered ones with their IDs, and
\* no segment that is being written has one of these IDs.
SnapshotsFaithful ==
  /\ \A c \in Compactors : compPc[c] = "idle" => compSet[c] = {}
  /\ \A c \in Compactors : \A t \in compSet[c] : \A s \in segments : s.id = t.id => s = t
  /\ \A c \in Compactors : \A t \in compSet[c] :
       \A f \in Flushers : flushPc[f] = "built" => flushSeg[f] # t.id
  /\ \A c \in Compactors : \A t \in compSet[c] :
       \A d \in Compactors : compPc[d] = "built" => compSeg[d] # t.id

IInv ==
  /\ TypeOK
  /\ DrainedWhileFlushing
  /\ IDsAllocated
  /\ SegmentIDsUnique
  /\ SnapshotsFaithful
  /\ IsFiniteSet(segments)
  /\ L0CountExact

-----------------------------------------------------------------------------
(* Lemmas about tables and merging *)

\* A set of naturals has a least element.
LEMMA LeastNatural ==
  ASSUME NEW T, T \subseteq Nat, T # {}
  PROVE  \E x \in T : \A y \in T : x <= y
<1>1. PICK R : /\ IsWellFoundedOn(R, Nat)
               /\ \A x, y \in Nat : <<y, x>> \in R <=> y < x
  <2>1. IsWellFoundedOn(OpToRel(<, Nat), Nat)
    BY NatLessThanWellFounded
  <2>2. \A x, y \in Nat : <<y, x>> \in OpToRel(<, Nat) <=> y < x
    BY DEF OpToRel
  <2> QED BY <2>1, <2>2, Zenon
<1>2. \E x \in T : \A y \in T : ~ (<<y, x>> \in R)
  BY <1>1, WFMin
<1>3. \A x, y \in T : ~ (<<y, x>> \in R) => x <= y
  BY <1>1
<1> QED BY <1>2, <1>3

\* A bounded set of naturals has a greatest element.
LEMMA GreatestNatural ==
  ASSUME NEW T, T \subseteq Nat, T # {}, NEW n \in Nat, \A x \in T : x <= n
  PROVE  \E x \in T : \A y \in T : y <= x
<1> DEFINE D == {n - x : x \in T}
<1>1. D \subseteq Nat /\ D # {}
  <2>1. \A x \in T : n - x \in Nat
    OBVIOUS
  <2>2. D \subseteq Nat
    BY <2>1
  <2>3. PICK x \in T : TRUE
    OBVIOUS
  <2>4. n - x \in D
    OBVIOUS
  <2> QED BY <2>2, <2>4
<1>2. PICK d \in D : \A e \in D : d <= e
  BY <1>1, LeastNatural
<1>3. PICK x \in T : d = n - x
  OBVIOUS
<1>4. ASSUME NEW y \in T
      PROVE  y <= x
  <2>1. n - y \in D
    OBVIOUS
  <2>2. n - x <= n - y
    BY <1>2, <1>3, <2>1
  <2>3. x \in Nat /\ y \in Nat
    OBVIOUS
  <2> HIDE DEF D
  <2> QED BY <2>2, <2>3
<1> QED BY <1>4

\* Among segments with bounded IDs, a key that is held has a newest holder.
LEMMA NewestHolderExists ==
  ASSUME NEW S, S \subseteq Segment, NEW n \in Nat, \A s \in S : s.id <= n,
         NEW k, Holders(S, k) # {}
  PROVE  NewestHolder(S, k) \in Holders(S, k)
<1> DEFINE H == Holders(S, k)
           T == {s.id : s \in H}
<1>1. \A s \in H : s.id \in Nat /\ s.id <= n
  BY DEF Holders, Segment
<1>2. PICK x \in T : \A y \in T : y <= x
  <2>1. T \subseteq Nat /\ T # {} /\ \A y \in T : y <= n
    BY <1>1
  <2> HIDE DEF T
  <2> QED BY <2>1, GreatestNatural
<1>3. \E u \in H : \A t \in H : t.id <= u.id
  BY <1>2
<1> QED BY <1>3 DEF NewestHolder

LEMMA MergeKeepsKeys ==
  ASSUME NEW S, S \subseteq Segment, NEW n \in Nat, \A s \in S : s.id <= n
  PROVE  /\ Merge(S) \in MemTable
         /\ \A k \in Keys : Holders(S, k) # {} => Merge(S)[k] # NoRow
<1>1. \A k \in Keys : Holders(S, k) # {} =>
        /\ NewestHolder(S, k) \in Segment
        /\ NewestHolder(S, k).rows[k] # NoRow
  <2> TAKE k \in Keys
  <2> HAVE Holders(S, k) # {}
  <2>1. NewestHolder(S, k) \in Holders(S, k)
    BY NewestHolderExists
  <2> QED BY <2>1 DEF Holders
<1>2. \A k \in Keys : Holders(S, k) # {} => NewestHolder(S, k).rows[k] \in Row \cup {NoRow}
  BY <1>1 DEF Segment, MemTable
<1> QED BY <1>1, <1>2 DEF Merge, MemTable

LEMMA EmptyMemType == EmptyMem \in MemTable /\ KeysOf(EmptyMem) = {}
BY DEF EmptyMem, MemTable, KeysOf

LEMMA OverwriteType ==
  ASSUME NEW m \in MemTable, NEW rows \in MemTable
  PROVE  /\ Overwrite(m, rows) \in MemTable
         /\ \A k \in Keys : m[k] # NoRow => Overwrite(m, rows)[k] # NoRow
BY DEF Overwrite, MemTable

\* A flush keeps every row, a deleted one in its way.
LEMMA FlushRowsType ==
  ASSUME NEW m \in MemTable
  PROVE  /\ FlushRows(m) \in MemTable
         /\ \A k \in Keys : m[k] # NoRow => FlushRows(m)[k] # NoRow
<1>1. \A k \in Keys : m[k] # NoRow => m[k].ver \in Nat
  BY DEF MemTable, Row
<1>2. \A v \in Nat : [ver |-> v, kind |-> "empty"] \in Row
  BY DEF Row, Kinds
<1>3. \A v \in Nat : [ver |-> v, kind |-> "empty"] # NoRow
  BY <1>2, SentinelAssumption
<1>4. \A k \in Keys : m[k] \in Row \cup {NoRow}
  BY DEF MemTable
<1> QED BY <1>1, <1>2, <1>3, <1>4 DEF FlushRows, MemTable

LEMMA RowsOfType ==
  ASSUME NEW p \in PendingCall
  PROVE  RowsOf(p) \in MemTable
<1>1. p.base \in Nat /\ p.op.keys \in Seq(Keys) /\ p.op.kind \in Kinds
  BY DEF PendingCall, OpType
<1>2. ASSUME NEW k \in Keys, RowsWith(p.op.keys, k) # {}
      PROVE  [ver |-> p.base + LastWith(p.op.keys, k) - 1, kind |-> p.op.kind] \in Row
  <2> DEFINE T == RowsWith(p.op.keys, k)
             n == Len(p.op.keys)
  <2>1. T \subseteq 1..n /\ n \in Nat
    BY <1>1 DEF RowsWith
  <2>2. \E i \in T : \A j \in T : j <= i
    <3>1. T \subseteq Nat /\ T # {} /\ n \in Nat /\ \A i \in T : i <= n
      BY <1>2, <2>1
    <3> HIDE DEF T, n
    <3> QED BY <3>1, GreatestNatural
  <2>3. LastWith(p.op.keys, k) \in 1..n
    BY <2>1, <2>2 DEF LastWith
  <2>4. p.base + LastWith(p.op.keys, k) - 1 \in Nat
    BY <1>1, <2>1, <2>3
  <2> QED BY <1>1, <2>4 DEF Row
<1> QED BY <1>2 DEF RowsOf, MemTable

-----------------------------------------------------------------------------
(* The initial states *)

LEMMA InitIInv == Init => IInv
<1> SUFFICES ASSUME Init PROVE IInv
  OBVIOUS
<1>1. TypeOK
  <2>1. /\ nextVersion \in Nat /\ l0Count \in Nat /\ segSeq \in Nat /\ nextSegID \in Nat
        /\ active \in MemTable /\ latest \in MemTable /\ segments \subseteq Segment
        /\ raced \in BOOLEAN
    BY EmptyMemType DEF Init
  <2>2. immutable \in Seq(MemTable) /\ drained \in [Flushers -> Seq(MemTable)]
    BY DEF Init
  <2>3. /\ pending \in [Writers -> PendingCall \cup {NoOp}]
        /\ flushPc \in [Flushers -> {"idle", "drained", "built", "checkpoint"}]
        /\ flushVer \in [Flushers -> Nat] /\ flushSeg \in [Flushers -> Nat]
        /\ compPc \in [Compactors -> {"idle", "merging", "built"}]
        /\ compSet \in [Compactors -> SUBSET Segment]
        /\ compSeg \in [Compactors -> Nat]
    BY DEF Init
  <2> QED BY <2>1, <2>2, <2>3 DEF TypeOK
<1>2. DrainedWhileFlushing
  BY DEF Init, DrainedWhileFlushing, Flushing
<1>3. IDsAllocated /\ SegmentIDsUnique /\ SnapshotsFaithful
  BY DEF Init, IDsAllocated, SegmentIDsUnique, SnapshotsFaithful, FlushIDs,
         CompactOutIDs, RegisteredIDs
<1>4. Level(segments, 0) = {}
  BY DEF Init, Level
<1>5. IsFiniteSet(segments) /\ L0CountExact
  BY <1>4, FS_EmptySet DEF Init, L0CountExact
<1> QED BY <1>1, <1>2, <1>3, <1>5 DEF IInv

-----------------------------------------------------------------------------
(* Types *)

LEMMA DrainType ==
  ASSUME TypeOK
  PROVE  Drain \in Seq(MemTable)
BY DEF TypeOK, Drain

LEMMA SnapshotMerge ==
  ASSUME TypeOK, IDsAllocated, NEW c \in Compactors
  PROVE  /\ Merge(compSet[c]) \in MemTable
         /\ \A k \in Keys : Holders(compSet[c], k) # {} => Merge(compSet[c])[k] # NoRow
<1>1. compSet[c] \subseteq Segment /\ nextSegID \in Nat
  BY DEF TypeOK
<1>2. \A s \in compSet[c] : s.id <= nextSegID
  BY DEF IDsAllocated
<1> QED BY <1>1, <1>2, MergeKeepsKeys

LEMMA FlushedSegmentType ==
  ASSUME TypeOK, DrainedWhileFlushing, NEW f \in Flushers, Flushing(f)
  PROVE  FlushedSegment(f) \in Segment /\ Head(drained[f]) \in MemTable
<1>1. drained[f] \in Seq(MemTable) /\ drained[f] # <<>>
  BY DEF TypeOK, DrainedWhileFlushing
<1>2. Head(drained[f]) \in MemTable
  BY <1>1
<1>3. FlushRows(Head(drained[f])) \in MemTable
  BY <1>2, FlushRowsType
<1>4. flushSeg[f] \in Nat /\ segSeq + 1 \in Nat
  BY DEF TypeOK
<1> QED BY <1>2, <1>3, <1>4 DEF FlushedSegment, Segment

LEMMA CompactedSegmentType ==
  ASSUME TypeOK, IDsAllocated, NEW c \in Compactors
  PROVE  CompactedSegment(c) \in Segment
<1>1. Merge(compSet[c]) \in MemTable
  BY SnapshotMerge
<1>2. compSeg[c] \in Nat /\ segSeq + 1 \in Nat
  BY DEF TypeOK
<1> QED BY <1>1, <1>2 DEF CompactedSegment, Segment

LEMMA WriterTypes ==
  ASSUME IInv, NEW w \in Writers, WriterStep(w)
  PROVE  TypeOK'
<1>1. TypeOK
  BY DEF IInv
<1>2. ASSUME NEW op \in Calls[w], AllocVersion(w, op)
      PROVE  TypeOK'
  <2>1. op \in OpType /\ Len(op.keys) \in Nat
    BY CallsAssumption DEF OpType
  <2>2. [op |-> op, base |-> nextVersion + 1] \in PendingCall
    BY <1>1, <2>1 DEF TypeOK, PendingCall
  <2> QED BY <1>1, <1>2, <2>1, <2>2
          DEF TypeOK, AllocVersion, segmentVars, flushVars, compactVars
<1>3. CASE WriteFail(w)
  BY <1>1, <1>3 DEF TypeOK, WriteFail, segmentVars, flushVars, compactVars
<1>4. ASSUME pending[w] # NoOp
      PROVE  RowsOf(pending[w]) \in MemTable
  BY <1>1, <1>4, RowsOfType DEF TypeOK
<1>5. CASE PutOne(w)
  <2>1. active' \in MemTable /\ latest' \in MemTable
    BY <1>1, <1>4, <1>5, OverwriteType, EmptyMemType DEF TypeOK, PutOne
  <2>2. immutable' = immutable \/ immutable' = Append(immutable, active)
    BY <1>5 DEF PutOne
  <2>3. immutable' \in Seq(MemTable)
    <3>1. immutable \in Seq(MemTable) /\ active \in MemTable
      BY <1>1 DEF TypeOK
    <3>2. Append(immutable, active) \in Seq(MemTable)
      BY <3>1
    <3> QED BY <2>2, <3>1, <3>2
  <2> QED BY <1>1, <1>5, <2>1, <2>3 DEF TypeOK, PutOne, segmentVars, flushVars, compactVars
<1>6. CASE PutBatch(w)
  <2>1. Overwrite(active, RowsOf(pending[w])) \in MemTable /\ latest' \in MemTable
    BY <1>1, <1>4, <1>6, OverwriteType DEF TypeOK, PutBatch
  <2> DEFINE full == Overwrite(active, RowsOf(pending[w]))
  <2>2. /\ active' = EmptyMem \/ active' = full
        /\ immutable' = immutable \/ immutable' = Append(immutable, full)
    BY <1>6 DEF PutBatch
  <2>3. active' \in MemTable /\ immutable' \in Seq(MemTable)
    <3>1. immutable \in Seq(MemTable)
      BY <1>1 DEF TypeOK
    <3>2. Append(immutable, full) \in Seq(MemTable)
      BY <2>1, <3>1
    <3> QED BY <2>1, <2>2, <3>1, <3>2, EmptyMemType
  <2> QED BY <1>1, <1>6, <2>1, <2>3
          DEF TypeOK, PutBatch, segmentVars, flushVars, compactVars
<1> QED BY <1>2, <1>3, <1>5, <1>6 DEF WriterStep

LEMMA FlushTypes ==
  ASSUME IInv, NEW f \in Flushers, FlushStep(f)
  PROVE  TypeOK'
<1>1. TypeOK /\ DrainedWhileFlushing
  BY DEF IInv
<1>2. CASE FlushBegin(f)
  <2>1. Drain \in Seq(MemTable)
    BY <1>1, DrainType
  <2>2. (IF nextVersion > 0 THEN nextVersion - 1 ELSE 0) \in Nat
    BY <1>1 DEF TypeOK
  <2> QED BY <1>1, <1>2, <2>1, <2>2, EmptyMemType
          DEF TypeOK, FlushBegin, segmentVars, compactVars
<1>3. CASE FlushBuild(f)
  BY <1>1, <1>3 DEF TypeOK, FlushBuild, engineVars, compactVars
<1>4. CASE FlushRegister(f)
  <2>1. FlushedSegment(f) \in Segment
    BY <1>1, <1>4, FlushedSegmentType DEF FlushRegister, Flushing
  <2>2. drained[f] \in Seq(MemTable) /\ drained[f] # <<>>
    BY <1>1, <1>4 DEF TypeOK, FlushRegister, DrainedWhileFlushing, Flushing
  <2>3. Tail(drained[f]) \in Seq(MemTable)
    BY <2>2
  <2>4. segments' \subseteq Segment
    BY <1>1, <1>4, <2>1 DEF TypeOK, FlushRegister
  <2>5. drained' \in [Flushers -> Seq(MemTable)]
    BY <1>1, <1>4, <2>3 DEF TypeOK, FlushRegister
  <2>6. flushPc' \in [Flushers -> {"idle", "drained", "built", "checkpoint"}]
    BY <1>1, <1>4 DEF TypeOK, FlushRegister
  <2> QED BY <1>1, <1>4, <2>4, <2>5, <2>6 DEF TypeOK, FlushRegister, engineVars, compactVars
<1>5. CASE FlushFail(f)
  <2>1. drained[f] \o immutable \in Seq(MemTable)
    BY <1>1 DEF TypeOK
  <2> QED BY <1>1, <1>5, <2>1 DEF TypeOK, FlushFail, segmentVars, compactVars
<1>6. CASE FlushCheckpoint(f)
  BY <1>1, <1>6 DEF TypeOK, FlushCheckpoint, engineVars, segmentVars, compactVars
<1> QED BY <1>2, <1>3, <1>4, <1>5, <1>6 DEF FlushStep

LEMMA CompactTypes ==
  ASSUME IInv, NEW c \in Compactors, CompactStep(c)
  PROVE  TypeOK'
<1>1. TypeOK /\ IDsAllocated /\ IsFiniteSet(segments)
  BY DEF IInv
<1>2. CASE CompactBegin(c)
  <2>1. Level(segments, 0) \cup Level(segments, 1) \in SUBSET Segment
    BY <1>1 DEF TypeOK, Level
  <2> QED BY <1>1, <1>2, <2>1 DEF TypeOK, CompactBegin, engineVars, segmentVars, flushVars
<1>3. CASE CompactBuild(c)
  BY <1>1, <1>3 DEF TypeOK, CompactBuild, engineVars, flushVars
<1>4. CASE CompactInstall(c)
  <2> DEFINE remaining == {s \in segments : s.id \notin CompactIDs(c)}
  <2>1. CompactedSegment(c) \in Segment
    BY <1>1, CompactedSegmentType
  <2>2. segments' \subseteq Segment
    BY <1>1, <1>4, <2>1 DEF TypeOK, CompactInstall
  <2>3. Level(remaining, 0) \subseteq segments
    BY DEF Level
  <2>4. l0Count' \in Nat
    BY <1>1, <1>4, <2>3, FS_Subset, FS_CardinalityType DEF CompactInstall
  <2> QED BY <1>1, <1>4, <2>2, <2>4 DEF TypeOK, CompactInstall, engineVars, flushVars
<1>5. CASE CompactFail(c)
  BY <1>1, <1>5 DEF TypeOK, CompactFail, engineVars, segmentVars, flushVars
<1> QED BY <1>2, <1>3, <1>4, <1>5 DEF CompactStep

-----------------------------------------------------------------------------
(* The inductive step *)

\* What the steps of writers leave as it is.
LEMMA WriterIInv ==
  ASSUME IInv, TypeOK', UNCHANGED <<segmentVars, flushVars, compactVars>>
  PROVE  IInv'
<1> USE DEF segmentVars, flushVars, compactVars
<1>1. DrainedWhileFlushing' /\ IDsAllocated'
  BY DEF IInv, DrainedWhileFlushing, Flushing, IDsAllocated
<1>2. SegmentIDsUnique'
  BY DEF IInv, SegmentIDsUnique, FlushIDs, CompactOutIDs, RegisteredIDs
<1>3. SnapshotsFaithful'
  BY DEF IInv, SnapshotsFaithful
<1>4. IsFiniteSet(segments)' /\ L0CountExact'
  BY DEF IInv, L0CountExact, Level
<1> QED BY <1>1, <1>2, <1>3, <1>4 DEF IInv

LEMMA FlushDrained ==
  ASSUME IInv, NEW f \in Flushers, FlushStep(f)
  PROVE  DrainedWhileFlushing'
<1>1. TypeOK /\ DrainedWhileFlushing
  BY DEF IInv
<1>2. CASE FlushBegin(f)
  BY <1>1, <1>2 DEF TypeOK, FlushBegin, DrainedWhileFlushing, Flushing
<1>3. CASE FlushBuild(f)
  BY <1>1, <1>3 DEF TypeOK, FlushBuild, DrainedWhileFlushing, Flushing
<1>4. CASE FlushRegister(f)
  <2>1. drained[f] \in Seq(MemTable) /\ drained[f] # <<>>
    BY <1>1, <1>4 DEF TypeOK, FlushRegister, DrainedWhileFlushing, Flushing
  <2>2. Tail(drained[f]) # <<>> <=> Len(drained[f]) > 1
    <3>1. Tail(drained[f]) \in Seq(MemTable) /\ Len(Tail(drained[f])) = Len(drained[f]) - 1
      BY <2>1, HeadTailProperties
    <3>2. Tail(drained[f]) = <<>> <=> Len(Tail(drained[f])) = 0
      BY <3>1, EmptySeq
    <3> QED BY <2>1, <3>1, <3>2, LenProperties
  <2> QED BY <1>1, <1>4, <2>2 DEF TypeOK, FlushRegister, DrainedWhileFlushing, Flushing
<1>5. CASE FlushFail(f)
  BY <1>1, <1>5 DEF TypeOK, FlushFail, DrainedWhileFlushing, Flushing
<1>6. CASE FlushCheckpoint(f)
  BY <1>1, <1>6 DEF TypeOK, FlushCheckpoint, DrainedWhileFlushing, Flushing
<1> QED BY <1>2, <1>3, <1>4, <1>5, <1>6 DEF FlushStep

\* A flush that changes neither the segments nor the IDs in use.
LEMMA FlushQuiet ==
  ASSUME IInv, NEW f \in Flushers, UNCHANGED <<segmentVars, flushSeg, compactVars>>,
         NEW pc, flushPc' = [flushPc EXCEPT ![f] = pc], pc # "built"
  PROVE  /\ IDsAllocated' /\ SegmentIDsUnique' /\ SnapshotsFaithful'
         /\ IsFiniteSet(segments)' /\ L0CountExact'
<1>1. TypeOK /\ IDsAllocated /\ SegmentIDsUnique /\ SnapshotsFaithful
  BY DEF IInv
<1>2. \A g \in Flushers : flushPc'[g] = "built" => flushPc[g] = "built"
  BY <1>1 DEF TypeOK
<1>3. IDsAllocated'
  BY <1>1, <1>2 DEF IDsAllocated, segmentVars, compactVars
<1>4. SnapshotsFaithful'
  BY <1>1, <1>2 DEF SnapshotsFaithful, segmentVars, compactVars
<1>5. FlushIDs' \subseteq FlushIDs /\ CompactOutIDs' = CompactOutIDs
      /\ RegisteredIDs' = RegisteredIDs
  BY <1>2 DEF FlushIDs, CompactOutIDs, RegisteredIDs, segmentVars, compactVars
<1>6. SegmentIDsUnique'
  BY <1>1, <1>2, <1>5 DEF SegmentIDsUnique, segmentVars, compactVars
<1>7. IsFiniteSet(segments)' /\ L0CountExact'
  BY DEF IInv, L0CountExact, Level, segmentVars
<1> QED BY <1>3, <1>4, <1>6, <1>7

\* A flush that takes an ID: the ID is above all others.
LEMMA FlushBuildIDs ==
  ASSUME IInv, NEW f \in Flushers, FlushBuild(f)
  PROVE  /\ IDsAllocated' /\ SegmentIDsUnique' /\ SnapshotsFaithful'
         /\ IsFiniteSet(segments)' /\ L0CountExact'
<1>1. TypeOK /\ IDsAllocated /\ SegmentIDsUnique /\ SnapshotsFaithful
  BY DEF IInv
<1>2. /\ flushSeg'[f] = nextSegID + 1 /\ nextSegID' = nextSegID + 1 /\ nextSegID \in Nat
      /\ \A g \in Flushers \ {f} : flushSeg'[g] = flushSeg[g] /\ flushPc'[g] = flushPc[g]
      /\ segments' = segments /\ compPc' = compPc /\ compSeg' = compSeg
      /\ compSet' = compSet
  BY <1>1 DEF FlushBuild, TypeOK, compactVars
<1>3. /\ \A s \in segments : s.id \in Nat
      /\ \A g \in Flushers : flushSeg[g] \in Nat
      /\ \A c \in Compactors : compSeg[c] \in Nat /\ \A t \in compSet[c] : t.id \in Nat
  BY <1>1 DEF TypeOK, Segment
<1>4. IDsAllocated'
  BY <1>1, <1>2, <1>3 DEF IDsAllocated
<1>5. SnapshotsFaithful'
  BY <1>1, <1>2, <1>3 DEF SnapshotsFaithful, IDsAllocated
<1>6. SegmentIDsUnique'
  <2>1. \A i \in FlushIDs' : i \in FlushIDs \/ i = nextSegID + 1
    BY <1>2 DEF FlushIDs
  <2>2. CompactOutIDs' = CompactOutIDs /\ RegisteredIDs' = RegisteredIDs
    BY <1>2 DEF CompactOutIDs, RegisteredIDs
  <2>3. nextSegID + 1 \notin CompactOutIDs \cup RegisteredIDs
    BY <1>1, <1>2, <1>3 DEF IDsAllocated, CompactOutIDs, RegisteredIDs
  <2>4. \A g, h \in Flushers : g # h /\ flushPc'[g] = "built" /\ flushPc'[h] = "built"
                                 => flushSeg'[g] # flushSeg'[h]
    BY <1>1, <1>2, <1>3 DEF SegmentIDsUnique, IDsAllocated
  <2>5. FlushIDs' \cap CompactOutIDs' = {}
        /\ (FlushIDs' \cup CompactOutIDs') \cap RegisteredIDs' = {}
    BY <1>1, <2>1, <2>2, <2>3 DEF SegmentIDsUnique
  <2> QED BY <1>1, <1>2, <2>4, <2>5 DEF SegmentIDsUnique
<1>7. IsFiniteSet(segments)' /\ L0CountExact'
  BY DEF IInv, L0CountExact, Level, FlushBuild
<1> QED BY <1>4, <1>5, <1>6, <1>7

LEMMA FlushRegisterIDs ==
  ASSUME IInv, NEW f \in Flushers, FlushRegister(f)
  PROVE  /\ IDsAllocated' /\ SegmentIDsUnique' /\ SnapshotsFaithful'
         /\ IsFiniteSet(segments)' /\ L0CountExact'
<1> DEFINE seg == FlushedSegment(f)
<1>1. TypeOK /\ IDsAllocated /\ SegmentIDsUnique /\ SnapshotsFaithful
  BY DEF IInv
<1>2. /\ flushPc[f] = "built" /\ segments' = segments \cup {seg}
      /\ nextSegID' = nextSegID /\ flushSeg' = flushSeg
      /\ compPc' = compPc /\ compSeg' = compSeg /\ compSet' = compSet
      /\ flushPc'[f] # "built"
      /\ \A g \in Flushers \ {f} : flushPc'[g] = flushPc[g]
      /\ l0Count' = l0Count + 1
  BY <1>1 DEF FlushRegister, TypeOK, compactVars
<1>3. seg.id = flushSeg[f] /\ seg.level = 0
  BY DEF FlushedSegment
<1>4. \A g \in Flushers : flushPc'[g] = "built" => g # f /\ flushPc[g] = "built"
  BY <1>2
<1>5. \A s \in segments : s.id # seg.id
  BY <1>1, <1>2, <1>3 DEF SegmentIDsUnique, FlushIDs, RegisteredIDs
<1>6. IDsAllocated'
  BY <1>1, <1>2, <1>3, <1>4 DEF IDsAllocated
<1>7. SnapshotsFaithful'
  BY <1>1, <1>2, <1>3, <1>4 DEF SnapshotsFaithful
<1>8. SegmentIDsUnique'
  <2>1. \A i \in FlushIDs' : i \in FlushIDs /\ i # seg.id
    BY <1>1, <1>2, <1>3, <1>4 DEF FlushIDs, SegmentIDsUnique
  <2>2. CompactOutIDs' = CompactOutIDs /\ RegisteredIDs' = RegisteredIDs \cup {seg.id}
    BY <1>2 DEF CompactOutIDs, RegisteredIDs
  <2>3. seg.id \notin CompactOutIDs
    BY <1>1, <1>2, <1>3 DEF SegmentIDsUnique, FlushIDs
  <2>4. FlushIDs' \cap CompactOutIDs' = {}
        /\ (FlushIDs' \cup CompactOutIDs') \cap RegisteredIDs' = {}
    BY <1>1, <2>1, <2>2, <2>3 DEF SegmentIDsUnique
  <2>5. \A s, t \in segments' : s.id = t.id => s = t
    BY <1>1, <1>2, <1>5 DEF SegmentIDsUnique
  <2>6. \A g, h \in Flushers : g # h /\ flushPc'[g] = "built" /\ flushPc'[h] = "built"
                                 => flushSeg'[g] # flushSeg'[h]
    BY <1>1, <1>2, <1>4 DEF SegmentIDsUnique
  <2> QED BY <1>1, <1>2, <2>4, <2>5, <2>6 DEF SegmentIDsUnique
<1>9. IsFiniteSet(segments)' /\ L0CountExact'
  <2>1. IsFiniteSet(segments) /\ l0Count = Cardinality(Level(segments, 0))
    BY DEF IInv, L0CountExact
  <2>2. Level(segments, 0) \in SUBSET segments /\ seg \notin Level(segments, 0)
    BY <1>5 DEF Level
  <2>3. Level(segments', 0) = Level(segments, 0) \cup {seg}
    BY <1>2, <1>3 DEF Level
  <2>4. IsFiniteSet(Level(segments, 0))
    BY <2>1, <2>2, FS_Subset
  <2>5. Cardinality(Level(segments', 0)) = Cardinality(Level(segments, 0)) + 1
    BY <2>2, <2>3, <2>4, FS_AddElement
  <2>6. IsFiniteSet(segments')
    BY <1>2, <2>1, FS_AddElement
  <2> QED BY <1>2, <2>1, <2>5, <2>6 DEF L0CountExact
<1> QED BY <1>6, <1>7, <1>8, <1>9

LEMMA FlushIInv ==
  ASSUME IInv, NEW f \in Flushers, FlushStep(f)
  PROVE  IInv'
<1>1. TypeOK' /\ DrainedWhileFlushing'
  BY FlushTypes, FlushDrained
<1>2. CASE FlushBegin(f)
  BY <1>1, <1>2, FlushQuiet DEF FlushBegin, IInv
<1>3. CASE FlushBuild(f)
  BY <1>1, <1>3, FlushBuildIDs DEF IInv
<1>4. CASE FlushRegister(f)
  BY <1>1, <1>4, FlushRegisterIDs DEF IInv
<1>5. CASE FlushFail(f)
  BY <1>1, <1>5, FlushQuiet DEF FlushFail, IInv
<1>6. CASE FlushCheckpoint(f)
  BY <1>1, <1>6, FlushQuiet DEF FlushCheckpoint, IInv
<1> QED BY <1>2, <1>3, <1>4, <1>5, <1>6 DEF FlushStep

LEMMA CompactIInv ==
  ASSUME IInv, NEW c \in Compactors, CompactStep(c)
  PROVE  IInv'
<1>1. /\ TypeOK /\ DrainedWhileFlushing /\ IDsAllocated /\ SegmentIDsUnique
      /\ SnapshotsFaithful /\ IsFiniteSet(segments) /\ L0CountExact
  BY DEF IInv
<1>2. TypeOK'
  BY CompactTypes
<1>3. DrainedWhileFlushing' /\ flushPc' = flushPc /\ flushSeg' = flushSeg /\ FlushIDs' = FlushIDs
  BY <1>1 DEF CompactStep, CompactBegin, CompactBuild, CompactInstall, CompactFail,
              flushVars, DrainedWhileFlushing, Flushing, FlushIDs
<1>4. CASE CompactBegin(c)
  <2>1. /\ segments' = segments /\ nextSegID' = nextSegID /\ l0Count' = l0Count
        /\ compSeg' = compSeg
        /\ compSet'[c] \subseteq segments
        /\ \A d \in Compactors \ {c} : compSet'[d] = compSet[d] /\ compPc'[d] = compPc[d]
        /\ compPc[c] = "idle" /\ compPc'[c] = "merging"
    BY <1>1, <1>4 DEF CompactBegin, segmentVars, TypeOK, Level
  <2>2. \A d \in Compactors : compPc'[d] = "built" <=> compPc[d] = "built"
    BY <2>1
  <2>3. IDsAllocated'
    BY <1>1, <1>3, <2>1, <2>2 DEF IDsAllocated
  <2>4. CompactOutIDs' = CompactOutIDs /\ RegisteredIDs' = RegisteredIDs
    BY <2>1, <2>2 DEF CompactOutIDs, RegisteredIDs
  <2>5. SegmentIDsUnique'
    BY <1>1, <1>3, <2>1, <2>2, <2>4 DEF SegmentIDsUnique
  <2>6. \A t \in compSet'[c] : t \in segments
    BY <2>1
  <2>7. \A t \in compSet'[c] :
          /\ \A s \in segments' : s.id = t.id => s = t
          /\ \A f \in Flushers : flushPc'[f] = "built" => flushSeg'[f] # t.id
          /\ \A d \in Compactors : compPc'[d] = "built" => compSeg'[d] # t.id
    BY <1>1, <1>3, <2>1, <2>2, <2>6 DEF SegmentIDsUnique, FlushIDs, CompactOutIDs, RegisteredIDs
  <2>8. SnapshotsFaithful'
    BY <1>1, <1>3, <2>1, <2>2, <2>7 DEF SnapshotsFaithful
  <2>9. L0CountExact' /\ IsFiniteSet(segments)'
    BY <1>1, <2>1 DEF L0CountExact, Level
  <2> QED BY <1>2, <1>3, <2>3, <2>5, <2>8, <2>9 DEF IInv
<1>5. CASE CompactBuild(c)
  <2>1. /\ segments' = segments /\ l0Count' = l0Count /\ compSet' = compSet
        /\ nextSegID' = nextSegID + 1 /\ nextSegID \in Nat
        /\ compSeg'[c] = nextSegID + 1 /\ compPc'[c] = "built" /\ compPc[c] # "idle"
        /\ \A d \in Compactors \ {c} : compSeg'[d] = compSeg[d] /\ compPc'[d] = compPc[d]
    BY <1>1, <1>5 DEF CompactBuild, TypeOK
  <2>2. /\ \A s \in segments : s.id \in Nat
        /\ \A f \in Flushers : flushSeg[f] \in Nat
        /\ \A d \in Compactors : compSeg[d] \in Nat /\ \A t \in compSet[d] : t.id \in Nat
    BY <1>1 DEF TypeOK, Segment
  <2>3. IDsAllocated'
    BY <1>1, <1>3, <2>1, <2>2 DEF IDsAllocated
  <2>4. SnapshotsFaithful'
    BY <1>1, <1>3, <2>1, <2>2 DEF SnapshotsFaithful, IDsAllocated
  <2>5. \A i \in CompactOutIDs' : i \in CompactOutIDs \/ i = nextSegID + 1
    BY <2>1 DEF CompactOutIDs
  <2>6. nextSegID + 1 \notin FlushIDs \cup RegisteredIDs /\ RegisteredIDs' = RegisteredIDs
    BY <1>1, <2>1, <2>2 DEF IDsAllocated, FlushIDs, RegisteredIDs
  <2>7. \A d, e \in Compactors : d # e /\ compPc'[d] = "built" /\ compPc'[e] = "built"
                                   => compSeg'[d] # compSeg'[e]
    BY <1>1, <2>1, <2>2 DEF SegmentIDsUnique, IDsAllocated
  <2>8. FlushIDs' \cap CompactOutIDs' = {}
        /\ (FlushIDs' \cup CompactOutIDs') \cap RegisteredIDs' = {}
    BY <1>1, <1>3, <2>5, <2>6 DEF SegmentIDsUnique
  <2>9. SegmentIDsUnique'
    BY <1>1, <1>3, <2>1, <2>7, <2>8 DEF SegmentIDsUnique
  <2>10. L0CountExact' /\ IsFiniteSet(segments)'
    BY <1>1, <2>1 DEF L0CountExact, Level
  <2> QED BY <1>2, <1>3, <2>3, <2>4, <2>9, <2>10 DEF IInv
<1>6. CASE CompactInstall(c)
  <2> DEFINE remaining == {s \in segments : s.id \notin CompactIDs(c)}
             new == CompactedSegment(c)
  <2>1. /\ segments' = remaining \cup {new} /\ nextSegID' = nextSegID
        /\ l0Count' = Cardinality(Level(remaining, 0)) /\ compSeg' = compSeg
        /\ compPc[c] = "built" /\ compPc'[c] = "idle" /\ compSet'[c] = {}
        /\ \A d \in Compactors \ {c} : compPc'[d] = compPc[d] /\ compSet'[d] = compSet[d]
    BY <1>1, <1>6 DEF CompactInstall, TypeOK
  <2>2. new.id = compSeg[c] /\ new.level = 1
    BY DEF CompactedSegment
  <2>3. \A d \in Compactors : compPc'[d] = "built" => d # c /\ compPc[d] = "built"
    BY <2>1
  <2>4. \A s \in segments : s.id # new.id
    BY <1>1, <2>1, <2>2 DEF SegmentIDsUnique, CompactOutIDs, RegisteredIDs
  <2>5. IDsAllocated'
    BY <1>1, <1>3, <2>1, <2>2, <2>3 DEF IDsAllocated
  <2>6. SnapshotsFaithful'
    BY <1>1, <1>3, <2>1, <2>2, <2>3 DEF SnapshotsFaithful
  <2>7. \A i \in CompactOutIDs' : i \in CompactOutIDs /\ i # new.id
    BY <1>1, <2>1, <2>2, <2>3 DEF CompactOutIDs, SegmentIDsUnique
  <2>8. \A i \in RegisteredIDs' : i \in RegisteredIDs \/ i = new.id
    BY <2>1 DEF RegisteredIDs
  <2>9. new.id \notin FlushIDs
    BY <1>1, <2>1, <2>2 DEF SegmentIDsUnique, CompactOutIDs
  <2>10. FlushIDs' \cap CompactOutIDs' = {}
         /\ (FlushIDs' \cup CompactOutIDs') \cap RegisteredIDs' = {}
    BY <1>1, <1>3, <2>7, <2>8, <2>9 DEF SegmentIDsUnique
  <2>11. \A s, t \in segments' : s.id = t.id => s = t
    BY <1>1, <2>1, <2>4 DEF SegmentIDsUnique
  <2>12. SegmentIDsUnique'
    BY <1>1, <1>3, <2>1, <2>3, <2>10, <2>11 DEF SegmentIDsUnique
  <2>13. Level(segments', 0) = Level(remaining, 0)
    BY <2>1, <2>2 DEF Level
  <2>14. IsFiniteSet(segments')
    <3>1. remaining \in SUBSET segments
      OBVIOUS
    <3>2. IsFiniteSet(remaining)
      BY <1>1, <3>1, FS_Subset
    <3> QED BY <2>1, <3>2, FS_AddElement
  <2>15. L0CountExact'
    BY <2>1, <2>13 DEF L0CountExact
  <2> QED BY <1>2, <1>3, <2>5, <2>6, <2>12, <2>14, <2>15 DEF IInv
<1>7. CASE CompactFail(c)
  <2>1. /\ segments' = segments /\ nextSegID' = nextSegID /\ l0Count' = l0Count
        /\ compSeg' = compSeg /\ compPc'[c] = "idle" /\ compSet'[c] = {}
        /\ \A d \in Compactors \ {c} : compPc'[d] = compPc[d] /\ compSet'[d] = compSet[d]
    BY <1>1, <1>7 DEF CompactFail, segmentVars, TypeOK
  <2>2. \A d \in Compactors : compPc'[d] = "built" => d # c /\ compPc[d] = "built"
    BY <2>1
  <2>3. IDsAllocated'
    BY <1>1, <1>3, <2>1, <2>2 DEF IDsAllocated
  <2>4. SnapshotsFaithful'
    BY <1>1, <1>3, <2>1, <2>2 DEF SnapshotsFaithful
  <2>5. CompactOutIDs' \subseteq CompactOutIDs /\ RegisteredIDs' = RegisteredIDs
    BY <2>1, <2>2 DEF CompactOutIDs, RegisteredIDs
  <2>6. SegmentIDsUnique'
    BY <1>1, <1>3, <2>1, <2>2, <2>5 DEF SegmentIDsUnique
  <2>7. L0CountExact' /\ IsFiniteSet(segments)'
    BY <1>1, <2>1 DEF L0CountExact, Level
  <2> QED BY <1>2, <1>3, <2>3, <2>4, <2>6, <2>7 DEF IInv
<1> QED BY <1>4, <1>5, <1>6, <1>7 DEF CompactStep

LEMMA StepIInv == IInv /\ [Next]_vars => IInv'
<1> SUFFICES ASSUME IInv, [Next]_vars PROVE IInv'
  OBVIOUS
<1>1. ASSUME NEW w \in Writers, WriterStep(w)
      PROVE  IInv'
  <2>1. TypeOK'
    BY <1>1, WriterTypes
  <2>2. UNCHANGED <<segmentVars, flushVars, compactVars>>
    BY <1>1 DEF WriterStep, AllocVersion, WriteFail, PutOne, PutBatch
  <2> QED BY <2>1, <2>2, WriterIInv
<1>2. ASSUME NEW f \in Flushers, FlushStep(f)
      PROVE  IInv'
  BY <1>2, FlushIInv
<1>3. ASSUME NEW c \in Compactors, CompactStep(c)
      PROVE  IInv'
  BY <1>3, CompactIInv
<1>4. CASE UNCHANGED vars
  <2>1. TypeOK'
    BY <1>4 DEF IInv, TypeOK, vars, engineVars, segmentVars, flushVars, compactVars
  <2> QED BY <1>4, <2>1, WriterIInv DEF vars
<1> QED BY <1>1, <1>2, <1>3, <1>4 DEF Next, Quiesce

LEMMA Invariant == Spec => []IInv
BY InitIInv, StepIInv, PTL DEF Spec

-----------------------------------------------------------------------------
(* The theorems *)

\* Every variable keeps its type: among others the version of a checkpoint does
\* not underflow, and no table mixes up rows and their absence.
THEOREM TypeCorrect == Spec => []TypeOK
<1>1. IInv => TypeOK
  BY DEF IInv
<1> QED BY <1>1, Invariant, PTL

\* A segment ID never names two segments, however many flushes and compactions
\* run at the same time.
THEOREM UniqueSegmentIDs == Spec => []SegmentIDsUnique
<1>1. IInv => SegmentIDsUnique
  BY DEF IInv
<1> QED BY <1>1, Invariant, PTL

\* The level-0 counter is exact, however flushes and compactions interleave.
THEOREM ExactL0Count == Spec => []L0CountExact
<1>1. IInv => L0CountExact
  BY DEF IInv
<1> QED BY <1>1, Invariant, PTL

-----------------------------------------------------------------------------
(* No step loses a key *)

\* Where the rows of a queue of memtables are after Append, \o, Head and Tail.
LEMMA AppendHolds ==
  ASSUME NEW q \in Seq(MemTable), NEW m \in MemTable, NEW k \in Keys,
         TableHolders(q, k) # {} \/ m[k] # NoRow
  PROVE  TableHolders(Append(q, m), k) # {}
<1>1. /\ DOMAIN q = 1..Len(q) /\ DOMAIN Append(q, m) = 1..(Len(q) + 1)
      /\ \A i \in 1..Len(q) : Append(q, m)[i] = q[i]
      /\ Append(q, m)[Len(q) + 1] = m
      /\ Len(q) \in Nat
  BY AppendProperties, LenProperties
<1>2. CASE m[k] # NoRow
  <2>1. Len(q) + 1 \in TableHolders(Append(q, m), k)
    BY <1>1, <1>2 DEF TableHolders
  <2> QED BY <2>1
<1>3. CASE TableHolders(q, k) # {}
  <2>1. PICK i \in 1..Len(q) : q[i][k] # NoRow
    BY <1>1, <1>3 DEF TableHolders
  <2>2. i \in TableHolders(Append(q, m), k)
    BY <1>1, <2>1 DEF TableHolders
  <2> QED BY <2>2
<1> QED BY <1>2, <1>3

LEMMA ConcatHolds ==
  ASSUME NEW q \in Seq(MemTable), NEW r \in Seq(MemTable), NEW k \in Keys,
         TableHolders(q, k) # {} \/ TableHolders(r, k) # {}
  PROVE  TableHolders(q \o r, k) # {}
<1>1. /\ DOMAIN q = 1..Len(q) /\ DOMAIN r = 1..Len(r)
      /\ DOMAIN (q \o r) = 1..(Len(q) + Len(r))
      /\ \A i \in 1..Len(q) : (q \o r)[i] = q[i]
      /\ \A i \in 1..Len(r) : (q \o r)[Len(q) + i] = r[i]
      /\ Len(q) \in Nat /\ Len(r) \in Nat
  BY LenProperties
<1>2. CASE TableHolders(q, k) # {}
  <2>1. PICK i \in 1..Len(q) : q[i][k] # NoRow
    BY <1>1, <1>2 DEF TableHolders
  <2>2. i \in TableHolders(q \o r, k)
    BY <1>1, <2>1 DEF TableHolders
  <2> QED BY <2>2
<1>3. CASE TableHolders(r, k) # {}
  <2>1. PICK i \in 1..Len(r) : r[i][k] # NoRow
    BY <1>1, <1>3 DEF TableHolders
  <2>2. Len(q) + i \in TableHolders(q \o r, k)
    BY <1>1, <2>1 DEF TableHolders
  <2> QED BY <2>2
<1> QED BY <1>2, <1>3

LEMMA HeadTailHolds ==
  ASSUME NEW q \in Seq(MemTable), q # <<>>, NEW k \in Keys, TableHolders(q, k) # {}
  PROVE  Head(q)[k] # NoRow \/ TableHolders(Tail(q), k) # {}
<1>1. /\ Tail(q) \in Seq(MemTable) /\ Len(Tail(q)) = Len(q) - 1
      /\ \A i \in 1..Len(Tail(q)) : Tail(q)[i] = q[i + 1]
      /\ Head(q) = q[1] /\ DOMAIN q = 1..Len(q) /\ DOMAIN Tail(q) = 1..(Len(q) - 1)
      /\ Len(q) \in Nat
  BY HeadTailProperties, LenProperties
<1>2. PICK i \in 1..Len(q) : q[i][k] # NoRow
  BY <1>1 DEF TableHolders
<1>3. CASE i = 1
  BY <1>1, <1>2, <1>3
<1>4. CASE i # 1
  <2>1. i - 1 \in 1..Len(Tail(q)) /\ Tail(q)[i - 1] = q[i]
    BY <1>1, <1>2, <1>4
  <2>2. i - 1 \in TableHolders(Tail(q), k)
    BY <1>1, <1>2, <2>1 DEF TableHolders
  <2> QED BY <2>2
<1> QED BY <1>3, <1>4

LEMMA DrainHolds ==
  ASSUME TypeOK, NEW k \in Keys, active[k] # NoRow \/ TableHolders(immutable, k) # {}
  PROVE  TableHolders(Drain, k) # {}
<1>1. active \in MemTable /\ immutable \in Seq(MemTable)
  BY DEF TypeOK
<1>2. KeysOf(active) = {} => active[k] = NoRow
  BY DEF KeysOf
<1> QED BY <1>1, <1>2, AppendHolds DEF Drain

\* Steps that leave the queues of the flushers and the segments as they are.
LEMMA HeldElsewhere ==
  ASSUME NEW k \in Keys, UNCHANGED <<drained, segments>>,
         active[k] # NoRow \/ TableHolders(immutable, k) # {}
           => active'[k] # NoRow \/ TableHolders(immutable', k) # {},
         Held(k)
  PROVE  Held(k)'
BY DEF Held, TableHolders, Holders

LEMMA WriterHeld ==
  ASSUME IInv, NEW w \in Writers, WriterStep(w), NEW k \in Keys, Held(k)
  PROVE  Held(k)'
<1>1. TypeOK
  BY DEF IInv
<1>2. active \in MemTable /\ immutable \in Seq(MemTable) /\ UNCHANGED <<drained, segments>>
  BY <1>1 DEF TypeOK, WriterStep, AllocVersion, WriteFail, PutOne, PutBatch, segmentVars,
              flushVars
<1>3. CASE UNCHANGED <<active, immutable>>
  BY <1>2, <1>3, HeldElsewhere
<1>4. ASSUME pending[w] # NoOp
      PROVE  RowsOf(pending[w]) \in MemTable
  BY <1>1, <1>4, RowsOfType DEF TypeOK
<1>5. CASE PutOne(w)
  <2> DEFINE rows == RowsOf(pending[w])
  <2>1. rows \in MemTable
    BY <1>4, <1>5 DEF PutOne
  <2>2. CASE active' = Overwrite(active, rows) /\ immutable' = immutable
    <3>1. active[k] # NoRow => active'[k] # NoRow
      BY <1>2, <2>1, <2>2, OverwriteType
    <3> QED BY <1>2, <2>2, <3>1, HeldElsewhere
  <2>3. CASE immutable' = Append(immutable, active)
    <3>1. active[k] # NoRow \/ TableHolders(immutable, k) # {}
            => TableHolders(immutable', k) # {}
      BY <1>2, <2>3, AppendHolds
    <3> QED BY <1>2, <3>1, HeldElsewhere
  <2> QED BY <1>5, <2>2, <2>3 DEF PutOne
<1>6. CASE PutBatch(w)
  <2> DEFINE full == Overwrite(active, RowsOf(pending[w]))
  <2>1. full \in MemTable /\ (active[k] # NoRow => full[k] # NoRow)
    BY <1>2, <1>4, <1>6, OverwriteType DEF PutBatch
  <2>2. CASE active' = full /\ immutable' = immutable
    BY <1>2, <2>1, <2>2, HeldElsewhere
  <2>3. CASE immutable' = Append(immutable, full)
    <3>1. active[k] # NoRow \/ TableHolders(immutable, k) # {}
            => TableHolders(immutable', k) # {}
      BY <1>2, <2>1, <2>3, AppendHolds
    <3> QED BY <1>2, <3>1, HeldElsewhere
  <2> QED BY <1>6, <2>2, <2>3 DEF PutBatch
<1> QED BY <1>3, <1>5, <1>6 DEF WriterStep, AllocVersion, WriteFail

LEMMA FlushHeld ==
  ASSUME IInv, NEW f \in Flushers, FlushStep(f), NEW k \in Keys, Held(k)
  PROVE  Held(k)'
<1>1. TypeOK /\ DrainedWhileFlushing
  BY DEF IInv
<1>2. active \in MemTable /\ immutable \in Seq(MemTable) /\ drained \in [Flushers -> Seq(MemTable)]
  BY <1>1 DEF TypeOK
<1>3. CASE FlushBegin(f)
  <2>1. drained[f] = <<>>
    BY <1>1, <1>3 DEF FlushBegin, DrainedWhileFlushing, Flushing
  <2>2. /\ drained'[f] = Drain /\ segments' = segments
        /\ \A g \in Flushers \ {f} : drained'[g] = drained[g]
    BY <1>2, <1>3 DEF FlushBegin, segmentVars
  <2>3. CASE active[k] # NoRow \/ TableHolders(immutable, k) # {}
    <3>1. TableHolders(drained'[f], k) # {}
      BY <1>1, <2>2, <2>3, DrainHolds
    <3> QED BY <3>1 DEF Held, TableHolders
  <2>4. ASSUME NEW g \in Flushers, TableHolders(drained[g], k) # {}
        PROVE  Held(k)'
    <3>1. g # f
      BY <2>1, <2>4 DEF TableHolders
    <3>2. TableHolders(drained'[g], k) # {}
      BY <2>2, <2>4, <3>1
    <3> QED BY <3>2 DEF Held, TableHolders
  <2>5. CASE Holders(segments, k) # {}
    BY <2>2, <2>5 DEF Held, Holders
  <2> QED BY <2>3, <2>4, <2>5 DEF Held
<1>4. CASE FlushBuild(f)
  BY <1>4, HeldElsewhere DEF FlushBuild, engineVars
<1>5. CASE FlushRegister(f)
  <2> DEFINE seg == FlushedSegment(f)
  <2>1. drained[f] \in Seq(MemTable) /\ drained[f] # <<>> /\ Head(drained[f]) \in MemTable
    BY <1>1, <1>2, <1>5, FlushedSegmentType
       DEF FlushRegister, DrainedWhileFlushing, Flushing
  <2>2. /\ segments' = segments \cup {seg} /\ drained'[f] = Tail(drained[f])
        /\ \A g \in Flushers \ {f} : drained'[g] = drained[g]
        /\ UNCHANGED <<active, immutable>>
    BY <1>2, <1>5 DEF FlushRegister, engineVars
  <2>3. CASE active[k] # NoRow \/ TableHolders(immutable, k) # {}
    BY <2>2, <2>3 DEF Held, TableHolders
  <2>4. CASE Holders(segments, k) # {}
    BY <2>2, <2>4 DEF Held, Holders
  <2>5. ASSUME NEW g \in Flushers, g # f, TableHolders(drained[g], k) # {}
        PROVE  Held(k)'
    <3>1. TableHolders(drained'[g], k) # {}
      BY <2>2, <2>5
    <3> QED BY <3>1 DEF Held, TableHolders
  <2>6. CASE TableHolders(drained[f], k) # {}
    <3>1. CASE Head(drained[f])[k] # NoRow
      <4>1. seg.rows[k] # NoRow
        BY <2>1, <3>1, FlushRowsType DEF FlushedSegment
      <4>2. seg \in Holders(segments', k)
        BY <2>2, <4>1 DEF Holders
      <4> QED BY <4>2 DEF Held, Holders
    <3>2. CASE TableHolders(Tail(drained[f]), k) # {}
      <4>1. TableHolders(drained'[f], k) # {}
        BY <2>2, <3>2
      <4> QED BY <4>1 DEF Held, TableHolders
    <3> QED BY <2>1, <2>6, <3>1, <3>2, HeadTailHolds
  <2> QED BY <2>3, <2>4, <2>5, <2>6 DEF Held
<1>6. CASE FlushFail(f)
  <2>1. /\ immutable' = drained[f] \o immutable /\ active' = active /\ segments' = segments
        /\ \A g \in Flushers \ {f} : drained'[g] = drained[g]
    BY <1>2, <1>6 DEF FlushFail, segmentVars
  <2>2. CASE TableHolders(drained[f], k) # {} \/ TableHolders(immutable, k) # {}
    <3>1. TableHolders(immutable', k) # {}
      BY <1>2, <2>1, <2>2, ConcatHolds
    <3> QED BY <3>1 DEF Held, TableHolders
  <2>3. ASSUME NEW g \in Flushers, g # f, TableHolders(drained[g], k) # {}
        PROVE  Held(k)'
    <3>1. TableHolders(drained'[g], k) # {}
      BY <2>1, <2>3
    <3> QED BY <3>1 DEF Held, TableHolders
  <2>4. CASE active[k] # NoRow \/ Holders(segments, k) # {}
    BY <2>1, <2>4 DEF Held, Holders
  <2> QED BY <2>2, <2>3, <2>4 DEF Held
<1>7. CASE FlushCheckpoint(f)
  BY <1>7, HeldElsewhere DEF FlushCheckpoint, engineVars, segmentVars
<1> QED BY <1>3, <1>4, <1>5, <1>6, <1>7 DEF FlushStep

\* A key that a removed segment held is in the compacted one: the removed segments
\* are members of the snapshot, and merging keeps every key of the snapshot.
LEMMA CompactHeld ==
  ASSUME IInv, NEW c \in Compactors, CompactStep(c), NEW k \in Keys, Held(k)
  PROVE  Held(k)'
<1>1. TypeOK /\ IDsAllocated /\ SnapshotsFaithful
  BY DEF IInv
<1>2. UNCHANGED <<active, immutable, drained>>
  BY DEF CompactStep, CompactBegin, CompactBuild, CompactInstall, CompactFail, engineVars,
         flushVars
<1>3. CASE UNCHANGED segments
  BY <1>2, <1>3, HeldElsewhere
<1>4. CASE CompactInstall(c)
  <2> DEFINE new == CompactedSegment(c)
             remaining == {s \in segments : s.id \notin CompactIDs(c)}
  <2>1. segments' = remaining \cup {new}
    BY <1>4 DEF CompactInstall
  <2>2. CASE \/ active[k] # NoRow \/ TableHolders(immutable, k) # {}
             \/ \E f \in Flushers : TableHolders(drained[f], k) # {}
    BY <1>2, <2>2 DEF Held, TableHolders
  <2>3. ASSUME NEW s \in segments, s.rows[k] # NoRow
        PROVE  Held(k)'
    <3>1. CASE s \in remaining
      BY <2>1, <2>3, <3>1 DEF Held, Holders
    <3>2. CASE s \notin remaining
      <4>1. PICK t \in compSet[c] : s.id = t.id
        BY <2>3, <3>2 DEF CompactIDs
      <4>2. s \in compSet[c]
        BY <1>1, <2>3, <4>1 DEF SnapshotsFaithful
      <4>3. Holders(compSet[c], k) # {}
        BY <2>3, <4>2 DEF Holders
      <4>4. new.rows[k] # NoRow
        BY <1>1, <4>3, SnapshotMerge DEF CompactedSegment
      <4>5. new \in Holders(segments', k)
        BY <2>1, <4>4 DEF Holders
      <4> QED BY <4>5 DEF Held, Holders
    <3> QED BY <3>1, <3>2
  <2> QED BY <2>2, <2>3 DEF Held, Holders
<1> QED BY <1>3, <1>4 DEF CompactStep, CompactBegin, CompactBuild, CompactFail, segmentVars

LEMMA StepHeld == IInv /\ [Next]_vars => [\A k \in Keys : Held(k) => Held(k)']_vars
<1> SUFFICES ASSUME IInv, Next, NEW k \in Keys, Held(k)
             PROVE  Held(k)' \/ UNCHANGED vars
  OBVIOUS
<1>1. ASSUME NEW w \in Writers, WriterStep(w)
      PROVE  Held(k)'
  BY <1>1, WriterHeld
<1>2. ASSUME NEW f \in Flushers, FlushStep(f)
      PROVE  Held(k)'
  BY <1>2, FlushHeld
<1>3. ASSUME NEW c \in Compactors, CompactStep(c)
      PROVE  Held(k)'
  BY <1>3, CompactHeld
<1> QED BY <1>1, <1>2, <1>3 DEF Next, Quiesce

\* No step of a flush, a failed flush, a compaction or a call takes a key out of
\* every table: compaction may run while flushes register new segments.
THEOREM NoKeyLost == Spec => KeyRetained
BY Invariant, StepHeld, PTL DEF Spec, KeyRetained
=============================================================================
