------------------------- MODULE GroupCommitProofs --------------------------
(***************************************************************************)
(* Proofs about modules Wal and GroupCommit, for any number of writers,    *)
(* any sizes of file and queue, and any number of failures: types, that    *)
(* acknowledged records are on disk, that no waiting writer is forgotten   *)
(* or counted twice, and who may be stranded when the goroutine has ended. *)
(***************************************************************************)
EXTENDS GroupCommit, FiniteSetTheorems, SequenceTheorems, TLAPS

(* The inductive invariant.                                                *)

\* Only what a failing write left behind can make the file longer than its limit.
WalBounded == /\ pos <= offset + faults
              /\ offset <= MaxSize + faults
              /\ Len(log) <= MaxSize + faults

\* As long as no write and no rotation failed half-way, the handle is at the end of
\* the file and every cell is a record.
WalClean == ~damaged => pos = Len(log) /\ Garbage \notin ToSet(log)

WalInv == WalTypeOK /\ WalBounded /\ WalClean

\* The records that were written, and those that are safe: on disk, or in the file
\* that a rotation put aside.
Logged == rotated \cup ToSet(log)
Safe == rotated \cup {log[i] : i \in 1..synced}

\* A call has a record while it runs, and that record was written; what was
\* acknowledged is safe or its request was dropped.
RecordsKept ==
  /\ \A w \in Writers : wPc[w] = "idle" <=> wRec[w] = 0
  /\ ~damaged => /\ \A w \in Writers : wRec[w] # 0 => wRec[w] \in Logged
                 /\ acked \ dropped \subseteq Safe

Distinct(s) == \A i, j \in DOMAIN s : s[i] = s[j] => i = j

\* Every waiting writer is in one of the three sequences, once.
WaitersOnce ==
  /\ Distinct(queue) /\ Distinct(runBatch) /\ Distinct(flushBatch)
  /\ ToSet(queue) \cap ToSet(runBatch) = {}
  /\ ToSet(queue) \cap ToSet(flushBatch) = {}
  /\ ToSet(runBatch) \cap ToSet(flushBatch) = {}
  /\ Waiting = ToSet(queue) \cup ToSet(runBatch) \cup ToSet(flushBatch)

\* A doSync holds requests only between taking them and the outcome of its sync.
BatchesTaken ==
  /\ runPc \notin {"syncing", "final"} => runBatch = <<>>
  /\ flushPc # "syncing" => flushBatch = <<>>

\* From its last look at the queue on, the goroutine leaves late requests only.
Stranded ==
  runPc \in {"final", "done"} => closePc # "open" /\ (endFailed \/ ToSet(queue) \subseteq late)

TypesHold ==
  /\ wPc \in [Writers -> {"idle", "appended", "submit", "direct", "waiting"}]
  /\ wRec \in [Writers -> Cell]
  /\ queue \in Seq(Writers) /\ runBatch \in Seq(Writers) /\ flushBatch \in Seq(Writers)
  /\ notify \in BOOLEAN /\ gcSet \in BOOLEAN /\ endFailed \in BOOLEAN
  /\ closePc \in {"open", "stopping", "closed"}
  /\ runPc \in {"select", "syncing", "final", "done"}
  /\ flushPc \in {"idle", "take", "syncing", "append", "sync"}
  /\ acked \subseteq Cell /\ dropped \subseteq Cell /\ late \subseteq Writers

GCInv == /\ WalInv
         /\ TypesHold
         /\ RecordsKept
         /\ WaitersOnce
         /\ BatchesTaken
         /\ Stranded

-----------------------------------------------------------------------------
(* Lemmas about the log file *)

\* What can be read of a file is no longer than the file.
LEMMA ValidLengthType ==
  ASSUME NEW cells \in Seq(Cell)
  PROVE  ValidLength(cells) \in Nat /\ ValidLength(cells) <= Len(cells)
<1> DEFINE J == {j \in DOMAIN cells : \A h \in 1..j : cells[h] # Garbage}
<1>1. DOMAIN cells = 1..Len(cells) /\ Len(cells) \in Nat
  BY LenProperties
<1>2. IsFiniteSet(1..Len(cells)) /\ Cardinality(1..Len(cells)) = Len(cells)
  BY <1>1, FS_Interval
<1>3. J \subseteq 1..Len(cells)
  BY <1>1
<1>4. Cardinality(J) \in Nat /\ Cardinality(J) <= Len(cells)
  BY <1>1, <1>2, <1>3, FS_Subset, FS_CardinalityType
<1> QED BY <1>4 DEF ValidLength

\* Without garbage all of it can be read.
LEMMA ValidLengthFull ==
  ASSUME NEW cells \in Seq(Cell), \A i \in 1..Len(cells) : cells[i] # Garbage
  PROVE  ValidLength(cells) = Len(cells)
<1> DEFINE J == {j \in DOMAIN cells : \A h \in 1..j : cells[h] # Garbage}
<1>1. DOMAIN cells = 1..Len(cells) /\ Len(cells) \in Nat
  BY LenProperties
<1>2. \A j \in 1..Len(cells) : 1..j \subseteq 1..Len(cells)
  BY <1>1
<1>3. J = 1..Len(cells)
  BY <1>1, <1>2
<1>4. Cardinality(1..Len(cells)) = Len(cells)
  BY <1>1, FS_Interval
<1> QED BY <1>3, <1>4 DEF ValidLength

\* What is replayed are cells of the file.
LEMMA ReplayType ==
  ASSUME NEW cells \in Seq(Cell)
  PROVE  Replay(cells) \subseteq Cell
<1>1. \A i \in 1..ValidLength(cells) : i \in 1..Len(cells)
  BY ValidLengthType, LenProperties
<1> QED BY <1>1, ElementOfSeq DEF Replay

\* The cells that a write leaves: one more if it was at the end of the file.
LEMMA WrittenType ==
  ASSUME NEW cells \in Seq(Cell), NEW p \in 0..Len(cells), NEW c \in Cell,
         NEW r \in Written(cells, p, c)
  PROVE  /\ r \in Seq(Cell)
         /\ p = Len(cells) => r = Append(cells, c) /\ Len(r) = Len(cells) + 1
         /\ p # Len(cells) => Len(r) = Len(cells)
<1>1. Len(cells) \in Nat
  BY LenProperties
<1>2. CASE p = Len(cells)
  <2>1. r = Append(cells, c)
    BY <1>2 DEF Written
  <2>2. r \in Seq(Cell) /\ Len(r) = Len(cells) + 1
    BY <2>1, AppendProperties
  <2> QED BY <1>2, <2>1, <2>2
<1>3. CASE p # Len(cells)
  <2> DEFINE over == [cells EXCEPT ![p + 1] = c]
  <2>1. p + 1 \in 1..Len(cells)
    BY <1>1, <1>3
  <2>2. over \in Seq(Cell) /\ Len(over) = Len(cells)
    BY <2>1, ExceptSeq
  <2>3. \/ r = over
        \/ p + 2 <= Len(cells) /\ r = [over EXCEPT ![p + 2] = Garbage]
    BY <1>3 DEF Written
  <2> HIDE DEF over
  <2>4. Garbage \in Cell
    BY WalAssumption DEF Garbage, Cell
  <2>5. p + 2 <= Len(cells) => p + 2 \in 1..Len(over)
    BY <1>1, <2>2
  <2>6. p + 2 <= Len(cells) =>
          /\ [over EXCEPT ![p + 2] = Garbage] \in Seq(Cell)
          /\ Len([over EXCEPT ![p + 2] = Garbage]) = Len(cells)
    BY <2>2, <2>4, <2>5, ExceptSeq
  <2> QED BY <1>3, <2>2, <2>3, <2>6
<1> QED BY <1>2, <1>3

\* The first cells of a file.
LEMMA PrefixIs ==
  ASSUME NEW cells \in Seq(Cell), NEW n \in 0..Len(cells)
  PROVE  /\ SubSeq(cells, 1, n) \in Seq(Cell) /\ Len(SubSeq(cells, 1, n)) = n
         /\ \A i \in 1..n : SubSeq(cells, 1, n)[i] = cells[i] /\ i \in 1..Len(cells)
<1>1. Len(cells) \in Nat
  BY LenProperties
<1> QED BY <1>1, SubSeqProperties

\* Without garbage every record of a file can be read.
LEMMA ReplayFull ==
  ASSUME NEW cells \in Seq(Cell), NEW n \in 0..Len(cells),
         \A i \in 1..n : cells[i] # Garbage
  PROVE  /\ ValidLength(SubSeq(cells, 1, n)) = n
         /\ Replay(SubSeq(cells, 1, n)) = {cells[i] : i \in 1..n}
<1> DEFINE part == SubSeq(cells, 1, n)
<1>1. part \in Seq(Cell) /\ Len(part) = n /\ \A i \in 1..n : part[i] = cells[i]
  BY PrefixIs
<1> HIDE DEF part
<1>2. \A i \in 1..Len(part) : part[i] # Garbage
  BY <1>1
<1>3. ValidLength(part) = n
  BY <1>1, <1>2, ValidLengthFull
<1>4. Replay(part) = {cells[i] : i \in 1..n}
  BY <1>1, <1>3 DEF Replay
<1> QED BY <1>3, <1>4 DEF part

\* The same for the whole file.
LEMMA ReplayAll ==
  ASSUME NEW cells \in Seq(Cell), Garbage \notin ToSet(cells)
  PROVE  Replay(cells) = ToSet(cells)
<1>1. DOMAIN cells = 1..Len(cells)
  BY LenProperties
<1>2. \A i \in 1..Len(cells) : cells[i] # Garbage
  BY <1>1 DEF ToSet
<1>3. ValidLength(cells) = Len(cells)
  BY <1>2, ValidLengthFull
<1> QED BY <1>1, <1>3 DEF Replay, ToSet

\* Elements of a sequence with one more at its end.
LEMMA AppendElements ==
  ASSUME NEW S, NEW s \in Seq(S), NEW e \in S
  PROVE  /\ Append(s, e) \in Seq(S)
         /\ Len(Append(s, e)) = Len(s) + 1
         /\ \A i \in 1..Len(s) : Append(s, e)[i] = s[i]
         /\ ToSet(Append(s, e)) = ToSet(s) \cup {e}
<1>1. /\ Append(s, e) \in Seq(S) /\ Len(Append(s, e)) = Len(s) + 1
      /\ \A i \in 1..Len(s) : Append(s, e)[i] = s[i]
      /\ Append(s, e)[Len(s) + 1] = e
  BY AppendProperties
<1>2. /\ DOMAIN s = 1..Len(s) /\ DOMAIN Append(s, e) = 1..(Len(s) + 1)
      /\ Len(s) \in Nat
  BY <1>1, LenProperties
<1> DEFINE a == Append(s, e)
<1>3. a[Len(s) + 1] = e /\ DOMAIN a = 1..(Len(s) + 1) /\ \A i \in 1..Len(s) : a[i] = s[i]
  BY <1>1, <1>2
<1> HIDE DEF a
<1>4. 1..(Len(s) + 1) = 1..Len(s) \cup {Len(s) + 1}
  BY <1>2
<1>5. ToSet(a) = ToSet(s) \cup {e}
  BY <1>2, <1>3, <1>4 DEF ToSet
<1> QED BY <1>1, <1>5 DEF a

-----------------------------------------------------------------------------
(* The operations of the log file *)

WalOp == \/ AppendRecord \/ AppendFails \/ Sync \/ SyncFails \/ CloseFile
         \/ UNCHANGED walVars

\* A cell is written, in the file or after a rotation in a new one.
LEMMA WriteCellTypes ==
  ASSUME WalTypeOK, WalBounded, Rotate, NEW c \in Cell, WriteCell(c),
         NEW more \in {0, 1}, NEW grow \in {0, 1}, grow + more = 1,
         offset' = (IF NeedsRotation THEN 0 ELSE offset) + grow,
         faults' = faults + more
  PROVE  /\ log' \in Seq(Cell) /\ pos' \in 0..Len(log') /\ offset' \in 0..(MaxSize + faults)
         /\ synced' \in 0..Len(log') /\ rotated' \subseteq Cell
         /\ WalBounded'
<1>1. /\ log \in Seq(Cell) /\ Len(log) \in Nat /\ pos \in 0..Len(log) /\ synced \in 0..Len(log)
      /\ offset \in Nat /\ faults \in Nat /\ MaxSize \in Nat \ {0} /\ rotated \subseteq Cell
  BY WalAssumption, LenProperties DEF WalTypeOK
<1>2. rotated' \subseteq Cell
  BY <1>1, ReplayType DEF Rotate
<1>3. CASE NeedsRotation
  <2>1. log' = <<c>> /\ pos' = 1 /\ synced' = 0
    BY <1>3 DEF WriteCell
  <2>2. log' \in Seq(Cell) /\ Len(log') = 1
    BY <2>1
  <2> QED BY <1>1, <1>2, <1>3, <2>1, <2>2 DEF WalBounded
<1>4. CASE ~ NeedsRotation
  <2>1. /\ log' \in Written(log, pos, c) /\ pos' = pos + 1
        /\ synced' = IF synced < pos THEN synced ELSE pos
    BY <1>4 DEF WriteCell
  <2>2. /\ log' \in Seq(Cell)
        /\ \/ Len(log') = Len(log) /\ pos # Len(log)
           \/ Len(log') = Len(log) + 1 /\ pos = Len(log)
    <3>1. log \in Seq(Cell) /\ pos \in 0..Len(log) /\ log' \in Written(log, pos, c)
      BY <1>1, <2>1
    <3>2. /\ log' \in Seq(Cell)
          /\ pos = Len(log) => Len(log') = Len(log) + 1
          /\ pos # Len(log) => Len(log') = Len(log)
      BY <3>1, WrittenType
    <3> QED BY <3>2
  <2>3. offset + 1 <= MaxSize
    BY <1>1, <1>4 DEF NeedsRotation
  <2>4. pos' \in 0..Len(log') /\ synced' \in 0..Len(log')
    BY <1>1, <2>1, <2>2
  <2>5. offset' \in 0..(MaxSize + faults) /\ offset' = offset + grow
    BY <1>1, <1>4, <2>3
  <2>6. WalBounded'
    <3>1. pos <= offset + faults /\ offset <= MaxSize + faults /\ Len(log) <= MaxSize + faults
      BY DEF WalBounded
    <3>2. pos + 1 <= MaxSize + faults /\ pos' <= offset' + faults'
      BY <1>1, <2>1, <2>3, <2>5, <3>1
    <3>3. Len(log') <= MaxSize + faults
      BY <1>1, <2>2, <3>1, <3>2
    <3>4. offset' <= MaxSize + faults'
      BY <1>1, <2>5
    <3>5. Len(log') <= MaxSize + faults'
      BY <1>1, <2>2, <3>3
    <3> QED BY <3>2, <3>4, <3>5 DEF WalBounded
  <2> QED BY <1>2, <2>2, <2>4, <2>5, <2>6
<1> QED BY <1>3, <1>4

\* No operation, whatever fails in it, leaves the file in a shape of another type.
LEMMA WalOpTypes ==
  ASSUME WalTypeOK, WalBounded, WalOp \/ Reopen
  PROVE  WalTypeOK' /\ WalBounded'
<1>1. /\ log \in Seq(Cell) /\ Len(log) \in Nat /\ pos \in 0..Len(log) /\ synced \in 0..Len(log)
      /\ offset \in Nat /\ faults \in 0..MaxFaults /\ count \in 0..MaxRecords
      /\ MaxSize \in Nat \ {0} /\ MaxFaults \in Nat /\ MaxRecords \in Nat
      /\ rotated \subseteq Cell /\ handle \in BOOLEAN /\ damaged \in BOOLEAN
  BY WalAssumption, LenProperties DEF WalTypeOK
<1>2. /\ pos <= offset + faults /\ offset <= MaxSize + faults /\ Len(log) <= MaxSize + faults
  BY DEF WalBounded
<1>3. ASSUME Fault
      PROVE  faults' = faults + 1 /\ faults' \in 0..MaxFaults
  BY <1>1, <1>3 DEF Fault
<1>4. CASE AppendRecord
  <2>1. count' \in 0..MaxRecords /\ count + 1 \in Cell
    BY <1>1, <1>4 DEF AppendRecord, Cell
  <2>2. /\ Rotate /\ WriteCell(count + 1) /\ faults' = faults + 0
        /\ offset' = (IF NeedsRotation THEN 0 ELSE offset) + 1
        /\ faults' = faults /\ handle' = handle /\ damaged' = damaged
    BY <1>1, <1>4 DEF AppendRecord
  <2>3. /\ log' \in Seq(Cell) /\ pos' \in 0..Len(log') /\ offset' \in 0..(MaxSize + faults)
        /\ synced' \in 0..Len(log') /\ rotated' \subseteq Cell
        /\ WalBounded'
    BY <2>1, <2>2, WriteCellTypes
  <2>4. offset' \in 0..(MaxSize + MaxFaults)
    BY <1>1, <2>3
  <2> QED BY <1>1, <2>1, <2>2, <2>3, <2>4 DEF WalTypeOK
<1>5. CASE AppendTorn
  <2>1. Garbage \in Cell
    BY <1>1 DEF Garbage, Cell
  <2>2. /\ Rotate /\ WriteCell(Garbage) /\ faults' = faults + 1 /\ faults' \in 0..MaxFaults
        /\ offset' = (IF NeedsRotation THEN 0 ELSE offset) + 0
        /\ count' = count /\ handle' = handle /\ damaged' \in BOOLEAN
    BY <1>1, <1>3, <1>5 DEF AppendTorn
  <2>3. /\ log' \in Seq(Cell) /\ pos' \in 0..Len(log') /\ offset' \in 0..(MaxSize + faults)
        /\ synced' \in 0..Len(log') /\ rotated' \subseteq Cell
        /\ WalBounded'
    BY <2>1, <2>2, WriteCellTypes
  <2>4. offset' \in 0..(MaxSize + MaxFaults)
    BY <1>1, <2>3
  <2> QED BY <1>1, <2>2, <2>3, <2>4 DEF WalTypeOK
<1>6. CASE \/ AppendRefused \/ SyncFails \/ RotateCloseFails \/ Sync \/ CloseFile
           \/ UNCHANGED walVars
  <2>1. /\ log' = log /\ pos' = pos /\ offset' = offset /\ rotated' = rotated /\ count' = count
        /\ synced' \in {synced, Len(log)}
        /\ faults' = faults \/ Fault
        /\ handle' \in BOOLEAN /\ damaged' \in BOOLEAN
    BY <1>1, <1>6 DEF AppendRefused, SyncFails, RotateCloseFails, Sync, CloseFile, walVars
  <2>2. faults' \in 0..MaxFaults /\ faults' >= faults
    BY <1>1, <1>3, <2>1
  <2>3. WalBounded'
    <3>1. pos \in Nat /\ faults \in Nat /\ faults' \in Nat /\ MaxSize \in Nat
      BY <1>1, <2>2
    <3>2. pos' = pos /\ offset' = offset
      BY <2>1
    <3>4. \A i, j, m, n \in Nat : i <= j + m /\ n >= m => i <= j + n
      OBVIOUS
    <3>5. pos <= offset + faults' /\ offset <= MaxSize + faults'
      BY <1>1, <1>2, <2>2, <3>1, <3>4
    <3>3. Len(log') <= MaxSize + faults'
      BY <1>1, <1>2, <2>1, <2>2, <3>1
    <3> QED BY <3>2, <3>3, <3>5 DEF WalBounded
  <2>4. synced' \in 0..Len(log)
    BY <1>1, <2>1
  <2> QED BY <2>1, <2>2, <2>3, <2>4 DEF WalTypeOK
<1>7. CASE RotateRenameFails \/ RotateSecondRenameFails
  <2>1. /\ \/ log' = log /\ synced' = synced /\ rotated' = rotated
           \/ log' = <<>> /\ synced' = 0 /\ rotated' = rotated \cup Replay(log)
        /\ count' = count /\ Fault /\ pos' = 0 /\ damaged' = TRUE
        /\ \/ handle' = TRUE /\ offset' = 0
           \/ handle' = FALSE /\ offset' = offset
    BY <1>7 DEF RotateRenameFails, RotateSecondRenameFails, RecoverOpen
  <2>2. faults' = faults + 1 /\ faults' \in 0..MaxFaults
    BY <1>3, <2>1
  <2>3. Replay(log) \subseteq Cell /\ <<>> \in Seq(Cell) /\ Len(<<>>) = 0
    BY <1>1, ReplayType
  <2>4. /\ log' \in Seq(Cell) /\ Len(log') \in {Len(log), 0} /\ synced' \in 0..Len(log')
        /\ rotated' \subseteq Cell
    <3>1. CASE log' = log /\ synced' = synced /\ rotated' = rotated
      BY <1>1, <3>1
    <3>2. CASE log' = <<>> /\ synced' = 0 /\ rotated' = rotated \cup Replay(log)
      BY <1>1, <2>3, <3>2
    <3> QED BY <2>1, <3>1, <3>2
  <2>5. offset' \in Nat /\ offset' <= MaxSize + faults
    BY <1>1, <1>2, <2>1
  <2>6. WalBounded'
    <3>1. pos' <= offset' + faults'
      <4>1. pos' = 0 /\ offset' \in Nat /\ faults' \in Nat
        BY <2>1, <2>2, <2>5
      <4>2. \A m, n \in Nat : 0 <= m + n
        OBVIOUS
      <4> QED BY <4>1, <4>2
    <3>2. offset' <= MaxSize + faults' /\ Len(log') <= MaxSize + faults'
      BY <1>1, <1>2, <2>2, <2>4, <2>5
    <3> QED BY <3>1, <3>2 DEF WalBounded
  <2>7. offset' \in 0..(MaxSize + MaxFaults) /\ pos' \in 0..Len(log')
    BY <1>1, <2>1, <2>4, <2>5
  <2> QED BY <1>1, <2>1, <2>2, <2>4, <2>6, <2>7 DEF WalTypeOK
<1>8. CASE Reopen
  <2>1. PICK n \in synced..Len(log) :
          LET valid == ValidLength(SubSeq(log, 1, n)) IN
          /\ log' = SubSeq(log, 1, valid)
          /\ pos' = valid /\ offset' = valid /\ synced' = valid
    BY <1>8 DEF Reopen
  <2> DEFINE valid == ValidLength(SubSeq(log, 1, n))
  <2>2. n \in 0..Len(log)
    BY <1>1
  <2>3. SubSeq(log, 1, n) \in Seq(Cell) /\ Len(SubSeq(log, 1, n)) = n
    BY <1>1, <2>2, PrefixIs
  <2>4. valid \in Nat /\ valid <= n
    BY <2>3, ValidLengthType
  <2> HIDE DEF valid
  <2>5. valid \in 0..Len(log)
    BY <1>1, <2>2, <2>4
  <2>6. /\ log' = SubSeq(log, 1, valid) /\ pos' = valid /\ offset' = valid /\ synced' = valid
    BY <2>1 DEF valid
  <2>7. log' \in Seq(Cell) /\ Len(log') = valid
    BY <1>1, <2>5, <2>6, PrefixIs
  <2>8. /\ handle' = TRUE /\ count' = count /\ faults' = faults /\ rotated' = rotated
        /\ damaged' = damaged
    BY <1>8 DEF Reopen
  <2>9. valid <= MaxSize + faults /\ valid <= MaxSize + MaxFaults
    BY <1>1, <1>2, <2>5
  <2>10. WalBounded'
    BY <1>1, <2>5, <2>6, <2>7, <2>8, <2>9 DEF WalBounded
  <2>11. offset' \in 0..(MaxSize + MaxFaults) /\ pos' \in 0..Len(log') /\ synced' \in 0..Len(log')
    BY <1>1, <2>5, <2>6, <2>7, <2>9
  <2> QED BY <1>1, <2>7, <2>8, <2>10, <2>11 DEF WalTypeOK
<1> QED BY <1>4, <1>5, <1>6, <1>7, <1>8 DEF WalOp, AppendFails

\* A record that is appended in a clean state.
LEMMA AppendClean ==
  ASSUME WalInv, AppendRecord, ~ damaged
  PROVE  /\ pos' = Len(log') /\ Garbage \notin ToSet(log')
         /\ Logged \cup {count + 1} \subseteq Logged' /\ Safe \subseteq Safe'
<1>1. /\ log \in Seq(Cell) /\ Len(log) \in Nat /\ pos \in 0..Len(log) /\ synced \in 0..Len(log)
      /\ count \in Nat /\ DOMAIN log = 1..Len(log)
      /\ pos = Len(log) /\ Garbage \notin ToSet(log)
  BY WalAssumption, LenProperties DEF WalInv, WalTypeOK, WalClean
<1>2. Rotate /\ WriteCell(count + 1) /\ count + 1 \in Cell /\ count + 1 # Garbage
  BY <1>1, WalAssumption DEF AppendRecord, Cell, Garbage
<1>3. CASE NeedsRotation
  <2>1. log' = <<count + 1>> /\ pos' = 1 /\ synced' = 0 /\ rotated' = rotated \cup ToSet(log)
    BY <1>1, <1>2, <1>3, ReplayAll DEF WriteCell, Rotate
  <2>2. Len(log') = 1 /\ ToSet(log') = {count + 1}
    BY <2>1 DEF ToSet
  <2>3. Logged \cup {count + 1} \subseteq Logged'
    BY <2>1, <2>2 DEF Logged
  <2>4. {log[i] : i \in 1..synced} \subseteq ToSet(log)
    BY <1>1 DEF ToSet
  <2>5. Safe \subseteq Safe'
    BY <2>1, <2>4 DEF Safe
  <2> QED BY <1>2, <2>1, <2>2, <2>3, <2>5
<1>4. CASE ~ NeedsRotation
  <2>1. /\ log' \in Written(log, pos, count + 1) /\ pos' = pos + 1 /\ rotated' = rotated
        /\ synced' = synced
    BY <1>1, <1>2, <1>4 DEF WriteCell, Rotate
  <2>2. log' = Append(log, count + 1)
    BY <1>1, <1>2, <2>1, WrittenType
  <2>3. /\ Len(log') = Len(log) + 1 /\ ToSet(log') = ToSet(log) \cup {count + 1}
        /\ \A i \in 1..Len(log) : log'[i] = log[i]
    BY <1>1, <1>2, <2>2, AppendElements
  <2>4. Garbage \notin ToSet(log') /\ Logged \cup {count + 1} \subseteq Logged'
    BY <1>1, <1>2, <2>1, <2>3 DEF Logged
  <2>5. \A i \in 1..synced : log'[i] = log[i]
    BY <1>1, <2>3
  <2>6. Safe \subseteq Safe'
    BY <2>1, <2>5 DEF Safe
  <2> QED BY <1>1, <2>1, <2>3, <2>4, <2>6
<1> QED BY <1>3, <1>4

\* A sync in a clean state makes everything safe that was written.
LEMMA SyncClean ==
  ASSUME WalInv, Sync, ~ damaged
  PROVE  Logged \subseteq Safe' /\ Logged' = Logged
<1>1. /\ log \in Seq(Cell) /\ DOMAIN log = 1..Len(log)
      /\ log' = log /\ rotated' = rotated /\ synced' = Len(log)
  BY LenProperties DEF WalInv, WalTypeOK, Sync
<1> QED BY <1>1 DEF Logged, Safe, ToSet

\* What a crash leaves of a clean file is a part of it that holds what was on disk.
LEMMA ReopenClean ==
  ASSUME WalInv, Reopen, ~ damaged
  PROVE  /\ pos' = Len(log') /\ Garbage \notin ToSet(log')
         /\ Safe \subseteq Safe'
<1>1. /\ log \in Seq(Cell) /\ Len(log) \in Nat /\ synced \in 0..Len(log)
      /\ DOMAIN log = 1..Len(log) /\ Garbage \notin ToSet(log)
  BY LenProperties DEF WalInv, WalTypeOK, WalClean
<1>2. PICK n \in synced..Len(log) :
        LET valid == ValidLength(SubSeq(log, 1, n)) IN
        /\ log' = SubSeq(log, 1, valid)
        /\ pos' = valid /\ offset' = valid /\ synced' = valid
  BY DEF Reopen
<1>3. n \in 0..Len(log) /\ synced <= n
  BY <1>1
<1>4. \A i \in 1..n : log[i] # Garbage
  BY <1>1, <1>3 DEF ToSet
<1>5. ValidLength(SubSeq(log, 1, n)) = n
  BY <1>1, <1>3, <1>4, ReplayFull
<1>6. log' = SubSeq(log, 1, n) /\ pos' = n /\ synced' = n /\ rotated' = rotated
  BY <1>2, <1>5 DEF Reopen
<1>7. log' \in Seq(Cell) /\ Len(log') = n /\ \A i \in 1..n : log'[i] = log[i]
  BY <1>1, <1>3, <1>6, PrefixIs
<1>8. DOMAIN log' = 1..n
  BY <1>7, LenProperties
<1>9. Garbage \notin ToSet(log')
  BY <1>4, <1>7, <1>8 DEF ToSet
<1>10. \A i \in 1..synced : i \in 1..n
  BY <1>1, <1>3
<1>11. Safe \subseteq Safe'
  BY <1>6, <1>7, <1>10 DEF Safe
<1> QED BY <1>6, <1>7, <1>9, <1>11

\* Every operation of the log file: the file stays clean until a write or a rotation
\* fails half-way, and until then nothing that is safe is lost.
LEMMA WalOpClean ==
  ASSUME WalInv, WalOp \/ Reopen, ~ damaged'
  PROVE  /\ ~ damaged
         /\ pos' = Len(log') /\ Garbage \notin ToSet(log')
         /\ Safe \subseteq Safe'
         /\ WalOp => Logged \subseteq Logged'
<1>1. CASE AppendRecord
  <2>1. ~ damaged
    BY <1>1 DEF AppendRecord
  <2> QED BY <1>1, <2>1, AppendClean
<1>2. CASE AppendRefused \/ SyncFails \/ UNCHANGED walVars
  <2>1. /\ log' = log /\ pos' = pos /\ synced' = synced /\ rotated' = rotated
        /\ damaged' = damaged
    BY <1>2 DEF AppendRefused, SyncFails, walVars
  <2> QED BY <2>1 DEF WalInv, WalClean, Safe, Logged
<1>3. CASE Sync \/ CloseFile
  <2>1. /\ log' = log /\ pos' = pos /\ synced' \in {synced, Len(log)} /\ rotated' = rotated
        /\ damaged' = damaged
    BY <1>3 DEF Sync, CloseFile
  <2>2. synced \in 0..Len(log) /\ Len(log) \in Nat
    BY LenProperties DEF WalInv, WalTypeOK
  <2>3. \A i \in 1..synced : i \in 1..synced'
    BY <2>1, <2>2
  <2> QED BY <2>1, <2>3 DEF WalInv, WalClean, Safe, Logged
<1>4. CASE AppendTorn \/ RotateCloseFails \/ RotateRenameFails \/ RotateSecondRenameFails
  BY <1>4 DEF AppendTorn, RotateCloseFails, RotateRenameFails, RotateSecondRenameFails,
              RecoverOpen
<1>5. CASE Reopen /\ ~ WalOp
  <2>1. ~ damaged
    BY <1>5 DEF Reopen
  <2> QED BY <1>5, <2>1, ReopenClean
<1> QED BY <1>1, <1>2, <1>3, <1>4, <1>5 DEF WalOp, AppendFails

\* The invariant of the log file.
LEMMA WalStep ==
  ASSUME WalInv, WalOp \/ Reopen
  PROVE  WalInv'
<1>1. WalTypeOK' /\ WalBounded'
  BY WalOpTypes DEF WalInv
<1>2. WalClean'
  BY WalOpClean DEF WalClean
<1> QED BY <1>1, <1>2 DEF WalInv

-----------------------------------------------------------------------------
(* Lemmas about the queue *)

\* A concatenation holds the elements of both sequences, and an element twice only
\* if one of them does or both hold it.
LEMMA ConcatElements ==
  ASSUME NEW S, NEW s \in Seq(S), NEW t \in Seq(S)
  PROVE  /\ s \o t \in Seq(S) /\ Len(s \o t) = Len(s) + Len(t)
         /\ ToSet(s \o t) = ToSet(s) \cup ToSet(t)
         /\ Distinct(s) /\ Distinct(t) /\ ToSet(s) \cap ToSet(t) = {} => Distinct(s \o t)
<1> DEFINE c == s \o t
<1>1. /\ c \in Seq(S) /\ Len(c) = Len(s) + Len(t)
      /\ \A i \in 1..(Len(s) + Len(t)) : c[i] = IF i <= Len(s) THEN s[i] ELSE t[i - Len(s)]
  BY ConcatProperties
<1>2. /\ Len(s) \in Nat /\ Len(t) \in Nat /\ DOMAIN s = 1..Len(s) /\ DOMAIN t = 1..Len(t)
      /\ DOMAIN c = 1..(Len(s) + Len(t))
  BY <1>1, LenProperties
<1> HIDE DEF c
<1>3. \A i \in DOMAIN c : \/ i \in DOMAIN s /\ c[i] = s[i]
                          \/ i - Len(s) \in DOMAIN t /\ c[i] = t[i - Len(s)]
  BY <1>1, <1>2
<1>4. \A i \in DOMAIN s : i \in DOMAIN c /\ c[i] = s[i]
  BY <1>1, <1>2
<1>5. \A i \in DOMAIN t : i + Len(s) \in DOMAIN c /\ c[i + Len(s)] = t[i]
  BY <1>1, <1>2
<1>6. ToSet(c) = ToSet(s) \cup ToSet(t)
  BY <1>3, <1>4, <1>5 DEF ToSet
<1>7. ASSUME Distinct(s), Distinct(t), ToSet(s) \cap ToSet(t) = {}
      PROVE  Distinct(c)
  <2> SUFFICES ASSUME NEW i \in DOMAIN c, NEW j \in DOMAIN c, c[i] = c[j]
               PROVE  i = j
    BY DEF Distinct
  <2>1. i \in Nat /\ j \in Nat
    BY <1>2
  <2>2. CASE /\ i \in DOMAIN s /\ c[i] = s[i]
             /\ j \in DOMAIN s /\ c[j] = s[j]
    BY <1>7, <2>2 DEF Distinct
  <2>3. CASE /\ i - Len(s) \in DOMAIN t /\ c[i] = t[i - Len(s)]
             /\ j - Len(s) \in DOMAIN t /\ c[j] = t[j - Len(s)]
    <3>1. i - Len(s) = j - Len(s)
      BY <1>7, <2>3 DEF Distinct
    <3> QED BY <1>2, <2>1, <3>1
  <2>4. CASE \/ /\ i \in DOMAIN s /\ c[i] = s[i]
                /\ j - Len(s) \in DOMAIN t /\ c[j] = t[j - Len(s)]
             \/ /\ j \in DOMAIN s /\ c[j] = s[j]
                /\ i - Len(s) \in DOMAIN t /\ c[i] = t[i - Len(s)]
    BY <1>7, <2>4 DEF ToSet
  <2> QED BY <1>3, <2>2, <2>3, <2>4
<1> QED BY <1>1, <1>6, <1>7 DEF c

\* The last k elements of a sequence.
LEMMA EndIs ==
  ASSUME NEW S, NEW s \in Seq(S), NEW m \in Nat, NEW k \in Nat, m + k = Len(s)
  PROVE  /\ SubSeq(s, m + 1, Len(s)) \in Seq(S)
         /\ Len(SubSeq(s, m + 1, Len(s))) = k
         /\ \A i \in 1..k : SubSeq(s, m + 1, Len(s))[i] = s[m + i] /\ m + i \in 1..Len(s)
<1>1. /\ m + 1 \in Int /\ Len(s) \in Int
      /\ \A i \in (m + 1)..Len(s) : s[i] \in S
  BY ElementOfSeq, LenProperties
<1> DEFINE p == m + 1
           q == Len(s)
           n == SubSeq(s, p, q)
<1>2. p \in Int /\ q \in Int /\ \A i \in p..q : s[i] \in S
  BY <1>1
<1> HIDE DEF p, q
<1>3. /\ n \in Seq(S) /\ Len(n) = IF p <= q THEN q - p + 1 ELSE 0
      /\ \A i \in 1..(q - p + 1) : n[i] = s[p + i - 1]
  BY <1>2, SubSeqProperties
<1> HIDE DEF n
<1>4. q - p + 1 = k /\ Len(n) = k
  BY <1>3 DEF p, q
<1>5. \A i \in 1..k : p + i - 1 = m + i /\ m + i \in 1..q
  BY DEF p, q
<1>6. n \in Seq(S) /\ Len(n) = k /\ \A i \in 1..k : n[i] = s[m + i] /\ m + i \in 1..q
  BY <1>3, <1>4, <1>5
<1> QED BY <1>6 DEF n, p, q

\* An overlong queue loses its first requests; nothing else happens to it.
LEMMA NewestKeeps ==
  ASSUME NEW S, NEW s \in Seq(S)
  PROVE  /\ Newest(s) \in Seq(S) /\ ToSet(Newest(s)) \subseteq ToSet(s)
         /\ Len(Newest(s)) <= MaxPending
         /\ Len(s) <= MaxPending => Newest(s) = s
         /\ Distinct(s) => Distinct(Newest(s))
<1>1. Len(s) \in Nat /\ DOMAIN s = 1..Len(s) /\ MaxPending \in Nat \ {0}
  BY GroupCommitAssumption, LenProperties
<1>2. CASE Len(s) <= MaxPending
  <2>1. Newest(s) = s
    BY <1>1, <1>2 DEF Newest
  <2> QED BY <1>2, <2>1
<1>3. CASE ~ Len(s) <= MaxPending
  <2> DEFINE m == Len(s) - MaxPending
             n == SubSeq(s, m + 1, Len(s))
  <2>1. m \in Nat /\ m + MaxPending = Len(s) /\ m + 1 \in 1..Len(s)
    BY <1>1, <1>3
  <2>2. Newest(s) = n
    BY <1>1, <1>3 DEF Newest
  <2> HIDE DEF m
  <2>3. /\ n \in Seq(S) /\ Len(n) = MaxPending
        /\ \A i \in 1..MaxPending : n[i] = s[m + i] /\ m + i \in 1..Len(s)
    BY <1>1, <2>1, EndIs
  <2> HIDE DEF n
  <2>4. DOMAIN n = 1..MaxPending
    BY <2>3, LenProperties
  <2>5. ToSet(n) \subseteq ToSet(s)
    BY <1>1, <2>3, <2>4 DEF ToSet
  <2>6. ASSUME Distinct(s) PROVE Distinct(n)
    <3> SUFFICES ASSUME NEW i \in 1..MaxPending, NEW j \in 1..MaxPending, n[i] = n[j]
                 PROVE  i = j
      BY <2>4 DEF Distinct
    <3>1. m + i = m + j
      BY <1>1, <2>3, <2>6 DEF Distinct
    <3> QED BY <1>1, <2>1, <3>1
  <2> QED BY <1>1, <1>3, <2>2, <2>3, <2>5, <2>6
<1> QED BY <1>2, <1>3

\* One more request at the end of the queue.
LEMMA AppendDistinct ==
  ASSUME NEW S, NEW s \in Seq(S), NEW e \in S, Distinct(s), e \notin ToSet(s)
  PROVE  Distinct(Append(s, e))
<1> DEFINE a == Append(s, e)
<1>1. /\ Len(s) \in Nat /\ DOMAIN s = 1..Len(s) /\ DOMAIN a = 1..(Len(s) + 1)
      /\ a[Len(s) + 1] = e /\ \A i \in 1..Len(s) : a[i] = s[i]
  BY AppendProperties, LenProperties
<1> HIDE DEF a
<1>2. \A i \in 1..Len(s) : a[i] # e
  BY <1>1 DEF ToSet
<1>3. \A i \in DOMAIN a : i \in 1..Len(s) \/ i = Len(s) + 1
  BY <1>1
<1>4. Distinct(a)
  BY <1>1, <1>2, <1>3 DEF Distinct
<1> QED BY <1>4 DEF a

\* An empty queue.
LEMMA NothingQueued == ToSet(<<>>) = {} /\ Distinct(<<>>) /\ \A S : <<>> \in Seq(S)
BY DEF ToSet, Distinct

\* As many elements as places, if no element is there twice.
LEMMA DistinctCardinality ==
  ASSUME NEW S, NEW s \in Seq(S), Distinct(s)
  PROVE  IsFiniteSet(ToSet(s)) /\ Cardinality(ToSet(s)) = Len(s)
<1>1. Len(s) \in Nat /\ DOMAIN s = 1..Len(s)
  BY LenProperties
<1>2. IsFiniteSet(1..Len(s)) /\ Cardinality(1..Len(s)) = Len(s)
  BY <1>1, FS_Interval
<1>3. s \in [1..Len(s) -> ToSet(s)]
  BY <1>1 DEF ToSet
<1>4. s \in Bijection(1..Len(s), ToSet(s))
  BY <1>1, <1>3 DEF Distinct, ToSet, Bijection, Injection, Surjection, IsInjective
<1>5. ExistsBijection(1..Len(s), ToSet(s))
  BY <1>4 DEF ExistsBijection
<1> QED BY <1>2, <1>5, FS_Bijection

-----------------------------------------------------------------------------
(* The steps: the log file and the types *)

\* What a step does to the log file is one of its operations; only a restart opens it.
LEMMA NextIsWalOp ==
  ASSUME Next
  PROVE  WalOp \/ (Restart /\ Reopen)
<1>1. ASSUME NEW w \in Writers, WriterNext(w)
      PROVE  WalOp
  BY <1>1 DEF WriterNext, WriteRecord, WriteRefused, ReadCommitter, DirectSync, Submit, WalOp
<1>2. ASSUME RunNext
      PROVE  WalOp
  BY <1>2 DEF RunNext, RunNotified, RunTick, RunClosing, RunTake, RunSync, SyncOk, SyncError,
              WalOp
<1>3. ASSUME FlushNext
      PROVE  WalOp
  BY <1>3 DEF FlushNext, FlushReadCommitter, FlushTake, FlushSync, FlushAppend,
              FlushSyncCheckpoint, SyncOk, SyncError, WalOp
<1>4. ASSUME CloseBegin \/ CloseEnd
      PROVE  WalOp
  BY <1>4 DEF CloseBegin, CloseEnd, WalOp
<1>5. ASSUME Restart
      PROVE  Reopen
  BY <1>5 DEF Restart
<1> QED BY <1>1, <1>2, <1>3, <1>4, <1>5 DEF Next

\* The writers whose channels are closed.
LEMMA ReleaseTypes ==
  ASSUME TypesHold, WalTypeOK, NEW ws \in SUBSET Writers, Release(ws)
  PROVE  /\ wPc' \in [Writers -> {"idle", "appended", "submit", "direct", "waiting"}]
         /\ wRec' \in [Writers -> Cell]
         /\ acked' \subseteq Cell
         /\ {wRec[w] : w \in ws} \subseteq Cell
<1>1. Garbage \in Cell
  BY WalAssumption DEF Garbage, Cell
<1> QED BY <1>1 DEF TypesHold, Release, Garbage

\* A doSync after its sync.
LEMMA DoSyncTypes ==
  ASSUME TypesHold, WalTypeOK, NEW batch \in Seq(Writers), SyncOk(batch) \/ SyncError(batch)
  PROVE  /\ wPc' \in [Writers -> {"idle", "appended", "submit", "direct", "waiting"}]
         /\ wRec' \in [Writers -> Cell]
         /\ queue' \in Seq(Writers)
         /\ acked' \subseteq Cell /\ dropped' \subseteq Cell
         /\ late' = late /\ endFailed' \in BOOLEAN
<1>1. queue \in Seq(Writers) /\ acked \subseteq Cell /\ dropped \subseteq Cell
  BY DEF TypesHold
<1>2. \A s \in Seq(Writers) : ToSet(s) \subseteq Writers
  BY LenProperties, ElementOfSeq DEF ToSet
<1>3. CASE SyncOk(batch)
  <2>1. ToSet(batch) \in SUBSET Writers
    BY <1>2
  <2>2. Release(ToSet(batch)) /\ queue' = queue /\ dropped' = dropped /\ late' = late
        /\ endFailed' = endFailed
    BY <1>3 DEF SyncOk, noteVars
  <2> QED BY <1>1, <2>1, <2>2, ReleaseTypes DEF TypesHold
<1>4. CASE SyncError(batch)
  <2> DEFINE all == batch \o queue
             over == ToSet(all) \ ToSet(queue')
  <2>1. all \in Seq(Writers)
    BY <1>1, ConcatElements
  <2>2. over \in SUBSET Writers
    BY <1>2, <2>1
  <2>3. /\ queue' = Newest(all) /\ Release(over) /\ dropped' = dropped \cup {wRec[w] : w \in over}
        /\ endFailed' = (endFailed \/ closePc # "open") /\ late' = late
    BY <1>4 DEF SyncError
  <2> HIDE DEF all, over
  <2>4. queue' \in Seq(Writers)
    BY <2>1, <2>3, NewestKeeps
  <2>5. endFailed' \in BOOLEAN
    BY <2>3 DEF TypesHold
  <2> QED BY <1>1, <2>2, <2>3, <2>4, <2>5, ReleaseTypes
<1> QED BY <1>3, <1>4

\* The types, over all steps.
LEMMA TypesStep ==
  ASSUME WalTypeOK, TypesHold, Next
  PROVE  TypesHold'
<1>1. <<>> \in Seq(Writers) /\ 0 \in Cell /\ queue \in Seq(Writers)
  BY WalAssumption DEF Cell, TypesHold
<1>2. ASSUME NEW w \in Writers, WriteRecord(w)
      PROVE  TypesHold'
  <2>1. count + 1 \in Cell
    BY <1>2, WalAssumption DEF WriteRecord, AppendRecord, WalTypeOK, Cell
  <2> QED BY <1>2, <2>1 DEF WriteRecord, TypesHold, closeVars, commitVars, noteVars
<1>3. ASSUME NEW w \in Writers, WriteRefused(w) \/ ReadCommitter(w) \/ DirectSync(w)
      PROVE  TypesHold'
  BY <1>1, <1>3 DEF WriteRefused, ReadCommitter, DirectSync, TypesHold, clientVars, closeVars,
                    commitVars, noteVars
<1>4. ASSUME NEW w \in Writers, Submit(w)
      PROVE  TypesHold'
  <2>1. queue' \in Seq(Writers)
    BY <1>1, <1>4, AppendProperties DEF Submit
  <2> QED BY <1>4, <2>1 DEF Submit, TypesHold, closeVars
<1>5. ASSUME RunNotified \/ RunTick \/ RunClosing
      PROVE  TypesHold'
  BY <1>1, <1>5 DEF RunNotified, RunTick, RunClosing, RunTake, TypesHold, clientVars, closeVars,
                    noteVars
<1>6. ASSUME RunSync
      PROVE  TypesHold'
  <2>1. runBatch \in Seq(Writers)
    BY DEF TypesHold
  <2>2. SyncOk(runBatch) \/ SyncError(runBatch)
    BY <1>6 DEF RunSync
  <2>3. /\ wPc' \in [Writers -> {"idle", "appended", "submit", "direct", "waiting"}]
        /\ wRec' \in [Writers -> Cell]
        /\ queue' \in Seq(Writers)
        /\ acked' \subseteq Cell /\ dropped' \subseteq Cell
        /\ late' = late /\ endFailed' \in BOOLEAN
    BY <2>1, <2>2, DoSyncTypes
  <2> QED BY <1>1, <1>6, <2>3 DEF RunSync, TypesHold, closeVars
<1>7. ASSUME FlushReadCommitter \/ FlushTake \/ FlushAppend \/ FlushSyncCheckpoint
      PROVE  TypesHold'
  BY <1>1, <1>7 DEF FlushReadCommitter, FlushTake, FlushAppend, FlushSyncCheckpoint, TypesHold,
                    clientVars, closeVars, noteVars
<1>8. ASSUME FlushSync
      PROVE  TypesHold'
  <2>1. flushBatch \in Seq(Writers)
    BY DEF TypesHold
  <2>2. SyncOk(flushBatch) \/ SyncError(flushBatch)
    BY <1>8 DEF FlushSync
  <2>3. /\ wPc' \in [Writers -> {"idle", "appended", "submit", "direct", "waiting"}]
        /\ wRec' \in [Writers -> Cell]
        /\ queue' \in Seq(Writers)
        /\ acked' \subseteq Cell /\ dropped' \subseteq Cell
        /\ late' = late /\ endFailed' \in BOOLEAN
    BY <2>1, <2>2, DoSyncTypes
  <2> QED BY <1>1, <1>8, <2>3 DEF FlushSync, TypesHold, closeVars
<1>9. ASSUME CloseBegin \/ CloseEnd
      PROVE  TypesHold'
  BY <1>9 DEF CloseBegin, CloseEnd, TypesHold, clientVars, commitVars, noteVars
<1>10. ASSUME Restart
       PROVE  TypesHold'
  BY <1>1, <1>10 DEF Restart, TypesHold
<1> QED BY <1>2, <1>3, <1>4, <1>5, <1>6, <1>7, <1>8, <1>9, <1>10
        DEF Next, WriterNext, RunNext, FlushNext

\* A doSync holds its batch until the outcome of its sync.
LEMMA BatchesStep ==
  ASSUME BatchesTaken, Next
  PROVE  BatchesTaken'
<1>1. ASSUME NEW w \in Writers, WriterNext(w)
      PROVE  BatchesTaken'
  BY <1>1 DEF WriterNext, WriteRecord, WriteRefused, ReadCommitter, DirectSync, Submit,
              commitVars, BatchesTaken
<1>2. ASSUME RunNext
      PROVE  BatchesTaken'
  BY <1>2 DEF RunNext, RunNotified, RunTick, RunClosing, RunTake, RunSync, BatchesTaken
<1>3. ASSUME FlushNext
      PROVE  BatchesTaken'
  BY <1>3 DEF FlushNext, FlushReadCommitter, FlushTake, FlushSync, FlushAppend,
              FlushSyncCheckpoint, BatchesTaken
<1>4. ASSUME CloseBegin \/ CloseEnd \/ Restart
      PROVE  BatchesTaken'
  BY <1>4 DEF CloseBegin, CloseEnd, Restart, commitVars, BatchesTaken
<1> QED BY <1>1, <1>2, <1>3, <1>4 DEF Next

-----------------------------------------------------------------------------
(* The steps: what becomes of the records *)

\* Closing the channels of writers that wait, when their records are safe or their
\* requests are dropped.
LEMMA ReleaseRecords ==
  ASSUME RecordsKept, TypesHold, NEW ws \in SUBSET Writers, Release(ws), damaged' = damaged,
         ~ damaged => /\ Logged \subseteq Logged' /\ Safe \subseteq Safe'
                      /\ {wRec[w] : w \in ws} \ dropped' \subseteq Safe',
         dropped \subseteq dropped'
  PROVE  RecordsKept'
<1>1. \A w \in Writers : /\ wPc'[w] = IF w \in ws THEN "idle" ELSE wPc[w]
                         /\ wRec'[w] = IF w \in ws THEN 0 ELSE wRec[w]
  BY DEF Release
<1>2. acked' = acked \cup {wRec[w] : w \in ws}
  BY DEF Release
<1>3. \A w \in Writers : wPc'[w] = "idle" <=> wRec'[w] = 0
  BY <1>1 DEF RecordsKept
<1>4. ASSUME ~ damaged'
      PROVE  /\ \A w \in Writers : wRec'[w] # 0 => wRec'[w] \in Logged'
             /\ acked' \ dropped' \subseteq Safe'
  <2>1. \A w \in Writers : wRec[w] # 0 => wRec[w] \in Logged'
    BY <1>4 DEF RecordsKept
  <2>2. acked \ dropped \subseteq Safe'
    BY <1>4 DEF RecordsKept
  <2> QED BY <1>1, <1>2, <1>4, <2>1, <2>2
<1> QED BY <1>3, <1>4 DEF RecordsKept

\* The elements of a queue are writers.
LEMMA QueueWriters == \A s \in Seq(Writers) : ToSet(s) \subseteq Writers
BY LenProperties, ElementOfSeq DEF ToSet

\* After its sync a doSync acknowledges what is safe, or drops what it acknowledges.
LEMMA DoSyncRecords ==
  ASSUME RecordsKept, TypesHold, WalInv, NEW batch \in Seq(Writers), ToSet(batch) \subseteq Waiting,
         SyncOk(batch) \/ SyncError(batch)
  PROVE  RecordsKept'
<1>1. queue \in Seq(Writers)
  BY DEF TypesHold
<1>2. CASE SyncOk(batch)
  <2> DEFINE ws == ToSet(batch)
  <2>1. /\ ws \in SUBSET Writers /\ Release(ws) /\ dropped' = dropped /\ Sync
        /\ damaged' = damaged
    BY <1>2, QueueWriters DEF SyncOk, Sync
  <2>2. \A w \in ws : wRec[w] # 0
    <3>1. \A w \in ws : w \in Writers /\ wPc[w] # "idle"
      BY DEF Waiting
    <3> QED BY <3>1 DEF RecordsKept
  <2> HIDE DEF ws
  <2>3. ASSUME ~ damaged
        PROVE  /\ Logged \subseteq Logged' /\ Safe \subseteq Safe'
               /\ {wRec[w] : w \in ws} \ dropped' \subseteq Safe'
    <3>1. Logged' = Logged /\ Logged \subseteq Safe'
      BY <2>1, <2>3, SyncClean
    <3>2. Safe \subseteq Safe'
      BY <2>1, <2>3, WalOpClean DEF WalOp
    <3>3. \A w \in ws : wRec[w] \in Logged
      BY <2>1, <2>2, <2>3 DEF RecordsKept
    <3> QED BY <3>1, <3>2, <3>3
  <2> QED BY <2>1, <2>3, ReleaseRecords
<1>3. CASE SyncError(batch)
  <2> DEFINE ws == ToSet(batch \o queue) \ ToSet(queue')
  <2>1. batch \o queue \in Seq(Writers)
    BY <1>1, ConcatElements
  <2>2. ws \in SUBSET Writers
    BY <2>1, QueueWriters
  <2>3. /\ Release(ws) /\ dropped' = dropped \cup {wRec[w] : w \in ws} /\ SyncFails
        /\ damaged' = damaged
    BY <1>3 DEF SyncError, SyncFails
  <2> HIDE DEF ws
  <2>4. ASSUME ~ damaged
        PROVE  /\ Logged \subseteq Logged' /\ Safe \subseteq Safe'
               /\ {wRec[w] : w \in ws} \ dropped' \subseteq Safe'
    <3>1. Logged \subseteq Logged' /\ Safe \subseteq Safe'
      BY <2>3, <2>4, WalOpClean DEF WalOp
    <3> QED BY <2>3, <3>1
  <2> QED BY <2>2, <2>3, <2>4, ReleaseRecords
<1> QED BY <1>2, <1>3

\* A step that acknowledges nothing.
LEMMA FrameRecords ==
  ASSUME RecordsKept, WalInv, WalOp, UNCHANGED <<wRec, acked, dropped>>,
         \A w \in Writers : wPc'[w] = "idle" <=> wPc[w] = "idle"
  PROVE  RecordsKept'
<1>1. ~ damaged' => ~ damaged /\ Safe \subseteq Safe' /\ Logged \subseteq Logged'
  BY WalOpClean
<1> QED BY <1>1 DEF RecordsKept

\* RecordsKept, over all steps.
LEMMA RecordsStep ==
  ASSUME RecordsKept, TypesHold, WalInv, WaitersOnce, Next
  PROVE  RecordsKept'
<1>1. /\ queue \in Seq(Writers) /\ runBatch \in Seq(Writers) /\ flushBatch \in Seq(Writers)
      /\ ToSet(runBatch) \subseteq Waiting /\ ToSet(flushBatch) \subseteq Waiting
      /\ DOMAIN wPc = Writers /\ DOMAIN wRec = Writers
  BY DEF TypesHold, WaitersOnce
<1>2. WalOp \/ (Restart /\ Reopen)
  BY NextIsWalOp
<1>3. ASSUME NEW w \in Writers, WriteRecord(w)
      PROVE  RecordsKept'
  <2>1. /\ AppendRecord /\ acked' = acked /\ dropped' = dropped
        /\ wPc' = [wPc EXCEPT ![w] = "appended"]
        /\ wRec' = [wRec EXCEPT ![w] = count + 1]
    BY <1>3 DEF WriteRecord, commitVars
  <2>2. /\ wPc'[w] = "appended" /\ wRec'[w] = count + 1
        /\ \A x \in Writers \ {w} : wPc'[x] = wPc[x] /\ wRec'[x] = wRec[x]
    BY <1>1, <2>1
  <2>3. count + 1 # 0
    BY DEF WalInv, WalTypeOK
  <2>4. \A x \in Writers : wPc'[x] = "idle" <=> wRec'[x] = 0
    BY <2>2, <2>3 DEF RecordsKept
  <2>5. ASSUME ~ damaged'
        PROVE  /\ ~ damaged /\ Safe \subseteq Safe'
               /\ Logged \cup {count + 1} \subseteq Logged'
    BY <2>1, <2>5, AppendClean DEF AppendRecord
  <2> QED BY <2>1, <2>2, <2>4, <2>5 DEF RecordsKept
<1>4. ASSUME NEW w \in Writers, DirectSync(w)
      PROVE  RecordsKept'
  <2>1. /\ \/ Sync /\ acked' = acked \cup {wRec[w]}
           \/ SyncFails /\ acked' = acked
        /\ wPc[w] = "direct" /\ dropped' = dropped
        /\ wPc' = [wPc EXCEPT ![w] = "idle"]
        /\ wRec' = [wRec EXCEPT ![w] = 0]
    BY <1>4 DEF DirectSync, commitVars
  <2>2. /\ wPc'[w] = "idle" /\ wRec'[w] = 0
        /\ \A x \in Writers \ {w} : wPc'[x] = wPc[x] /\ wRec'[x] = wRec[x]
    BY <1>1, <2>1
  <2>3. WalOp /\ damaged' = damaged
    BY <2>1 DEF WalOp, Sync, SyncFails
  <2>4. ASSUME ~ damaged
        PROVE  Safe \subseteq Safe' /\ Logged \subseteq Logged' /\ acked' \ dropped' \subseteq Safe'
    <3>1. Safe \subseteq Safe' /\ Logged \subseteq Logged'
      BY <2>3, <2>4, WalOpClean
    <3>2. acked \ dropped \subseteq Safe'
      BY <2>4, <3>1 DEF RecordsKept
    <3>3. wRec[w] \in Logged
      BY <2>1, <2>4 DEF RecordsKept
    <3>4. CASE Sync /\ acked' = acked \cup {wRec[w]}
      <4>1. Logged \subseteq Safe'
        BY <2>4, <3>4, SyncClean
      <4> QED BY <2>1, <3>1, <3>2, <3>3, <3>4, <4>1
    <3>5. CASE acked' = acked
      BY <2>1, <3>1, <3>2, <3>5
    <3> QED BY <2>1, <3>4, <3>5
  <2> QED BY <2>2, <2>3, <2>4 DEF RecordsKept
<1>5. ASSUME NEW w \in Writers, WriteRefused(w) \/ ReadCommitter(w) \/ Submit(w)
      PROVE  RecordsKept'
  <2>1. WalOp
    BY <1>5 DEF WriteRefused, ReadCommitter, Submit, WalOp
  <2>2. UNCHANGED <<wRec, acked, dropped>>
    BY <1>5 DEF WriteRefused, ReadCommitter, Submit, clientVars, commitVars
  <2>3. \A x \in Writers : wPc'[x] = "idle" <=> wPc[x] = "idle"
    BY <1>1, <1>5 DEF WriteRefused, ReadCommitter, Submit, clientVars
  <2> QED BY <2>1, <2>2, <2>3, FrameRecords
<1>6. ASSUME \/ RunNotified \/ RunTick \/ RunClosing
             \/ FlushReadCommitter \/ FlushTake \/ FlushAppend \/ FlushSyncCheckpoint
             \/ CloseBegin \/ CloseEnd
      PROVE  RecordsKept'
  <2>1. WalOp
    BY <1>6 DEF RunNotified, RunTick, RunClosing, RunTake, FlushReadCommitter, FlushTake,
                FlushAppend, FlushSyncCheckpoint, CloseBegin, CloseEnd, WalOp
  <2>2. UNCHANGED <<wPc, wRec, acked, dropped>>
    BY <1>6 DEF RunNotified, RunTick, RunClosing, RunTake, FlushReadCommitter, FlushTake,
                FlushAppend, FlushSyncCheckpoint, CloseBegin, CloseEnd, clientVars, commitVars
  <2> QED BY <2>1, <2>2, FrameRecords
<1>7. ASSUME RunSync
      PROVE  RecordsKept'
  <2>1. SyncOk(runBatch) \/ SyncError(runBatch)
    BY <1>7 DEF RunSync
  <2> QED BY <1>1, <2>1, DoSyncRecords
<1>8. ASSUME FlushSync
      PROVE  RecordsKept'
  <2>1. SyncOk(flushBatch) \/ SyncError(flushBatch)
    BY <1>8 DEF FlushSync
  <2> QED BY <1>1, <2>1, DoSyncRecords
<1>9. ASSUME Restart
      PROVE  RecordsKept'
  <2>1. /\ \A w \in Writers : wPc'[w] = "idle" /\ wRec'[w] = 0
        /\ acked' = acked /\ dropped' = dropped /\ Reopen
    BY <1>9 DEF Restart
  <2>2. ~ damaged' => ~ damaged /\ Safe \subseteq Safe'
    BY <2>1, WalOpClean
  <2> QED BY <2>1, <2>2 DEF RecordsKept
<1> QED BY <1>3, <1>4, <1>5, <1>6, <1>7, <1>8, <1>9 DEF Next, WriterNext, RunNext, FlushNext

-----------------------------------------------------------------------------
(* The steps: who waits, and where *)

\* The outcome of a sync: the batch is answered or goes back in front of the queue,
\* and the requests of the other doSync stay where they are.
LEMMA DoSyncWaiters ==
  ASSUME TypesHold, NEW batch \in Seq(Writers), NEW other \in Seq(Writers),
         Distinct(batch), Distinct(queue),
         ToSet(queue) \cap ToSet(batch) = {},
         ToSet(queue) \cap ToSet(other) = {},
         ToSet(batch) \cap ToSet(other) = {},
         Waiting = ToSet(queue) \cup ToSet(batch) \cup ToSet(other),
         SyncOk(batch) \/ SyncError(batch)
  PROVE  /\ Distinct(queue')
         /\ ToSet(queue') \cap ToSet(other) = {}
         /\ Waiting' = ToSet(queue') \cup ToSet(other)
<1>1. queue \in Seq(Writers)
  BY DEF TypesHold
<1>2. ASSUME NEW ws \in SUBSET Writers, Release(ws)
      PROVE  Waiting' = Waiting \ ws
  <2>1. \A w \in Writers : wPc'[w] = IF w \in ws THEN "idle" ELSE wPc[w]
    BY <1>2 DEF Release
  <2> QED BY <2>1 DEF Waiting
<1>3. CASE SyncOk(batch)
  <2>1. queue' = queue /\ Release(ToSet(batch)) /\ ToSet(batch) \in SUBSET Writers
    BY <1>3, QueueWriters DEF SyncOk
  <2>2. Waiting' = Waiting \ ToSet(batch)
    BY <1>2, <2>1
  <2> QED BY <2>1, <2>2
<1>4. CASE SyncError(batch)
  <2> DEFINE all == batch \o queue
             over == ToSet(all) \ ToSet(queue')
  <2>1. all \in Seq(Writers) /\ ToSet(all) = ToSet(batch) \cup ToSet(queue) /\ Distinct(all)
    BY <1>1, ConcatElements
  <2>2. queue' = Newest(all) /\ Release(over) /\ over \in SUBSET Writers
    BY <1>4, <2>1, QueueWriters DEF SyncError
  <2> HIDE DEF all
  <2>3. Distinct(queue') /\ ToSet(queue') \subseteq ToSet(all)
    BY <2>1, <2>2, NewestKeeps
  <2>4. Waiting' = Waiting \ over
    BY <1>2, <2>2
  <2> QED BY <2>1, <2>3, <2>4
<1> QED BY <1>3, <1>4

\* A step that moves no request.
LEMMA FrameWaiters ==
  ASSUME WaitersOnce, UNCHANGED <<queue, runBatch, flushBatch>>,
         \A w \in Writers : wPc'[w] = "waiting" <=> wPc[w] = "waiting"
  PROVE  WaitersOnce'
<1>1. Waiting' = Waiting
  BY DEF Waiting
<1> QED BY <1>1 DEF WaitersOnce

\* WaitersOnce, over all steps.
LEMMA WaitersStep ==
  ASSUME TypesHold, WaitersOnce, BatchesTaken, Next
  PROVE  WaitersOnce'
<1>1. /\ queue \in Seq(Writers) /\ runBatch \in Seq(Writers) /\ flushBatch \in Seq(Writers)
      /\ DOMAIN wPc = Writers
  BY DEF TypesHold
<1>2. ASSUME NEW w \in Writers,
             WriteRecord(w) \/ WriteRefused(w) \/ ReadCommitter(w) \/ DirectSync(w)
      PROVE  WaitersOnce'
  <2>1. UNCHANGED <<queue, runBatch, flushBatch>>
    BY <1>2 DEF WriteRecord, WriteRefused, ReadCommitter, DirectSync, commitVars
  <2>2. \A x \in Writers : wPc'[x] = "waiting" <=> wPc[x] = "waiting"
    BY <1>1, <1>2 DEF WriteRecord, WriteRefused, ReadCommitter, DirectSync, clientVars
  <2> QED BY <2>1, <2>2, FrameWaiters
<1>3. ASSUME NEW w \in Writers, Submit(w)
      PROVE  WaitersOnce'
  <2>1. /\ wPc[w] = "submit" /\ wPc' = [wPc EXCEPT ![w] = "waiting"]
        /\ queue' = Append(queue, w) /\ UNCHANGED <<runBatch, flushBatch>>
    BY <1>3 DEF Submit
  <2>2. w \notin Waiting /\ Waiting' = Waiting \cup {w}
    BY <1>1, <2>1 DEF Waiting
  <2>3. ToSet(queue') = ToSet(queue) \cup {w}
    BY <1>1, <2>1, AppendElements
  <2>4. w \notin ToSet(queue) /\ w \notin ToSet(runBatch) /\ w \notin ToSet(flushBatch)
    BY <2>2 DEF WaitersOnce
  <2>5. Distinct(queue')
    BY <1>1, <2>1, <2>4, AppendDistinct DEF WaitersOnce
  <2> QED BY <2>1, <2>2, <2>3, <2>4, <2>5 DEF WaitersOnce
<1>4. ASSUME RunNotified \/ RunTick \/ RunClosing
      PROVE  WaitersOnce'
  <2>1. /\ runPc = "select" /\ runBatch' = queue /\ queue' = <<>>
        /\ flushBatch' = flushBatch /\ wPc' = wPc
    BY <1>4 DEF RunNotified, RunTick, RunClosing, RunTake, clientVars
  <2>2. runBatch = <<>>
    BY <2>1 DEF BatchesTaken
  <2>3. Waiting' = Waiting
    BY <2>1 DEF Waiting
  <2>4. ToSet(queue') = {} /\ Distinct(queue') /\ ToSet(runBatch) = {}
    BY <2>1, <2>2, NothingQueued
  <2>5. /\ ToSet(runBatch') = ToSet(queue) /\ Distinct(runBatch') <=> Distinct(queue)
        /\ ToSet(flushBatch') = ToSet(flushBatch) /\ Distinct(flushBatch') <=> Distinct(flushBatch)
    BY <2>1
  <2> QED BY <2>3, <2>4, <2>5 DEF WaitersOnce
<1>5. ASSUME FlushTake
      PROVE  WaitersOnce'
  <2>1. /\ flushPc = "take" /\ flushBatch' = queue /\ queue' = <<>>
        /\ runBatch' = runBatch /\ wPc' = wPc
    BY <1>5 DEF FlushTake, clientVars
  <2>2. flushBatch = <<>>
    BY <2>1 DEF BatchesTaken
  <2>3. Waiting' = Waiting
    BY <2>1 DEF Waiting
  <2>4. ToSet(queue') = {} /\ Distinct(queue') /\ ToSet(flushBatch) = {}
    BY <2>1, <2>2, NothingQueued
  <2>5. /\ ToSet(flushBatch') = ToSet(queue) /\ Distinct(flushBatch') <=> Distinct(queue)
        /\ ToSet(runBatch') = ToSet(runBatch) /\ Distinct(runBatch') <=> Distinct(runBatch)
    BY <2>1
  <2> QED BY <2>3, <2>4, <2>5 DEF WaitersOnce
<1>6. ASSUME RunSync
      PROVE  WaitersOnce'
  <2>1. /\ SyncOk(runBatch) \/ SyncError(runBatch)
        /\ runBatch' = <<>> /\ flushBatch' = flushBatch
    BY <1>6 DEF RunSync
  <2>2. /\ Distinct(queue')
        /\ ToSet(queue') \cap ToSet(flushBatch) = {}
        /\ Waiting' = ToSet(queue') \cup ToSet(flushBatch)
    BY <1>1, <2>1, DoSyncWaiters DEF WaitersOnce
  <2>3. ToSet(runBatch') = {} /\ Distinct(runBatch')
    BY <2>1, NothingQueued
  <2> QED BY <2>1, <2>2, <2>3 DEF WaitersOnce
<1>7. ASSUME FlushSync
      PROVE  WaitersOnce'
  <2>1. /\ SyncOk(flushBatch) \/ SyncError(flushBatch)
        /\ flushBatch' = <<>> /\ runBatch' = runBatch
    BY <1>7 DEF FlushSync
  <2>2. /\ ToSet(flushBatch) \cap ToSet(runBatch) = {}
        /\ Waiting = ToSet(queue) \cup ToSet(flushBatch) \cup ToSet(runBatch)
    BY DEF WaitersOnce
  <2>3. /\ Distinct(queue')
        /\ ToSet(queue') \cap ToSet(runBatch) = {}
        /\ Waiting' = ToSet(queue') \cup ToSet(runBatch)
    BY <1>1, <2>1, <2>2, DoSyncWaiters DEF WaitersOnce
  <2>4. ToSet(flushBatch') = {} /\ Distinct(flushBatch')
    BY <2>1, NothingQueued
  <2> QED BY <2>1, <2>3, <2>4 DEF WaitersOnce
<1>8. ASSUME \/ FlushReadCommitter \/ FlushAppend \/ FlushSyncCheckpoint
             \/ CloseBegin \/ CloseEnd
      PROVE  WaitersOnce'
  <2>1. UNCHANGED <<queue, runBatch, flushBatch, wPc>>
    BY <1>8 DEF FlushReadCommitter, FlushAppend, FlushSyncCheckpoint, CloseBegin, CloseEnd,
                clientVars, commitVars
  <2> QED BY <2>1, FrameWaiters
<1>9. ASSUME Restart
      PROVE  WaitersOnce'
  <2>1. /\ queue' = <<>> /\ runBatch' = <<>> /\ flushBatch' = <<>>
        /\ wPc' = [w \in Writers |-> "idle"]
    BY <1>9 DEF Restart
  <2>2. Waiting' = {}
    BY <2>1 DEF Waiting
  <2> QED BY <2>1, <2>2, NothingQueued DEF WaitersOnce
<1> QED BY <1>2, <1>3, <1>4, <1>5, <1>6, <1>7, <1>8, <1>9
        DEF Next, WriterNext, RunNext, FlushNext

\* From its last look at the queue on, what the goroutine leaves there is late, or a
\* sync has failed since Close began.
LEMMA StrandedStep ==
  ASSUME TypesHold, Stranded, Next
  PROVE  Stranded'
<1>1. ASSUME NEW w \in Writers,
             WriteRecord(w) \/ WriteRefused(w) \/ ReadCommitter(w) \/ DirectSync(w)
      PROVE  Stranded'
  BY <1>1 DEF WriteRecord, WriteRefused, ReadCommitter, DirectSync, closeVars, commitVars,
              noteVars, Stranded
<1>2. ASSUME NEW w \in Writers, Submit(w)
      PROVE  Stranded'
  <2>1. queue' = Append(queue, w) /\ queue \in Seq(Writers)
    BY <1>2 DEF Submit, TypesHold
  <2>2. ToSet(queue') = ToSet(queue) \cup {w}
    BY <2>1, AppendElements
  <2>3. /\ closePc' = closePc /\ runPc' = runPc /\ endFailed' = endFailed
        /\ late' = IF closePc = "open" THEN late ELSE late \cup {w}
    BY <1>2 DEF Submit, closeVars
  <2> QED BY <2>2, <2>3 DEF Stranded
<1>3. ASSUME RunNotified \/ RunTick \/ RunClosing
      PROVE  Stranded'
  <2>1. /\ queue' = <<>> /\ closePc' = closePc
        /\ runPc' \in {"final", "done"} => closePc = "stopping"
    BY <1>3 DEF RunNotified, RunTick, RunClosing, RunTake, closeVars
  <2> QED BY <2>1, NothingQueued DEF Stranded
<1>4. ASSUME NEW batch, SyncOk(batch) \/ SyncError(batch)
      PROVE  /\ late' = late
             /\ \/ endFailed' = endFailed /\ queue' = queue
                \/ endFailed' = (endFailed \/ closePc # "open")
  BY <1>4 DEF SyncOk, SyncError, noteVars
<1>5. ASSUME RunSync \/ FlushSync
      PROVE  Stranded'
  <2>1. /\ \E batch : SyncOk(batch) \/ SyncError(batch)
        /\ closePc' = closePc
        /\ runPc' \in {"final", "done"} => runPc \in {"final", "done"}
    BY <1>5 DEF RunSync, FlushSync, closeVars
  <2>2. /\ late' = late
        /\ \/ endFailed' = endFailed /\ queue' = queue
           \/ endFailed' = (endFailed \/ closePc # "open")
    BY <1>4, <2>1
  <2> QED BY <2>1, <2>2 DEF Stranded
<1>6. ASSUME FlushTake
      PROVE  Stranded'
  BY <1>6, NothingQueued DEF FlushTake, closeVars, noteVars, Stranded
<1>7. ASSUME FlushReadCommitter \/ FlushAppend \/ FlushSyncCheckpoint \/ CloseBegin \/ CloseEnd
      PROVE  Stranded'
  BY <1>7 DEF FlushReadCommitter, FlushAppend, FlushSyncCheckpoint, CloseBegin, CloseEnd,
              closeVars, commitVars, noteVars, Stranded
<1>8. ASSUME Restart
      PROVE  Stranded'
  BY <1>8 DEF Restart, Stranded
<1> QED BY <1>1, <1>2, <1>3, <1>5, <1>6, <1>7, <1>8 DEF Next, WriterNext, RunNext, FlushNext

-----------------------------------------------------------------------------
(* The invariant and what follows from it *)

\* A new engine with an empty log file.
LEMMA InitGCInv == Init => GCInv
<1> SUFFICES ASSUME Init PROVE GCInv
  OBVIOUS
<1>1. /\ log = <<>> /\ pos = 0 /\ offset = 0 /\ handle = TRUE /\ synced = 0
      /\ count = 0 /\ faults = 0 /\ rotated = {} /\ damaged = FALSE
  BY DEF Init, WalInit
<1>2. WalInv
  <2>1. Len(log) = 0 /\ log \in Seq(Cell) /\ ToSet(log) = {}
    BY <1>1, NothingQueued
  <2>2. WalTypeOK
    <3>1. 0 \in 0..Len(log) /\ 0 \in 0..(MaxSize + MaxFaults) /\ 0 \in 0..MaxRecords
          /\ 0 \in 0..MaxFaults
      BY <2>1, WalAssumption
    <3> QED BY <1>1, <2>1, <3>1 DEF WalTypeOK
  <2>3. WalBounded /\ WalClean
    BY <1>1, <2>1, WalAssumption DEF WalBounded, WalClean
  <2> QED BY <2>2, <2>3 DEF WalInv
<1>3. 0 \in Cell /\ <<>> \in Seq(Writers)
  BY WalAssumption DEF Cell
<1>4. TypesHold
  BY <1>3 DEF Init, TypesHold
<1>5. RecordsKept
  BY DEF Init, RecordsKept
<1>6. Waiting = {}
  BY DEF Init, Waiting
<1>7. WaitersOnce
  BY <1>6, NothingQueued DEF Init, WaitersOnce
<1>8. BatchesTaken /\ Stranded
  BY DEF Init, BatchesTaken, Stranded
<1> QED BY <1>2, <1>4, <1>5, <1>7, <1>8 DEF GCInv

\* The invariant, over all steps.
LEMMA GCInvStep == GCInv /\ [Next]_gcVars => GCInv'
<1> SUFFICES ASSUME GCInv, [Next]_gcVars PROVE GCInv'
  OBVIOUS
<1>1. CASE Next
  <2>1. WalInv'
    BY <1>1, NextIsWalOp, WalStep DEF GCInv
  <2>2. TypesHold' /\ BatchesTaken' /\ Stranded'
    BY <1>1, TypesStep, BatchesStep, StrandedStep DEF GCInv, WalInv
  <2>3. RecordsKept' /\ WaitersOnce'
    BY <1>1, RecordsStep, WaitersStep DEF GCInv
  <2> QED BY <2>1, <2>2, <2>3 DEF GCInv
<1>2. CASE UNCHANGED gcVars
  <2>1. /\ UNCHANGED <<log, pos, offset, handle, synced, count, faults, rotated, damaged>>
        /\ UNCHANGED <<wPc, wRec, acked, gcSet, closePc>>
        /\ UNCHANGED <<queue, notify, runPc, runBatch, flushPc, flushBatch, dropped>>
        /\ UNCHANGED <<late, endFailed>>
    BY <1>2 DEF gcVars, walVars, clientVars, closeVars, commitVars, noteVars
  <2>2. WalInv'
    BY <2>1 DEF GCInv, WalInv, WalTypeOK, WalBounded, WalClean
  <2>3. TypesHold'
    BY <2>1 DEF GCInv, TypesHold
  <2>4. RecordsKept'
    BY <2>1 DEF GCInv, RecordsKept, Logged, Safe
  <2>5. WaitersOnce'
    BY <2>1 DEF GCInv, WaitersOnce, Waiting
  <2>6. BatchesTaken' /\ Stranded'
    BY <2>1 DEF GCInv, BatchesTaken, Stranded
  <2> QED BY <2>2, <2>3, <2>4, <2>5, <2>6 DEF GCInv
<1> QED BY <1>1, <1>2

\* The invariant holds as long as the system runs.
LEMMA GCInvariant == Spec => []GCInv
<1> QED BY InitGCInv, GCInvStep, PTL DEF Spec

\* The types, for any number of failures: in particular the file is never longer than
\* its limit by more than one record per failure.
THEOREM GroupTypes == Spec => []GroupTypeOK
<1>1. GCInv => GroupTypeOK
  <2> SUFFICES ASSUME GCInv PROVE GroupTypeOK
    OBVIOUS
  <2>1. queue \in Seq(Writers) /\ Distinct(queue) /\ ToSet(queue) \subseteq Writers
    BY QueueWriters DEF GCInv, TypesHold, WaitersOnce
  <2>2. Cardinality(ToSet(queue)) = Len(queue)
    BY <2>1, DistinctCardinality
  <2>3. Cardinality(ToSet(queue)) <= Cardinality(Writers)
    BY <2>1, GroupCommitAssumption, FS_Subset
  <2>4. Len(queue) <= Cardinality(Writers)
    BY <2>2, <2>3
  <2> QED BY <2>4 DEF GCInv, WalInv, TypesHold, GroupTypeOK
<1> QED BY <1>1, GCInvariant, PTL

\* A call that returned without an error has its record on disk, unless a rotation put
\* it aside, its request was dropped or the file system failed half-way.
THEOREM AckedIsOnDisk == Spec => []AckedOnDisk
<1>1. GCInv => AckedOnDisk
  <2> SUFFICES ASSUME GCInv, ~ damaged
               PROVE  acked \ (rotated \cup dropped) \subseteq OnDisk
    BY DEF AckedOnDisk
  <2>1. /\ log \in Seq(Cell) /\ synced \in 0..Len(log) /\ Len(log) \in Nat
        /\ DOMAIN log = 1..Len(log) /\ Garbage \notin ToSet(log)
    BY LenProperties DEF GCInv, WalInv, WalTypeOK, WalClean
  <2>2. \A i \in 1..synced : log[i] # Garbage
    BY <2>1 DEF ToSet
  <2>3. OnDisk = {log[i] : i \in 1..synced}
    BY <2>1, <2>2, ReplayFull DEF OnDisk
  <2>4. acked \ dropped \subseteq Safe
    BY DEF GCInv, RecordsKept
  <2> QED BY <2>3, <2>4 DEF Safe
<1> QED BY <1>1, GCInvariant, PTL

\* No wakeup is lost and none is given twice: the writers that wait are those of the
\* queue and of the two batches, each once.
THEOREM WaitersQueued == Spec => []EveryWaiterQueued
<1>1. GCInv => EveryWaiterQueued
  <2> SUFFICES ASSUME GCInv PROVE EveryWaiterQueued
    OBVIOUS
  <2> DEFINE front == runBatch \o flushBatch
             requests == front \o queue
  <2>1. /\ runBatch \in Seq(Writers) /\ flushBatch \in Seq(Writers) /\ queue \in Seq(Writers)
        /\ WaitersOnce
    BY DEF GCInv, TypesHold
  <2>2. /\ front \in Seq(Writers) /\ Distinct(front)
        /\ ToSet(front) = ToSet(runBatch) \cup ToSet(flushBatch)
    BY <2>1, ConcatElements DEF WaitersOnce
  <2> HIDE DEF front
  <2>3. ToSet(front) \cap ToSet(queue) = {} /\ Distinct(queue)
    BY <2>1, <2>2 DEF WaitersOnce
  <2>4. /\ requests \in Seq(Writers) /\ Distinct(requests)
        /\ ToSet(requests) = ToSet(front) \cup ToSet(queue)
    BY <2>1, <2>2, <2>3, ConcatElements
  <2> HIDE DEF requests
  <2>5. ToSet(requests) = Waiting
    BY <2>1, <2>2, <2>4 DEF WaitersOnce
  <2>6. Cardinality(ToSet(requests)) = Len(requests)
    BY <2>4, DistinctCardinality
  <2>7. ToSet(requests) = Waiting /\ Len(requests) = Cardinality(Waiting)
    BY <2>5, <2>6
  <2> QED BY <2>7 DEF EveryWaiterQueued, requests, front
<1> QED BY <1>1, GCInvariant, PTL

\* When the goroutine has ended, only requests queued after Close had begun, or those
\* of a failed last sync, stay without an answer.
THEOREM StrandedAreLate == Spec => []OnlyLateStranded
<1>1. GCInv => OnlyLateStranded
  BY DEF GCInv, Stranded, OnlyLateStranded
<1> QED BY <1>1, GCInvariant, PTL
=============================================================================
