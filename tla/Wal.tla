-------------------------------- MODULE Wal ---------------------------------
(***************************************************************************)
(* The write-ahead log file (pkg/storage/wal.go): appending with rotation, *)
(* sync, what failures of the file system leave behind, and what OpenWAL   *)
(* makes of it.  Every operation runs under WAL.mu.                        *)
(*                                                                         *)
(* A file is a sequence of cells: the number of a record, or Garbage, the  *)
(* bytes of a record that was not written as a whole.  All cells have one  *)
(* size; a cell written over another one may damage the next.  Offsets     *)
(* count cells.  A crash inside maybeRotate, between its two renames,      *)
(* leaves no wal.log: NewEngine then creates an empty one, as it would     *)
(* find after the second rename.  Nothing reads wal.log.prev, so its       *)
(* contents and its removal by Scheduler.tryCleanWAL are left out.         *)
(***************************************************************************)
EXTENDS Naturals, Sequences, FiniteSets

CONSTANTS
  MaxSize,    \* records after which the file is rotated (maxSize)
  MaxRecords, \* bound: records appended in a run
  MaxFaults   \* bound: failing file-system calls in a run

ASSUME WalAssumption == MaxSize \in Nat \ {0} /\ MaxRecords \in Nat /\ MaxFaults \in Nat

VARIABLES
  log,      \* the cells of wal.log
  pos,      \* position of the file handle
  offset,   \* WAL.offset
  handle,   \* the file handle is open
  synced,   \* how many cells of wal.log are on disk for certain
  count,    \* records appended so far
  faults,   \* failures so far
  \* History variables, read by the properties only.
  rotated,  \* records that went to wal.log.prev
  damaged   \* a write or a rotation failed half-way

walVars == <<log, pos, offset, handle, synced, count, faults, rotated, damaged>>

Garbage == 0
Cell == 0..MaxRecords

\* replayWAL: the records before the first that cannot be read.
ValidLength(cells) == Cardinality({j \in DOMAIN cells : \A h \in 1..j : cells[h] # Garbage})
Replay(cells) == {cells[i] : i \in 1..ValidLength(cells)}

\* What writing cell c at position p can make of the file.
Written(cells, p, c) ==
  IF p = Len(cells) THEN {Append(cells, c)}
  ELSE LET over == [cells EXCEPT ![p + 1] = c]
       IN {over} \cup (IF p + 2 <= Len(cells) THEN {[over EXCEPT ![p + 2] = Garbage]} ELSE {})

-----------------------------------------------------------------------------

WalInit ==
  /\ log = <<>> /\ pos = 0 /\ offset = 0 /\ handle = TRUE /\ synced = 0
  /\ count = 0 /\ faults = 0
  /\ rotated = {} /\ damaged = FALSE

Fault == faults < MaxFaults /\ faults' = faults + 1

\* maybeRotate, when nothing fails: wal.log becomes wal.log.prev, without a sync.
NeedsRotation == offset >= MaxSize
Rotate == rotated' = IF NeedsRotation THEN rotated \cup Replay(log) ELSE rotated

\* Write cell c where the handle is, after a rotation in the new file.  Cells
\* that are written over are not on disk for certain any more.
WriteCell(c) ==
  IF NeedsRotation
  THEN log' = <<c>> /\ pos' = 1 /\ synced' = 0
  ELSE /\ log' \in Written(log, pos, c)
       /\ pos' = pos + 1
       /\ synced' = IF synced < pos THEN synced ELSE pos

\* Append and AppendBatch.
AppendRecord ==
  /\ count < MaxRecords
  /\ handle
  /\ Rotate
  /\ WriteCell(count + 1)
  /\ offset' = (IF NeedsRotation THEN 0 ELSE offset) + 1
  /\ count' = count + 1
  /\ UNCHANGED <<handle, faults, damaged>>

\* The write stops half-way: the offset does not move, but the handle does.
AppendTorn ==
  /\ Fault
  /\ handle
  /\ Rotate
  /\ WriteCell(Garbage)
  /\ offset' = IF NeedsRotation THEN 0 ELSE offset
  /\ damaged' = TRUE
  /\ UNCHANGED <<handle, count>>

\* Nothing is written: the write fails at once, or the new file cannot be made,
\* or the handle is closed.
AppendRefused ==
  /\ IF handle THEN Fault ELSE UNCHANGED faults
  /\ UNCHANGED <<log, pos, offset, handle, synced, count, rotated, damaged>>

\* The old file cannot be closed; the handle is of no use afterwards.
RotateCloseFails ==
  /\ NeedsRotation /\ handle /\ Fault
  /\ handle' = FALSE
  /\ damaged' = TRUE
  /\ UNCHANGED <<log, pos, offset, synced, count, rotated>>

\* recoverOpen: a fresh handle at the beginning of wal.log, or none.
RecoverOpen ==
  /\ damaged' = TRUE
  /\ pos' = 0
  /\ \/ handle' = TRUE /\ offset' = 0
     \/ handle' = FALSE /\ UNCHANGED offset

\* The first rename fails: wal.log is still there and is opened again.
RotateRenameFails ==
  /\ NeedsRotation /\ handle /\ Fault
  /\ RecoverOpen
  /\ UNCHANGED <<log, synced, count, rotated>>

\* The second rename fails: the old file is renamed back; or that fails too, and
\* recoverOpen creates a new file.
RotateSecondRenameFails ==
  /\ NeedsRotation /\ handle /\ Fault
  /\ \/ UNCHANGED <<log, synced, rotated>>
     \/ /\ log' = <<>> /\ synced' = 0
        /\ rotated' = rotated \cup Replay(log)
  /\ RecoverOpen
  /\ UNCHANGED count

AppendFails == \/ AppendTorn
               \/ AppendRefused
               \/ RotateCloseFails
               \/ RotateRenameFails
               \/ RotateSecondRenameFails

\* Faulty variant: reports success without touching the disk.
SyncLazy == /\ handle
            /\ UNCHANGED walVars

Sync == /\ handle
        /\ synced' = Len(log)
        /\ UNCHANGED <<log, pos, offset, handle, count, faults, rotated, damaged>>

SyncFails == /\ IF handle THEN Fault ELSE UNCHANGED faults
             /\ UNCHANGED <<log, pos, offset, handle, synced, count, rotated, damaged>>

\* WAL.Close: sync, then close, whether or not the sync fails.
CloseFile ==
  /\ \/ handle /\ synced' = Len(log) /\ UNCHANGED faults
     \/ handle /\ Fault /\ UNCHANGED synced
     \/ ~handle /\ UNCHANGED <<synced, faults>>
  /\ handle' = FALSE
  /\ UNCHANGED <<log, pos, offset, count, rotated, damaged>>

\* Faulty variant: appends after what was on disk, not after the last good record.
ReopenBehind ==
  /\ \E n \in synced..Len(log) :
       LET valid == ValidLength(SubSeq(log, 1, n)) IN
       /\ log' = SubSeq(log, 1, valid)
       /\ pos' = n /\ offset' = valid /\ synced' = valid
  /\ handle' = TRUE
  /\ UNCHANGED <<count, faults, rotated, damaged>>

\* The process ends.  The next one finds some of the cells that were not synced;
\* OpenWAL cuts the file after the last record it can read and continues there.
Reopen ==
  /\ \E n \in synced..Len(log) :
       LET valid == ValidLength(SubSeq(log, 1, n)) IN
       /\ log' = SubSeq(log, 1, valid)
       /\ pos' = valid /\ offset' = valid /\ synced' = valid
  /\ handle' = TRUE
  /\ UNCHANGED <<count, faults, rotated, damaged>>

WalTypeOK ==
  /\ log \in Seq(Cell)
  /\ pos \in 0..Len(log) /\ offset \in 0..(MaxSize + MaxFaults)
  /\ synced \in 0..Len(log)
  /\ count \in 0..MaxRecords /\ faults \in 0..MaxFaults
  /\ handle \in BOOLEAN /\ damaged \in BOOLEAN
  /\ rotated \subseteq Cell

\* The records that a restart finds if the machine fails now.
OnDisk == Replay(SubSeq(log, 1, synced))
=============================================================================
