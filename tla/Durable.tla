------------------------------ MODULE Durable -------------------------------
(***************************************************************************)
(* The storage engine with its disk: WAL, segment files, crash, Close and  *)
(* restart (pkg/storage).  It extends module Engine: each of its actions   *)
(* is an action of Engine together with what the code does to the disk, or *)
(* the end of a process, or NewEngine.                                     *)
(*                                                                         *)
(* SyncMode is SyncEveryWrite.  The log stays below the rotation limit     *)
(* (rotation is in module Wal).  A crash keeps any part of the log at      *)
(* least as long as what was synced, cut at a record: OpenWAL drops a torn *)
(* last record.  A file that was synced is there after a crash; a segment  *)
(* file that was being written may be missing, torn, or whole.             *)
(***************************************************************************)
EXTENDS Engine, FiniteSetsExt

CONSTANTS
  Radix,       \* base of the decimal number in a segment's file name (10)
  MaxRestarts, \* bound: crashes and Closes in a run
  MaxLog       \* bound: records in the WAL

ASSUME DurableAssumption ==
  /\ Radix \in Nat \ {0, 1}
  /\ MaxRestarts \in Nat
  /\ MaxLog \in Nat
  /\ IsFiniteSet(Flushers) /\ IsFiniteSet(Compactors) \* threads

VARIABLES
  mode,      \* "up", "down", or "stuck" when NewEngine refused to start
  wal,       \* the records of wal.log
  synced,    \* how many of them are on disk for certain
  walPc,     \* per writer: how far its record is
  ckptPc,    \* per flusher: a checkpoint record waits for its sync
  files,     \* segment files on disk that no engine has registered
  restarts,  \* processes ended so far
  \* History variables, read by the properties only.
  maybe,     \* per key: rows of failed or unfinished calls that are in the log
  clashed,   \* two calls on one key were under way at a time
  overtaken, \* a checkpoint version covers a row not yet in a memtable
  regressed  \* a restart set nextVersion back below a checkpoint

diskVars == <<wal, synced, files>>
flawVars == <<clashed, overtaken, regressed>>
durableVars == <<mode, diskVars, walPc, ckptPc, restarts, maybe, flawVars>>
allVars == <<vars, durableVars>>

-----------------------------------------------------------------------------
(* The log and its replay *)

LogRecord == [ckpt : BOOLEAN, ver : Nat, rows : MemTable]
WriteRecord(rows) == [ckpt |-> FALSE, ver |-> 0, rows |-> rows]
CkptRecord(v) == [ckpt |-> TRUE, ver |-> v, rows |-> EmptyMem]

\* findLastCheckpoint: the highest version any checkpoint record names.
LastFlushed(log) == Max({0} \cup {log[i].ver : i \in {j \in DOMAIN log : log[j].ckpt}})

\* A record with a NULL value cannot be decoded and is skipped as a whole.
Decodable(rec) == \A k \in KeysOf(rec.rows) : rec.rows[k].kind # "nulls"

\* The log positions whose row for k is put into the memtable.
Applied(log, k) == {i \in DOMAIN log :
                      /\ log[i].rows[k] # NoRow
                      /\ Decodable(log[i])
                      /\ log[i].rows[k].ver > LastFlushed(log)}

\* applyWriteRecords: in log order, the last row of a key stays; a tombstone
\* comes back as a row without columns.
ReplayMem(log) ==
  FlushRows([k \in Keys |-> IF Applied(log, k) = {} THEN NoRow
                            ELSE log[Max(Applied(log, k))].rows[k]])

MaxReplayed(log) ==
  Max({0} \cup {log[p[1]].rows[p[2]].ver :
                  p \in {q \in (DOMAIN log) \X Keys : q[1] \in Applied(log, q[2])}})

-----------------------------------------------------------------------------
(* Segment files *)

File == [id : Nat, rows : MemTable, whole : BOOLEAN]
FileOf(id, rows, whole) == [id |-> id, rows |-> rows, whole |-> whole]
WholeFiles(F) == {x \in F : x.whole}
SegmentFiles == {FileOf(s.id, s.rows, TRUE) : s \in segments}

\* loadSegments: the segment counter continues after the highest ID that was read.
CountFiles(F) == Cardinality(F) \* faulty variant: continue after their number
HighestID(F) == Max({0} \cup {x.id : x \in F})

\* os.ReadDir sorts by name: segment_10 comes before segment_9.
Digits(n) == Cardinality({e \in 0..n : Radix ^ e <= n})
NameBefore(a, b) ==
  IF Digits(a) <= Digits(b)
  THEN a # b /\ a <= b \div (Radix ^ (Digits(b) - Digits(a)))
  ELSE a \div (Radix ^ (Digits(a) - Digits(b))) < b

\* loadSegments: every readable file is a level-0 segment, in name order.
Loaded(F) == {[id |-> x.id, level |-> 0, rows |-> x.rows,
               pos |-> 1 + Cardinality({y \in WholeFiles(F) : NameBefore(y.id, x.id)})] :
              x \in WholeFiles(F)}

\* What is there of a file whose writing may have stopped half-way.
Endings == {"none", "torn", "whole"}
Left(ending, id, rows) ==
  IF ending = "none" THEN {}
  ELSE {FileOf(id, IF ending = "whole" THEN rows ELSE EmptyMem, ending = "whole")}
Unfinished(id, rows) == {Left(ending, id, rows) : ending \in Endings}

-----------------------------------------------------------------------------
(* A running engine.  While it is down nothing is in memory (LoseMemory), so *)
(* only the first step of a call needs to ask whether it is up.             *)

DurableInit ==
  /\ Init
  /\ mode = "up"
  /\ wal = <<>>
  /\ synced = 0
  /\ walPc = [w \in Writers |-> "none"]
  /\ ckptPc = [f \in Flushers |-> "none"]
  /\ files = {}
  /\ restarts = 0
  /\ maybe = [k \in Keys |-> {}]
  /\ clashed = FALSE
  /\ overtaken = FALSE
  /\ regressed = FALSE

Names(op, k) == RowsWith(op.keys, k) # {}

\* The log and the memtable may see two calls in different orders.
Alloc(w, op) ==
  /\ mode = "up"
  /\ AllocVersion(w, op)
  /\ clashed' = (clashed \/ \E v \in Writers \ {w} : pending[v] # NoOp
                               /\ \E k \in Keys : Names(op, k) /\ Names(pending[v].op, k))
  /\ UNCHANGED <<mode, diskVars, walPc, ckptPc, restarts, maybe, overtaken, regressed>>

RowAsSet(rows, k) == IF rows[k] = NoRow THEN {} ELSE {rows[k]}

\* wal.AppendWrite or wal.AppendBatch: one record for the whole call.
AppendRecord(w) ==
  /\ pending[w] # NoOp /\ walPc[w] = "none"
  /\ Len(wal) < MaxLog
  /\ wal' = Append(wal, WriteRecord(RowsOf(pending[w])))
  /\ walPc' = [walPc EXCEPT ![w] = "appended"]
  /\ maybe' = [k \in Keys |-> maybe[k] \cup RowAsSet(RowsOf(pending[w]), k)]
  /\ UNCHANGED <<vars, mode, synced, ckptPc, files, restarts, flawVars>>

\* Faulty variant: counts the record that is about to be appended.
SyncRecordEarly(w) ==
  /\ walPc[w] = "appended"
  /\ synced' = Len(wal) + 1
  /\ walPc' = [walPc EXCEPT ![w] = "synced"]
  /\ UNCHANGED <<vars, mode, wal, ckptPc, files, restarts, maybe, flawVars>>

\* submitWALSync without a GroupCommitter.
SyncRecord(w) ==
  /\ walPc[w] = "appended"
  /\ synced' = Len(wal)
  /\ walPc' = [walPc EXCEPT ![w] = "synced"]
  /\ UNCHANGED <<vars, mode, wal, ckptPc, files, restarts, maybe, flawVars>>

\* The call puts its rows and returns: its rows are no longer in doubt.
PutAndReturn(w) ==
  /\ walPc[w] = "synced"
  /\ PutOne(w) \/ PutBatch(w)
  /\ walPc' = [walPc EXCEPT ![w] = "none"]
  /\ maybe' = [k \in Keys |-> maybe[k] \ RowAsSet(RowsOf(pending[w]), k)]
  /\ UNCHANGED <<mode, diskVars, ckptPc, restarts, flawVars>>

\* The append or the sync fails; after a failed sync the record stays in the log.
CallFails(w) ==
  /\ walPc[w] \in {"none", "appended"}
  /\ WriteFail(w)
  /\ walPc' = [walPc EXCEPT ![w] = "none"]
  /\ UNCHANGED <<mode, diskVars, ckptPc, restarts, maybe, flawVars>>

BeginFlush(f) ==
  /\ ckptPc[f] = "none"
  /\ FlushBegin(f)
  /\ overtaken' = (overtaken \/ \E w \in Writers :
                     pending[w] # NoOp /\ pending[w].base <= flushVer'[f])
  /\ UNCHANGED <<mode, diskVars, walPc, ckptPc, restarts, maybe, clashed, regressed>>

\* O_TRUNC: a torn file that an earlier process left under this name is gone.
BuildFlush(f) ==
  /\ FlushBuild(f)
  /\ files' = {x \in files : x.id # flushSeg'[f]}
  /\ UNCHANGED <<mode, wal, synced, walPc, ckptPc, restarts, maybe, flawVars>>

RegisterFlush(f) ==
  /\ FlushRegister(f)
  /\ UNCHANGED durableVars

\* The failed write leaves whatever it has written of the file.
FailFlush(f) ==
  /\ FlushFail(f)
  /\ \E left \in Unfinished(flushSeg[f], FlushRows(Head(drained[f]))) :
       files' = files \cup left
  /\ UNCHANGED <<mode, wal, synced, walPc, ckptPc, restarts, maybe, flawVars>>

AppendCheckpoint(f) ==
  /\ FlushCheckpoint(f)
  /\ Len(wal) < MaxLog
  /\ wal' = Append(wal, CkptRecord(flushVer[f]))
  /\ ckptPc' = [ckptPc EXCEPT ![f] = "appended"]
  /\ UNCHANGED <<mode, synced, files, walPc, restarts, maybe, flawVars>>

SyncCheckpoint(f) ==
  /\ ckptPc[f] = "appended"
  /\ synced' = Len(wal)
  /\ ckptPc' = [ckptPc EXCEPT ![f] = "none"]
  /\ UNCHANGED <<vars, mode, wal, files, walPc, restarts, maybe, flawVars>>

BeginCompact(c) ==
  /\ CompactBegin(c)
  /\ UNCHANGED durableVars

BuildCompact(c) ==
  /\ CompactBuild(c)
  /\ files' = {x \in files : x.id # compSeg'[c]}
  /\ UNCHANGED <<mode, wal, synced, walPc, ckptPc, restarts, maybe, flawVars>>

\* CleanupSegments deletes the merged files in the order of allSegments and stops
\* at the first one it cannot delete.
NotDeleted(S, s) == {t \in S : t.level > s.level \/ (t.level = s.level /\ t.pos >= s.pos)}
InstallCompact(c) ==
  /\ CompactInstall(c)
  /\ LET merged == compSet[c] \cap segments IN
       \E left \in {{}} \cup {NotDeleted(merged, s) : s \in merged} :
         files' = files \cup {FileOf(s.id, s.rows, TRUE) : s \in left}
  /\ UNCHANGED <<mode, wal, synced, walPc, ckptPc, restarts, maybe, flawVars>>

FailCompact(c) ==
  /\ CompactFail(c)
  /\ IF compPc[c] = "built"
     THEN \E left \in Unfinished(compSeg[c], Merge(compSet[c])) : files' = files \cup left
     ELSE UNCHANGED files
  /\ UNCHANGED <<mode, wal, synced, walPc, ckptPc, restarts, maybe, flawVars>>

-----------------------------------------------------------------------------
(* The end of a process, and NewEngine *)

\* What is in memory is gone.
LoseMemory ==
  /\ nextVersion' = 0
  /\ active' = EmptyMem
  /\ immutable' = <<>>
  /\ segments' = {}
  /\ l0Count' = 0
  /\ segSeq' = 0
  /\ nextSegID' = 0
  /\ pending' = [w \in Writers |-> NoOp]
  /\ flushPc' = [f \in Flushers |-> "idle"]
  /\ drained' = [f \in Flushers |-> <<>>]
  /\ flushVer' = [f \in Flushers |-> 0]
  /\ flushSeg' = [f \in Flushers |-> 0]
  /\ compPc' = [c \in Compactors |-> "idle"]
  /\ compSet' = [c \in Compactors |-> {}]
  /\ compSeg' = [c \in Compactors |-> 0]
  /\ walPc' = [w \in Writers |-> "none"]
  /\ ckptPc' = [f \in Flushers |-> "none"]
  /\ mode' = "down"
  /\ restarts' = restarts + 1
  /\ UNCHANGED <<latest, raced, maybe, flawVars>>

\* Of the files being written a crash leaves what it leaves.
Crash ==
  /\ mode = "up"
  /\ restarts < MaxRestarts
  /\ \E n \in synced..Len(wal) : wal' = SubSeq(wal, 1, n) /\ synced' = n
  /\ \E leftF \in [Flushers -> Endings], leftC \in [Compactors -> Endings] :
       /\ \A f \in Flushers : flushPc[f] # "built" => leftF[f] = "none"
       /\ \A c \in Compactors : compPc[c] # "built" => leftC[c] = "none"
       /\ files' = files \cup SegmentFiles
            \cup (UNION {Left(leftF[f], flushSeg[f], FlushRows(Head(drained[f]))) : f \in Flushers})
            \cup (UNION {Left(leftC[c], compSeg[c], Merge(compSet[c])) : c \in Compactors})
  /\ LoseMemory

\* Close, called when no call is under way: it flushes every memtable, passing
\* over those that fail, writes no checkpoint, and syncs the WAL.
Close ==
  /\ mode = "up"
  /\ restarts < MaxRestarts
  /\ \A w \in Writers : pending[w] = NoOp
  /\ \A f \in Flushers : flushPc[f] = "idle" /\ ckptPc[f] = "none"
  /\ \A c \in Compactors : compPc[c] = "idle"
  /\ nextSegID + Len(Drain) <= MaxSegID
  /\ \E left \in [DOMAIN Drain -> Endings] :
       files' = {x \in files : \A i \in DOMAIN Drain : x.id # nextSegID + i}
                \cup SegmentFiles
                \cup UNION {Left(left[i], nextSegID + i, FlushRows(Drain[i])) : i \in DOMAIN Drain}
  /\ synced' = Len(wal)
  /\ UNCHANGED wal
  /\ LoseMemory

\* NewEngine: load the segments, replay the log into a fresh memtable.  It refuses
\* to start when there are segment files and none of them can be read.
Restart ==
  /\ mode = "down"
  /\ files = {} \/ WholeFiles(files) # {}
  /\ segments' = Loaded(files)
  /\ l0Count' = Cardinality(WholeFiles(files))
  /\ segSeq' = Cardinality(WholeFiles(files))
  /\ nextSegID' = HighestID(WholeFiles(files))
  /\ files' = files \ WholeFiles(files)
  /\ active' = ReplayMem(wal)
  /\ nextVersion' = MaxReplayed(wal) + 1
  /\ regressed' = (regressed \/ MaxReplayed(wal) + 1 < LastFlushed(wal))
  /\ latest' = [k \in Keys |-> IF ReplayMem(wal)[k] # NoRow THEN ReplayMem(wal)[k]
                               ELSE Merge(Loaded(files))[k]]
  /\ maybe' = [k \in Keys |-> {}]
  /\ mode' = "up"
  /\ UNCHANGED <<immutable, pending, flushVars, compactVars, raced, wal, synced, walPc,
                 ckptPc, restarts, clashed, overtaken>>

RefuseStart ==
  /\ mode = "down"
  /\ files # {} /\ WholeFiles(files) = {}
  /\ mode' = "stuck"
  /\ UNCHANGED <<vars, diskVars, walPc, ckptPc, restarts, maybe, flawVars>>

-----------------------------------------------------------------------------

WriterDoes(w) == \/ \E op \in Calls[w] : Alloc(w, op)
                 \/ AppendRecord(w)
                 \/ SyncRecord(w)
                 \/ PutAndReturn(w)
                 \/ CallFails(w)
FlusherDoes(f) == \/ BeginFlush(f)
                  \/ BuildFlush(f)
                  \/ RegisterFlush(f)
                  \/ FailFlush(f)
                  \/ AppendCheckpoint(f)
                  \/ SyncCheckpoint(f)
CompactorDoes(c) == \/ BeginCompact(c)
                    \/ BuildCompact(c)
                    \/ InstallCompact(c)
                    \/ FailCompact(c)

\* The clients have made all the calls of a run, or the engine does not start.
Rest == /\ mode = "stuck" \/ \A w \in Writers : pending[w] = NoOp
        /\ UNCHANGED allVars

DurableNext ==
  \/ \E w \in Writers : WriterDoes(w)
  \/ \E f \in Flushers : FlusherDoes(f)
  \/ \E c \in Compactors : CompactorDoes(c)
  \/ Crash
  \/ Close
  \/ Restart
  \/ RefuseStart
  \/ Rest

DurableSpec == DurableInit /\ [][DurableNext]_allVars

-----------------------------------------------------------------------------
(* Properties *)

DurableTypeOK ==
  /\ TypeOK
  /\ mode \in {"up", "down", "stuck"}
  /\ wal \in Seq(LogRecord)
  /\ synced \in 0..Len(wal)
  /\ walPc \in [Writers -> {"none", "appended", "synced"}]
  /\ ckptPc \in [Flushers -> {"none", "appended"}]
  /\ files \subseteq File
  /\ restarts \in 0..MaxRestarts
  /\ maybe \in [Keys -> SUBSET Row]
  /\ clashed \in BOOLEAN /\ overtaken \in BOOLEAN /\ regressed \in BOOLEAN

\* No file that can be read is ever written over: not by a flush or a compaction
\* after a restart, whatever failed writes, failed deletions and crashes left in
\* the directory; and no two files have one name.
FilesKept ==
  LET present == files \cup SegmentFiles IN
  /\ \A x, y \in present : x.id = y.id => x = y
  /\ \A x \in WholeFiles(present) :
       /\ x.id \notin FlushIDs \cup CompactOutIDs
       /\ mode = "up" => x.id <= nextSegID

\* The row of k after a restart from log and the readable files among F.
Restored(log, F, k) == IF ReplayMem(log)[k] # NoRow THEN ReplayMem(log)[k]
                       ELSE Merge(Loaded(F))[k]

Acceptable(row, k) == \/ Current(row, latest[k])
                      \/ \E r \in maybe[k] : Current(row, r)

\* Whatever a power failure at this moment leaves of the log, replaying it over the
\* segment files gives every key a row it may have.
SurvivesNow ==
  \A n \in synced..Len(wal) : \A k \in Keys :
    Acceptable(Restored(SubSeq(wal, 1, n), files \cup SegmentFiles, k), k)

\* README.md:15 promises that no acknowledged row is lost.  What the code keeps:
\* every returned call survives a power failure at any moment, and the restart
\* after it, a failed start included ...
AckedSurvives ==
  SurvivesNow \/ raced      \* ... unless a flush crossed a compaction,
              \/ clashed    \* two calls on one key overlapped,
              \/ overtaken  \* a flush overtook a call between its version and its Put,
              \/ regressed  \* or a restart reset the version counter.
=============================================================================
