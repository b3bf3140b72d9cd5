---------------------------- MODULE GroupCommit -----------------------------
(***************************************************************************)
(* Waiting for the log to be on disk: GroupCommitter (group_committer.go)  *)
(* over the log file (module Wal), with the parts of Engine that use it:   *)
(* submitWALSync of the writers, writeCheckpoint of a flush, and Close.    *)
(*                                                                         *)
(* A request, a channel in the code, is the writer that waits for it.  A   *)
(* doSync first takes the queue (gc.mu), then syncs the file (WAL.mu) and  *)
(* then closes the channels or puts the requests back (gc.mu); the last    *)
(* two are one step here, as nothing that happens between them can change  *)
(* what they do.  The ticker with nothing to sync does nothing.            *)
(***************************************************************************)
EXTENDS Wal, FiniteSetsExt, SequencesExt

CONSTANTS
  Writers,    \* client threads in Write, WriteBatch or Delete
  MaxPending  \* length beyond which requests are dropped (4096)

ASSUME GroupCommitAssumption == MaxPending \in Nat \ {0} /\ IsFiniteSet(Writers)

VARIABLES
  wPc,      \* per writer: how far its call is
  wRec,     \* per writer: the record it appended, 0 when it is idle
  queue,    \* GroupCommitter.pending
  notify,   \* a token is in the notify channel
  gcSet,    \* Engine.groupCommitter is not nil
  closePc,  \* Engine.Close
  runPc,    \* the goroutine run
  runBatch, \* what its doSync took
  flushPc,  \* a flush in writeCheckpoint
  flushBatch, \* what its SyncNow took
  \* History variables, read by the properties only.
  acked,    \* records of calls that returned without an error
  dropped,  \* records whose request was dropped from an overlong queue
  late,     \* writers that queued a request when Close had begun
  endFailed \* a sync failed when Close had begun

clientVars == <<wPc, wRec, acked>>
closeVars == <<gcSet, closePc>>
commitVars == <<queue, notify, runPc, runBatch, flushPc, flushBatch, dropped>>
noteVars == <<late, endFailed>>
gcVars == <<walVars, clientVars, closeVars, commitVars, noteVars>>

Init ==
  /\ WalInit
  /\ wPc = [w \in Writers |-> "idle"]
  /\ wRec = [w \in Writers |-> 0]
  /\ queue = <<>> /\ notify = FALSE
  /\ gcSet = TRUE /\ closePc = "open"
  /\ runPc = "select" /\ runBatch = <<>>
  /\ flushPc = "idle" /\ flushBatch = <<>>
  /\ acked = {} /\ dropped = {} /\ late = {} /\ endFailed = FALSE

-----------------------------------------------------------------------------
(* Writers *)

WriteRecord(w) ==
  /\ wPc[w] = "idle"
  /\ AppendRecord
  /\ wPc' = [wPc EXCEPT ![w] = "appended"]
  /\ wRec' = [wRec EXCEPT ![w] = count + 1]
  /\ UNCHANGED <<acked, closeVars, commitVars, noteVars>>

\* The call returns the error of the append.
WriteRefused(w) ==
  /\ wPc[w] = "idle"
  /\ AppendFails
  /\ UNCHANGED <<clientVars, closeVars, commitVars, noteVars>>

\* submitWALSync reads Engine.groupCommitter under Engine.mu, and uses it later.
ReadCommitter(w) ==
  /\ wPc[w] = "appended"
  /\ wPc' = [wPc EXCEPT ![w] = IF gcSet THEN "submit" ELSE "direct"]
  /\ UNCHANGED <<walVars, wRec, acked, closeVars, commitVars, noteVars>>

\* Without a GroupCommitter the writer syncs the file itself.
DirectSync(w) ==
  /\ wPc[w] = "direct"
  /\ \/ Sync /\ acked' = acked \cup {wRec[w]}
     \/ SyncFails /\ UNCHANGED acked
  /\ wPc' = [wPc EXCEPT ![w] = "idle"]
  /\ wRec' = [wRec EXCEPT ![w] = 0]
  /\ UNCHANGED <<closeVars, commitVars, noteVars>>

\* Submit, and the wait for the channel.
Submit(w) ==
  /\ wPc[w] = "submit"
  /\ queue' = Append(queue, w)
  /\ notify' = TRUE
  /\ wPc' = [wPc EXCEPT ![w] = "waiting"]
  /\ late' = IF closePc = "open" THEN late ELSE late \cup {w}
  /\ UNCHANGED <<walVars, wRec, acked, closeVars, runPc, runBatch, flushPc, flushBatch,
                 dropped, endFailed>>

-----------------------------------------------------------------------------
(* doSync *)

\* The channels of ws are closed: their writers return without an error.
Release(ws) ==
  /\ wPc' = [w \in Writers |-> IF w \in ws THEN "idle" ELSE wPc[w]]
  /\ wRec' = [w \in Writers |-> IF w \in ws THEN 0 ELSE wRec[w]]
  /\ acked' = acked \cup {wRec[w] : w \in ws}

SyncOk(batch) ==
  /\ Sync
  /\ Release(ToSet(batch))
  /\ UNCHANGED <<queue, dropped, noteVars>>

Newest(s) == IF Len(s) > MaxPending THEN SubSeq(s, Len(s) - MaxPending + 1, Len(s)) ELSE s

\* Faulty variant: the queue is set to the failed requests alone.
SyncErrorForgets(batch) ==
  /\ SyncFails
  /\ queue' = Newest(batch)
  /\ LET over == ToSet(batch) \ ToSet(queue') IN
       /\ Release(over)
       /\ dropped' = dropped \cup {wRec[w] : w \in over}
  /\ endFailed' = (endFailed \/ closePc # "open")
  /\ UNCHANGED late

\* The failed requests go back in front of the queue; the oldest ones that are
\* too many are released all the same.
SyncError(batch) ==
  /\ SyncFails
  /\ queue' = Newest(batch \o queue)
  /\ LET over == ToSet(batch \o queue) \ ToSet(queue') IN
       /\ Release(over)
       /\ dropped' = dropped \cup {wRec[w] : w \in over}
  /\ endFailed' = (endFailed \/ closePc # "open")
  /\ UNCHANGED late

-----------------------------------------------------------------------------
(* The goroutine run *)

RunTake(next) ==
  /\ runBatch' = queue
  /\ queue' = <<>>
  /\ runPc' = next
  /\ UNCHANGED <<walVars, clientVars, closeVars, flushPc, flushBatch, dropped, noteVars>>

RunNotified ==
  /\ runPc = "select" /\ notify
  /\ notify' = FALSE
  /\ RunTake(IF queue = <<>> THEN "select" ELSE "syncing")

\* Faulty variant: without the ticker.
RunTickNotified ==
  /\ runPc = "select" /\ queue # <<>> /\ notify
  /\ UNCHANGED notify
  /\ RunTake("syncing")

RunTick ==
  /\ runPc = "select" /\ queue # <<>>
  /\ UNCHANGED notify
  /\ RunTake("syncing")

\* Faulty variants: returns without the last sync; stops when all is synced.
RunClosingEarly ==
  /\ runPc = "select" /\ closePc = "stopping"
  /\ runPc' = "done"
  /\ UNCHANGED <<walVars, clientVars, closeVars, queue, notify, runBatch, flushPc,
                 flushBatch, dropped, noteVars>>

RunClosingEmpty ==
  /\ runPc = "select" /\ closePc = "stopping" /\ queue = <<>>
  /\ UNCHANGED notify
  /\ RunTake("done")

RunClosing ==
  /\ runPc = "select" /\ closePc = "stopping"
  /\ UNCHANGED notify
  /\ RunTake(IF queue = <<>> THEN "done" ELSE "final")

RunSync ==
  /\ runPc \in {"syncing", "final"}
  /\ SyncOk(runBatch) \/ SyncError(runBatch)
  /\ runPc' = IF runPc = "final" THEN "done" ELSE "select"
  /\ runBatch' = <<>>
  /\ UNCHANGED <<closeVars, notify, flushPc, flushBatch>>

-----------------------------------------------------------------------------
(* writeCheckpoint of a flush *)

FlushReadCommitter ==
  /\ flushPc = "idle"
  /\ flushPc' = IF gcSet THEN "take" ELSE "append"
  /\ UNCHANGED <<walVars, clientVars, closeVars, queue, notify, runPc, runBatch, flushBatch,
                 dropped, noteVars>>

\* SyncNow.
FlushTake ==
  /\ flushPc = "take"
  /\ flushBatch' = queue
  /\ queue' = <<>>
  /\ flushPc' = IF queue # <<>> THEN "syncing" ELSE "append"
  /\ UNCHANGED <<walVars, clientVars, closeVars, notify, runPc, runBatch, dropped, noteVars>>

\* A failure of that sync does not stop the flush.
FlushSync ==
  /\ flushPc = "syncing"
  /\ SyncOk(flushBatch) \/ SyncError(flushBatch)
  /\ flushPc' = "append"
  /\ flushBatch' = <<>>
  /\ UNCHANGED <<closeVars, notify, runPc, runBatch>>

FlushAppend ==
  /\ flushPc = "append"
  /\ \/ AppendRecord /\ flushPc' = "sync"
     \/ AppendFails /\ flushPc' = "idle"
  /\ UNCHANGED <<clientVars, closeVars, queue, notify, runPc, runBatch, flushBatch,
                 dropped, noteVars>>

FlushSyncCheckpoint ==
  /\ flushPc = "sync"
  /\ Sync \/ SyncFails
  /\ flushPc' = "idle"
  /\ UNCHANGED <<clientVars, closeVars, queue, notify, runPc, runBatch, flushBatch,
                 dropped, noteVars>>

-----------------------------------------------------------------------------
(* Engine.Close, and the next process *)

\* Engine.groupCommitter is set to nil; closeCh is closed.
CloseBegin ==
  /\ closePc = "open"
  /\ closePc' = "stopping"
  /\ gcSet' = FALSE
  /\ UNCHANGED <<walVars, clientVars, commitVars, noteVars>>

\* doneCh is closed: the WAL is closed.
CloseEnd ==
  /\ closePc = "stopping" /\ runPc = "done"
  /\ CloseFile
  /\ closePc' = "closed"
  /\ UNCHANGED <<clientVars, gcSet, commitVars, noteVars>>

\* A crash, or the end of the process after Close, and the next NewEngine.
Restart ==
  /\ Reopen
  /\ wPc' = [w \in Writers |-> "idle"] /\ wRec' = [w \in Writers |-> 0]
  /\ queue' = <<>> /\ notify' = FALSE
  /\ gcSet' = TRUE /\ closePc' = "open"
  /\ runPc' = "select" /\ runBatch' = <<>>
  /\ flushPc' = "idle" /\ flushBatch' = <<>>
  /\ late' = {} /\ endFailed' = FALSE
  /\ UNCHANGED <<acked, dropped>>

-----------------------------------------------------------------------------

WriterNext(w) == \/ WriteRecord(w)
                 \/ WriteRefused(w)
                 \/ ReadCommitter(w)
                 \/ DirectSync(w)
                 \/ Submit(w)
RunNext == RunNotified \/ RunTick \/ RunClosing \/ RunSync
FlushNext == \/ FlushReadCommitter
             \/ FlushTake
             \/ FlushSync
             \/ FlushAppend
             \/ FlushSyncCheckpoint

Next == \/ \E w \in Writers : WriterNext(w)
        \/ RunNext
        \/ FlushNext
        \/ CloseBegin
        \/ CloseEnd
        \/ Restart

Spec == Init /\ [][Next]_gcVars

\* The goroutines are scheduled, and the ticker ticks.  A select with several
\* channels ready picks one at random, so closeCh is taken in the end.
Fairness == /\ WF_gcVars(RunNotified) /\ WF_gcVars(RunTick)
            /\ SF_gcVars(RunClosing) /\ WF_gcVars(RunSync)
            /\ WF_gcVars(FlushSync)
            /\ WF_gcVars(CloseEnd)
FairSpec == Spec /\ Fairness

-----------------------------------------------------------------------------
(* Properties *)

GroupTypeOK ==
  /\ WalTypeOK
  /\ wPc \in [Writers -> {"idle", "appended", "submit", "direct", "waiting"}]
  /\ wRec \in [Writers -> Cell]
  /\ queue \in Seq(Writers) /\ Len(queue) <= Cardinality(Writers)
  /\ runBatch \in Seq(Writers) /\ flushBatch \in Seq(Writers)
  /\ notify \in BOOLEAN /\ gcSet \in BOOLEAN /\ endFailed \in BOOLEAN
  /\ closePc \in {"open", "stopping", "closed"}
  /\ runPc \in {"select", "syncing", "final", "done"}
  /\ flushPc \in {"idle", "take", "syncing", "append", "sync"}
  /\ acked \subseteq Cell /\ dropped \subseteq Cell /\ late \subseteq Writers

Waiting == {w \in Writers : wPc[w] = "waiting"}

\* A call that returns without an error has its record on disk, through any
\* failed syncs, concurrent doSyncs of the goroutine and a flush, Close, crashes
\* and reopenings; unless the record went to wal.log.prev with a rotation, its
\* request was dropped from an overlong queue, or the file system failed in the
\* middle of a write or a rotation.
AckedOnDisk == damaged \/ acked \ (rotated \cup dropped) \subseteq OnDisk

\* No wakeup is lost: the writers that wait are those in the queue or in the batch
\* of a running doSync, each of them once.
EveryWaiterQueued ==
  LET requests == runBatch \o flushBatch \o queue IN
  ToSet(requests) = Waiting /\ Len(requests) = Cardinality(Waiting)

\* When the goroutine has ended, the only requests nobody will answer are those
\* queued after Close had begun, and those of a failed last sync.
OnlyLateStranded ==
  runPc = "done" /\ ~endFailed => ToSet(queue) \subseteq late

\* A writer does not wait for ever, while failed syncs are retried, unless the
\* goroutine has ended before its request, or the log file has been lost.
WaitersReturn == \A w \in Writers :
  wPc[w] = "waiting" ~> (wPc[w] # "waiting" \/ runPc = "done" \/ ~handle)

\* Close ends, whatever requests are queued and however the last sync fails.
CloseEnds == closePc = "stopping" ~> closePc # "stopping"

\* group_committer.go:58 says that the channel is closed when the data of the WAL
\* is on disk, and doc/operations.md:137 that wal.log.prev is replayed.  Records
\* that a rotation moved to wal.log.prev are neither synced nor read again.
AckedReplayed == damaged \/ acked \ dropped \subseteq OnDisk
=============================================================================
