# WiDB in TLA+

A model of WiDB (`src/`), a single-node wide-table database in Go: an LSM storage
engine with a write-ahead log, a catalog and one engine per table, a SQL layer, and
TCP, HTTP and PostgreSQL front ends.  The modules are checked by TLC on small
instances; what matters most is proved with TLAPS for every value of the constants.
Paths below are relative to `src/pkg` unless they begin with `src/` or `doc/`.

## 1. The system

| Part | State | Operations | What is hard | What makes it correct |
|---|---|---|---|---|
| LSM engine (`storage/engine*.go`, `flusher.go`, `compaction.go`, `scheduler.go`) | version counter, active and immutable memtables, segments with levels, level-0 counter, segment-ID counter | `Write`, `WriteBatch`, `Delete`, `Get`, `Scan*`, `Flush`, `Compact`, `Close`, `NewEngine` | `Flush` and `Compact` run outside `Engine.mu` between two critical sections, called by the scheduler and by admin handlers; versions are allocated without the lock | a key written stays found with its newest row; IDs are unique; counters exact |
| Recovery (`wal_record.go`, `wal_codec.go`) | `wal.log`, segment files | log append, checkpoint, `loadSegments`, replay | crash at any point; torn files; checkpoint versions against calls under way | a returned call survives |
| WAL file (`wal.go`) | file, handle, offset | `Append`, `Sync`, `maybeRotate`, `Close`, `OpenWAL` | short writes, a rotation failing in the middle | what was synced is replayed |
| Group commit (`group_committer.go`) | queue of channels, one goroutine | `Submit`, `SyncNow`, `Close` | failed syncs, a flush syncing at the same time, `Close` against late writers | nobody waits for ever; an answered request is on disk |
| Reads (`iterator.go`, `cache.go`, `memtable.go`, `index/*`) | skip list, merge heap, LRU caches, statistics | `Get`, `Scan`, pruning | stale cache entries, sources changing under a scan | newest row wins, nothing is skipped |
| Catalog, tables (`catalog/*`, `server/table_engine.go`, `server_handlers.go`, `handlers_meta.go`) | table definitions in memory and in `catalog.json`, engines per table | `CREATE`, `DROP`, routing, restart | concurrent DDL, failed persistence, statements during DDL | a statement reaches its table's engine |
| DML (`server/handlers_dml.go`, `server_handlers.go`) | none of its own | `INSERT`, `UPDATE`, `DELETE` | check and write are separate engine calls | keys are unique, rows are not lost |
| Connections (`server/tcp_handler.go`, `server.go`, `pgwire/*`) | connection sets, prepared statements, error state | accept, serve, `Stop` | shutdown against running connections, limits | limits hold, `Stop` returns |
| SQL (`query/*`) | none | parse, analyse, optimise, execute | three-valued logic, pruning predicates | an optimised plan gives the same rows |
| Slow-query log, metrics, CLI, config | ring buffer, counters | record, list | bounds of the ring | newest entries, in order |

The parts interact by calls.  A statement arrives at a front end, is parsed and planned,
and is routed by table name to an engine; the engine logs, waits for the disk through
the group committer or by itself, and puts rows into the memtable; the scheduler turns
memtables into segments and merges these.  The only shared state between client threads
and background threads is inside an engine.

`PROJECT.json` lists all components, modelled or not, and the hazards with the lines
where they bite.

## 2. Modules

| Module | Models | Extends |
|---|---|---|
| `Engine` | the engine in memory: writers, flushers, compactors | |
| `KVStore` | what the engine promises its callers (abstract) | |
| `EngineRefinement` | the mapping of `Engine` to `KVStore` | `Engine` |
| `Durable` | log, checkpoints, segment files, crash, `Close`, `NewEngine` | `Engine` |
| `Wal` | the log file with rotation and failures | |
| `GroupCommit` | waiting for the log: committer, writers, a flush, `Engine.Close` | `Wal` |
| `Tables` | catalog, routing and engines by table: CREATE, DROP, INSERT, crash | |
| `EngineProofs` | theorems about `Engine` | `Engine` |
| `EngineStoreProofs` | theorems about what `Get` finds, and that `Engine` implements `KVStore` | `EngineRefinement`, `EngineProofs` |
| `DurableProofs` | theorems about the directory of segment files | `Durable`, `EngineStoreProofs` |
| `SurvivalProofs` | theorem that returned calls survive | `DurableProofs` |
| `GroupCommitProofs` | theorems about `GroupCommit` and `Wal` | `GroupCommit` |
| `TablesProofs` | theorems about `Tables` | `Tables` |
| `Values` | `common.Value`: comparison, conversion, text | |
| `Columns` | column vectors, the encodings, statistics | `Values` |
| `Segments` | segments, their file layout, searches, indexes and pruning | `Columns` |
| `BlockCache` | the LRU cache of decoded columns | `Segments` |
| `Query` | expressions, analysis, optimizer, predicates for the storage | `Segments` |
| `Executor` | scan, filter, projection, aggregation, LIMIT | `Query` |
| `ReadPath` | how a written row is found again: by `Get`, by scans, by SELECT | `BlockCache`, `Executor` |
| `Statements` | INSERT, /write, DELETE, UPDATE as series of engine calls | |
| `PgSession` | a PostgreSQL connection: simple and extended protocol | `Statements` |
| `Server` | TCP, HTTP and PostgreSQL front ends, a table's engine and scheduler, `Stop` | `PgSession` |
| `ServerProofs` | theorems about `Server` and `PgSession` | `Server` |
| `StatementProofs` | theorems about `Statements` in `Server`, and its types | `ServerProofs` |
| `MCEngine`, `MCDurable`, `MCGroupCommit`, `MCTables`, `MCReadPath`, `MCServer` | the constants of the runs | |

### Engine

Each block of code under `Engine.mu` is one action, and so is each block between two such
blocks that changes shared state (taking a segment ID).  `AllocVersion` is
`nextVersion.Add`, done without the lock; `PutOne` and `PutBatch` are step 4 of `Write`
and `WriteBatch` (which rotate at different moments); `WriteFail` is a failed log append
or sync.  `Flush` is `FlushBegin` (first critical section: checkpoint version, drain),
`FlushBuild` (segment ID and file), `FlushRegister` (`addSegment`), once per memtable, or
`FlushFail` (the rest goes back in front of the queue), and `FlushCheckpoint`.  `Compact`
is `CompactBegin`, `CompactBuild` (the ID is taken after the merge), and
`CompactInstall` (`addSegment` and `removeCompactedSegments`) or `CompactFail`.
`Get` and `Scan` hold the lock throughout and are state functions, `GetRow` and `ScanRow`.

A row is its version and what its columns hold: values, values with a NULL, a tombstone,
or nothing (what a segment makes of a tombstone).  A memtable is a function from keys to
rows, full at `MemLimit` keys.

### KVStore and the refinement

`KVStore` is a map from keys to versions.  A call begins, and takes effect once and as a
whole, or fails.  The mapping reads the store off the newest table that has the key,
tables held by a flush included; `ImplementsStore` says that flushes, retries and
compactions are invisible in it.  The promise stands until a flush and a compaction, or
two flushes, cross (`raced`): what happens then is the finding of run `EngineRace`.

### Durable

Every action is one of `Engine` with what the code does to the disk, or `Crash`, `Close`,
`Restart`, `RefuseStart`.  A crash keeps any part of the log from the synced length on,
and any of missing, torn and whole of a file being written (`Left`).  `Close` writes one
file after the other and passes over those that fail, so that each of them may end in the
same three ways; where it comes upon a torn file of that name it truncates it.

The history variables `overtaken` and `regressed` mark the two ways a checkpoint can cover
a row that is in no segment, and `clashed` that two calls on one key were under way at a
time: they may append to the log in one order and put into the memtable in the other
(`Write` appends after `nextVersion.Add` and before it takes `Engine.mu`), and a replay
then brings back the row that was overwritten.  `AckedSurvives` is what holds otherwise,
and run `DurableLoss` shows what the first one costs: a checkpoint covers a row that is not
in a memtable yet.  That takes two writers, since the checkpoint is one below the newest
version, which is the version of a call that is alone.

### Wal and GroupCommit

The file is a sequence of cells, a record's number or garbage.  `maybeRotate` is split by
where it fails; `recoverOpen` comes back with a handle at the beginning of the file.  In
`GroupCommit`, `doSync` is the taking of the queue and the sync with what follows; a
writer reads `Engine.groupCommitter` in a step of its own, which is what lets it submit
after `Close` has begun.

### Tables

A statement is a session that goes from one lock to the next: CREATE is `BeginCreate`
(`GetTable`), `OpenEngine`, `RegisterLSM` or `RegisterMemory`, `CatalogCreate`, and on an
error `Rollback` and `CloseEngine`; DROP is `BeginDrop`, `UnregisterLSM`,
`UnregisterMemory`, each followed by `CloseEngine` outside the lock, and `DropCatalog`;
INSERT and /write are `BeginStore`, `Route`, `CheckKey` (INSERT only) and `Store`.
`Restart` is a crash of the process with `NewServer` and `recoverLSMEngines`.  Engines
are abstract: open or closed, with the rows a reader finds; a directory keeps what was
logged, and may lose rows while two engines are open on it (`Kept`).  Close is one step,
and so is the rest of `WriteBatch`: their inside is in `Engine`, `Durable` and
`GroupCommit`.  A server that cannot open an engine at start does not start; that is the
state before `Restart`.

The history variable `crossed` has the tables of which statements of different kinds
(CREATE of an LSM table, CREATE of a memory table, DROP) overlapped, whose persist failed,
or that are memory tables a restart has left to the default engine.  Outside it
`LiveTableReady`, `AckedRowsReachable` and `NoOrphanEngine` hold, two CREATEs of one kind
or two DROPs included; inside it they do not, and the shortest ways are in the list of
hazards: for example a DROP that has unregistered both engines deletes the catalog entry
of a table made since, and leaves an engine under a name that can neither be created nor
dropped.  `EnginesAccounted` and `NoForeignRows` hold without exception.

### Values, Columns, Segments

Pure operators.  A value is its kind and its raw content; every integer type is one kind
(they share field and comparison), a FLOAT64 is counted in halves, so that conversions
cut, and a string is an atom whose order is its place in `Lexicon`.  `Encode` and
`Decode` keep what the code lays out (dictionary indices with the NULL marker, runs,
packed bits); `FileOfSegment` and `SegmentOfFile` are writer and reader of a file of
cells, with the positions the reader computes.  `WordBits` and `ByteValues` stand for 64
and 256.  Compression and checksums give back what they get and are left out.

What the code gets wrong is modelled as it is: the words of a BOOL vector are written one
per row, so a flushed BOOL keeps only whether it is NULL; the least and the greatest of a
string column are the first and the last entry of a dictionary that is not sorted.

### BlockCache

`BlockCache` holds its lock for the whole of each operation, so `Put`, `Invalidate` and
`ReadColumn` (a hit moves to the front; a miss decodes and puts, if the reader's limit
lets it) are functions of the cache: order, size in use, index by segment.

### Query and Executor

A statement is a record.  `Analyze` builds the plan of `buildSelectPipeline`, `Optimize`
applies pushdown, folding and pruning in the code's order, `KeyRange` and
`ColumnPredicates` are what the scan asks of the storage.  `Eval` has three-valued
comparison, NOT of NULL, overflow and division by zero as the code has them.  `Execute`
makes a result in chunks.  As in the code: a condition on the first column of the table is
taken for a range of keys, compared as text; `tryFastFilter` looks a column up by its
place in the table, in a chunk that may have fewer columns; AVG of integers is cut to
INT64, COUNT(col) counts NULLs, SUM of an expression has no type and fails; groups are
told apart by the text of their values, so that a NULL and the string "NULL" share one
(the character between the texts is taken to be in no string), and an empty input makes
one group even with GROUP BY; LIMIT adds in uint64 (`Plus`; `UintLimit` stands for 2^64),
and a page whose first row in its chunk and count have a sum beyond that is empty;
`ColumnVector.Slice` copies the bits of a BOOL column from the beginning of a
word.

### ReadPath

Writes, `Flush` and `Compact` are atomic here (their crossings are in `Engine`), and so
is each read under `Engine.mu`; what differs is the unlocked `ScanRange` of the server's
adapters, in three steps: segments, waiting tables, active table.  The state has real
segments, built by `SegmentFrom`, and the cache as readers leave it.  `last` is the row
written last under each key: `GetIsLogical` compares it with `Get`, `ScanIsGet` compares
scans with `Get`, `SelectSound` and `SelectComplete` compare SELECT with both.  Each of
the code's defects is an exact exception of a property: a flushed tombstone becomes a row
of NULLs, a flushed BOOL may change, `canSkipSegment` may skip the newest segment of a
key and bring an old row to light, an unlocked scan leaves columns of removed segments in
the cache, a NULL and the string "NULL" share a group, a page may wrap.  Outside these the properties hold without exception.

### Statements, PgSession, Server

`Statements` has one step per engine call: `CheckInsert` for each key, then `StoreBatch`;
`Fetch`, and per row `CheckMove`, `Unlink`, `PutRow`.  The engine is a map that may refuse
a call; what a crash loses is in `Durable`.  What SQL says of a statement is `Meaning` and
`AppliedTo`; `AckedIsDone` and `FailedLosesNone` compare with it every id that no other
session wrote meanwhile.  Scans return rows in the order of the keys' texts, which is the
constant `KeyOrder`: "10" is before "9", so that an UPDATE that adds 1 to both moves 10
first.  A key is the text of the primary key: `/write` takes the text of
the JSON number, so 1000000 is stored under "1e+06" and is another row for SQL, and
`WHERE id = 1.5` on the fast path hits row 1; both are exceptions of the properties.

`PgSession` is the message loop with one statement and one portal name.  The error state
drops Parse, Bind, Describe and Execute until Sync, but a failed Execute does not enter
it, and a simple Query is answered inside it; `PgAnswers` says what clients may rely on.

`Server` composes them with the acceptors and handlers of TCP, HTTP and PostgreSQL, their
limits and deadlines, one created engine with its scheduler (`StartLoops` before
`PublishScheduler`), and the steps of `Stop` in their order: the done channel, the
listeners, `pgServer.Stop` with its wait, `closeAllConns`, `wg.Wait`, the tables' engines,
the default engine.  `Stop` waits for no HTTP handler.  `late` marks a `Close` that comes
between `StartScheduler` starting its goroutines and publishing them: those are never
stopped.  The catalog behind CREATE and DROP is in `Tables`.

Definitions marked "faulty variant" are plausible bugs that no specification uses: each
shows that the property named for it in `PROJECT.json` (mutants) notices the bug.

## 3. Runs

| Run | Shows | Bounds |
|---|---|---|
| `EngineConc` | types, unique IDs, exact counter, `GetCurrentAtRest`, `KeyRetained`, `ImplementsStore` | 2 keys, 2 writers of the same key, 2 flushers, 1 compactor, 3 versions, 3 segment IDs |
| `EngineRace` | **violated** `GetCurrent`: an overwritten row comes back | 1 flusher |
| `EngineScan` | **violated** `ScanAgreesWithGet`: Scan and Get disagree | 1 flusher |
| `Durable` | types, `FilesKept`, `AckedSurvives` | 2 keys with a writer each, 1 flusher, 1 compactor, 1 restart, 3 log records |
| `DurableLoss` | **violated** `SurvivesNow`: a returned row is lost in a crash | as `Durable` |
| `DurableNull` | **violated** `AckedSurvives`: a row with a NULL is lost in a crash | 1 writer |
| `GroupCommit` | `AckedOnDisk`, `EveryWaiterQueued`, `OnlyLateStranded`, `WaitersReturn`, `CloseEnds` | 2 writers, queue limit 1, rotation after 2 records, 3 records, 1 failure |
| `WalRotation` | **violated** `AckedReplayed`: acknowledged records go to a file nobody reads | as `GroupCommit` |
| `Tables` | types, `EnginesAccounted`, `NoOrphanEngine`, `NoForeignRows`, `LiveTableReady`, `AckedRowsReachable` | 2 tables, one of them never dropped, 2 clients, 1 key, 2 engines at a time, 1 failure, 1 crash |
| `TablesDrop` | **violated** `CreatedEmpty`: a new table has the rows of a dropped one | 1 client |
| `ReadPath` | types, `FilesRoundTrip`, `GetIsLogical`, `ScanIsGet`, `ScanMissesOnlyWhenPassed`, `PruneSafe`, `SelectSound`, `SelectComplete`, `OptimizerPreserves`, `GroupsPartition`, `PagesAreSlices`, `CacheSound` | 2 keys with 2 rows each, 4 columns, 2 calls that write, full memtable at 1 key, 3 segment IDs, 9 queries, chunks of 1 and 2 rows, words of 2 bits, a cache for 9 units, 7 pages, counts below 8 |
| `Server` | types and counts, `PgAnswers`, `StorageClosedLast`, `SchedulersEnd`, `AckedIsDone`, `FailedLosesNone`, `StopEnds` | five loads; 2 TCP clients with a limit of 1, 2 HTTP clients, 1 PostgreSQL client, 2 statements, 1 failure, 4 replies in a cycle |

The bounds are enough for the interesting cases: three versions fill a memtable and leave
one row in the next; three segment IDs allow two flushes and a compaction in every order;
with two flushers one fails while the other has taken newer tables; a queue limit of 1
with two writers drops a request; two records fill the log file, the third rotates it.
In `Tables` two clients can run any two statements against each other, one table has all
kinds of statements, and the other is there for rows to be misdirected to; two engines
beside the default one are what a crossing needs.  Its states are compared up to the
numbers of the engines (`UpToEngineNumbers`), which no action looks at.
In `ReadPath` the keys "10" and "9" are in one order as numbers and in the other as text;
the rows have a NULL beside a zero and beside the string "NULL", dictionaries in and out
of order, and BOOLs; two
writes make two versions of a key in two segments or a batch of two rows in one, three
IDs let both be flushed and merged; the cache holds fewer columns than two segments have.
The greatest count, `UintLimit - 1`, is asked for with an offset of 0, where it does not
wrap, and of 1, where it does in a chunk of two rows and does not in chunks of one; every
other sum stays below `UintLimit`, as it does below 2^64.
The loads of `Server` are the questions: all statements against each other with refusals
and a crash; TCP and HTTP against `Stop`; every sequence of PostgreSQL messages; a
PostgreSQL client against `Stop`; CREATE and DROP against `Stop`.  A limit of 1 with two
clients refuses one and lets it come when the other has gone.

Deadlock is checked in every run but `Server`, which really stops; `Quiesce` and `Rest`
say that clients have made the calls of a run.

**Fairness** (`GroupCommit`).  The goroutine, a flush inside its sync, and `Close` when the
goroutine has ended are weakly fair: they are scheduled and their calls return.  The
ticker makes `RunTick` weakly fair.  `RunClosing` is strongly fair, because Go's `select`
picks among ready channels at random, so the closed channel is taken in the end.  Nothing
is assumed of writers, of failures, or of the start of `Close`.

**Fairness** (`Server`).  Handlers, acceptors, statements and `Stop` are goroutines that go
on (weak fairness); `ReadFails` and `PgEnds` are weakly fair because of the 30-second and
five-minute deadlines on reads.  The end of a scheduler's loop is strongly fair: `select`
picks at random among a ready tick and the closed channel.  Clients need do nothing:
dialling, requests, messages and the beginning of `Stop` are not fair.  `StopEnds` excepts
a PostgreSQL client that goes on asking for ever: `pgServer.Stop` closes the listener and
waits for handlers which nobody tells to end.

**Findings.**  The six violated runs are disagreements with what the code's comments or
documents say; `PROJECT.json` quotes the lines.  Others, met while modelling and not
given a run: `doc/architecture-deep-dive.md:297` says a broken segment file is skipped,
but `loadSegments` refuses to start when none is readable (`RefuseStart`);
`doc/operations.md:138` says segment files are written as `*.tmp` and renamed, but
`writeSegmentFile` writes in place; `doc/operations.md:143` says a truncated WAL stops the
start, but `OpenWAL` cuts it and `initWAL` replaces a WAL that cannot be opened;
`server/table_engine.go:53` says the default engine holds no data of new tables, but a
memory table uses it after a restart (`Restart`), where it also keeps rows that
`doc/operations.md:228` says are lost with the next restart;
`doc/sql-reference.md:298` gives a page as the rows after its offset, but for the count
2^64 - 1 `executeLimit` may return none (`PagesAreSlices` says when);
`query/misc_coverage_test.go:326` says that different values make different groups, but a
NULL and "NULL" do not (`GroupsPartition`); `doc/sql-reference.md:266` says that
COUNT(col) passes over NULLs, but `updateCount` counts them; `doc/sql-reference.md:184`
says that a DELETE leaves a tombstone until a compaction, but a flush makes it a row of
NULLs (`GetIsLogical`); `doc/storage.md:332` says that only segments without a match are
skipped, but one with an unsorted dictionary may have matches (`PruneSafe`);
`doc/sql-reference.md:128` says that a repeated primary key is an error, but two INSERTs
that both look before either writes both succeed;
`server/server_handlers.go:336` says that a visible table has its engine ready, which
`LiveTableReady` can state for tables outside `crossed` only.

## 4. Proofs

`EngineProofs` proves, for any numbers of keys, writers, flushers and compactors and any
calls, from the assumptions on the constants in `Engine`:

- `TypeCorrect`: `Spec => []TypeOK`;
- `UniqueSegmentIDs`: `Spec => []SegmentIDsUnique`;
- `ExactL0Count`: `Spec => []L0CountExact`;
- `NoKeyLost`: `Spec => KeyRetained`.

One inductive invariant, `IInv`, serves all four.  `SegmentIDsUnique` is not inductive: it
needs that no ID in use is above the counter (`IDsAllocated`), and that the segments a
compaction remembers are still the ones registered under their IDs
(`SnapshotsFaithful`); otherwise a removal by ID could hit another segment.
`L0CountExact` needs the finiteness of the set of segments and fresh IDs.  `KeyRetained`
needs that a flush in progress holds at least one table (`DrainedWhileFlushing`) and that
a merge has a row for every key of its inputs (`MergeKeepsKeys`, which rests on the
existence of a newest holder, `NewestHolderExists`).  `StepIInv` has one lemma per group
of actions; the temporal steps are by PTL.

`ServerProofs` proves, for any finite sets of clients, any statements and messages and any
limits, from `ServerAssumption` (the kinds of sessions are disjoint) and
`LoadsAssumption` (tables and statements are of the kinds modelled, `IsTable` and
`IsStatement`: integer ids and values, one column in a WHERE and a SET):

- `StorageLast`: `Spec => []StorageClosedLast`;
- `SchedulersStop`: `Spec => []SchedulersEnd`;
- `PgInStep`: `Spec => []PgAnswers`.

Its inductive invariant, `ServerInv`, has one part per actor.  `TcpSound` and `PgSound` tie
a connection to the acceptor that holds it, to the counters and to its session's
statement: that Stop waits for the acceptor before it looks at the handlers is what
`StorageClosedLast` rests on, since a connection that is being accepted is in no set
(`acceptor \in TcpClients => tcp[acceptor] = "dialed"`).  `SchedulerSound` says that an
open engine's scheduler is known or one CREATE is starting it, so that a Close that finds
none came too early (`late`); without the uniqueness of that CREATE a second one could
publish a scheduler that nobody stops.  `PgInSync` counts the unanswered requests by the
handler's step and keeps an error in `replies` to the error state.  The steps of each
actor have a lemma of their own, and frame lemmas (`TcpElsewhere`, `PgElsewhere`,
`WorksFrame`) say that the others' steps leave its part alone.

`StatementProofs` proves, from the same two assumptions and so for any ids, values, tables
and number of sessions, any literals and increments, and any order of the keys,

- `AckedDone`: `Spec => AckedIsDone`;
- `FailedLoses`: `Spec => FailedLosesNone`;
- `ServerTyped`: `Spec => []ServerTypeOK`.

The first two speak of the step that ends a statement and of the table when it began, so
the invariant `StatementsInv` says of every statement in progress what the calls it has
made should have made of the rows that are its own (`Apart`: no other session wrote them,
and no other text hides them).  An INSERT has changed nothing yet (`Kept`) and the keys it
looked for were free when it began (`FreeKeys`).  Of a DELETE or UPDATE the rows to come
are as they were, each once (`TodoSound`), and every id has the row that `Expected`
says: of the rows done, the new one; of the row on its way to another key, none; of the
others, the old one (`AsExpected`).  The hard part is an UPDATE that shifts keys, where a
row moves to an id that another row of the same statement has left: `RoomMade` says that a
row moves only to an id that was free or whose row has moved already, which is what the
check between two calls is for, and what `AsExpected` needs to stay true when the row is
put.  At the last call no row is left to do, and `Expected` is what SQL says
(`ChangeDone`); at a failure or crash it is what SQL says of the rows done
(`ChangeFailed`).  One lemma per call shows that it keeps the invariant of its own
statement (`StepMade`), and `OthersWrote`, once for all calls, that of the others: the ids
it wrote are theirs no longer.  `StepKinds` shows that the rest of the server touches
statements only by beginning them, taking their responses and crashing.  An order of keys
that is not total would leave a scan without a result, so the theorems need no assumption
about `KeyOrder`.  `StatementsInv` was checked by TLC on the instance of run `Server`
before it was proved.  The row types of `ServerTypeOK` come from `StatementsInv`, its
connection counts from `ServerInv`, and the bounds of the counters from `CountersInv`.

`EngineStoreProofs` proves, from the same assumptions as `EngineProofs`:

- `CurrentAtRest`: `Spec => []GetCurrentAtRest`;
- `EngineImplementsStore`: `Spec => ImplementsStore`, the refinement of `KVStore`.

Its invariant `StoreInv` adds to `IInv` that the calls under way have versions of their
own (`CallsNumbered`) and, as long as no flush and compaction have crossed (`~raced`), the
order of age of the tables (`AgeOrder`) and what it is for, that the row looked up through
memtables, tables being flushed and segments is the one last put (`StoredCurrent`).  A
lookup among segments goes by ID, so `AgeOrder` is about IDs: one flush holds tables at a
time (`OneFlush`), no compaction merges while a flush writes (`NoCrossing`), so that the
flush has the highest ID (`FlushIsNewest`) and a merge has all the segments
(`MergingIsAll`), and a file built by a compaction hides only what it has merged
(`BuiltInPlace`).  Each of the steps of flushes and compactions leaves the looked-up row of
every key alone (`RowsKept`), which is also why they are stutters of `KVStore`; a Put is
the step of the store, and an allocation and a failure are its `Begin` and `Fail`.

`DurableProofs` and `SurvivalProofs` prove, for any number of crashes, `Close`s and
restarts and finite sets of flushers and compactors (they are goroutines),

- `DurableTypes`: `DurableSpec => []DurableTypeOK`;
- `NoFileOverwritten`: `DurableSpec => []FilesKept`;
- `ReturnedCallsSurvive`: `NoNulls => (DurableSpec => []AckedSurvives)`.

`DiskInv` serves the first two.  `FilesNamed` is stronger than `FilesKept`: also torn files
have names of their own and are not what is being written; a `Close` that kept a torn
file under a name it wrote itself broke it, which was a fault of the model, corrected
since.  `NoNulls` is about the calls, not the code: a row with a NULL cannot be read
back from the log, and run `DurableNull` shows that the theorem is false without it.

`DurableInv`, the invariant of the third, says what a replay relies on, as long as none of
the exceptions has happened.  Of the log (`LogInv`): every row that is in memory, in a
segment, in a file or last put is in its synced part (`AllLogged`); the records of a key
have rising versions (`VersionsRise`), and that of a call under way is their last
(`CallsInLog`), which is where calls on one key must not overlap.  Of the running engine
(`UpInv`): a record that a replay may still apply is in doubt or not newer than the last
put (`InDoubt`); no checkpoint that is written or about to be written covers what is in
memory (`AboveCheckpoints`, `AboveFlushes`); and a readable file that a failed flush,
compaction or deletion has left hides nothing (`LeftBehind`): a newer segment has the key,
or the same row, or the key is in memory and comes back from the log.  From these,
`Survives` follows for every cut of the log: a key that is in memory has a record above
every checkpoint, a key that is not has its row in the segments.  A process that ends
keeps `LogInv`, and leaves `SurvivesNow` as a fact about log and files alone; `Restart`
re-establishes `UpInv` from the log (`RestartUpInv`).  The attempt at this proof
showed that `clashed` had to be among the exceptions, which the run had hidden by giving
each key one writer.

`GroupCommitProofs` proves, for any finite set of writers, any file size, queue limit and
number of failures,

- `GroupTypes`: `Spec => []GroupTypeOK`;
- `AckedIsOnDisk`: `Spec => []AckedOnDisk`;
- `WaitersQueued`: `Spec => []EveryWaiterQueued`;
- `StrandedAreLate`: `Spec => []OnlyLateStranded`.

In `GCInv`, `RecordsKept` ties each call to a record that was written, and what was
acknowledged to what is safe, until a write or rotation fails half-way (`damaged`);
`WaitersOnce` has every waiting writer exactly once in the queue or in one of the two
batches, that of the goroutine and that of a flush; `BatchesTaken` that a batch is empty
outside a sync; `Stranded` that after the goroutine's last look at the queue only late
requests are there.  The proof corrected the type invariant: each failure may
leave the file, and after a reopen `offset`, one longer than `MaxSize` (`WalTypeOK`).

`TablesProofs` proves, for any finite sets of clients and tables and any number of
crashes and failures, `TablesTypes`, `EachEngineOwned`, `RowsAreOfTheTable`,
`NoEngineOrphaned`, `LiveTablesReady` and `AckedRowsFound`: the six invariants that run
`Tables` checks.  `TablesAssumption` asks for as many engine numbers as there are tables,
because a restart opens an engine for every LSM table and `EngineIds` is a bound of the
model, not of the code; `EnginesSuffice` says that a CREATE then finds one too, as its
`BeginCreate` waits for one (`EnginesLeft`).  `TablesInv` has a part without
exceptions, `EngineInv` - an open engine has one owner among the routing table, the
memory tables and the statements under way (`OneOwner`), and only one table's statements
use it (`OneTable`), so that directories hold rows of their own table (`DirRows`) - and a
part for each table whose statements have not crossed, `Tame`: catalog, file and routing
agree up to what the statements at work on it still have to do (`Uncrossed`), a statement
that will owe a row is on its way to the engine where the row will be looked for
(`Routed`), and acknowledged rows are in that engine and in the table's directory
(`OwedKept`).

Only model-checked:

- everything in the modules of the read path, `ReadPathTypeOK` to `CacheSound`.
  Encodings, plans and scans are recursive operators or folds over data; what they compute
  for every input needs induction over data, which the provers cannot instantiate.
  `CacheSound` compares the cache with what these decode;
- `WaitersReturn`, `CloseEnds` and `StopEnds`: liveness is out of reach of TLAPS here.

## 5. Not modelled

Byte formats and checksums of log and segment files (a record or file is readable or
not); sizes in bytes; the SQL lexer and parser (statements are records), LIKE, timestamps
and the rendering of results; admin and metrics pages, the slow-query ring, configuration,
command line and the interactive client.  The skip list is a function from keys to rows.
`WAL.Truncate` and `Engine.SyncGroupCommit` have no caller in the server; the first is
left out, the second is in `GroupCommit`.  An append that fails after its record was
written may come back at the next start; `Statements` leaves that to `Durable`.

Five hazards have no property: segment files are loaded in the order of their names, so
that from ten segments on a scan after a restart may prefer an older row (an instance
with ten segments is out of TLC's reach here); `NewEngine` refuses to start when only
torn files are there, which is `RefuseStart` in `Durable` and the first of the findings
without a run above; a DROP that comes late deletes the catalog entry of a table that
another client has dropped and created meanwhile, which `Tables` does and
`NoOrphanEngine` leaves out (`crossed`); two INSERTs of one key may both succeed, which
`AckedIsDone` leaves out; and a condition on the first column is asked of the storage as a
range in the order of text, which `SelectComplete` leaves out.

## 6. What could come next

A proof of `GetIsLogical` for every schema needs induction over encodings and is out of
the prover's reach as a whole.  A run of its own for names of ten and more segment files,
and one for overlapping calls on one key; the slow-query ring; the parser.
