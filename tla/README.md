# A TLA+ model of lowdb

lowdb is an LSM key-value store in Rust: multi-version writes through a write-ahead log into a
memtable, memtables frozen and flushed to level-0 tables in the background, snapshot isolation
for transactions, recovery from the logs. This directory holds TLA+ modules that model it, the
TLC configurations that check them on small instances, and TLAPS proofs about them.
`PROJECT.json` lists the runs, the faults each property is tested against, the lines each
definition translates, the findings and the hazards.

Paths below are relative to the repository.

## Inventory

| Component | State it keeps | Operations | Status |
|---|---|---|---|
| transaction: `Oracle` (`transaction/src/oracle.rs`) | `next_seq`, `visible`, the map of recent commits under `commit_lock`, `active` handles per `read_ts`, `tx_id` | `begin`, `end`, `commit`, `freeze` | modelled |
| transaction: `Transaction`, `Snapshot` | `read_ts`, the write buffer, a pinned `State` | `new`, `set`, `delete`, `get`, `commit`, `rollback`, drop | modelled |
| storage: `Storage`, `State` (`storage/src/lib.rs`, `state.rs`) | active memtable and its log, frozen memtables, `state_lock`, `flush_lock`, notifications, shutdown flag | `set_batch`, `freeze_if_full`, `freeze_active`, `flush_frozen`, `await_flush_capacity`, `flush_loop`, `begin_shutdown` | modelled |
| storage: `DiskStorage` (`storage/src/storage.rs`, `tables.rs`) | table list per level, next table id | `load`, `l0`, `get_snap` | modelled |
| storage: `Wal`, recovery (`storage/src/wal.rs`) | next log id, the log files | `new`, `restore`, `new_writer`, `remove` | modelled |
| engine: `DB` (`engine/src/lib.rs`) | the three above and the join handle of the loop | `open`, `transaction`, `snapshot`, `set`, `get`, `flush`, `close`, drop | modelled |
| wal: `WalWriter`, `WalReader` | a buffered file | `append*`, `next` | partly: the records the engine writes, not their bytes |
| memtable: `MemTable`, `SkipList` | a lock-free skip list ordered by key, newest version first | `put`, `get_snap`, `iter`, `is_full` | partly: all but `iter_from`, `mem_usage` and `Drop` |
| sstable: writer, blocks, index, bloom filter, footer, cursor | one immutable file | `add`, `finish`, `get`, `SSTableMeta::read` | modelled, without checksums |
| sstable: `TableScan`, `MergeScan`, `CompactionScan`, `compact` | iterators over tables | `next`, `compact` | modelled; the engine does not call it |
| common | `Key`, `Value`, `Lookup`, errors | | modelled where the others use it |

How they interact. A `DB` handle is a clone of three `Arc`s, so tasks share one `Oracle`, one
`Storage` and one flush loop. `Oracle::commit` holds `commit_lock` across the conflict check,
`Storage::set_batch`, the publish, the pruning of `recent` and `Storage::freeze_if_full`, then
drops it and waits for flush capacity. `set_batch` holds a read guard on the current `State` while
it writes log and memtable. A freeze takes `state_lock`, creates a log, swaps the `State` under
the write guard and notifies the loop. A flush (by the loop, `DB::flush` or `DB::close`) takes
`flush_lock`, writes the oldest frozen memtable to level 0 (newest version of each key only),
retires it from the `State` and removes its log. A handle registers its `read_ts` in `active`
and captures the `State`; it reads the captured memtables and the shared table list.

What is hard, and what makes each part correct:

- *Oracle.* Commits, begins and drops interleave at every await and every atomic. Correct:
  first committer wins, no spurious conflict, pruning drops nothing a live handle needs, a write
  set becomes visible as a whole, every commit is decided, and the whole is snapshot isolation.
- *Storage.* Freezes and flushes by several tasks, failing I/O and retries, lost wakeups,
  shutdown. Correct: reads by the current `State` always find the newest version, tables are in
  the order of age, files suffice to recover, frozen memtables are bounded, nothing that waits
  waits for ever.
- *Engine.* Visibility and storage meet: what a handle pins, and when. Correct: a snapshot reads
  exactly what was committed at its `read_ts`, twice the same, and what is published is durable.
- *Recovery and log records.* A crash at any step, a record cut off in the middle, counters and ids
  that restart from what the files say. Correct: the files hold exactly the committed map, an opened
  database reads it, no number is given out twice, and only a torn record keeps it from opening.
- *Skip list.* Inserts, searches and iterations race on single pointers. Correct: an insert or a lookup
  takes effect at once, no link is lost, an iterator misses nothing that was there.
- *Tables and compaction.* One block is searched, offsets are counted by hand, lengths have 16 bits,
  the filter wraps. Correct: a table answers every lookup as what was written would, a reopened table
  is the one that was finished, a merge neither loses nor revives a key.

## Modules

| Module | What it is |
|---|---|
| `SnapshotIsolation` | The promise of the transaction crate: a clock, the set of commits, snapshots, first committer wins. |
| `Oracle` | `Oracle`, and the life of a transaction, a snapshot, a plain write and a flush against it. |
| `Storage` | Memtables, logs, level 0, the writers, flush callers and the loop. |
| `Engine` | `Oracle` on top of `Storage`, the `State` a handle pins, and reads. |
| `DurableMap` | The promise of a directory: a map that commits change as a whole and nothing else changes. |
| `Recovery` | One directory, its logs and tables, and the processes that open it one after the other. |
| `VersionSet` | The promise of a memtable: a set of versions with atomic insert and lookup. |
| `SkipList` | The list behind it, pointer by pointer. |
| `SSTable` | The file format of a table: writing, opening, lookup, scanning (operators). |
| `Compaction` | Writers that produce tables, and `compact`. |
| `Lists` | `Vec::retain` on the list of frozen memtables. |
| `OracleProofs`, `StorageProofs`, `EngineProofs`, `RecoveryProofs`, `SkipListProofs`, `CompactionProofs` | TLAPS: the theorems about each of these modules, and the inductive invariants. |
| `SSTableProofs` | TLAPS: lemmas about what the operators of `SSTable` write and read back, on which `CompactionProofs` rests. |
| `ListLemmas` | TLAPS: lemmas about lists and about least and greatest numbers. |
| `MCOracle`, `MCStorage`, `MCEngine`, `MCRecovery`, `MCSkipList`, `MCCompaction` | Symmetry sets and constants for TLC. |

### Oracle

`next_seq`, `visible`, `recent`, `active` and `commit_lock` are the fields of `Oracle` (`recent`
is the map the lock guards; 0 stands for "no entry"). A task is a `Transaction` or `Snapshot`
object (`Tx`) or one call of `DB::set` (`Plain`) and is used once, as `commit(self)` is; its name
stands for its `tx_id`. `pc` follows a task through the code:

    idle -> open -> waiting -> writing -> written -> pruning -> freezing -> throttled -> closing -> done
            begin   (lock)     set_batch  (done)     publish    prune      unlock       return     drop

One action is the code between two points where another task can observe something: an await, a
store to an atomic, the release of a mutex. `Begin` and `Leave` are one step each because the
mutex of `active` is held across them. The insertion of the keys in `recent` and the store to
`visible` are one step since `recent` is only read under the commit lock; `Prune` is a separate
one, because handles begin and end between the publish and the computation of the watermark.
With `IoFaults`, `SetBatchFails` is a failing append, before the first put or after the last, and
`FreezeFails` a failing freeze after the publish.

`fate` and `written` are there for the properties: what became of a task, and the versions in
the memtables. `ImplementsSnapshotIsolation` maps the publish to the abstract commit.

### Storage

A version is `<<key, seq>>`. `entries[i]` is memtable `i`, `log[i]` the versions whose `TxCommit`
is in log `i`, `frozen` the list of ids newest first, `tables` level 0, newest first. Mutexes are
variables that hold their owner; the `RwLock` of the state is one step where it is not held
across an await, and `batching` is the read guard of `set_batch`, which keeps `Swap` and `Retire`
out. `at` is where each task is; `flush_notify` and `shutdown_notify` are the permits of the
tokio `Notify`s. `notify_waiters` leaves no permit: `RemoveWal` wakes the loop only when it is
waiting. (The waiters it is meant for never wait on `flush_notify`; they wait on
`flushed_notify`, which nobody notifies, so they poll every 50 ms: `Poke`.)

Which call may fail is the constant `Faults`: `append` (a log record), `new_wal` (opening a log;
its number is used up), `l0` (writing a table), `remove` (deleting a flushed log). A `TxCommit`
whose append fails may or may not be in the log. `tables` is the list that searches use and `ss_files`
the files with a name, which differ when `l0` fails after the rename (`sync_dir`, `SSTable::new`): only
the temporary file is removed, so the table is on disk and listed nowhere until a restart, and the retry
writes it again. Two equal files next to each other count as one (`Named`); a search that finds nothing in
the first finds nothing in the second, and the retries need no bound.

The callers' commit lock appears as `NoneExclusive`. `Engine` replaces it by the real one.

### Engine

Every action is an action of `Oracle`, one of `Storage`, or one of each where a call of the first
is the second. What is new is `pinned`, the `State` a handle captures in a step of its own after
`Begin`, and `View`, the search of `State::get_snap` with `read_ts`. `DB::get` is a handle that
reads once. Because of that form a behaviour of the database is one of each part, and what is shown
of `Oracle` and `Storage` alone holds in it; this says nothing of the code beyond what the parts say, so
it is a lemma of the proofs (`Parts`) and not a property. What the composition is for is the
properties that need both: what a handle reads, what is durable once it is published, and that a call of
`commit` comes back from `commit_lock`, `state_lock`, the read guard and the backpressure wait taken
together (`CommitReturns`).

`Recovery`, `SkipList` and `SSTable` are the layers below. `Recovery` runs one commit and one flush at
a time (the commit lock and the flush lock; the tasks in front of them are in `Oracle` and `Storage`)
but writes record by record and crashes. The sets of versions that `Storage` and `Recovery` call
a memtable and a table are what `SkipList` and `SSTable` give back.

### Recovery

`wal_files[id]` is the sequence of records of a log, `ss[id]` the versions of a table, `stray` the
temporary files. `phase` is the state of the process: `down`, `restored` (after `Wal::restore`),
`loaded` (after `DiskStorage::load`), `up`, or `failed` when `DB::open` returned an error. The database
begins as an empty directory, which `Wal::new` and `DiskStorage::load` make.
A commit is `Begin`, `AppendBatch`, `Put`, `AppendCommit`, `Publish`; a freeze `NewWal`, `Swap`; a flush
`CreateTmp`, `Finish`, `Retire`, `RemoveWal`. Each append writes one record and syncs it.

`Torn` stands for a record of which some bytes are missing. There are two sources: `Crash` in the
middle of an append, and `RefuseBatch`, a value that is too long for its 16-bit length and is refused
when the front of the record is in the `BufWriter` already (`unflushed`) or, when that was long, in the
file; the next append flushes it in front of its own record. `Rejected` is what `WalReader::next` and
`restore_tables` refuse. What stands behind a torn record is read as its missing bytes: mostly an
error (`RestoreFails`), but it may happen to parse, and then (`RestoreMisled`) the model claims nothing.

`DurableMap` is refined by taking for the map the newest version of each key that the committed
records and the tables hold (`Held`): the commit is the append of `TxCommit`, the acknowledgement
is the publish, and freezes, flushes, crashes and restarts are stutters. `Held` counts every record that
is in a file, whether a reader gets to it or not: it says that nothing is *taken out of* the files. Whether
what was acknowledged can be *read back* is a question of its own, `AckedReadable`, which counts only the
records in front of the first one that a reader rejects (`Legible`). The code violates it after a refused
value (`recovery_refused`); `AckedReadableUnrefused` says that nothing else does.

### SkipList

A node has the name of its inserter; `tower[n][l]` is its pointer on level `l`. An action is one
access to a shared pointer: `Onward` and `Downward` a load and comparison of `find` or `seek`,
`LinkBottom` and `LinkUpper` a successful compare-and-swap, `LinkFails` a failed one. Pointers are
released and acquired, so one total order of their accesses is assumed; `max_height` is Relaxed, so
`ReadHeight` may see any earlier value (an inserter at least its own height). The engine's commit lock
serialises inserts; the module does not assume it, since the list is `Sync` and its tests insert from
several threads.

`VersionSet` is refined by taking a version to be in the set from the swap on the lowest level, and
a call to return what `done` says; a lookup takes effect when it loads its last pointer.

### SSTable and Compaction

A file maps the positions at which something begins to what begins there, so an offset counted wrongly
leads to garbage. The writer's buffers, the block and the bytes of the index, are such maps too and are
written to the file whole (`WriteAll`), as `flush_block` and `finish` do. Sizes are parameters (`KeySize`, `BlockSize`, ...), values are their lengths, hashes
have `WordBits` bits, and a value passes through `Encode` and `Decode`, which turn an empty string into
a deletion. `GetExact` and `MergeExact` state that conversion for themselves (`AsRead`) and allow no other: they
are about blocks, filters and merges, and do not flag that an empty string is lost, which is described
with the observations below. A key or value too long for its own 16-bit length (`encode.rs:27`, `:37`)
is, like the block too long for its own, an error of `add`, and one error in the model. `Compaction` drives the writer with any ascending entries (`write_l0` gives it the newest
version of each key), then merges any of the tables. A version is written once: two entries of `Given`
with one key and number are the same, as the oracle's numbering has it. `Compact`, `Supersede`, `Replace`, `Emit`,
`EmitLast` are `MergeScan` and `CompactionScan` step by step. The last entry is written even if it is a
deletion, and older versions are dropped without a look at snapshots; both are as in the code. `MergeExact`
compares the output with the inputs of the merge. It does not ask whether a dropped deletion lets a key
come back from a table that is *not* an input: that depends on which tables a caller chooses, and the code
has no caller of `compact` yet.

## Runs

| Run | Checks | Instance |
|---|---|---|
| `oracle_transactions` | `TypeOK`, `FirstCommitterWins`, `ConflictIsReal`, `RecentComplete`, `ActiveExact`, `FreezeSeesSettled`, `AtomicVisibility`, `ImplementsSnapshotIsolation`, `CommitDecided` | 2 transactions, a plain write, a flusher, 2 keys, recovered sequence 1, failures, fairness |
| `storage_safety` | `TypeOK`, `LookupIsNewest`, `NewestTableFirst` | a writer, a flusher, the loop, 2 keys, all failures |
| `storage_live` | `CrashSafe`, `BackpressureBound`, `EveryFrozenFlushed`, `ThrottledReturnsWhileOpen`, `CloseReturns` | a writer, a flusher that may close, a handle that may be dropped, failing flushes, fairness |
| `storage_drop` | violation of `ThrottledReturns` | a handle dropped while another writes |
| `storage_stale_log` | violation of `CrashSafe` | a log that cannot be removed |
| `engine_reads` | `TypeOK`, `UnracedSnapshotExact`, `PublishedIsDurable`, `RepeatableRead` | a handle, two plain writes, a flusher, one key |
| `engine_faults` | `PublishedIsDurable`, `CommitReturns` | a transaction of up to two keys, a flusher, failing appends, logs and tables, close and drop, fairness |
| `engine_race` | violation of `SnapshotExact` | as `engine_reads`, with a write recovered |
| `recovery` | `TypeOK`, `ReadsExact`, `SeqFresh`, `OpenFailsOnlyTorn`, `AckedReadableUnrefused`, `ImplementsDurableMap` | 3 processes (2 crashes), 2 keys, a refused commit |
| `recovery_refused` | violation of `AckedReadable` | one key, a refused commit |
| `skiplist` | `TypeOK`, `LevelsComplete`, `IterationComplete`, `LenExact`, `ImplementsVersionSet` | 3 inserts, a lookup or an iteration, 2 levels |
| `tables` | `TypeOK`, `GetExact`, `ReopenExact`, `MergeExact`, `FailsOnlyOversize` | 2 tables of up to 4 of 8 entries, 4 keys |

Each property of a passing run comes with a fault of the code (the operators marked *Broken*,
next to the definition they spoil; nothing uses them) under which TLC finds the property violated.

### Bounds, and why they are enough

- *Oracle.* A missed or a false conflict needs a victim, a committer and a handle whose life makes
  the pruning matter: two transactions and a plain write (more are covered by the proofs). Two keys let write sets overlap in part. Tasks are
  used once, so the state space is finite without a bound on sequence numbers.
- *Storage.* Sequence numbers end at `MaxSeq`, log numbers that fail to open at `MaxWal`. A
  memtable is full at `Capacity` versions (the code: 64 MB), `MaxFrozen` is 0 or 1 (the code: 4),
  so that a few writes freeze several memtables, which is what ordering, backpressure and lost
  wakeups need. `BackpressureBound` is tight: with one less TLC finds a counterexample.
- *Engine.* A handle, two commits and a flusher on one key with `Capacity` 2 is the smallest
  instance in which a level-0 table loses a version that a handle needs. With `Capacity` 1 every commit
  freezes, which is what `engine_faults` needs: a commit, a flusher and the loop on all locks at once, and
  a failure at each step of a freeze or flush. Several committers in front of the commit lock are in
  `oracle_transactions`, and two of them between freezes and flushes in `engine_reads`.
- *Recovery.* Commits are numbered up to `MaxSeq` 4, freezes make logs up to `MaxWal` 3, there are
  `MaxCrashes` 2 and `MaxRefused` 1 too long values. Wrong orders and counters show when the second
  process writes on top of what the first left in two places (a log and a table, or two tables) and the
  third reads it.
- *SkipList.* A lost link needs two inserters at one place, a third whose node they stand on, and
  nodes of different heights: three inserts on two levels. The versions are two of one key and one
  of another; the lookup is for a number between the two.
- *SSTable, Compaction.* Sizes are scaled so that two or three entries fill a block, so tables have one
  to three blocks and the versions of a key straddle them; one value fits only a block of its own, or
  none when it follows another. Hashes have 8 bits, so additions wrap, and two keys share one. Sequence
  numbers and the snapshots asked for end at `MaxSeq`, the entries of a table at `MaxEntries`, the
  tables before the compaction at `MaxTables`. The proofs cover the bounds this leaves open.
- `CHECK_DEADLOCK` is off in `MCRecovery` (an open database may have nothing left to do within the
  bounds), `MCSkipList` (every call has returned) and `MCCompaction` (the compaction or an error is the
  end). Everywhere else it is on: a system whose tasks are done still has a flush caller or a retrying loop.

### Fairness

Nobody has to call anything: a transaction may stay open, no flush need be asked for. What has
begun goes on. tokio polls every ready task (weak fairness); its `Mutex` and `RwLock` serve
waiters in FIFO order, so a task whose step is possible again and again takes it (strong fairness
where a lock is waited for). `SF(L0(Loop))` says that a table which cannot be written for a passing
reason is written at last by the loop, which retries for ever with a bounded back-off. No failure
is ever required. `FairSpec` of `Engine` says the same of the two parts together: a task that is in a call
takes its next step if that is possible again and again (`Turn`).

`Recovery`, `SkipList` and `Compaction` state safety only: a directory with a torn record is refused
for ever, the retries of an insert are bounded by the inserts of others, and a scan is a loop over a
file.

## Where the code and its comments or tests disagree

1. **A snapshot can miss the version it should read** (`engine_race`). `Snapshot::new` and
   `Transaction::new` take `read_ts` and then await the state. A second commit of a key whose last commit
   is the one at `read_ts`, a freeze and a flush in between leave only the newer version on level 0,
   and the captured `State` does not hold the older one. The comment at `transaction/src/snapshot.rs:21`
   says it cannot happen.
   `UnracedSnapshotExact` is what does hold, and `RepeatableRead` holds for every handle.
2. **Dropping one clone of `DB` stops flushing for all** (`storage_drop`). A writer of another
   clone then waits for ever in `await_flush_capacity`; as long as nobody shuts the loop down it does
   not (`ThrottledReturnsWhileOpen`).
3. **A log that could not be removed comes back above newer tables** (`storage_stale_log`).
   The redundant log is harmless only as long as nothing newer was flushed
   (`engine/src/lib.rs:180` says "a redundant wal after a crash replays harmlessly").
4. **A refused value damages the log for the commits after it** (`recovery_refused`). A value of more than
   65535 bytes is refused (`wal/src/writer.rs:133`) when the front of its record is in the `BufWriter`, and
   the next append writes that in front of its own record. The next commits are acknowledged and cannot be
   read back, though the README promises durable writes and crash recovery; a flush of that memtable,
   which removes the log, repairs it. Without a refused commit it cannot happen (`AckedReadableUnrefused`).

What the modules record as the behaviour of the code, without a run of its own:

- *A failed commit leaves its versions in the memtable.* When `TxCommit` cannot be appended
  (`transaction/src/oracle.rs:92`), the versions stay, unpublished; the next publish makes them visible, and
  a freeze can flush them in place of what readers see. The comment at `transaction/src/oracle.rs:107`,
  that a frozen memtable never holds an unpublished write, is true only of commits that did not fail: that
  is `FreezeSeesSettled`. `AtomicVisibility` still holds, with the failed commit visible as a whole.
- *An empty string becomes a deletion.* Its length is 0, which is how a table
  (`sstable/src/encode.rs:58`) and a log (`wal/src/reader.rs:111`) write a deletion; in the memtable it
  is still a string, so `get` answers differently before and after a flush or a restart.
- *A torn record keeps the database from opening.* Only a record of which no byte was written counts
  as the end of a log (`wal/src/reader.rs:54`); one that is cut off later is an error, at every
  attempt. Nothing committed is lost from the files (`ImplementsDurableMap`).
- *A long entry can make a memtable unflushable*: a block is checked for its 16-bit length only after
  the entry is in it (`FailsOnlyOversize` says that nothing else makes a table fail).

## Proofs

TLAPS proves the following for every value of the constants: any sets of keys, tasks and versions, any
bounds, and whatever may fail, unless the table says otherwise. Beyond that the theorems rest on the
`ASSUME` of each module only, which gives the constants their types, keeps the kinds of tasks apart,
in `SkipList` the mark of a call that has not returned apart from every result, and in `SSTable` says
that a block has room behind its header (`BlockSize > BlockHeader`), that its length field can hold a
block that is not too long (`MaxBlock >= BlockSize`) and that a hash fits its word. TLC evaluates these
assumptions in the runs.

| Theorem | Statement | Assumed |
|---|---|---|
| `OracleProofs`: | | |
| `TypeCorrect` | `Spec => []TypeOK` | |
| `SnapshotWriters` | `Spec => []FirstCommitterWins` | |
| `ConflictsAreReal` | `Spec => []ConflictIsReal` | |
| `PruningIsSafe`, `HandlesCounted` | `Spec => [](RecentComplete /\ ActiveExact)` | |
| `WritesAreAtomic` | `Spec => []AtomicVisibility` | |
| `FreezesAreSettled` | `Spec => []FreezeSeesSettled` | |
| `Refinement` | `Spec => ImplementsSnapshotIsolation` | |
| `StorageProofs`: | | |
| `TypeCorrect` | `Spec => []TypeOK` | |
| `TablesInOrder` | `Spec => []NewestTableFirst` | |
| `LookupCorrect` | `Spec => []LookupIsNewest` | |
| `CrashesLoseNothing` | `Spec => []CrashSafe` | removals do not fail |
| `MemoryBounded` | `Spec => []BackpressureBound` | finitely many writers; appends and new logs do not fail |
| `EngineProofs`: | | |
| `TypeCorrect` | `Spec => []TypeOK` | |
| `ReadsRepeat` | `Spec => RepeatableRead` | |
| `SnapshotsAreExact` | `Spec => []UnracedSnapshotExact` | appends do not fail |
| `PublishedSurvives` | `Spec => []PublishedIsDurable` | removals do not fail |
| `DatabaseIsolates` | the database implements `SnapshotIsolation` | |
| `ComponentsHold` | the invariants of the two parts, for the database | |
| `SkipListProofs`: | | |
| `TypeCorrect` | `Spec => []TypeOK` | |
| `LevelsAreComplete` | `Spec => []LevelsComplete` | |
| `IterationsAreComplete` | `Spec => []IterationComplete` | |
| `LenIsExact` | `Spec => []LenExact` | |
| `Linearizable` | `Spec => ImplementsVersionSet` | |
| `RecoveryProofs`: | | |
| `TypeCorrect` | `Spec => []TypeOK` | |
| `ReadsAreExact` | `Spec => []ReadsExact` | |
| `NumbersAreFresh` | `Spec => []SeqFresh` | |
| `RefusedOnlyTorn` | `Spec => []OpenFailsOnlyTorn` | |
| `AcknowledgedReadable` | `Spec => []AckedReadableUnrefused` | |
| `Durable` | `Spec => ImplementsDurableMap` | |
| `CompactionProofs`: | | |
| `TypeCorrect` | `Spec => []TypeOK` | |
| `GetsAreExact` | `Spec => []GetExact` | |
| `ReopensAreExact` | `Spec => []ReopenExact` | |
| `MergesAreExact` | `Spec => []MergeExact` | |
| `FailsOnlyOversized` | `Spec => []FailsOnlyOversize` | |

The hypotheses that appear in the table are needed:

- With failing removals `CrashSafe` is false (`storage_stale_log`), and `PublishedIsDurable` with it.
- `BackpressureBound` is about writers that wait in `await_flush_capacity`. A commit whose append or
  freeze fails has put its versions and leaves without waiting; when `DB::flush` then freezes them and
  level 0 cannot be written, the next round freezes one memtable more. TLC finds the bound exceeded
  with failing appends and with failing logs.
- With failing appends `UnracedSnapshotExact` is false. A commit fails at its last append, its versions
  are in the memtable; `DB::flush` freezes and flushes that memtable; level 0 keeps the newest version of
  each key, which is the unpublished one; and a snapshot taken before the next commit does not find the
  older, committed one. This is what the failed commit described above does to a reader.

### How the invariants hold

None of the properties is inductive. Each module states the invariant that is (`IInv`), proves that
the initial states satisfy it and that every action preserves it, with a lemma for each group of
conjuncts an action can disturb, and derives the properties from it. TLC has checked each `IInv` on
an instance as well (of `SkipList` without the type of results, which TLC cannot compare).

*Oracle.* A task that is past its conflict check and not published yet must have no conflict
(`NoMiss`); the check ensures it because `recent` misses nothing a live handle needs
(`RecentComplete`); pruning preserves that because the watermark is the oldest live handle's, that is,
because `active` counts the live handles exactly (`ActiveExact`). Mutual exclusion of the locked phases
(`LockInv`) makes sure that only one task is between check and publish, and `SeqInv` that its number is
above everything published. `RecentReal` (every entry is a commit) is the converse that
`ConflictIsReal` and the refinement of a refusal need. `WriteInv` says which of a task's versions are
in the memtables where it is, which gives the two properties about write sets.

*Storage.* Everything rests on one order. The ids of memtables grow from the retired ones over the
frozen ones to the active one (`IdInv`), sequence numbers grow with the ids (`VersionInv`), and level 0
holds exactly what `write_l0` makes of the retired memtables, in the same order (`TableInv`); so the
first place in which a lookup finds a key has its newest version. A freeze and a flush are several
steps, so the invariant says what the task in them has in its hands (`TaskInv`), and that the two
mutexes, the read guard and the commit lock make it the only one (`ControlInv`). `LogInv` and
`FilesInv` relate the logs to the memtables and the files to the logs, for `CrashSafe`; `NamedInv` says
that the named files are the listed tables, and in front of them perhaps one of the oldest frozen memtable.
`BackpressureBound` needs a potential: frozen memtables, the active one when it is not empty, and
the writers that may still write never exceed `MaxFrozen` + writers + 1 (`BackInv`).

*Engine.* The invariants of both parts are carried through the composition together (`PartsInv`). Each
part guarantees the other what it assumed: the commit lock gives `Storage` its `NoneExclusive`, and
`set_batch` gives `Oracle` its step from `writing` to `written`. So every step of the database is a step
or a stutter of each part, and what is proved of the parts holds in it. `PinInv` says what a pinned
`State` is: what was visible at the pin is in the memtables it holds or in those that were retired
before, and everything that came later is above it. A retired memtable has kept its newest version of
each key on level 0, and without a commit between `read_ts` and the pin that is not above `read_ts`.
`DurableInv` has every committed write set in one log.

*SkipList.* A level is described without following its pointers: the nodes linked on it are closed
under the pointers and lie in every closed set (`ChainInv`), each is less than its successor, and no
node stands between a node and its successor (`GapInv`). So a successful compare-and-swap puts the
node into a gap that is still the one that `find` saw (`FindInv`), which keeps versions unique
(`UniqueInv`) and loses none; an iterator is never past something it has not yielded (`IterInv`). An
insert takes effect at the swap on level 0, a refused one and a lookup when they load the last
pointer. The number of tasks need not be finite.

*Recovery.* A log is described by what it says: which transactions begin and commit in it and with
which versions, in a form that every sequence of commits writes and that a crash can only cut
(`WellFormed`). Between the files there is the order of ages (`OrderInv`): logs are newer than the
logs before them, tables not older than the tables before them, and a log that has an older version
of a key than a table is the one the table was made of, which is why its return after a crash is
harmless. The memtables are the logs, listed by age (`MemoryInv`); the counters are above everything
in any file, committed or not (`CounterInv`); the log being flushed is the oldest and is not removed
before a table has what it says (`FlushInv`). `BoundInv` keeps the files finite, so that a newest
version exists. The refinement maps `AppendCommit` to the abstract commit, `Publish` to the
acknowledgement and every other step, crashes and restarts included, to a stutter. `TornInv`, on top of
it, says that while nothing was refused a torn record is the last of its log and a process that restored
the logs found none, so nothing is ever appended behind one; then a reader gets all that committed
(`RestoredIsRead`).

*SSTable.* A file is never described by the list of entries it was made from; that would take an
induction over them. `WriterInv` says of every position what begins there and where the next thing
begins: blocks lie one behind the other without a gap and their handles in the index name them
(`FileInv`), the entries of a block are a `Run`, in order and each ending where the next begins, and
the entries in the file and in the buffer together are those that were given (`KeptInv`). `add`
extends a run by one entry, `flush_block` moves a run to the end of the file, and neither has to look
at more than the last position. `FinishInv` concludes what a finished table is (`TableInv`): it opens
to the meta in memory, its blocks hold exactly what was given, the filter has every key. Two of the
reader's computations count instead of search: `Passed` is the number of handles before the target,
which, since the handles ascend, is the length of a prefix (`Prefix`), so the next block is the first
that may have it; and the first hit in that block is the least in the whole file. A scan is described
by what it has left (`Rest`): a run up to the end of its block, and the blocks behind; each step takes
the least entry off it and the counters of remaining bytes reach zero together (`ScanIs`), so no scan
reports a corrupt block.

*Compaction.* Every table stands for a set of entries (`TablesInv`) and the writer in use for the last
one (`WritingInv`). In a merge, the entries of an input that were not taken yet are the one in the heap
and those its scan has left (`Waits`), and the one in the heap is the least of them (`HeapInv`), so what is
popped is the least of all that wait, the newest first of one key. `curr` is the newest version of its
key of those taken (`HasCurr`): everything that waits is behind it, every key before it is `Settled`, that
is, the output and the inputs agree on it. A greater key settles that of `curr` (`Behind`), which goes to
the writer or, deleted, nowhere; when nothing waits, all keys are settled. The writer's order error is
impossible because the last key it got is less than that of `curr`, and `finish` meets no block that is too
long because `add` has left none behind (`WritingInv`).

`ListLemmas` has what several modules need: concatenations, the list without its last element
(`Vec::retain`, which `Lists` defines without recursion so that it can be reasoned about), and
least and greatest elements of sets of numbers. What one would show by induction on data is shown
from the theorems about finite sets instead: a finite set of numbers has a least element because its
finite subsets are well-founded, a descending list of all ids is the only one because an injection
between finite sets of one size is onto.

### Only model-checked

- All liveness: `CommitDecided`, `CommitReturns`, `EveryFrozenFlushed`, `ThrottledReturnsWhileOpen`,
  `CloseReturns`.
  Fairness and `ENABLED` are out of the prover's reach.
- The four properties that the code violates, by nature (`CrashSafe` among them only when removals fail).

Every invariant, every action property and every refinement that a passing run checks has a theorem.

## Not modelled, and abstractions to know of

- Strings and bytes: a key is a name, a value its length (`SSTable`) or nothing at all (elsewhere), a
  record is a unit that is there, missing or torn. Checksums and magic numbers, which guard against
  damage that no part of the system causes.
- Power failure. A crash ends the process; directories are not synced by the code, so what a machine
  that loses power keeps of a new log or a renamed table depends on the file system.
- I/O errors other than a refused value in `Recovery` (those of appends, new logs, tables and removals
  are in `Storage`), and several writers in front of the commit lock (`Oracle`).
- `WalWriter::append_kv` and its records, which nothing in the engine writes; `SkipList::iter_from`,
  used by tests only; the release of nodes in `Drop`, when no other task holds the list.
- Cancellation: dropping the future of `commit` or `Transaction::new` at an await. Its effect on the
  memtable is that of a failing `TxCommit`; its effect on `active` (an entry that is never removed) is
  not shown.
- `Storage::begin`, `Storage::commit`, `Storage::flush_all`: not called by the engine.
- A failed `TxCommit` whose bytes stay in the `BufWriter` and reach the file with a *later* append;
  the model decides at once whether the batch is in the log.
- A search of level 0 across its awaits: it works on a copy of the table list.

## Plan

Order: what clients are promised first, then what carries it, then what survives a crash, then the
data structures below.

1. `SnapshotIsolation`, `Oracle`, `OracleProofs` (done).
2. `Storage`, `Engine`, `StorageProofs`, `EngineProofs` (done).
3. `DurableMap`, `Recovery`, `RecoveryProofs` (done).
4. `VersionSet`, `SkipList`, `SkipListProofs` (done).
5. `SSTable`, `Compaction`, `SSTableProofs`, `CompactionProofs` (done). What a table answers and what a
   merge keeps are shown of a file that grows entry by entry, without folds.
