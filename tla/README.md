# A TLA+ verification of the LSM engines compared in this repository

The repository compares approximate-membership filters (Bloom, Ribbon, Xor) in
four log-structured key-value stores: LevelDB 1.23, PebblesDB 1.0, RocksDB
8.6.7 and Speedb 2.8.0. The engines are vendored; the repository's own code is
the filters it added to them and the benchmark scripts around them. This
project specifies the filters in all four engines; LevelDB, the engine the
others descend from and the one small enough to be modelled nearly whole; and
the one part of PebblesDB that replaces LevelDB's concurrency by its own, its
write path.

All paths below are relative to `src/`. `PROJECT.json` maps every definition to
the lines it models.

## 1. Inventory

| Component | State | Operations | Hard behaviour |
|---|---|---|---|
| Write path (`db/db_impl.cc`: `Write`, `BuildBatchGroup`, `MakeRoomForWrite`) | `writers_`, `Writer` structs with a condition variable each, `tmp_batch_`, `mem_`, `imm_`, `log_`, `logfile_number_`, `versions_->LastSequence()` | `Put`/`Delete`/`Write`; the front writer commits for a group | `mutex_` is released during `AddRecord`, `Sync` and the insertion; followers sleep on their own cv; a failed sync must stop all writes |
| Background work (`MaybeScheduleCompaction`, `BackgroundCall`, `CompactMemTable`, `BackgroundCompaction`, `DoCompactionWork`) | `background_compaction_scheduled_`, `bg_error_`, `shutting_down_`, `manual_compaction_` | flush, automatic, seek-triggered and manual compaction, file removal | one task at a time; everything that may create work must reschedule; waiters share one condition variable; a flush runs inside a compaction |
| Manual compaction (`CompactRange`, `TEST_CompactRange`, `TEST_CompactMemTable`) | `ManualCompaction` on the caller's stack | submit, wait for the slot, continue chunk by chunk, cancel | a pointer to a stack object shared with the background thread |
| Open and recovery (`DB::Open`, `Recover`, `RecoverLogFile`) | log files, `MANIFEST`, `CURRENT` | replay after a crash | crash between any two file operations, also during recovery |
| Versions (`version_set.cc`, `version_edit.cc`) | levels of files with key ranges, compaction pointers, reference-counted `Version`s | `LogAndApply`, `PickCompaction`, `SetupOtherInputs`, `Version::Get` | files of a level must not overlap; a flush runs inside a compaction; readers hold old versions |
| Snapshots and iterators (`snapshot.h`, `db_iter.cc`, `merger.cc`) | list of sequence numbers; positions of children, direction, saved key | `GetSnapshot`, `Seek`, `Next`, `Prev` | compaction must keep what a snapshot can see; memtables grow under an iterator; changes of direction |
| Log format (`log_writer.cc`, `log_reader.cc`) | block offset, scratch buffer | fragment, reassemble, resynchronise | torn writes, failed writes, appending after either |
| Memtable (`skiplist.h`, `memtable.cc`) | lock-free skip list | `Insert`, concurrent readers | memory ordering of level pointers |
| Tables (`table_builder.cc`, `table.cc`, `filter_block.cc`, `block.cc`) | blocks, index, filters | `Add`, `Finish`, lookup, iteration | separators, filters by offset, prefix compression, unreadable blocks |
| Caches (`util/cache.cc`, `table_cache.cc`) | reference counts, LRU and in-use lists | `Insert`, `Lookup`, `Release`, `Erase` | eviction of entries still in use |
| Environment (`util/env_posix.cc`) | work queue, limits, lock table, write buffers | `Schedule`, `LockFile`, `NewRandomAccessFile`, `Append`, `Sync` | lost signals, `fcntl` locks that a `close` drops, partial writes |
| Repair (`db/repair.cc`) | lists of files | archive, convert, copy, describe | errors and interruptions half-way |
| Xor filter (`util/xor_filter.cc`, added by this repository) | work list, counts, peeling order, table | `CreateFilter`, `KeyMayMatch` | success depends on the hash; retries, fallback, bit packing |
| Ribbon filter (`util/ribbon_filter.cc`, added by this repository) | banded linear system | `CreateFilter`, `KeyMayMatch` | retries, fallback, bit packing |
| Bloom filter (`util/bloom.cc`) | - | `CreateFilter`, `KeyMayMatch` | writer and reader must agree on the number of bits |
| PebblesDB write path (`pebblesdb-v1.0/db/db_impl.cc`) | list of writers, ticket counter, memtables, logs | `Write`, `GetSnapshot`, flush | two mutexes; numbers, log records and inserts in different orders |
| Xor filter of RocksDB and Speedb (`util/xor_filter.cc`, added by this repository) | hashes collected so far, partitions | `AddKey`, `Finish`, `KeyMayMatch` | a builder used for several partitions, cut by another component |
| The other parts of PebblesDB, RocksDB and Speedb | - | - | vendored, several hundred thousand lines |
| Benchmarks (`benchmarks/*.sh`, `reporter.py`) | log text | run, parse | I/O only |

Interactions: client threads, one background thread and the owner (who deletes
the DB) share a `DBImpl` under `mutex_`. Threads meet in `writers_`, on
`background_work_finished_signal_` and in the one slot `manual_compaction_`;
the background thread is started through `Env::Schedule`. A flush builds a
table, for which `FilterPolicy::CreateFilter` is called; `Get` calls
`KeyMayMatch` before it reads a block.

What makes the parts correct: the group commit never loses a writer, a write or
a sequence number; an acknowledged write stays readable and recoverable; a
background error stops writes; background work is never forgotten and never
doubled; every sleeper is woken; `~DBImpl` finishes, and only after the last
task; level 0 is not grown past its limit; reads answer with the newest visible entry whatever
was flushed, compacted or removed meanwhile; after a crash everything synced is
there and nothing that was lost returns; iterators pass over nothing; cached
objects live as long as their handles; one process has the DB at a time; a
filter has no false negatives. The list
`hazards` in `PROJECT.json` says where in the code each of them could fail.

## 2. Modules

### DBImpl

`DBImpl.tla` models the write path, the background task, manual compactions,
background errors and shutdown: the concurrency of `db/db_impl.cc`.

*Granularity.* `mutex_` is not a variable. One action is one critical section:
from the acquisition of `mutex_`, or the return of a `Wait`, to the next
`Unlock` or `Wait`; what runs with `mutex_` released (`AddRecord`, `Sync`, the
insertion of one entry into the memtable, `BuildTable`, `LogAndApply`) is a step
of its own, so that every interleaving with other threads is possible. `pc[t]`
says where a client thread is and `bg` where the background task is.

*Waits.* A thread asleep on its writer's cv is in `cvwait`; one asleep on
`background_work_finished_signal_` is in `waiting`. `Signal` and `SignalAll`
remove threads from these sets, and only then can a thread go on. Every `Wait`
of the code stands in a loop that tests its condition again, so a spurious
wakeup changes nothing and none is modelled: that makes a lost wakeup visible.

*Data.* An entry is its sequence number, a batch its number of updates, a log
record the range of its sequence numbers, with its file and whether it is
synced. `mem`, `imm` and `tables` are sets of entries. Of the current version,
the scheduler sees the number of level-0 files (`l0`), whether a deeper level
is too large (`deep`) and whether a seek compaction is pending (`seek`); the
choice of inputs is left open where the files decide it. A manual compaction
is the number of chunks it still needs on the level.

| Code | Actions |
|---|---|
| `Put`, `Delete`, `Write` up to the queue | `CallWrite`, `Enqueue` |
| `MakeRoomForWrite` | `RoomError`, `RoomDelay`, `RoomReady`, `RoomWait`, `RoomSwitch`, `RoomSwitchFails` |
| `BuildBatchGroup` | `BuildBatchGroup`, inside `StartGroup` |
| `Write` with `mutex_` released, then the hand-over | `AddRecord`, `Sync`, their failures, `InsertInto`, `FinishWrite`, `TakeResult` |
| `TEST_CompactMemTable` | `CallFlush`, then a `Write` with `NoBatch`, `ImmWait`, `ImmDone` |
| `CompactRange`, `TEST_CompactRange` | `CallRange`, `ManualSubmit`, `ManualWait`, `ManualEnd` |
| `Get`, as far as `UpdateStats` schedules work | `UpdateStats` |
| `BackgroundCall`, `BackgroundCompaction` | `TaskSkipped`, `FlushStarts`, `ManualEmpty`, `ManualStarts`, `CompactionStarts`, `TrivialMove` |
| `CompactMemTable` | `FlushBuilt`, `FlushFails`, `FlushCommits`, `FlushUnlinks` |
| `DoCompactionWork` | `NestedFlush`, `WorkDone`, `CompactionFails`, `Installs`, `Cleanup` |
| `~DBImpl` | `Close`, `CloseWakes` |

History variables (`acked`, `syncAcked`, `need`, `late`) only record what
callers were told.

`MCDBImpl.tla` adds the symmetry of threads; the `MCDBImpl*.cfg` files give the
constants. `WritePaths.tla` puts it beside the write path of PebblesDB, and
`MCWritePaths.tla` checks both.

### FilterFormat, XorFilter and RibbonFilter

`FilterFormat.tla` has what the two filters share: sizes, bit packing, the
trailer and the Bloom filter both fall back to. The files have a copy each; the
definitions are mapped to that of `xor_filter.cc`.

`XorFilter.tla` models `util/xor_filter.cc` as the steps `CreateFilter` takes:
the size decision (`CreateEmpty`, `CreateBloom`, `CreateXor`), one step of the
peeling loop (`Peel`, `PeelStale`), the change of seed or the fallback (`Retry`,
`GiveUp`), one fingerprint (`StartAssign`, `Assign`) and the encoding
(`Encode`). `KeyMayMatch` is an operator on the encoded filter.

A hash is the set of its 1 bits, so exclusive or is symmetric difference; the
table, the counts and the packed payload keep their arithmetic (fast range,
three blocks, bit offsets, sizes in bytes). What is left open: the mixing in
`Hash`, the rotations and the fingerprint's mixing are arbitrary functions
given as constants, and the hash function itself is a variable chosen in `Init`
among *all* functions from keys and seeds to `Hashes`, so that every collision
the range allows happens. The order in which the work list is read is left open
too, which includes the code's order. A position enters the work list at most
once (its count passes 1 once), so the list is a set. The four floating-point
roundings of `ComputeFingerprintBits` and `BloomProbeCount` are integer
divisions that agree with them below their caps.

`RibbonFilter.tla` models `util/ribbon_filter.cc` in the same way: the size
decision (`CreateEmpty`, `CreateBloom`, `CreateRibbon`), a row taken up in the
order of starts (`TakeRow`), each step of its elimination (`Place`, `Eliminate`,
`SkipRow`), a contradiction (`Retry`, `GiveUp`), back substitution slot by slot
(`StartSolve`, `Substitute`) and the encoding (`Encode`). The 64-bit word of
coefficients, which the code keeps shifted to the current position, is the set
of the slots it names. The start, the coefficients and the result of a key
under a seed are arbitrary. `std::sort` may order rows with the same start in
any way, and so may the model.

### KVStore and LSMStore

`KVStore.tla` is the abstract specification of the store: a map from keys to
values that batches update, snapshots that freeze it and iterators that show
it. `LSMStore.tla` is how LevelDB does it: two memtables, a version that lists
the tables of each level, and one background thread. Its actions are `Write`,
the memtable switch, `Flush` with `PickLevelForMemTableOutput`, `TrivialMove`,
and the steps of a compaction: choice and expansion of inputs (`PickCompaction`,
`SetupOtherInputs`, `AddBoundaryInputs`, manual ranges), the merge with its drop
rules, outputs cut anywhere, installation and `RemoveObsoleteFiles`. Flushes run
between these steps. `Get` follows `Version::Get` level by level. The refinement
maps the map of `KVStore` to what `Get` answers; `ImplementsKVStore` is checked
as a property, so a compaction that dropped too much, a flush put too deep and
a file removed too early are all steps `KVStore` does not have. Sizes in bytes
are left open: what depends on one only is a choice.

### Recovery and LogFormat

`Recovery.tla` is the directory: logs with a synced prefix, tables, manifests
and `CURRENT`, the operations that change them, and `DB::Open` as the steps it
takes; a log is replayed into any number of level-0 tables, cut wherever the
memtable may have been full. A crash may follow any step, also inside `Open`:
`MachineCrash` cuts every file to some prefix that contains what was synced,
`ProcessCrash` loses only memory. `LogFormat.tla` is one log file at the level of fragments,
blocks and bytes: `AddRecord`, `EmitPhysicalRecord`, failed writes, crashes,
`ReadRecord` with its state machine, and, with `reuse_logs`, a writer that
continues an old file.

### DBIter, Merger, SkipList

`DBIter.tla` is the user's iterator over a merging iterator over a table and a
live memtable: each operation is a sequence of steps between which other threads
insert. The table and the memtable hold any history cut anywhere, and the
iterator any sequence number (`InitStore`, `InitIter`); user keys are numbers.
`Merger.tla` is `MergingIterator` alone, over any number of children. Each
operation is one action, since it reads each child once, except a `Prev` that
changes the direction: it seeks the other children (`SeekOthers`) and then steps
them back (`MovePrev`, with `turning` set), and a memtable may grow in between.
An entry that is inserted there, at or behind `key()`, is the one a child may
step back to, so that such a `Prev` ends ahead of where it was. `Merger` refines
`OrderedIter.tla`, which states what an iterator promises while entries are
added under it: the keys of the beginning are met in order and none is passed
over. `edge` is where a move backward has come to among these keys; a `Prev` that
ends ahead of it is on a newer key, nearer than the last one, and has not given
up its place. `DBIter` skips such a key, whose sequence number is above its own. `SkipList.tla` has one
inserting thread and a lock-free reader under acquire/release memory order: a
link keeps all values it had, and a reader may read any value it has not yet
seen overwritten. `ReadPath.tla` puts the modules proved about side by side and
states their promises.

### TableFile, BlockIter, BloomFilter

`TableFile.tla`: `TableBuilder` with index separators and a filter for each
range of offsets, `Table::InternalGet`, `TwoLevelIterator`, unreadable blocks.
`BlockIter.tla`: `BlockBuilder`'s shared prefixes and restart points and the
moves of `Block::Iter`, with damaged entries. `BloomFilter.tla`: filters
appended to one string and read back from a slice of it.

### LRUCache, PosixEnv, FileLocks, WritableFile

`LRUCache.tla`: one shard, with threads that use it the way `TableCache` does;
memory is used again after it is freed, so a handle that outlives its entry is
visible. The loops of `Insert` and `Prune` are recursive functions of the rounds. `PosixEnv.tla`: `Schedule` and the background thread, and the
`Limiter`s of maps and descriptors with `NewRandomAccessFile`. `FileLocks.tla`:
`LockFile` and `UnlockFile` over the kernel's record locks, which belong to a
process and vanish when any descriptor of the file is closed.
`WritableFile.tla`: the buffer of `PosixWritableFile`, partial writes, `Sync`.
`Storage.tla` puts the last three beside `BloomFilter` and states what they
promise; `MCStorage.tla` adds tables and logs.

### Repair

`Repair.tla` extends `LSMStore`: after any history the process stops, tables are
damaged, and `RepairDB` runs, step by step and possibly twice, followed by an
`Open` that replays the logs that are still there and removes what the new
descriptor does not list.

| Code | Actions |
|---|---|
| `FindFiles` | `FindFiles` |
| `ConvertLogFilesToTables`, `ConvertLogToTable`, `BuildTable` | `ConvertLogToTable`, `BuildTable`, `ArchiveLog` |
| `ExtractMetaData`, `ScanTable` | `ExtractMetaData`, `ScanTable`, `DropTable` (its size cannot be had) |
| `RepairTable` | `RepairTable`, `ArchiveTable`, `FinishCopy`, `RenameCopy`, `CopyFails` |
| `WriteDescriptor`, and its failure or the end of the process | `WriteDescriptor`, `Interrupted` |
| `DB::Open` afterwards | `Open` |

`ArchiveFile` returns nothing. A file it was to move is moved, in place of a file
of the same name in `lost/` if there is one (`MoveToLost`), or is still where it
was (`ArchiveTableFile`, `ArchiveLog`), and `RepairDB` goes on in either case:
`RenameCopy` then replaces the source, a log is replayed by the `Open`, a table
stays unlisted. A file in `lost/` can be replaced because the Repairer takes its
numbers from the directory: the number of what was moved out is free for the
next run. `RemoveFile` may fail as well, which leaves a partial table that a
second run meets. The history variables `found`, `overwritten` and `skipped` say
what could be read at the stop, what was replaced in `lost/`, and what the
present run has left in the directory without listing it.

### PebblesWrite

`PebblesWrite.tla` is the write path PebblesDB has instead of LevelDB's. A
writer's record `w[t]` is its `Writer` and its place in the call. Each critical
section of `mutex_` or of `writers_mutex_` is an action: making room (`Room...`),
`Enqueue`, the append to the log outside both, `End`, `Unlink`, `SignalImm`,
and the two halves of `WaitOutWriters`. The list keeps its `prev_`, `next_` and
tail pointers. `imm` is the set of no or one memtable. `CompactMemTableThread`
reads the immutable memtable in one step and commits in another.

### RocksXorFilter

`RocksXorFilter.tla` is the port of the Xor filter to RocksDB and Speedb with
the block builders that drive it: one bits builder makes all partitions of a
table, and the index builder decides where they are cut.

## 3. Runs

Every component has a module of its own; several of them are checked in one
run, side by side. `MCWritePaths`, `MCXorFilter`, `MCLSMStore`, `MCReadPath` and
`MCStorage` choose in their initial state, with the variable `part` (or
`engine`), which component moves, or which calls the threads make; the
variables of the others keep one value. Nothing interacts there: a state of such
a run is a state of one component. Where
components do interact (flushes, compactions, iterators and files in `LSMStore`;
logs, manifests and tables in `Recovery`; a store that ran before it is repaired
in `Repair`), one module has them together.

| Run | Instance | Shows |
|---|---|---|
| `db_write` | LevelDB: 3 threads that write once each, batches of 1 or 2, sync and not; and 2 threads with 2 calls of all kinds and a read, 2 levels, and one or three files in level 0 at first, below and above the stop trigger. In both I/O errors, shutdown, a memtable of one entry. PebblesDB: 3 threads, 3 calls, batches of 1 or 2, failures | `TypeOK`, `NoLostWakeup`, `RecordsDisjoint`, `AckedRecoverable`, `SyncDurable`, `ErrorSticks`, `WorkScheduled`, `SleepersHaveWaker`, `OneTask`, `L0GrowsToTrigger`; `PebblesNothingLost` |
| `db_liveness` | 2 threads that write, flush, compact ranges and read: two calls of any kind and a third that writes, level 0 empty, full or over-full at first; I/O errors, shutdown | `CallsReturn`, `CloseCompletes` |
| `db_manual_cancel` | 2 threads, one compacts a range | violation: `CancelIsSafe` |
| `lsm_store` | 2 keys, batches and deletions, a snapshot, an iterator, 3 levels, 4 files, manual compactions of every range. Repair: 2 updates, 3 files, any damage, every call failing or not, 2 repairs | `LevelsOrdered`, `LiveFilesExist`, `ImplementsKVStore`; `RepairSound` |
| `lsm_manual_overlap` | 3 keys, 5 updates, 3 levels, 6 files, manual compactions of two and three keys | violation: `LevelsDisjoint` |
| `lsm_deletion_undone` | 2 keys, 4 updates, a deletion, a snapshot, 3 levels, 4 files | violation: `DroppedDeletionsObsolete` |
| `recovery` | 2 crashes of machine or process, 2 writes, flushes, a compaction; crashes of the process only, 3 writes, no sync | `AckedSurvive`, `NothingReturns`, `OpenIsSound` |
| `read_path` | Merger: 3 children, 4 keys, a growing memtable. DBIter: 3 keys, every history of 2 updates, every snapshot, a concurrent write. SkipList: 3 keys, heights to 2, a reader. BlockIter: blocks of up to 6 keys, restart intervals 1 to 3, damage. LRUCache: 3 threads, 3 keys, capacities 0, 2, 3 | `ImplementsOrderedIter`; `ShowsSnapshot`; `ListReads`; `BlockReads`; `CacheSound` |
| `storage` | BloomFilter: 2 filters of up to 3 keys, 4 policies. TableFile: up to 4 entries, any blocks, any damage. LogFormat: 3 records, cut at any byte, two of crashes and a failed write, `reuse_logs`. WritableFile: a buffer of 3 bytes, partial writes. FileLocks: 4 threads in 3 processes, 2 of them in one. PosixEnv: 3 clients, 1 map, 1 descriptor, 3 work items | `NoFalseNegatives`; `TableReads`; `LogReads`; `FileHoldsAppended`, `SyncMakesDurable`; `LocksExclude`; `LimitsExact`, `QueueAttended` |
| `xor_build` | LevelDB: up to 3 keys, 4 hash values, 2 seeds, 3 precisions. RocksDB: 4 entries, full and partitioned, 3 precisions | `NoFalseNegatives`, `RetryOnlyOnCore`, `WorkShrinks`; `RocksNoFalseNegatives` |
| `ribbon_build` | up to 3 keys with repetitions, a band of 3 slots, 2 seeds, all starts, results and coefficients of a small range | `NoFalseNegatives`, `FailsOnlyIfUnsolvable`, `WorkShrinks` |
| `pebbles_recover` | 3 threads, 3 calls | violation: `AckedRecoverable` |

Some of these properties are conjunctions of named parts, each explained where
it is defined: `LevelsOrdered` of `LevelsDisjoint` and `NewerAbove`;
`OpenIsSound` of `OpensAlways`, `SequencesUnique` and `NumbersFresh`;
`LogReads` of `PrefixRead`, `SyncedReadable`, `DamageConfined` and `NoChimera`;
`LocksExclude` of `LockExclusive`, `OneHolderInProcess` and `NoStaleLock`; and so
on.

*Bounds of DBImpl.* `MaxCalls` = 3 lets one writer lead, one join the group and
one become the front after the hand-over, which is every role in the queue. A
memtable of one entry (`MemCap`) makes the next writer switch memtables and the
one after it wait for the flush. Triggers of 1 or 2 make slow-down, stop and
compaction happen with one or two files. `MaxOpenL0` = 3 lets the DB open with
level 0 full or over-full, which the code allows: recovery puts what it replays
into level 0 whatever is there, and `RepairDB` lists every table there. `GroupSmall` and `GroupMax` make both
size limits of `BuildBatchGroup` bite. One retry (`MaxRetries`) is one flush
inside a compaction.

In `db_write` the third of three writes, which joins a group or follows one, is a
small one without sync. `db_liveness` leaves sync out and stops writers at one
file in level 0, so that no memtable is switched while a compaction runs: an
error that a failed sync or a failed flush sets during a manual compaction leads
to the crash that `db_manual_cancel` shows, after which no call returns. `Sync`
and `NestedFlush` are steps of `db_write`.

*Bounds of the filters.* In `xor_build`, four hash values in a table of two
slots per block give hashes that agree in all three positions (a 2-core, so
retries and the fallback), in some of them, and in none; the precisions give
fingerprints that straddle bytes and, with `WordSize` = 128, Bloom sizes that
do not fit a word. In `ribbon_build` three rows over three slots give equal
rows, rows that depend on each other, redundant and contradictory ones, and
failures of both seeds. All keys have the same Bloom probes there, so that
permuting keys is sound; different ones are met in `xor_build` and `storage`
and covered by lemma `BloomComplete`.

*Bounds of the store.* Two keys and three levels are the least with which a
file can be too deep or too wide and a compaction can meet files above, at and
below it; a snapshot between two updates of a key is the least the drop rules
distinguish. A key that is split over two files, whose deletion is then dropped,
takes four updates and is left to `lsm_deletion_undone`. Two crashes are one and one during the recovery from it.
Two repairs are the least with which a file in `lost/` can be replaced or a
second run meet what the first left. The Repairer of the instance takes files
in the order of their numbers, and a first run is interrupted where it leaves one
file, or two with those in `lost/`; the proof assumes neither. A block of
LogFormat is a little longer than two headers, so that records end before, at
and behind a boundary and one of them spans three blocks. Larger instances were
run once while the modules were written (the store with four levels and six
files, the iterator with five updates, repair with four files, skip-list nodes
of height 3, log records of six lengths); they found nothing more.

*Symmetry* is used only where no temporal property other than an action property
is checked, and no constant or property distinguishes two threads or two keys.
*Deadlock* is checked except where the instance ends because its bound is used
up or the modelled object (a table, a block, a filter block) is complete.

*Fairness and termination.* Only `db_liveness` assumes fairness: `FairSpec` of
DBImpl says that a thread inside a call, the background thread and the owner
inside `~DBImpl` keep running. A mutex is granted to whoever keeps asking,
sleeps end, and `Env::Schedule` runs what it was given, for which `QueueAttended`
of PosixEnv is the safety half: while an item is queued the thread is not
asleep. Nothing is assumed about new calls, about shutdown or about which I/O
results occur. The builders of the filters need no fairness: `WorkShrinks` gives
a measure, a triple of numbers ordered lexicographically, that every step
lowers, so no run of `CreateFilter` is infinite whatever the hashes are.

*Assumptions about the world.* Checksums are perfect. A crash of the machine
leaves a prefix of each file that contains what was synced, and `fdatasync` of a
file keeps its name too: `env_posix.cc` syncs the directory only for
`MANIFEST` files, so the name of a new log is as durable as the file system
makes it. `fcntl` locks behave as POSIX says. Filters in TableFile are exact.
In RocksXorFilter there is no prefix extractor.

*The disagreements.* Each violation run checks one statement of a comment
against what the code does; `findings` in `PROJECT.json` quotes it.

- `db_manual_cancel`: after `DoCompactionWork`, `BackgroundCompaction` reads
  `manual_compaction_` again and dereferences it. If the caller gave up after
  `bg_error_` was set (by another thread's failed sync), the pointer is null.
  The model stops there (`bg = "crashed"`).
- `lsm_manual_overlap`: the inputs of a manual compaction may leave a gap, as
  two files that hold the first and the last key of the range do. A memtable
  with keys of the gap, flushed in the middle of the compaction, overlaps no
  file of the version, so `PickLevelForMemTableOutput` may put it on the level
  of the outputs. An output that spans the gap is then installed beside it
  ("Must not overlap", asserts `MaybeAddFile`); without assertions the binary
  search ends on the wrong file and `Get` misses an update.
- `lsm_deletion_undone`: a user key may be split over two files of a level, its
  deletion at the end of one and an older value, kept for a snapshot, at the
  start of the next. `SetupOtherInputs` adds such boundary files on the input
  level and not on the output level. A compaction whose range ends before the
  key then takes the first file alone and drops the deletion as obsolete ("data
  in layers that are being compacted here and have smaller sequence numbers
  will be dropped"), and the older value, left behind in the second file, is
  read again. The proof of the refinement found this: it needs exactly the
  quoted clause. An instance with an iterator, checked once, shows the deleted
  key reappear in `Get`; `lsm_store` stops at three updates and does not reach
  it.
- `pebbles_recover`: a writer overtaken by a memtable switch has its record in
  the old log and its entry in the new memtable; the old log is deleted after
  the flush of the old memtable, and the entry is then in no file.

*Where a property stops.* Some properties are stated for a part of the
behaviours only, because outside it the code does not have them:

- `PrefixRead` and `SyncedReadable` of LogFormat are about logs of one writer
  none of whose writes failed. After a torn tail (`reuse_logs`) or a failed
  `AddRecord` the writer appends to the same block, and the reader drops the
  rest of a block behind a torn fragment, synced records too; `DamageConfined`
  and `NoChimera` say what is left.
- `LockExclusive` is about threads that are alone in their process. A refused second
  `LockFile` in a process closes its descriptor of `LOCK`, which by the rules
  of `fcntl` drops the lock the process holds; inside the process
  `OneHolderInProcess` still holds.
- `LevelsOrdered` holds if no key lies strictly inside a range given to
  `CompactRange`, which with the two keys of `lsm_store` is any range;
  `lsm_manual_overlap` is what happens otherwise.
- `ImplementsKVStore` holds as long as `DroppedDeletionsObsolete` does, as the
  theorem `StoreRefinesKVStore` says; `lsm_deletion_undone` is what happens
  otherwise.
- `FlushForces` of DBImpl ("Force current memtable contents to be compacted",
  says `db_impl.h`) is not kept and no run checks it. `TEST_CompactMemTable`
  queues a null batch to make the front writer switch memtables. If another
  thread's writer is at the front, `BuildBatchGroup` takes the null batch into
  that writer's group and `Write` returns OK without having forced anything.
- `NothingElseDestroyed` of Repair has two exceptions, and TLC finds it violated
  without either. A file in `lost/` is replaced by a later one of its name. And a
  table that could be neither listed nor archived (no copy could be created, or
  both a rename into `lost/` and the copy failed) is removed by the `Open`.
- `L0GrowsToTrigger` of DBImpl is about flushes and compactions. That level 0 is
  never above `kL0_StopWritesTrigger` would be false: `RecoverLogFile` and
  `RepairDB` put tables there without a test.
- `ImplementsOrderedIter` of Merger lets a `Prev` that turns round end ahead of
  where it was, on a key inserted between its seek and its step back.
- `AckedSurvive` excepts what nobody asked to sync; a synced write does not
  cover unsynced writes before it when a memtable switch, which closes the old
  log without `Sync`, lies between them.

## 4. Proofs

### WritePathsProofs

For every set of threads and every value of the triggers and bounds allowed by
the assumptions of `DBImpl`:

- `TypeCorrect`, `WritersAwake` (`NoLostWakeup`), `WorkIsScheduled`
  (`WorkScheduled`), `SleepersAreWoken` (`SleepersHaveWaker`), `AtMostOneTask`
  (`OneTask`), `Level0GrowsToTrigger` (`L0GrowsToTrigger`);
- `RecordsAreDisjoint` (`RecordsDisjoint`), `AckedIsRecoverable`
  (`AckedRecoverable`), `SyncIsDurable` (`SyncDurable`), `ErrorIsSticky`
  (`ErrorSticks`).

The first six follow from `Invariance: Spec => []Inv`, where
`Inv == TypeOK /\ QueueInv /\ ManualInv /\ TaskInv /\ FlushInv`:

- `QueueInv` ties program counters to the queue: the queue has no duplicates, a
  thread that leads is at the front, the group is a prefix of the queue, and
  sleepers are queued, not at the front and not done. Without it the hand-over
  could not be shown to signal the right thread.
- `ManualInv` says who may own `manual_compaction_` and where that thread is.
- `TaskInv` is `OneTask`, `WorkScheduled` and `SleepersHaveWaker` together with
  what a running task implies: they need each other, since a task may end only
  if it reschedules pending work and wakes the sleepers.
- `FlushInv` is about level 0: while there is an immutable memtable, level 0 is
  below the stop trigger, because a switch of memtables needs that and only a
  flush adds a file (`OnlyFlushesAdd`); so the file that arrives later still
  fits, also in a DB that was opened with more.

The other four follow from `DataInvariance: Spec => []DataInv`, a second layer
that uses `Inv`:

- `LogInv`: records do not overlap and lie below `LastSequence()`, except that
  of the group being committed, which ends at the leader's `last`. The leader
  works without the mutex, so this must survive every step of the others.
- `StoreInv`: an acknowledged entry is in a table, or in a memtable and in that
  memtable's own log, by a synced record if its writer asked for sync; that is
  why a flush may advance `log_number`.
- `GroupInv`: the leader's record is in the current log, synced if the leader
  asked for it, and the leader asked for it if any member of its group did.
- `LateInv`: a call that began after the error is in no group, so nobody hands
  it OK.

The only relation between constants that is needed is
`CompactionTrigger <= StopTrigger` (4 and 12 in `dbformat.h`).

`PebblesLosesNothing: Pebbles!Spec => []PebblesNothingLost` is about PebblesDB,
for every set of threads, batches and keys and any size of the write buffer.
`PebblesInv` adds that a writer past a successful insertion has its entries in a
memtable or a table, and that the thread which builds a table, without the mutex,
has read all of the immutable memtable: entries of a writer that a switch has
overtaken go to the new memtable.

### XorFilterProofs

For every finite set of keys, every hash function, any mixing functions,
precision, capacity parameters and number of seeds:

- `FilterComplete: Spec => []NoFalseNegatives`,
- `SeedAbandonedOnCore: Spec => []RetryOnlyOnCore`,
- `CreateFilterReturns: Spec => WorkShrinks`.

`Inv` has a part for each phase. `PeelInv`: `counts` and `hash_xors` are exactly
what the hashes not yet peeled give, and the work list misses no position whose
count is 1. `OrderInv`: the position of a peeled entry is used by no hash that
was peeled later and by none that remains. `AssignInv`: entries already treated
are solved, positions of the others are still zero. `OrderInv` is what makes a
step of `Assign` harmless to the entries solved before. The lemmas below it are
about the operators: `PositionsInTable` (positions lie in three disjoint
blocks) and `OddBitsRemove` (exclusive or of a set without one element).

### RibbonFilterProofs

For every sequence of keys, every hash function, precision, band width,
overhead and number of seeds:

- `FilterComplete: Spec => []NoFalseNegatives`,
- `FailureUnavoidable: Spec => []FailsOnlyIfUnsolvable`,
- `PivotsInBand: Spec => []BandFits`,
- `CreateFilterReturns: Spec => WorkShrinks`.

The heart of `Inv` is `EquivInv`: at any moment of the elimination, a table
satisfies the pivots if and only if it satisfies all rows inserted so far, and
if it does, what is left of the current row says the same as the row itself.
One direction gives completeness (what satisfies the pivots satisfies the keys),
the other that a contradiction is one of the keys and not of the algorithm. It
is stated for every choice of bits `M`, because a contradiction concerns one
bit and the solution all of them. `RowInv` and `PivotInv` keep rows and pivots
inside the band, so no coefficient is lost; `SolveInv` says that the pivots
after `position` hold, which `Substitute` preserves because a pivot only reads
slots from its own on. `SlotsFitInt` (a table has fewer than 2^31 slots) is an
assumption of the model, not used by the proof: without it the code's cast to
`int` would have to be modelled.

`FilterFormatProofs` has the lemmas both use: `FastRange`, `PackedApart` and
`ReadBack` (packing loses nothing), `BloomComplete` (the fallback accepts its
keys), `TripleDescends` (the lexicographic order of the measures), and the
algebra of exclusive or: `XorParity`, `XorOfXor` (linear in the
set of slots), `XorOfSame`, `XorMask`, `XorCancel`, `XorSolves`.

### StorageProofs

For every hash function, every number of keys and every bits per key:
`BloomNoFalseNegatives: Spec => []NoFalseNegatives` and
`BloomAnswersStable: Spec => AnswersStable`. `BloomInv` adds to the property
that slices lie inside the string and have at least one byte of bits; from this
every probe of an old filter lies before, and every bit of a new one behind,
the end of the string (`OldAnswers`). `WholeBytes` is the arithmetic that makes
reader and writer agree.

For every size of buffer and appends, every number of threads and processes,
files, maps and descriptors:

- `FilesHoldAppended: Writable!Spec => []FileHoldsAppended` and
  `SyncsMakeDurable`, its action property: `WritableInv` says what is in the file,
  in the buffer and in neither while nothing has failed, and that after a
  failure bytes are only left out;
- `LocksAreExclusive: Locks!Spec => []LocksExclude`: `LockInv` relates the lock
  table of a process, the owner the kernel knows and the place each thread is
  at; a refused open, which drops the kernel's lock, is why it has to speak of
  threads that are alone in their process;
- `LimitsAreExact: Posix!Spec => []LimitsExact`: `LimitInv` counts the files of
  each kind that are open or being opened;
- `QueueIsAttended: Posix!Spec => []QueueAttended`: `WorkInv`, while the queue is
  not empty the thread is running or has been signalled, and every item is
  queued or has been run.

### ReadPathProofs

`MergerImplementsOrderedIter: Spec => ImplementsOrderedIter`, for any set of
children and any keys, with insertions at any time, also between the seek and the
step back of a `Prev` that turns round. `Inv` says where the children that are
not current are: behind the current key when moving forward, before it when
moving backward, with no old key passed over in between (`ForwardInv`,
`ReverseInv`; while `turning`, that the others are at or behind the key with no
old one in between). After such a `Prev` children may be ahead of `edge`, but only
on keys that are not old, and every old key before `edge` is still ahead of its
child; that is the part of `ReverseInv` that makes `edge` a sound bound. An old key is in some child and in one only
(`ContentInv`), and what is inserted is not old, so insertions disturb nothing.
`Smallest` and `Largest` are the two facts every move rests on.

`SkipListReads: List!Spec => []ListReads`, for any finite set of keys, any height
and any number of insertions: a reader that takes no lock, under acquire/release
memory order, follows no link before it is stored and ends at the neighbour of
its key. `ListInv` has the structure: `LinkTypes`; `TargetsReady`, a link to a
node is stored after the links of that node on its level and below;
`NothingSkipped`, a link that leads past a key was overwritten when the key
joined the level; `InsertInv` and `LowerLevels`, where the inserting thread is and
what it has linked; `PresentInv`, what has been inserted is on level 0.
`ReaderInv` says that the reader has seen links of the node it is at, on its level
and all below (`Reached`), so that none it may still read is older than the node,
and that a finished search found the neighbour (`Found`).

`IteratorShowsSnapshot: DB!Spec => []ShowsSnapshot`, for any finite history and
any insertions while the iterator is used, in any order of moves: a DBIter stops
at the next shown key in its direction, with the newest visible value, and at
nothing if there is none; moving backwards, its merging iterator is just before
that key. `IterInv` has three parts. `StoreInv`: sequence numbers name entries,
and none is above `last`. `MergerOK`: positions are entries of their child.
`IterOK` is about the visible entries only (`VisibleParts`), which is why an
insertion, whose sequence number is larger, changes nothing it speaks of; it
has a case for each place between two steps of the merging iterator. In each,
some set `W` of visible entries is still ahead. `FwdState`: of the loop of
`FindNextUserEntry`, that the key to be shown is the first whose newest entry is
in `W` and not skipped. `BackState`: of the loop of `FindPrevUserEntry`, that
saved key and value are the newest entry seen of the key it has come to.
`LeaveOK`: of the loop of `Prev` that leaves the current key, that everything
before this key is still ahead. `FwdPos` and `RevPos` relate `W` to the positions
of the children; a change of direction replaces one by the other.

`CacheIsSound: Cache!Spec => []CacheSound`, for any finite sets of keys and
threads, any charges and any capacity, 0 included: the memory of an entry is not
freed under a handle and is freed when nobody refers to it any more, whichever of
the cache and the handles is last, and the table, `lru_`, `in_use_` and `usage_`
agree. In `CacheInv` a reference count is the number of threads with a handle,
plus one for the cache; `lru_` is a list without repetitions of the entries
nobody holds; `usage_` is the number of units of charge, a finite set that grows
and shrinks with the cached entries (`UnitsJoin`, `UnitsLeave`), so that no
induction over a sum is needed. `CountsOK` is all but the table; the table
(`TableOK`) is described up to one entry, which is the state inside `Insert`,
`Erase` and the eviction loops between the removal from the table and
`FinishErase` (`FinishEraseKeeps`). The loops of `Insert` and `Prune` keep the
invariant because each round does (`EvictOldestKeeps`; `Rounds` gives their
recursive functions an equation, `LoopKeeps` is the induction). `FreeSlot` shows
that the model's memory suffices: `malloc` finds a free slot, since cached
entries have different keys and all others different holders.
`CacheAssumption`, which asks for that many slots, is the only assumption beside
finiteness; memory is a set only so that freed memory can be used again.

### LSMStoreProofs

For every set of keys, every set of batches, every number of levels, snapshots,
iterators and files:

- `FilesInUseExist: Spec => []LiveFilesExist`,
- `LevelsStayOrdered: ASSUME NarrowRanges PROVE Spec => []LevelsOrdered`,
- `StoreRefinesKVStore: ASSUME NarrowRanges
  PROVE Spec /\ []DroppedDeletionsObsolete => ImplementsKVStore`,
- `StoreRefinesKVStoreWithoutSnapshots: ASSUME NarrowRanges, Snaps = {}
  PROVE Spec => ImplementsKVStore`.

`FilesInUseExist` rests on `BaseInv`: types, finitely many files per level, and
the property itself.

`LevelsStayOrdered` needs `OrderInv`. `VersionOK`, `InOrder` and `MemoryOK` are
`LevelsOrdered` with what makes it usable: the metadata of a file describes its
entries, sequence numbers name entries, memtables are newer than files. The
difficult part is `CompactionOK`: a compaction chooses its inputs in one step
and installs its outputs many steps later, and memtables are flushed in
between. `SoundInputs` says what must still be true of the inputs then: the
files left in the output level are apart from all of them, those left in the
input level are newer, and the inputs are `Solid`, that is, a range of keys
that meets none of them is on one side of them all. `Solid` is what keeps a
flushed memtable from landing between two inputs, and it is what a manual
compaction of a wide range does not have; hence `NarrowRanges`, the only
assumption (no key strictly inside a range). Automatic compactions have it
whatever the keys are.

That the chosen inputs are sound is most of the proof (`SetupSound`,
`PickSound`, `ManualSound`). `GetOverlappingInputs` and `AddBoundaryInputs`
repeat a step until nothing changes; the model has them as recursive functions.
They are followed by induction over sets of numbers: `SetInduction` is derived
from the well-foundedness of `<`, `IterationExists` gives the function its
equation, and `GrowthStops` shows that after as many rounds as there are files
the set no longer grows. `OverlapClosed` and `BoundaryClosed` then say what the
loops leave, `ExpandChoice` that the second choice in `SetupOtherInputs` is as
sound as the first, and `ReplaceKeepsOrder`, `AddKeepsOrder` and
`AddKeepsInputs` what installing outputs and flushing do.

`StoreRefinesKVStore` says that reads, snapshots and iterators answer as a map
does, whatever happens in the background. `GetNewest` turns `DBImpl::Get`, which
asks memtables, level-0 files and `FindFile` one after the other and stops at
the first answer, into one search of `Held`, all entries of the memtables and
files; this is where `OrderInv` is used (`TopGet`, `DeepGet`, `SourcesOrdered`).
With it every map of the refinement mapping is a `View` of a set of entries at a
sequence number (`MapsShown`), and there is one lemma for each action
(`InsertRefines` to `InstallRefines`). `ReadInv` is what they need: level-0 files
have different numbers, handles see published entries and pin memtables that
exist, what is not yet published is one batch (so that it appears as a whole),
and a running compaction drops only what is hidden at its smallest snapshot, or
deletions with nothing below, while no reader is older than that snapshot
(`DropsOK`). New snapshots and iterators that arrive during the compaction are
newer; a flush in the middle of it puts nothing under a dropped deletion.
The last step, `InstallRefines`, needs that an older entry of a deleted key is
not left behind in the two levels, and this the code does not ensure: it is the
condition `DroppedDeletionsObsolete`. It fails only with snapshots:
`WholeInv` (no two files of a level below 0 share a key, and a compaction takes
every file of the output level that has a key of its inputs) is inductive when
`Snaps` is empty, and gives `DeletionsStayWithoutSnapshots`.

`RepairIsSound: RepairSpec => []RepairSound`, for any history of the store, any
damage, any number of repairs and any calls of them that fail. `NumberInv` says that no two files a version,
an iterator or a compaction knows share a number, so that the tables of the
directory have different numbers (`DirNumbered`) when the process stops.
`RepairInv` then has a part for each phase (`ConvertInv`, `ScanInv`): new numbers
are above all in the directory, so that a new table overwrites nothing there; the
tables listed are in the directory with their contents; and what every table
holds is still to be scanned, listed, in lost/, replaced there, skipped or in
hand. `JobOK` is about the one in hand: the copy has all of the source before it
takes its name, whether the source is still there or in lost/, and is not listed
before. A step may move a file into lost/ at any time; `Moved` says that nothing
leaves lost/ but into `overwritten`, and `NothingLeaves` what it takes for a step to
keep what was found.

### RecoveryProofs

For every number of writes, crashes and compactions, whichever callers ask for
sync, and whether the machine may stop or only the process:

- `DirectorySound: Spec => []Inv`, and from it
- `UpdatesSurvive` (`AckedSurvive`), `GoneStaysGone` (`NothingReturns`) and
  `OpensSoundly` (`OpenIsSound`).

The three properties speak of an open database; what must be kept is a statement
about the directory, also while nothing runs. What the next `Open` will find is
given by the MANIFEST, and a crash may cut that one anywhere behind its synced
part. `DirInv` therefore quantifies over every prefix of the current MANIFEST
from `synced` on: the numbers of its last edit are consistent, and the tables and
logs it names are `Sound`, that is, the tables exist, everything acknowledged is
found, what was asked to be synced is found even in the synced part of the logs,
nothing gone is found, no entry is in two places, and no two entries have one
identity or one sequence number. `PrefixInv` is this for one prefix.

A process crash changes nothing `DirInv` speaks of, and a machine crash leaves
one of the prefixes and at least the synced records (`SurvivingFiles`,
`CrashedLogs`, `SoundAfterCrash`). The other parts connect the process with the
directory. `LiveInv`: an open database has the version of the synced part of the
MANIFEST, and its memtables hold what the logs from `log_number_` on hold.
`BackgroundInv`: the edit that is being committed describes a version that is
right already, so that it does not matter whether a crash keeps it
(`TargetSound`, `LivePrefix`). `OpeningInv`: the tables `Open` has made hold
exactly the logs it has replayed, and their numbers are above everything the
MANIFEST names, so that a second `Open` after a crash may overwrite them.
`TrashInv`: what `RemoveObsoleteFiles` deletes no prefix names. `LogsInv` and
`TypeInv` are about single files.

Each kind of change of the directory has a lemma about `Sound`:
`SoundAfterWrite`, `SoundAfterSync`, `SoundAfterMove` (a flush, or logs that
become tables), `SoundAfterCompaction`, `SoundAfterCrash`, and `SoundFrame` for
files nobody names. There is one lemma for each action. `ManifestRead` shows that
`VersionSet::Recover`'s replay of edits is the `FilesUpTo` of the invariant, and
`TableNumbers` that every record of a replayed log is in one of its tables.

`BandFits`, `AnswersStable` and the `Inv` of `DirectorySound` are proved only;
no run checks them.

Most inductive invariants were checked with TLC on instances like those above
before they were proved; those of LSMStore also with three keys and with four
levels.

### Only model-checked

Liveness (`CallsReturn`, `CloseCompletes`) is out of the prover's reach, and so
is what the recursive operators of LogFormat, TableFile and BlockIter compute
for every input: `LogReads`, `TableReads` and `BlockReads` are checked on
instances. So is `RocksNoFalseNegatives`, whose builder peels all its hashes in
one step and would need an induction over that step.

## 5. Not modelled

- The engines RocksDB and Speedb beyond their Xor filter, and PebblesDB beyond
  its write path and filters (guards, guard-wise compaction, live backup, replay
  iterators). They are vendored, together more than 800 000 lines, and not what
  this repository is about.
- In LevelDB: `reuse_logs` during recovery as a whole (its effect on a log file
  is in LogFormat), a log reader with an initial offset, sizes in bytes wherever
  they only choose between two modelled branches, the byte formats of entries
  and edits, the hash table and the shards of the cache, read sampling, MemEnv,
  the Windows port, the C API, the logger and `db_bench`.
- In PebblesDB's write path the sequence number a snapshot gets, and reads: only
  what is logged, inserted and flushed is followed.
- In DBImpl a crash is not a step; `AckedRecoverable` and `SyncDurable` state
  what a crash at any moment would leave, and Recovery has the crash. Spurious
  wakeups change nothing in loops that test again and are left out. The order in
  which condition variables and mutexes choose is left open.
- In Repair, the `.sst` name a table may have, the manifests that are moved away,
  damage inside logs, a crash of the machine during a repair, and what the store
  does after the `Open`.
- Corrupt filters, which `KeyMayMatch` answers with "may match".
- The benchmark scripts: pure I/O.

## 6. Plan

The refinement of `KVStore`, the locks, limits, files and work queue of PosixEnv,
the write path of PebblesDB, the Repairer, the skip list, the user's iterator and
the cache, which this plan once listed, are done. Left:

1. `RocksNoFalseNegatives`, along the argument of XorFilterProofs, after the
   peeling of RocksXorFilter is split into steps.
