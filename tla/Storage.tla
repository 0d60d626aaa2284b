------------------------------ MODULE Storage ------------------------------
(***************************************************************************)
(* Bloom filters, and below them what PosixEnv gives the rest of LevelDB:  *)
(* files with a buffer, the lock of a DB, limits for maps and descriptors, *)
(* and a background thread.  The parts do not interact; their promises are *)
(* stated here, to be checked by MCStorage and proved by StorageProofs.    *)
(***************************************************************************)
EXTENDS BloomFilter

CONSTANTS
  BufferSize, AppendSizes, MaxBytes,                  \* WritableFile
  Threads, Process, NoProcess,                        \* FileLocks
  Files, MaxMmaps, MaxFds, MaxItems                   \* PosixEnv

VARIABLES
  appended, buf, wFile, wSynced, failed, wOpen,       \* WritableFile
  pc, table, owner,                                   \* FileLocks
  queue, thread, items, run, mmaps, fds, rFile        \* PosixEnv

writableVars == <<appended, buf, wFile, wSynced, failed, wOpen>>
lockVars == <<pc, table, owner>>
envVars == <<queue, thread, items, run, mmaps, fds, rFile>>

Writable == INSTANCE WritableFile WITH
  Sizes <- AppendSizes, file <- wFile, synced <- wSynced, open <- wOpen
Locks == INSTANCE FileLocks
Posix == INSTANCE PosixEnv WITH file <- rFile

ASSUME WritableAssumption == Writable!WritableFileAssumption
ASSUME LocksAssumption == Locks!ProcessAssumption
ASSUME PosixAssumption == Posix!LimitsAssumption

-----------------------------------------------------------------------------
(* The file and the buffer of a PosixWritableFile hold what was appended,   *)
(* byte by byte, over partial and interrupted writes; after an error        *)
(* something may be missing but no byte is written twice or out of order.   *)
FileHoldsAppended == Writable!NothingMissing /\ Writable!NeverRepeats

(* A Sync that returns OK has made all that was appended durable.           *)
SyncMakesDurable == Writable!SyncMakesDurable

(* LockFile excludes: of several processes that open the DB once each, one  *)
(* at a time holds the lock, in the lock table and in the kernel; threads   *)
(* of one process exclude each other; and a lock that was refused or given  *)
(* back leaves nothing behind.                                              *)
LocksExclude ==
  Locks!LockExclusive /\ Locks!OneHolderInProcess /\ Locks!NoStaleLock

(* The Limiters of maps and descriptors are exact: clients that race for    *)
(* the last unit never get it twice, and no unit is lost or gained over     *)
(* opens, errors and deletions.                                             *)
LimitsExact == Posix!LimitsKept /\ Posix!NoLeak

(* While a work item waits the background thread is not asleep, though      *)
(* Schedule signals it only when it finds the queue empty.                  *)
QueueAttended == Posix!QueueAttended
=============================================================================
