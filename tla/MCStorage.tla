----------------------------- MODULE MCStorage -----------------------------
(* What LevelDB keeps in files, each part on its own: Bloom filters, tables *)
(* with their index and filter blocks, logs, and the files, locks and       *)
(* background thread of PosixEnv.                                           *)
EXTENDS Storage

CONSTANTS
  UserKeys, Seqs, MaxEntries, BlockSizes, Base,       \* TableFile
  B, H, Lens, MaxRecords, MaxCrashes, MaxFailures     \* LogFormat

(* Hashes of eight bits, some of which wrap around while they are probed.   *)
SomeWords == {<<0, 0>>, <<101, 53>>, <<200, 127>>, <<250, 255>>}

(* Two processes that open the DB once, and one that does with two threads. *)
ThreadIds == {"a1", "a2", "b1", "c1"}
ProcessOf == [t \in ThreadIds |->
                IF t = "b1" THEN "b" ELSE IF t = "c1" THEN "c" ELSE "a"]

VARIABLES
  part,
  phase, data_block, pending, blocks, index, offset, filterKeys, tFilters,
  bad, it, want,
  log, durable, frags, recs, acked, lSynced, lOpen, block_offset, crashes,
  failures

tableVars == <<phase, data_block, pending, blocks, index, offset, filterKeys,
               tFilters, bad, it, want>>
logVars == <<log, durable, frags, recs, acked, lSynced, lOpen, block_offset,
             crashes, failures>>

Table == INSTANCE TableFile WITH Sizes <- BlockSizes, filters <- tFilters
Log == INSTANCE LogFormat WITH
  Reuse <- TRUE, file <- log, synced <- lSynced, open <- lOpen

ASSUME Table!TableFileAssumption /\ Log!LogAssumption

-----------------------------------------------------------------------------
MCInit ==
  /\ part \in {"bloom", "table", "log", "file", "lock", "env"}
  /\ Init /\ Table!Init /\ Log!Init /\ Writable!Init /\ Locks!Init
  /\ Posix!Init

BloomStep ==
  /\ part = "bloom" /\ Next
  /\ UNCHANGED <<part, tableVars, logVars, writableVars, lockVars, envVars>>

TableStep ==
  /\ part = "table" /\ Table!Next
  /\ UNCHANGED <<part, vars, logVars, writableVars, lockVars, envVars>>

\* Of two crashes and a failed append, only two happen to one log.
LogStep ==
  /\ part = "log" /\ Log!Next /\ crashes' + failures' <= 2
  /\ UNCHANGED <<part, vars, tableVars, writableVars, lockVars, envVars>>

WritableStep ==
  /\ part = "file" /\ Writable!Next
  /\ UNCHANGED <<part, vars, tableVars, logVars, lockVars, envVars>>

LockStep ==
  /\ part = "lock" /\ Locks!Next
  /\ UNCHANGED <<part, vars, tableVars, logVars, writableVars, envVars>>

PosixStep ==
  /\ part = "env" /\ Posix!Next
  /\ UNCHANGED <<part, vars, tableVars, logVars, writableVars, lockVars>>

MCNext ==
  BloomStep \/ TableStep \/ LogStep \/ WritableStep \/ LockStep \/ PosixStep

MCSpec ==
  MCInit /\ [][MCNext]_<<part, vars, tableVars, logVars, writableVars, lockVars,
                         envVars>>

-----------------------------------------------------------------------------
(* Reads of a table miss nothing silently: Table::InternalGet finds the     *)
(* newest entry at or below the sequence number it is asked for, or reports *)
(* the block it could not read, neither the keys of the index nor the       *)
(* filters send it elsewhere, and an iterator over the table reports every  *)
(* block it had to skip.                                                    *)
TableReads == Table!GetFinds /\ Table!NoSilentSkip

(* What log::Reader gives back.  A log written by one writer and cut        *)
(* anywhere gives its first records, whole, all synced ones among them, and *)
(* the torn end is not called a corruption; in a log that was cut and       *)
(* appended to, a record is lost only behind a torn fragment of the same    *)
(* block; and whatever was torn, pieces of two records are never glued      *)
(* together, and acknowledged records come once and in order.               *)
LogReads ==
  /\ Log!PrefixRead /\ Log!SyncedReadable
  /\ Log!DamageConfined /\ Log!NoChimera
=============================================================================
