----------------------------- MODULE WritePaths -----------------------------
(***************************************************************************)
(* The write paths of two engines, which do not interact: LevelDB's queue  *)
(* of writers (DBImpl), and PebblesDB's list of writers that insert        *)
(* concurrently (PebblesWrite), with what PebblesDB promises.              *)
(***************************************************************************)
EXTENDS DBImpl

CONSTANTS PebblesBatches, PebblesKeys, PebblesCalls, WriteBufferSize, None

VARIABLES
  w, writersTail, upper, pMem, pImm, pTables, lastSequence, bgError,
  logfile, logs, logNumber, pBg, scan, pAcked, pCalls

pebblesVars ==
  <<w, writersTail, upper, pMem, pImm, pTables, lastSequence, bgError, logfile,
    logs, logNumber, pBg, scan, pAcked, pCalls>>

Pebbles == INSTANCE PebblesWrite WITH
  Batches <- PebblesBatches, Keys <- PebblesKeys, MaxCalls <- PebblesCalls,
  mem <- pMem, imm <- pImm, tables <- pTables, bg <- pBg, acked <- pAcked,
  calls <- pCalls

ASSUME PebblesWriteAssumption == Pebbles!PebblesAssumption

-----------------------------------------------------------------------------
(* PebblesDB: no acknowledged entry is ever outside the memtables and the   *)
(* tables, and the tables that replace a memtable hold all of it: a writer  *)
(* that began before a memtable switch and ends after it must not add to    *)
(* the memtable that is being written out.                                  *)
PebblesNothingLost == Pebbles!NothingLost
=============================================================================
