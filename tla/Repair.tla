------------------------------- MODULE Repair -------------------------------
(***************************************************************************)
(* RepairDB (db/repair.cc) on the directory a stopped LevelDB leaves       *)
(* behind: module LSMStore runs until the process stops at any point, some *)
(* tables may be damaged then, and the Repairer converts the logs, scans   *)
(* or copies the tables and writes a new descriptor.  It may itself be     *)
(* interrupted, or fail, and be run again.  Then the DB is opened.         *)
(*                                                                         *)
(* Every call of Env may fail, and most failures are ignored.  ArchiveFile *)
(* ignores both that nothing was moved and that a file of the same name    *)
(* was replaced in lost/, which can happen because the number of a file    *)
(* that was moved there is free again for the next run.                    *)
(*                                                                         *)
(* A table in the directory is [num, entries, sound]: what can be read of  *)
(* it, and whether that is all.  The manifest the Repairer does not read,  *)
(* the two names a table may have and the power supply are left out: what  *)
(* a process wrote before it stopped is in the file, unless it was still   *)
(* in its buffer.                                                          *)
(***************************************************************************)
EXTENDS LSMStore

CONSTANT MaxRepairs  \* bound on the runs of the Repairer

ASSUME RepairsAssumption == MaxRepairs \in Nat

VARIABLES
  phase,       \* "running", "stopped", "convert", "scan", "done", "open"
  repairs,     \* how often the Repairer has started
  dir,         \* the tables in the directory
  logs,        \* the logs in it, each [num, entries]
  lost,        \* the files in lost/, each [type, num, entries]
  toConvert,   \* logs_ that are still to be converted
  toScan,      \* table_numbers_ that are still to be scanned
  listed,      \* tables_
  nextNumber,  \* next_file_number_ of the Repairer
  job,         \* the file in hand: source, copy and the step it is at
  found,       \* history: the entries that could be read at the stop
  overwritten, \* history: those of files that were replaced in lost/
  skipped      \* history: those of tables that this run has left where they
               \* are without listing them

dirVars == <<dir, logs>>
lostVars == <<lost, overwritten>>
memoryVars == <<toConvert, toScan, listed, nextNumber, job>>
repairVars == <<phase, repairs, dirVars, lostVars, memoryVars, found, skipped>>

NoJob == [step |-> "none"]
Readable(ts) == UNION {t.entries : t \in ts}
LogEntries == UNION {l.entries : l \in logs}
LostEntries == UNION {f.entries : f \in lost}

-----------------------------------------------------------------------------
RepairInit ==
  /\ Init
  /\ phase = "running" /\ repairs = 0
  /\ dir = {} /\ logs = {} /\ lost = {}
  /\ toConvert = {} /\ toScan = {} /\ listed = {} /\ nextNumber = 1
  /\ job = NoJob
  /\ found = {} /\ overwritten = {} /\ skipped = {}

Run == phase = "running" /\ Next /\ UNCHANGED repairVars

\* The files a version or the running compaction knows, and the output that
\* is being written.
FilesOnDisk ==
  LET versions == {version} \union {iters[j].version : j \in OpenIters(iters)}
        \union (IF compaction = NoCompaction THEN {} ELSE {compaction.version})
      outputs == IF compaction = NoCompaction THEN {} ELSE compaction.outputs
  IN  {f \in (UNION {v[l] : v \in versions, l \in Levels}) \union outputs :
         f.num \in disk}

Unfinished ==
  IF compaction = NoCompaction THEN {}
  ELSE {[num |-> n, entries |-> {}, sound |-> FALSE] :
          n \in {compaction.outfile} \ {0}}

\* What is left of file f when the entries in bad cannot be read.
Left(f, bad) ==
  [num |-> f.num,
   entries |-> {e \in f.entries : <<f.num, e>> \notin bad},
   sound |-> \A e \in f.entries : <<f.num, e>> \notin bad]

\* The logs, of which the newest has number n.  Logs and tables are numbered
\* from one counter; what matters is which tables came after a log.
LogsLeft(n) ==
  {[num |-> n, entries |-> memtables[mem]]} \union
  (IF hasImm THEN {[num |-> n - 1, entries |-> memtables[imm]]} ELSE {})

\* The process stops; of each table any part may be unreadable.  Nothing of
\* the process is left but its files: no later step reads its variables.
Stop ==
  /\ phase = "running"
  /\ phase' = "stopped"
  /\ \E bad \in SUBSET UNION {{f.num} \X f.entries : f \in FilesOnDisk} :
       dir' = Unfinished \union {Left(f, bad) : f \in FilesOnDisk}
  /\ \E n \in 1..nextFile : logs' = LogsLeft(n)
  /\ found' = Readable(dir') \union UNION {l.entries : l \in logs'}
  /\ UNCHANGED <<vars, repairs, lostVars, memoryVars, skipped>>

-----------------------------------------------------------------------------
(* The Repairer. *)

\* FindFiles, when RepairDB is called for the first time or again.
FindFiles ==
  LET numbers == {t.num : t \in dir} \union {l.num : l \in logs}
  IN  /\ phase = "stopped" /\ repairs < MaxRepairs
      /\ phase' = "convert" /\ repairs' = repairs + 1
      /\ toScan' = {t.num : t \in dir} /\ toConvert' = {l.num : l \in logs}
      /\ nextNumber' = IF numbers = {} THEN 1
                       ELSE 1 + CHOOSE n \in numbers : \A m \in numbers : m <= n
      /\ listed' = {} /\ job' = NoJob /\ skipped' = {}
      /\ UNCHANGED <<dirVars, lostVars, found>>

\* A file arrives in lost/, where it takes the place of one of its name.
MoveToLost(type, file) ==
  LET replaced == {f \in lost : f.type = type /\ f.num = file.num}
  IN  /\ lost' = (lost \ replaced) \union
                 {[type |-> type, num |-> file.num, entries |-> file.entries]}
      /\ overwritten' = overwritten \union UNION {f.entries : f \in replaced}

\* ArchiveFile of a table: it is moved, or CreateDir or RenameFile fails.
ArchiveTableFile(t) ==
  \/ dir' = dir \ {t} /\ MoveToLost("table", t)
  \/ UNCHANGED <<dir, lostVars>>

\* ConvertLogToTable, for the logs in the order GetChildren gives them: the
\* log cannot be opened, there is nothing in it or the table cannot be
\* created; or BuildTable begins to write it.
ConvertLogToTable(l) ==
  /\ phase = "convert" /\ job = NoJob /\ l.num \in toConvert
  /\ toConvert' = toConvert \ {l.num}
  /\ nextNumber' \in {nextNumber, nextNumber + 1}
  /\ \/ job' = [step |-> "archiveLog", source |-> l] /\ UNCHANGED dir
     \/ LET copy == [num |-> nextNumber, entries |-> {}, sound |-> FALSE]
        IN  /\ l.entries # {} /\ nextNumber' = nextNumber + 1
            /\ dir' = dir \union {copy}
            /\ job' = [step |-> "buildTable", source |-> l, copy |-> copy]
  /\ UNCHANGED <<phase, repairs, logs, lostVars, toScan, listed, found, skipped>>

\* BuildTable ends; after an error, which is ignored, it removes the table if
\* it can.
BuildTable ==
  LET full == [job.copy EXCEPT !.entries = job.source.entries, !.sound = TRUE]
  IN  /\ job.step = "buildTable"
      /\ \/ /\ dir' = (dir \ {job.copy}) \union {full}
            /\ toScan' = toScan \union {full.num}
         \/ dir' \in {dir, dir \ {job.copy}} /\ UNCHANGED toScan
      /\ job' = [step |-> "archiveLog", source |-> job.source]
      /\ UNCHANGED <<phase, repairs, logs, lostVars, toConvert, listed,
                     nextNumber, found, skipped>>

\* ArchiveFile(logname).
ArchiveLog ==
  /\ job.step = "archiveLog"
  /\ \/ logs' = logs \ {job.source} /\ MoveToLost("log", job.source)
     \/ UNCHANGED <<logs, lostVars>>
  /\ job' = NoJob
  /\ UNCHANGED <<phase, repairs, dir, toConvert, toScan, listed, nextNumber,
                 found, skipped>>

ExtractMetaData ==
  /\ phase = "convert" /\ job = NoJob /\ toConvert = {}
  /\ phase' = "scan"
  /\ UNCHANGED <<repairs, dirVars, lostVars, memoryVars, found, skipped>>

\* ScanTable of a table that can be read to its end.
ScanTable(t) ==
  /\ phase = "scan" /\ job = NoJob /\ t.num \in toScan
  /\ t.sound
  /\ toScan' = toScan \ {t.num}
  /\ listed' = listed \union {t}
  /\ UNCHANGED <<phase, repairs, dirVars, lostVars, toConvert, nextNumber, job,
                 found, skipped>>

\* ScanTable of a table whose size cannot be had: it is archived and dropped.
DropTable(t) ==
  /\ phase = "scan" /\ job = NoJob /\ t.num \in toScan
  /\ toScan' = toScan \ {t.num}
  /\ ArchiveTableFile(t)
  /\ skipped' = IF t \in dir' THEN skipped \union t.entries ELSE skipped
  /\ UNCHANGED <<phase, repairs, logs, toConvert, listed, nextNumber, job, found>>

\* ScanTable of another one: RepairTable creates the file for a copy and
\* adds what can be read, or returns at once.
RepairTable(t) ==
  /\ phase = "scan" /\ job = NoJob /\ t.num \in toScan
  /\ ~t.sound
  /\ toScan' = toScan \ {t.num}
  /\ nextNumber' = nextNumber + 1
  /\ \/ LET copy == [num |-> nextNumber, entries |-> {}, sound |-> FALSE]
        IN  /\ dir' = dir \union {copy}
            /\ job' = [step |-> "archiveTable", source |-> t, copy |-> copy]
            /\ UNCHANGED skipped
     \/ skipped' = skipped \union t.entries /\ UNCHANGED <<dir, job>>
  /\ UNCHANGED <<phase, repairs, logs, lostVars, toConvert, listed, found>>

\* ArchiveFile(src).
ArchiveTable ==
  /\ job.step = "archiveTable"
  /\ ArchiveTableFile(job.source)
  /\ job' = [job EXCEPT !.step = "finish"]
  /\ UNCHANGED <<phase, repairs, logs, toConvert, toScan, listed, nextNumber,
                 found, skipped>>

\* Finish and Close; with nothing to save the file stays as it is.
FinishCopy ==
  LET full == [job.copy EXCEPT !.entries = job.source.entries, !.sound = TRUE]
  IN  /\ job.step = "finish"
      /\ \/ /\ job.source.entries # {}
            /\ dir' = (dir \ {job.copy}) \union {full}
            /\ job' = [job EXCEPT !.step = "rename", !.copy = full]
         \/ job.source.entries = {} /\ job' = NoJob /\ UNCHANGED dir
      /\ UNCHANGED <<phase, repairs, logs, lostVars, toConvert, toScan, listed,
                     nextNumber, found, skipped>>

\* The copy takes the name of the source, and its place if it is still there.
Renamed == [job.copy EXCEPT !.num = job.source.num]
DirRenamed == (dir \ {job.copy, job.source}) \union {Renamed}

(* Mutant: the table is listed under the number of the copy.                *)
ListCopy ==
  /\ job.step = "rename"
  /\ dir' = DirRenamed
  /\ listed' = listed \union {job.copy}
  /\ job' = NoJob
  /\ UNCHANGED <<phase, repairs, logs, lostVars, toConvert, toScan, nextNumber,
                 found, skipped>>

RenameCopy ==
  /\ job.step = "rename"
  /\ dir' = DirRenamed
  /\ listed' = listed \union {Renamed}
  /\ job' = NoJob
  /\ UNCHANGED <<phase, repairs, logs, lostVars, toConvert, toScan, nextNumber,
                 found, skipped>>

\* Finish, Close or RenameFile fails: the copy is removed if it can be.
CopyFails ==
  /\ job.step \in {"finish", "rename"}
  /\ dir' \in {dir, dir \ {job.copy}}
  /\ skipped' = IF job.source \in dir THEN skipped \union job.source.entries
                ELSE skipped
  /\ job' = NoJob
  /\ UNCHANGED <<phase, repairs, logs, lostVars, toConvert, toScan, listed,
                 nextNumber, found>>

\* The new descriptor is in place.
WriteDescriptor ==
  /\ phase = "scan" /\ job = NoJob /\ toScan = {}
  /\ phase' = "done"
  /\ UNCHANGED <<repairs, dirVars, lostVars, memoryVars, found, skipped>>

\* The Repairer is interrupted, or WriteDescriptor fails: CURRENT names no
\* good descriptor, and RepairDB has to be called again.
Interrupted ==
  /\ phase \in {"convert", "scan"}
  /\ phase' = "stopped"
  /\ toConvert' = {} /\ toScan' = {} /\ listed' = {}
  /\ nextNumber' = 1 /\ job' = NoJob /\ skipped' = {}
  /\ UNCHANGED <<repairs, dirVars, lostVars, found>>

\* DB::Open: the listed tables are level 0.  The descriptor's log number is 0,
\* so that a log that could not be archived is replayed, into a table with a
\* new number.  Then the logs and all other tables are obsolete.
Open ==
  /\ phase = "done"
  /\ phase' = "open"
  /\ dir' = {t \in dir : t.num \in {u.num : u \in listed}} \union
             {[num |-> nextNumber + l.num, entries |-> l.entries,
               sound |-> TRUE] : l \in logs}
  /\ logs' = {}
  /\ UNCHANGED <<repairs, lostVars, memoryVars, found, skipped>>

Repairer ==
  \/ FindFiles
  \/ \E l \in logs : ConvertLogToTable(l)
  \/ BuildTable \/ ArchiveLog
  \/ ExtractMetaData
  \/ \E t \in dir : ScanTable(t) \/ DropTable(t) \/ RepairTable(t)
  \/ ArchiveTable \/ FinishCopy \/ RenameCopy \/ CopyFails
  \/ WriteDescriptor \/ Interrupted \/ Open

RepairNext ==
  \/ Run
  \/ Stop
  \/ Repairer /\ UNCHANGED vars

RepairSpec == RepairInit /\ [][RepairNext]_<<vars, repairVars>>

-----------------------------------------------------------------------------
Survivors == Readable(dir) \union LogEntries \union LostEntries

(***************************************************************************)
(* However often the repair fails or is interrupted, what could be read    *)
(* when the process stopped is still in a table, in a log or in lost/.     *)
(* There are two exceptions.  A file in lost/ may be replaced by one of    *)
(* its name, and Open removes the tables that the last run could neither   *)
(* list nor archive.                                                       *)
(***************************************************************************)
NothingElseDestroyed ==
  found \ overwritten \subseteq
    Survivors \union (IF phase = "open" THEN skipped ELSE {})

\* What a DB shows that is opened after the repair, or that was opened.
Shown == Readable(IF phase = "open" THEN dir ELSE listed) \union LogEntries

(***************************************************************************)
(* A repaired DB can be opened and shows all that was not given up: each   *)
(* listed table is in the directory under its number with its contents,    *)
(* and what the DB does not show is in lost/, was replaced there or is in  *)
(* a table that this run skipped.                                          *)
(***************************************************************************)
DescriptorSound ==
  phase \in {"done", "open"} =>
    /\ listed \subseteq dir
    /\ found \ (overwritten \union skipped \union LostEntries) \subseteq Shown

(* Both: RepairDB destroys nothing but what it overwrites in lost/ and what *)
(* it skips, and what it leaves can be opened and is complete.              *)
RepairSound == NothingElseDestroyed /\ DescriptorSound
=============================================================================
