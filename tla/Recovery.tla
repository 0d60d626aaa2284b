------------------------------ MODULE Recovery ------------------------------
(***************************************************************************)
(* What LevelDB 1.23 keeps in its directory and how it comes back after a  *)
(* crash: log files, table files, MANIFEST files and CURRENT; the writes,  *)
(* memtable switches, flushes and compactions that change them; and        *)
(* DB::Open, which reads the MANIFEST, replays the logs, starts a new log  *)
(* and a new MANIFEST and removes what is obsolete (db/db_impl.cc,         *)
(* db/version_set.cc).  The program or the machine may stop between any    *)
(* two of these steps, those of DB::Open included.                         *)
(*                                                                         *)
(* Options::reuse_logs is false, its default, and I/O does not fail (see   *)
(* module DBImpl for failures).  Levels are in module LSMStore: a version  *)
(* is a set of table numbers.                                              *)
(***************************************************************************)
EXTENDS Integers, Sequences, FiniteSetsExt

CONSTANTS
  MaxWrites,      \* bound on the number of updates
  MaxCrashes,     \* bound on the number of crashes
  MaxCompactions, \* bound on the number of compactions
  MachineCrashes, \* whether the machine may stop, not only the process
  SyncModes       \* values of WriteOptions::sync the callers use

ASSUME BoundsAssumption ==
  /\ MaxWrites \in Nat /\ MaxCrashes \in Nat /\ MaxCompactions \in Nat
  /\ MachineCrashes \in BOOLEAN /\ SyncModes \subseteq BOOLEAN

VARIABLES
  (* the directory *)
  logs,       \* for each log number its records and how many are synced
  tables,     \* for each table number the entries it holds; always synced
  manifests,  \* for each MANIFEST number its edits and how many are synced
  current,    \* the MANIFEST that CURRENT names; 0 if there is no CURRENT
  (* the process *)
  pc,         \* where DB::Open is, or "open", or "syncing" in a Write
  bg,         \* where the background thread is
  vs,         \* VersionSet: files, log, next, manifest, last (sequence)
  logfile,    \* logfile_number_
  mem, imm,   \* entries of mem_ and imm_
  hasImm,
  todo,       \* logs still to be replayed by Recover
  edit,       \* the VersionEdit being made
  trash,      \* files RemoveObsoleteFiles has still to delete
  (* history *)
  written,    \* updates made so far
  crashes, compactions,
  acked,      \* updates acknowledged that no allowed crash may lose
  synced,     \* updates acknowledged to a caller that asked for sync
  gone        \* updates that a caller can no longer see

dirVars == <<logs, tables, manifests, current>>
memVars == <<logfile, mem, imm, hasImm>>
procVars == <<pc, bg, vs, memVars, todo, edit, trash>>
boundVars == <<written, crashes, compactions>>
histVars == <<acked, synced, gone>>
vars == <<dirVars, procVars, boundVars, histVars>>

\* An update and the sequence number it was given.
Entry(id, s) == [id |-> id, s |-> s]
Ids(E) == {e.id : e \in E}

None == -1           \* a field that a VersionEdit does not set
EmptyFile == [recs |-> <<>>, synced |-> 0]
NoEdit == [add |-> {}, del |-> {}, log |-> None, next |-> None, last |-> None]
NoVersions == [files |-> {}, log |-> 0, next |-> 2, manifest |-> 0, last |-> 0]

\* The file f with record r appended, and f with everything synced.
AddRecord(f, r) == [f EXCEPT !.recs = Append(@, r)]
Sync(f) == [f EXCEPT !.synced = Len(f.recs)]

Put(fcn, n, v) == [m \in DOMAIN fcn \union {n} |-> IF m = n THEN v ELSE fcn[m]]
Drop(fcn, n) == Restrict(fcn, DOMAIN fcn \ {n})

TableEntries(ns) == UNION {tables[n] : n \in ns}

\* What Get can find.
Contents ==
  mem \union imm \union TableEntries(vs.files \intersect DOMAIN tables)

-----------------------------------------------------------------------------
(* Writing. *)

\* Write: AddRecord, then Sync if asked for, then the memtable.
Write(sync) ==
  LET e == Entry(written + 1, vs.last + 1)
  IN  /\ pc = "open"
      /\ written < MaxWrites
      /\ written' = written + 1
      /\ logs' = [logs EXCEPT ![logfile] = AddRecord(@, e)]
      /\ IF sync
         THEN pc' = "syncing" /\ UNCHANGED <<mem, vs, acked>>
         ELSE /\ mem' = mem \union {e}
              /\ vs' = [vs EXCEPT !.last = e.s]
              /\ acked' = acked \union {e.id}
              /\ UNCHANGED pc
      /\ UNCHANGED <<tables, manifests, current, bg, logfile, imm, hasImm, todo,
                     edit, trash, crashes, compactions, synced,
                     gone>>

\* logfile_->Sync() has returned; the update is applied and acknowledged.
WriteSynced ==
  LET e == Entry(written, vs.last + 1)
  IN  /\ pc = "syncing"
      /\ logs' = [logs EXCEPT ![logfile] = Sync(@)]
      /\ mem' = mem \union {e}
      /\ vs' = [vs EXCEPT !.last = e.s]
      /\ acked' = acked \union {e.id}
      /\ synced' = synced \union {e.id}
      /\ pc' = "open"
      /\ UNCHANGED <<tables, manifests, current, bg, logfile, imm, hasImm, todo,
                     edit, trash, boundVars, gone>>

\* MakeRoomForWrite: the old log is closed, not synced.
SwitchMemTable ==
  /\ pc = "open"
  /\ ~hasImm
  /\ mem # {}
  /\ logs' = Put(logs, vs.next, EmptyFile)
  /\ logfile' = vs.next
  /\ vs' = [vs EXCEPT !.next = @ + 1]
  /\ imm' = mem
  /\ mem' = {}
  /\ hasImm' = TRUE
  /\ UNCHANGED <<tables, manifests, current, pc, bg, todo, edit, trash,
                 boundVars, histVars>>

-----------------------------------------------------------------------------
(* The background thread. *)

Running == pc \in {"open", "syncing"}
BackgroundIdle == Running /\ bg = "idle" /\ trash = {}

\* WriteLevel0Table: BuildTable writes the table and syncs it.
FlushBuild ==
  /\ BackgroundIdle /\ hasImm
  /\ tables' = Put(tables, vs.next, imm)
  /\ edit' = [NoEdit EXCEPT !.add = {vs.next}, !.log = logfile]
  /\ vs' = [vs EXCEPT !.next = @ + 1]
  /\ bg' = "flush"
  /\ UNCHANGED <<logs, manifests, current, pc, memVars, todo, trash, boundVars,
                 histVars>>

\* DoCompactionWork: the entries of some tables go to a new one, if any is
\* kept; those left out are hidden, so nobody misses them.
CompactBuild(ins, kept) ==
  LET new == IF kept = {} THEN {} ELSE {vs.next}
  IN  /\ BackgroundIdle /\ ~hasImm
      /\ ins # {}
      /\ compactions < MaxCompactions
      /\ compactions' = compactions + 1
      /\ tables' = IF kept = {} THEN tables ELSE Put(tables, vs.next, kept)
      /\ edit' = [NoEdit EXCEPT !.add = new, !.del = ins]
      /\ vs' = [vs EXCEPT !.next = @ + Cardinality(new)]
      /\ bg' = "compact"
      /\ acked' = acked \ (Ids(TableEntries(ins)) \ Ids(kept))
      /\ UNCHANGED <<logs, manifests, current, pc, memVars, todo, trash,
                     written, crashes, synced, gone>>

\* The fields LogAndApply fills in.
CompleteEdit(e) ==
  [e EXCEPT !.log = IF @ = None THEN vs.log ELSE @,
            !.next = vs.next, !.last = vs.last]

\* LogAndApply: the edit is appended to the MANIFEST.
LogEdit ==
  /\ Running /\ bg \in {"flush", "compact"}
  /\ edit' = CompleteEdit(edit)
  /\ manifests' = [manifests EXCEPT ![vs.manifest] = AddRecord(@, edit')]
  /\ bg' = IF bg = "flush" THEN "flushlog" ELSE "compactlog"
  /\ UNCHANGED <<logs, tables, current, pc, vs, memVars, todo, trash, boundVars,
                 histVars>>

(* Mutant: the log whose number the MANIFEST names is removed too.          *)
ObsoleteWithCurrentLog(v, dirLogs, dirTables, dirManifests) ==
  {<<"log", n>> : n \in {m \in dirLogs : m <= v.log}}
    \union {<<"table", n>> : n \in dirTables \ v.files}
    \union {<<"manifest", n>> : n \in {m \in dirManifests : m < v.manifest}}

\* The files RemoveObsoleteFiles finds obsolete in the directory.
Obsolete(v, dirLogs, dirTables, dirManifests) ==
  {<<"log", n>> : n \in {m \in dirLogs : m < v.log}}
    \union {<<"table", n>> : n \in dirTables \ v.files}
    \union {<<"manifest", n>> : n \in {m \in dirManifests : m < v.manifest}}

\* LogAndApply: Sync has returned and the version is installed.  Entries that
\* a compaction left out cannot be seen any more.
ApplyEdit ==
  LET files == (vs.files \ edit.del) \union edit.add
      dropped == TableEntries(edit.del) \ TableEntries(edit.add)
  IN  /\ Running /\ bg \in {"flushlog", "compactlog"}
      /\ manifests' = [manifests EXCEPT ![vs.manifest] = Sync(@)]
      /\ vs' = [vs EXCEPT !.files = files, !.log = edit.log]
      /\ IF bg = "flushlog" THEN imm' = {} /\ hasImm' = FALSE
         ELSE UNCHANGED <<imm, hasImm>>
      /\ gone' = IF bg = "flushlog" THEN gone ELSE gone \union Ids(dropped)
      /\ trash' = Obsolete(vs', DOMAIN logs, DOMAIN tables, DOMAIN manifests)
      /\ edit' = NoEdit
      /\ bg' = "idle"
      /\ UNCHANGED <<logs, tables, current, pc, logfile, mem, todo, boundVars,
                     acked, synced>>

\* RemoveObsoleteFiles deletes one of the files it found.
RemoveFile(f) ==
  /\ f \in trash
  /\ trash' = trash \ {f}
  /\ logs' = IF f[1] = "log" THEN Drop(logs, f[2]) ELSE logs
  /\ tables' = IF f[1] = "table" THEN Drop(tables, f[2]) ELSE tables
  /\ manifests' = IF f[1] = "manifest" THEN Drop(manifests, f[2]) ELSE manifests
  /\ UNCHANGED <<current, pc, bg, vs, memVars, todo, edit, boundVars, histVars>>

-----------------------------------------------------------------------------
(* Stopping. *)

\* The files a stopped machine may come back with: every file keeps what was
\* synced and any part of the rest, in order; a file nothing of which was
\* synced may be missing.
Remains(f) ==
  {[recs |-> SubSeq(f.recs, 1, k), synced |-> k] : k \in f.synced..Len(f.recs)}

Surviving(dir) ==
  UNION {{d \in [S -> UNION {Remains(dir[n]) : n \in S}] :
            \A n \in S : d[n] \in Remains(dir[n])} :
         S \in {T \in SUBSET DOMAIN dir :
                  \A n \in DOMAIN dir \ T : dir[n].synced = 0}}

Stop ==
  /\ pc # "down"
  /\ crashes < MaxCrashes
  /\ crashes' = crashes + 1
  /\ pc' = "down" /\ bg' = "idle"
  /\ vs' = NoVersions
  /\ logfile' = 0 /\ mem' = {} /\ imm' = {} /\ hasImm' = FALSE
  /\ todo' = {} /\ edit' = NoEdit /\ trash' = {}
  /\ UNCHANGED <<tables, current, written, compactions, synced, gone>>

\* The process stops: what it handed to the operating system stays.
ProcessCrash ==
  /\ Stop
  /\ UNCHANGED <<logs, manifests, acked>>

MachineCrash ==
  /\ MachineCrashes
  /\ Stop
  /\ logs' \in Surviving(logs)
  /\ manifests' \in Surviving(manifests)
  /\ acked' = acked \intersect synced

-----------------------------------------------------------------------------
(* DB::Open. *)

\* NewDB, when there is no CURRENT: MANIFEST-1 is written and synced.
NewDB ==
  /\ pc = "down" /\ current = 0
  /\ manifests' = Put(manifests, 1,
       Sync(AddRecord(EmptyFile,
                      [NoEdit EXCEPT !.log = 0, !.next = 2, !.last = 0])))
  /\ pc' = "newdb"
  /\ UNCHANGED <<logs, tables, current, bg, vs, memVars, todo, edit, trash,
                 boundVars, histVars>>

\* SetCurrentFile: a synced temporary file is renamed to CURRENT.
NewDBCurrent ==
  /\ pc = "newdb"
  /\ current' = 1
  /\ pc' = "down"
  /\ UNCHANGED <<logs, tables, manifests, bg, vs, memVars, todo, edit, trash,
                 boundVars, histVars>>

\* The files the edits of a MANIFEST leave, and the last one that sets
\* the log number, the next file number and the last sequence number.
ManifestFiles(recs) ==
  UNION {{n \in recs[i].add :
            \A j \in DOMAIN recs : j > i => n \notin recs[j].del} :
         i \in DOMAIN recs}

LastEdit(recs) == recs[Max({i \in DOMAIN recs : recs[i].log # None})]

\* VersionSet::Recover accepts a MANIFEST that exists and sets the fields.
Readable(n) ==
  /\ n \in DOMAIN manifests
  /\ \E i \in DOMAIN manifests[n].recs : manifests[n].recs[i].log # None

(* Mutant: every log is replayed.                                           *)
AllLogs(log) == DOMAIN logs

\* The logs that are not older than the MANIFEST's log number.
LogsToReplay(log) == {n \in DOMAIN logs : n >= log}

\* VersionSet::Recover and the checks of DBImpl::Recover: the version the
\* MANIFEST describes, its tables, and the logs to replay.  A table counts as
\* there if any file in the directory has its number.
RecoverManifest ==
  /\ pc = "down" /\ current # 0
  /\ IF ~Readable(current) THEN pc' = "corrupt" /\ UNCHANGED <<vs, todo>>
     ELSE LET recs == manifests[current].recs
              last == LastEdit(recs)
          IN  /\ vs' = [files |-> ManifestFiles(recs), log |-> last.log,
                        next |-> last.next + 1, manifest |-> last.next,
                        last |-> last.last]
              /\ todo' = LogsToReplay(vs'.log)
              /\ pc' = IF vs'.files \subseteq DOMAIN tables
                            \union DOMAIN logs \union DOMAIN manifests
                       THEN "replay" ELSE "corrupt"
  /\ UNCHANGED <<dirVars, bg, memVars, edit, trash, boundVars, histVars>>

\* MarkFileNumberUsed, and the largest sequence number found so far.
MarkFileNumberUsed(next, n) == IF next <= n THEN n + 1 ELSE next
MaxSequence(last, recs) == Max({last} \union {recs[i].s : i \in DOMAIN recs})

\* The records after which RecoverLogFile writes its memtable to a table: any
\* that fill it, and the last one.
TableEnds(recs) ==
  {ends \in SUBSET DOMAIN recs : recs # <<>> => Len(recs) \in ends}

\* RecoverLogFile, MarkFileNumberUsed and SetLastSequence for the oldest log
\* that is left.  Its records become level-0 tables, one for each end.
RecoverLogFile(ends) ==
  LET n == Min(todo)
      recs == logs[n].recs
      TableOf(i) == vs.next + Cardinality({p \in ends : p < i})
      new == vs.next..(vs.next + Cardinality(ends) - 1)
  IN  /\ pc = "replay" /\ todo # {}
      /\ tables' = [m \in DOMAIN tables \union new |->
                      IF m \in new
                      THEN {recs[i] : i \in {j \in DOMAIN recs : TableOf(j) = m}}
                      ELSE tables[m]]
      /\ edit' = [edit EXCEPT !.add = @ \union new]
      /\ vs' = [vs EXCEPT !.next = MarkFileNumberUsed(@ + Cardinality(ends), n),
                          !.last = MaxSequence(@, recs)]
      /\ todo' = todo \ {n}
      /\ UNCHANGED <<logs, manifests, current, pc, bg, memVars, trash,
                     boundVars, histVars>>

\* DB::Open creates the new log.
OpenLog ==
  /\ pc = "replay" /\ todo = {}
  /\ logs' = Put(logs, vs.next, EmptyFile)
  /\ logfile' = vs.next
  /\ edit' = [edit EXCEPT !.log = vs.next]
  /\ vs' = [vs EXCEPT !.next = @ + 1]
  /\ pc' = "newlog"
  /\ UNCHANGED <<tables, manifests, current, bg, mem, imm, hasImm, todo, trash,
                 boundVars, histVars>>

\* LogAndApply without a descriptor log: a new MANIFEST with a snapshot of the
\* version (WriteSnapshot: only its files) and the edit.
OpenManifest ==
  /\ pc = "newlog"
  /\ edit' = CompleteEdit(edit)
  /\ manifests' = Put(manifests, vs.manifest,
       AddRecord(AddRecord(EmptyFile, [NoEdit EXCEPT !.add = vs.files]), edit'))
  /\ pc' = "newmanifest"
  /\ UNCHANGED <<logs, tables, current, bg, vs, memVars, todo, trash, boundVars,
                 histVars>>

(* Mutant: CURRENT is set although the new MANIFEST is not synced.          *)
OpenWithoutSync ==
  /\ pc = "newmanifest"
  /\ pc' = "setcurrent"
  /\ UNCHANGED <<dirVars, bg, vs, memVars, todo, edit, trash, boundVars,
                 histVars>>

\* descriptor_file_->Sync().
OpenSync ==
  /\ pc = "newmanifest"
  /\ manifests' = [manifests EXCEPT ![vs.manifest] = Sync(@)]
  /\ pc' = "setcurrent"
  /\ UNCHANGED <<logs, tables, current, bg, vs, memVars, todo, edit, trash,
                 boundVars, histVars>>

\* SetCurrentFile, the new version installed, and RemoveObsoleteFiles up to
\* the deletions.
OpenCurrent ==
  /\ pc = "setcurrent"
  /\ current' = vs.manifest
  /\ vs' = [vs EXCEPT !.files = @ \union edit.add, !.log = edit.log]
  /\ edit' = NoEdit
  /\ trash' = Obsolete(vs', DOMAIN logs, DOMAIN tables, DOMAIN manifests)
  /\ pc' = "cleanup"
  /\ UNCHANGED <<logs, tables, manifests, bg, memVars, todo, boundVars,
                 histVars>>

\* DB::Open returns.  What is not in the database now stays lost.
OpenDone ==
  /\ pc = "cleanup" /\ trash = {}
  /\ pc' = "open"
  /\ gone' = (1..written) \ Ids(Contents)
  /\ UNCHANGED <<dirVars, bg, vs, memVars, todo, edit, trash, boundVars, acked,
                 synced>>

-----------------------------------------------------------------------------
Init ==
  /\ logs = <<>> /\ tables = <<>> /\ manifests = <<>> /\ current = 0
  /\ pc = "down" /\ bg = "idle"
  /\ vs = NoVersions
  /\ logfile = 0 /\ mem = {} /\ imm = {} /\ hasImm = FALSE
  /\ todo = {} /\ edit = NoEdit /\ trash = {}
  /\ written = 0 /\ crashes = 0 /\ compactions = 0
  /\ acked = {} /\ synced = {} /\ gone = {}

Open ==
  \/ NewDB \/ NewDBCurrent \/ RecoverManifest
  \/ /\ todo # {}
     /\ \E ends \in TableEnds(logs[Min(todo)].recs) : RecoverLogFile(ends)
  \/ OpenLog \/ OpenManifest \/ OpenSync \/ OpenCurrent \/ OpenDone

Background ==
  \/ FlushBuild
  \/ \E ins \in SUBSET vs.files :
       \E kept \in SUBSET TableEntries(ins) : CompactBuild(ins, kept)
  \/ LogEdit
  \/ ApplyEdit

Next ==
  \/ \E sync \in SyncModes : Write(sync)
  \/ WriteSynced
  \/ SwitchMemTable
  \/ Background
  \/ \E f \in trash : RemoveFile(f)
  \/ ProcessCrash \/ MachineCrash
  \/ Open

Spec == Init /\ [][Next]_vars

-----------------------------------------------------------------------------
(* Properties. *)

\* Every update that was acknowledged is in the open database, except those a
\* compaction rightly dropped and, after the machine stopped, those nobody
\* asked to sync: logs are replayed completely, and removed only when a table
\* that the synced MANIFEST names holds their entries.
AckedSurvive == Running => acked \subseteq Ids(Contents)

\* An update that was lost in a crash or dropped by a compaction never comes
\* back: logs older than log_number_ and orphaned tables are not read again.
NothingReturns == Running => Ids(Contents) \intersect gone = {}

\* DB::Open never finds the database corrupt, and an open database has all its
\* tables: CURRENT names a MANIFEST that was synced, and the tables that one
\* lists are in the directory.
OpensAlways ==
  /\ pc # "corrupt"
  /\ Running => vs.files \subseteq DOMAIN tables

\* Sequence numbers of visible updates are distinct and not above
\* LastSequence(), whatever was lost: Recover takes the largest number found
\* in the logs and in the MANIFEST.
SequencesUnique ==
  Running =>
    /\ \A e \in Contents : e.s <= vs.last
    /\ \A e, f \in Contents : e.s = f.s => e = f

\* The next file number is above that of every log and every live table, so
\* that creating a log or a table never truncates one that is still needed:
\* logs that the MANIFEST does not mention are counted too.
NumbersFresh == Running => \A n \in DOMAIN logs \union vs.files : n < vs.next

\* What DB::Open arrives at can be worked with: tables are there, and neither
\* a sequence number nor a file number is given out a second time.
OpenIsSound == OpensAlways /\ SequencesUnique /\ NumbersFresh
=============================================================================
