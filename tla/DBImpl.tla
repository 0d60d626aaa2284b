------------------------------- MODULE DBImpl -------------------------------
(***************************************************************************)
(* The concurrency core of LevelDB 1.23 (db/db_impl.cc): client threads    *)
(* that queue up in Write and are grouped by a leader, the memtable switch *)
(* in MakeRoomForWrite, the single background task that flushes and        *)
(* compacts, manual compactions, sticky background errors and shutdown.    *)
(*                                                                         *)
(* mutex_ is not a variable: one action is one critical section, from the  *)
(* acquisition of mutex_ (or the return of a Wait) to the next Unlock or   *)
(* Wait, or one step made with mutex_ released (AddRecord, Sync, the       *)
(* insertion of one entry).  A state therefore never shows mutex_ held.    *)
(***************************************************************************)
EXTENDS Integers, Sequences, FiniteSets

CONSTANTS
  Threads,            \* client threads that share the DB object
  Owner,              \* the thread that deletes it; also "no thread"
  Batches,            \* number of updates a WriteBatch may hold
  SyncModes,          \* values of WriteOptions::sync the callers use
  MaxOps,             \* bound on the members of Batches
  MaxCalls,           \* bound on the number of calls
  MemCap,             \* write_buffer_size, in entries
  GroupSmall,         \* the 128 KiB of BuildBatchGroup, in updates
  GroupMax,           \* the 1 MiB of BuildBatchGroup, in updates
  CompactionTrigger,  \* config::kL0_CompactionTrigger
  SlowdownTrigger,    \* config::kL0_SlowdownWritesTrigger
  StopTrigger,        \* config::kL0_StopWritesTrigger
  MaxOpenL0,          \* bound on the level-0 files of the DB that is opened
  MaxDeep,            \* bound on the overflow of levels 1 and deeper
  MaxLevels,          \* bound on the levels a CompactRange visits
  MaxChunks,          \* bound on the compactions one level's range needs
  MaxRetries,         \* bound on the flushes inside one compaction
  IOErrors,           \* whether the environment may return errors
  Kinds               \* calls the threads make: a subset of the four kinds

NoBatch == -1         \* the nullptr batch of TEST_CompactMemTable

ASSUME ThreadsAssumption == Owner \notin Threads
ASSUME BatchAssumption == MaxOps \in Nat /\ Batches \subseteq 0..MaxOps
                          /\ SyncModes \subseteq BOOLEAN
ASSUME GroupAssumption == GroupSmall \in Nat /\ GroupMax \in Nat
ASSUME TriggerAssumption ==
  /\ CompactionTrigger \in Nat \ {0}
  /\ SlowdownTrigger \in Nat
  /\ StopTrigger \in Nat
  /\ CompactionTrigger <= StopTrigger
ASSUME BoundAssumption ==
  /\ MaxCalls \in Nat /\ MemCap \in Nat /\ MaxDeep \in Nat /\ MaxOpenL0 \in Nat
  /\ MaxLevels \in Nat \ {0} /\ MaxChunks \in Nat /\ MaxRetries \in Nat
  /\ IOErrors \in BOOLEAN
  /\ Kinds \subseteq {"write", "flush", "range", "get"}

VARIABLES
  (* the calls in progress *)
  pc,          \* where each thread is (see PCs)
  op,          \* the call it is making
  calls,       \* calls made so far, for the bound
  ret,         \* the status its last call returned
  (* writers_ and the Writer structures *)
  writers,     \* the queue of pending writers, front first
  batch,       \* Writer::batch, as its number of updates
  sync, done,  \* the threads whose Writer has the flag set
  wstatus,     \* Writer::status
  cvwait,      \* threads asleep on their Writer's cv
  (* locals of the writer at the front *)
  allow_delay, \* MakeRoomForWrite's local
  group,       \* writers handled together (up to last_writer)
  last,        \* Write's last_sequence
  (* log and memtables: sequence numbers stand for entries *)
  lastSeq,     \* versions_->LastSequence()
  mem, imm, has_imm,
  tables,      \* entries in table files of the current version
  log,         \* records of the log files that still exist
  logfile_number, log_number,
  (* what the scheduler sees of the current version *)
  l0,          \* NumLevelFiles(0)
  deep,        \* > 0: a level below 0 has compaction score >= 1
  seek,        \* file_to_compact_ != nullptr
  (* the background task *)
  bg_error, scheduled,
  tasks,       \* BGWork items in the environment's queue
  bg,          \* where the running task is (see BGs)
  comp,        \* the running compaction
  edit_log,    \* log number in the VersionEdit of the running flush
  waiting,     \* asleep on background_work_finished_signal_
  (* manual compactions *)
  manual,      \* manual_compaction_ (the thread whose struct it points to)
  mdone,       \* the threads whose ManualCompaction is done
  level, max_level, left,
  shutting_down, life,
  (* history *)
  acked,       \* entries whose Write returned OK
  syncAcked,   \* entries acknowledged to a writer that asked for sync
  need,        \* LastSequence() when the thread's call began
  late         \* threads whose call began after bg_error_ was set

beginVars == <<op, calls, need, late>>
callVars == <<beginVars, batch, sync>>
queueVars == <<writers, done, wstatus, cvwait>>
leaderVars == <<allow_delay, group, last>>
memVars == <<mem, imm, has_imm, logfile_number>>
diskVars == <<tables, log, log_number, edit_log>>
versionVars == <<l0, deep, seek>>
taskVars == <<scheduled, tasks, bg, comp>>
manualVars == <<manual, mdone, level, max_level, left>>
lifeVars == <<shutting_down, life>>
ackVars == <<acked, syncAcked>>

threadVars == <<pc, ret, callVars, queueVars, leaderVars>>
storeVars == <<memVars, diskVars, lastSeq>>
schedVars == <<versionVars, bg_error, taskVars, waiting, manualVars>>
endVars == <<lifeVars, ackVars>>
clientVars == <<threadVars, storeVars, endVars>>

vars == <<clientVars, schedVars>>

PCs == {"idle",       \* not in a call
        "call",       \* called Write, before mutex_ is acquired
        "queued",     \* in writers_, in the while loop of Write
        "delay",      \* in the 1 ms sleep of MakeRoomForWrite
        "roomwait",   \* in a Wait of MakeRoomForWrite
        "append", "sync", "insert",  \* leader with mutex_ released
        "addfail", "syncfail",       \* AddRecord or Sync returned an error
        "immcheck",   \* in the while loop of TEST_CompactMemTable
        "manual"}     \* in the while loop of TEST_CompactRange

BGs == {"idle",       \* no task running
        "build",      \* WriteLevel0Table, mutex_ released in BuildTable
        "apply",      \* CompactMemTable, mutex_ released in LogAndApply
        "unlink",     \* RemoveObsoleteFiles after a flush
        "work",       \* DoCompactionWork, mutex_ released
        "install",    \* InstallCompactionResults, in LogAndApply
        "cleanup",    \* RemoveObsoleteFiles after a compaction
        "move",       \* trivial move, in LogAndApply
        "crashed"}    \* null manual_compaction_ dereferenced

NoCompaction == [active |-> FALSE, manual |-> FALSE, files |-> 0,
                 deep |-> FALSE, tries |-> 0]

Compactions == [active : BOOLEAN, manual : BOOLEAN, files : Nat,
                deep : BOOLEAN, tries : Nat]

-----------------------------------------------------------------------------
(* Scheduling *)

(* VersionSet::NeedsCompaction: a compaction score of at least 1, or a file *)
(* that used up its seeks.                                                  *)
NeedsCompaction == l0 >= CompactionTrigger \/ deep > 0 \/ seek

HasWork == has_imm \/ manual # Owner \/ NeedsCompaction

(* Mutant: does not test background_compaction_scheduled_.                  *)
MaybeScheduleUnguarded(already, n) ==
  IF shutting_down' \/ bg_error' \/ ~HasWork'
    THEN scheduled' = already /\ tasks' = n
    ELSE scheduled' = TRUE /\ tasks' = n + 1

(* MaybeScheduleCompaction, evaluated on the state the critical section     *)
(* leaves; already is background_compaction_scheduled_ at the call and n    *)
(* the number of tasks in the environment's queue.                          *)
MaybeScheduleCompaction(already, n) ==
  IF already \/ shutting_down' \/ bg_error' \/ ~HasWork'
    THEN scheduled' = already /\ tasks' = n
    ELSE scheduled' = TRUE /\ tasks' = n + 1

(* Mutants: the task does not look for more work, or wakes nobody.          *)
EndWithoutReschedule(n) ==
  /\ waiting' = {}
  /\ bg' = "idle"
  /\ comp' = NoCompaction
  /\ scheduled' = FALSE /\ tasks' = n

EndWithoutSignal(n) ==
  /\ bg' = "idle"
  /\ comp' = NoCompaction
  /\ UNCHANGED waiting
  /\ MaybeScheduleCompaction(FALSE, n)

(* The end of BackgroundCall, after the task has left the queue with n.     *)
BackgroundCallEnd(n) ==
  /\ waiting' = {}
  /\ bg' = "idle"
  /\ comp' = NoCompaction
  /\ MaybeScheduleCompaction(FALSE, n)

-----------------------------------------------------------------------------
(* Thread t is at p, in a process that has not crashed.                     *)
At(t, p) == pc[t] = p /\ bg # "crashed"

(* Beginning a call.  Nothing here touches shared state: the thread has not *)
(* acquired mutex_ yet.                                                     *)

Call(t, kind) ==
  /\ kind \in Kinds
  /\ At(t, "idle") /\ life = "open" /\ calls < MaxCalls
  /\ pc' = [pc EXCEPT ![t] = "call"]
  /\ op' = [op EXCEPT ![t] = kind]
  /\ calls' = calls + 1
  /\ ret' = [ret EXCEPT ![t] = "none"]
  /\ need' = [need EXCEPT ![t] = lastSeq]
  /\ late' = IF bg_error THEN late \cup {t} ELSE late \ {t}

(* DB::Write with a batch of b updates. *)
CallWrite(t, b, s) ==
  /\ Call(t, "write")
  /\ batch' = [batch EXCEPT ![t] = b]
  /\ sync' = IF s THEN sync \cup {t} ELSE sync \ {t}
  /\ UNCHANGED <<queueVars, leaderVars, storeVars, schedVars, endVars>>

(* TEST_CompactMemTable: Write(WriteOptions(), nullptr), then a wait.       *)
CallFlush(t) ==
  /\ Call(t, "flush")
  /\ batch' = [batch EXCEPT ![t] = NoBatch]
  /\ sync' = sync \ {t}
  /\ UNCHANGED <<queueVars, leaderVars, storeVars, schedVars, endVars>>

(* CompactRange: reads max_level_with_files under mutex_, then              *)
(* TEST_CompactMemTable, then TEST_CompactRange on levels 0, 1, ...         *)
CallRange(t) ==
  /\ Call(t, "range")
  /\ batch' = [batch EXCEPT ![t] = NoBatch]
  /\ sync' = sync \ {t}
  /\ \E m \in 1..MaxLevels, n \in 0..MaxChunks :
       /\ max_level' = [max_level EXCEPT ![t] = m]
       /\ left' = [left EXCEPT ![t] = n]
  /\ level' = [level EXCEPT ![t] = 0]
  /\ mdone' = mdone \ {t}
  /\ UNCHANGED <<queueVars, leaderVars, storeVars, versionVars, bg_error,
                 taskVars, waiting, manual, endVars>>

(* The last critical section of Get, or RecordReadSample: a file used up    *)
(* its seeks.  The stats are charged to the version the reader held, which  *)
(* need not be current any more.                                            *)
UpdateStats(t) ==
  /\ "get" \in Kinds
  /\ At(t, "idle") /\ life = "open" /\ calls < MaxCalls
  /\ calls' = calls + 1
  /\ seek' \in {seek, TRUE}
  /\ UNCHANGED <<pc, op, ret, batch, sync, need, late, queueVars, leaderVars,
                 storeVars, l0, deep, bg_error, waiting, manualVars, endVars,
                 bg, comp>>
  /\ MaybeScheduleCompaction(scheduled, tasks)

-----------------------------------------------------------------------------
(* Write: the queue *)

(* writers_ after this thread's push_back, whether or not it is done yet.   *)
Queue(t) == IF pc[t] = "call" THEN Append(writers, t) ELSE writers

(* Write finds other writers in the queue and waits on its own cv.          *)
Enqueue(t) ==
  /\ At(t, "call") /\ writers # <<>>
  /\ writers' = Queue(t)
  /\ done' = done \ {t}
  /\ cvwait' = cvwait \cup {t}
  /\ pc' = [pc EXCEPT ![t] = "queued"]
  /\ UNCHANGED <<ret, callVars, wstatus, leaderVars, storeVars, schedVars,
                 endVars>>

(* Where a thread goes when its Write returns status s: CompactRange        *)
(* ignores the status of TEST_CompactMemTable.                              *)
AfterWrite(t, s) ==
  CASE op[t] = "write" -> "idle"
    [] op[t] # "write" /\ s = "ok" -> "immcheck"
    [] op[t] = "flush" /\ s # "ok" -> "idle"
    [] op[t] = "range" /\ s # "ok" -> "manual"

(* A call returns s, or goes on at next with its Writer out of scope.       *)
Return(t, s, next) ==
  /\ pc' = [pc EXCEPT ![t] = next]
  /\ ret' = [ret EXCEPT ![t] = IF next = "idle" THEN s ELSE @]
  /\ batch' = [batch EXCEPT ![t] = NoBatch]
  /\ sync' = sync \ {t}

(* Mutant: the new head of the queue is not notified.                       *)
SignalGroupOnly(members, rest) == members

(* The writers signalled at the end of Write: the group and the new head.   *)
Signalled(members, rest) ==
  members \cup (IF rest = <<>> THEN {} ELSE {Head(rest)})

(* The loop at the end of Write: pop the first n writers of q, hand them    *)
(* the status, wake them and wake the new head.                             *)
PopGroup(t, q, n, s) ==
  LET members == {q[i] : i \in 1..n}
      rest == SubSeq(q, n + 1, Len(q))
  IN /\ writers' = rest
     /\ done' = done \cup (members \ {t})
     /\ wstatus' = [u \in Threads |->
                   IF u \in members \ {t} THEN s ELSE wstatus[u]]
     /\ cvwait' = cvwait \ Signalled(members, rest)
     /\ Return(t, s, AfterWrite(t, s))

(* Another thread handled this one's batch: return its status.              *)
TakeResult(t) ==
  /\ At(t, "queued") /\ t \notin cvwait /\ t \in done
  /\ done' = done \ {t}
  /\ wstatus' = [wstatus EXCEPT ![t] = "ok"]
  /\ Return(t, wstatus[t], AfterWrite(t, wstatus[t]))
  /\ UNCHANGED <<beginVars, writers, cvwait, leaderVars, storeVars, schedVars,
                 endVars>>

(* Updates in the first n batches of q. *)
OpsIn(q, n) ==
  Cardinality({x \in (1..n) \X (1..MaxOps) : x[2] <= batch[q[x[1]]]})

(* Mutant: a sync write may join a group led by a non-sync one.             *)
JoinsAnyLeader(q, i) == batch[q[i]] # NoBatch => OpsIn(q, i) <= GroupMax

(* BuildBatchGroup: how many writers at the front of q form the group.      *)
Joins(q, i) ==
  LET first == batch[q[1]]
      max_size == IF first <= GroupSmall THEN first + GroupSmall ELSE GroupMax
  IN /\ q[i] \in sync => q[1] \in sync
     /\ batch[q[i]] # NoBatch => OpsIn(q, i) <= max_size

(* The lengths of the prefixes of q whose members all join are 1, 2, ... up *)
(* to the last writer taken, so that there are as many as members.          *)
BuildBatchGroup(q) ==
  Cardinality({n \in 1..Len(q) : \A i \in 2..n : Joins(q, i)})

-----------------------------------------------------------------------------
(* MakeRoomForWrite, by the writer at the front of the queue: one action    *)
(* per branch of its loop.                                                  *)

InRoom(t) ==
  \/ At(t, "call") /\ writers = <<>>
  \/ At(t, "queued") /\ t \notin cvwait /\ t \notin done
     /\ writers # <<>> /\ t = Head(writers)
  \/ At(t, "delay")
  \/ At(t, "roomwait") /\ t \notin waiting

AllowDelay(t) ==
  IF pc[t] \in {"call", "queued"} THEN batch[t] # NoBatch ELSE allow_delay

(* "Yield previous error". *)
RoomError(t) ==
  /\ InRoom(t) /\ bg_error
  /\ PopGroup(t, Queue(t), 1, "err")
  /\ allow_delay' = FALSE
  /\ UNCHANGED <<beginVars, group, last, storeVars, schedVars, endVars>>

MustDelay(t) == AllowDelay(t) /\ l0 >= SlowdownTrigger

(* Mutant: bg_error_ is not tested.                                         *)
ProceedAfterError(t) == InRoom(t) /\ ~MustDelay(t)

(* Past the first two branches of the loop.                                 *)
Proceed(t) == InRoom(t) /\ ~bg_error /\ ~MustDelay(t)

RoomDelay(t) ==
  /\ InRoom(t) /\ ~bg_error /\ MustDelay(t)
  /\ writers' = Queue(t)
  /\ allow_delay' = FALSE
  /\ pc' = [pc EXCEPT ![t] = "delay"]
  /\ UNCHANGED <<ret, callVars, done, wstatus, cvwait, group, last, storeVars,
                 schedVars, endVars>>

(* "There is room in current memtable": never for a nullptr batch.          *)
HasRoom(t) == batch[t] # NoBatch /\ Cardinality(mem) <= MemCap

(* The rest of Write's first critical section, when MakeRoomForWrite        *)
(* returned OK: form the group, or return at once for a nullptr batch.      *)
StartGroup(t, q) ==
  IF batch[t] = NoBatch
    THEN /\ PopGroup(t, q, 1, "ok")
         /\ UNCHANGED <<group, last>>
    ELSE /\ group' = BuildBatchGroup(q)
         /\ last' = lastSeq + OpsIn(q, BuildBatchGroup(q))
         /\ writers' = q
         /\ pc' = [pc EXCEPT ![t] = "append"]
         /\ UNCHANGED <<ret, batch, sync, done, wstatus, cvwait>>

RoomReady(t) ==
  /\ Proceed(t) /\ HasRoom(t)
  /\ StartGroup(t, Queue(t))
  /\ allow_delay' = FALSE
  /\ UNCHANGED <<beginVars, storeVars, schedVars, endVars>>

(* Mutants: one of the two waits is missing.                                *)
WaitForFlushOnly == has_imm
WaitForLevel0Only == l0 >= StopTrigger

(* Waits for the flush of imm_ or for fewer level-0 files.                  *)
MustWait == has_imm \/ l0 >= StopTrigger

RoomWait(t) ==
  /\ Proceed(t) /\ ~HasRoom(t) /\ MustWait
  /\ writers' = Queue(t)
  /\ allow_delay' = AllowDelay(t)
  /\ waiting' = waiting \cup {t}
  /\ pc' = [pc EXCEPT ![t] = "roomwait"]
  /\ UNCHANGED <<ret, callVars, done, wstatus, cvwait, group, last, storeVars,
                 versionVars, bg_error, taskVars, manualVars, endVars>>

(* Switches to a new log and memtable.  The loop's next iteration finds the *)
(* new memtable empty and force false, so it leaves with OK.                *)
RoomSwitch(t) ==
  /\ Proceed(t) /\ ~HasRoom(t) /\ ~MustWait
  /\ logfile_number' = logfile_number + 1
  /\ imm' = mem /\ has_imm' = TRUE /\ mem' = {}
  /\ StartGroup(t, Queue(t))
  /\ allow_delay' = FALSE
  /\ UNCHANGED <<beginVars, diskVars, lastSeq, versionVars, bg_error, bg, comp,
                 waiting, manualVars, endVars>>
  /\ MaybeScheduleCompaction(scheduled, tasks)

(* NewWritableFile fails; bg_error_ is not set. *)
RoomSwitchFails(t) ==
  /\ IOErrors
  /\ Proceed(t) /\ ~HasRoom(t) /\ ~MustWait
  /\ PopGroup(t, Queue(t), 1, "err")
  /\ allow_delay' = FALSE
  /\ UNCHANGED <<beginVars, group, last, storeVars, schedVars, endVars>>

-----------------------------------------------------------------------------
(* Write: the leader with mutex_ released *)

Record == [first |-> lastSeq + 1, last |-> last, file |-> logfile_number,
           synced |-> FALSE]

AddRecord(t) ==
  /\ At(t, "append")
  /\ log' = log \cup {Record}
  /\ pc' = [pc EXCEPT ![t] = IF t \in sync THEN "sync" ELSE "insert"]
  /\ UNCHANGED <<ret, callVars, queueVars, leaderVars, memVars, tables,
                 log_number, edit_log, lastSeq, schedVars, endVars>>

(* An error in AddRecord; the record may have reached the file all the same.*)
AddRecordFails(t) ==
  /\ IOErrors
  /\ At(t, "append")
  /\ log' \in {log, log \cup {Record}}
  /\ pc' = [pc EXCEPT ![t] = "addfail"]
  /\ UNCHANGED <<ret, callVars, queueVars, leaderVars, memVars, tables,
                 log_number, edit_log, lastSeq, schedVars, endVars>>

(* logfile_->Sync makes everything written to the current log durable.      *)
Sync(t) ==
  /\ At(t, "sync")
  /\ log' = {IF r.file = logfile_number THEN [r EXCEPT !.synced = TRUE] ELSE r :
               r \in log}
  /\ pc' = [pc EXCEPT ![t] = "insert"]
  /\ UNCHANGED <<ret, callVars, queueVars, leaderVars, memVars, tables,
                 log_number, edit_log, lastSeq, schedVars, endVars>>

SyncFails(t) ==
  /\ IOErrors
  /\ At(t, "sync")
  /\ pc' = [pc EXCEPT ![t] = "syncfail"]
  /\ UNCHANGED <<ret, callVars, queueVars, leaderVars, storeVars, schedVars,
                 endVars>>

Inserted == (lastSeq + 1)..last \subseteq mem

(* WriteBatchInternal::InsertInto adds the updates one by one, in order.    *)
InsertInto(t) ==
  /\ At(t, "insert") /\ ~Inserted
  /\ \E s \in (lastSeq + 1)..last :
       /\ s \notin mem /\ (lastSeq + 1)..(s - 1) \subseteq mem
       /\ mem' = mem \cup {s}
  /\ UNCHANGED <<threadVars, imm, has_imm, logfile_number, diskVars, lastSeq,
                 schedVars, endVars>>

(* Mutant: sequence numbers are consumed only by successful writes.         *)
SetLastSequenceIfOk(ok) == lastSeq' = IF ok THEN last ELSE lastSeq

(* versions_->SetLastSequence(last_sequence), whatever the status.          *)
SetLastSequence(ok) == lastSeq' = last

(* Write after InsertInto or an error: RecordBackgroundError if Sync failed,*)
(* SetLastSequence, pop the group.                                          *)
FinishWrite(t) ==
  /\ \/ At(t, "addfail") \/ At(t, "syncfail")
     \/ At(t, "insert") /\ Inserted
  /\ LET ok == pc[t] = "insert"
         range == IF ok THEN (lastSeq + 1)..last ELSE {}
         asked == \E i \in 1..group : writers[i] \in sync
     IN /\ PopGroup(t, writers, group, IF ok THEN "ok" ELSE "err")
        /\ SetLastSequence(ok)
        /\ acked' = acked \cup range
        /\ syncAcked' = IF asked THEN syncAcked \cup range ELSE syncAcked
  /\ bg_error' = (bg_error \/ pc[t] = "syncfail")
  /\ waiting' = IF bg_error' # bg_error THEN {} ELSE waiting
  /\ group' = 0
  /\ UNCHANGED <<beginVars, allow_delay, last, memVars, diskVars, versionVars,
                 taskVars, manualVars, lifeVars>>

-----------------------------------------------------------------------------
(* TEST_CompactMemTable after its Write returned OK *)

ImmWait(t) ==
  /\ At(t, "immcheck") /\ t \notin waiting
  /\ has_imm /\ ~bg_error
  /\ waiting' = waiting \cup {t}
  /\ UNCHANGED <<clientVars, versionVars, bg_error, taskVars, manualVars>>

ImmDone(t) ==
  /\ At(t, "immcheck") /\ t \notin waiting
  /\ ~has_imm \/ bg_error
  /\ Return(t, IF has_imm THEN "err" ELSE "ok",
               IF op[t] = "range" THEN "manual" ELSE "idle")
  /\ UNCHANGED <<beginVars, queueVars, leaderVars, storeVars, schedVars,
                 endVars>>

-----------------------------------------------------------------------------
(* TEST_CompactRange *)

(* Mutant: the loop does not test bg_error_.                                *)
KeepWaitingOnError(t) == t \notin mdone /\ ~shutting_down

KeepWaiting(t) == t \notin mdone /\ ~shutting_down /\ ~bg_error

(* Takes the free manual_compaction_ slot, then waits in the same critical  *)
(* section.                                                                 *)
ManualSubmit(t) ==
  /\ At(t, "manual") /\ t \notin waiting /\ KeepWaiting(t)
  /\ manual = Owner
  /\ manual' = t
  /\ waiting' = waiting \cup {t}
  /\ UNCHANGED <<clientVars, versionVars, bg_error, bg, comp, mdone, level,
                 max_level, left>>
  /\ MaybeScheduleCompaction(scheduled, tasks)

ManualWait(t) ==
  /\ At(t, "manual") /\ t \notin waiting /\ KeepWaiting(t)
  /\ manual # Owner
  /\ waiting' = waiting \cup {t}
  /\ UNCHANGED <<clientVars, versionVars, bg_error, taskVars, manualVars>>

(* Leaves the loop, "Cancel my manual compaction since we aborted early";   *)
(* CompactRange goes on with the next level.                                *)
ManualEnd(t) ==
  /\ At(t, "manual") /\ t \notin waiting /\ ~KeepWaiting(t)
  /\ manual' = IF manual = t THEN Owner ELSE manual
  /\ IF level[t] + 1 < max_level[t]
       THEN /\ level' = [level EXCEPT ![t] = @ + 1]
            /\ mdone' = mdone \ {t}
            /\ \E n \in 0..MaxChunks : left' = [left EXCEPT ![t] = n]
            /\ UNCHANGED <<pc, ret, batch, sync>>
       ELSE /\ Return(t, "none", "idle")
            /\ UNCHANGED <<level, mdone, left>>
  /\ UNCHANGED <<beginVars, queueVars, leaderVars, storeVars, versionVars,
                 bg_error, taskVars, waiting, max_level, endVars>>

-----------------------------------------------------------------------------
(* The background task: BackgroundCall and BackgroundCompaction *)

TaskStarts == tasks > 0 /\ bg = "idle"

MayRun == ~shutting_down /\ ~bg_error

(* Mutant: an early return that skips the SignalAll.                        *)
TaskSkippedSilently ==
  /\ TaskStarts /\ ~MayRun
  /\ scheduled' = FALSE /\ tasks' = tasks - 1
  /\ UNCHANGED <<clientVars, versionVars, bg_error, bg, comp, waiting,
                 manualVars>>

(* "No more background work" when shutting down or after an error.          *)
TaskSkipped ==
  /\ TaskStarts /\ ~MayRun
  /\ UNCHANGED <<clientVars, versionVars, bg_error, manualVars>>
  /\ BackgroundCallEnd(tasks - 1)

(* CompactMemTable, up to the Unlock in WriteLevel0Table. *)
FlushStarts ==
  /\ TaskStarts /\ MayRun /\ has_imm
  /\ tasks' = tasks - 1
  /\ bg' = "build"
  /\ UNCHANGED <<clientVars, versionVars, bg_error, scheduled, comp, waiting,
                 manualVars>>

(* Mutant: the range left to compact is not looked at.                      *)
ManualFilesAlways(m) == IF level[m] = 0 THEN 1..l0 ELSE {0}

(* Input files of level 0 a manual compaction of thread m can take; {} when *)
(* VersionSet::CompactRange finds nothing left in the range.                *)
ManualFiles(m) ==
  IF left[m] = 0 THEN {} ELSE IF level[m] = 0 THEN 1..l0 ELSE {0}

ManualEmpty ==
  /\ TaskStarts /\ MayRun /\ ~has_imm /\ manual # Owner
  /\ ManualFiles(manual) = {}
  /\ mdone' = mdone \cup {manual}
  /\ manual' = Owner
  /\ UNCHANGED <<clientVars, versionVars, bg_error, level, max_level, left>>
  /\ BackgroundCallEnd(tasks - 1)

ManualStarts ==
  /\ TaskStarts /\ MayRun /\ ~has_imm /\ manual # Owner
  /\ \E k \in ManualFiles(manual) :
       comp' = [active |-> TRUE, manual |-> TRUE, files |-> k, deep |-> FALSE,
                tries |-> MaxRetries]
  /\ tasks' = tasks - 1
  /\ bg' = "work"
  /\ UNCHANGED <<clientVars, versionVars, bg_error, scheduled, waiting,
                 manualVars>>

(* VersionSet::PickCompaction: the level with the best score first, then    *)
(* the file with too many seeks.  A level-0 pick takes every level-0 file   *)
(* that overlaps the chosen one.                                            *)
Picks ==
  LET Pick(k, d) == [active |-> TRUE, manual |-> FALSE, files |-> k,
                     deep |-> d, tries |-> MaxRetries]
      size == {Pick(k, FALSE) :
                 k \in IF l0 >= CompactionTrigger THEN 1..l0 ELSE {}}
              \cup (IF deep > 0 THEN {Pick(0, TRUE)} ELSE {})
  IN IF size # {} THEN size
     ELSE IF seek THEN {Pick(k, FALSE) : k \in 0..l0} ELSE {}

(* Either a trivial move (one input file, nothing to merge with) or a real  *)
(* compaction, by the files' ranges and sizes, which are abstracted.  That  *)
(* some pick exists whenever a task runs is a consequence of WorkScheduled  *)
(* and of the absence of deadlock.                                          *)
CompactionStarts ==
  /\ TaskStarts /\ MayRun /\ ~has_imm /\ manual = Owner
  /\ \E c \in Picks :
       /\ comp' = c
       /\ bg' \in {"work"} \cup (IF c.files <= 1 THEN {"move"} ELSE {})
  /\ tasks' = tasks - 1
  /\ UNCHANGED <<clientVars, versionVars, bg_error, scheduled, waiting,
                 manualVars>>

-----------------------------------------------------------------------------
(* The background task: CompactMemTable *)

(* The return of CompactMemTable, to BackgroundCall or, after a SignalAll,  *)
(* to the loop of DoCompactionWork.                                         *)
FlushEnd ==
  IF comp.active
    THEN /\ bg' = "work" /\ waiting' = {}
         /\ UNCHANGED <<scheduled, tasks, comp>>
    ELSE BackgroundCallEnd(tasks)

FlushBuilt ==
  /\ bg = "build" /\ ~shutting_down
  /\ edit_log' = logfile_number
  /\ bg' = "apply"
  /\ UNCHANGED <<threadVars, memVars, tables, log, log_number, lastSeq,
                 versionVars, bg_error, scheduled, tasks, comp, waiting,
                 manualVars, endVars>>

(* BuildTable or LogAndApply failed, or the DB is being deleted:            *)
(* RecordBackgroundError; imm_ stays.                                       *)
FlushFails ==
  /\ \/ bg = "build" /\ (IOErrors \/ shutting_down)
     \/ bg = "apply" /\ IOErrors
  /\ bg_error' = TRUE
  /\ UNCHANGED <<clientVars, versionVars, manualVars>>
  /\ FlushEnd

(* The file lands in level 0 or, by PickLevelForMemTableOutput, deeper; an  *)
(* empty memtable makes no file.                                            *)
FlushedTo ==
  \/ imm = {} /\ UNCHANGED <<l0, deep>>
  \/ imm # {} /\ l0' = l0 + 1 /\ deep' = deep
  \/ imm # {} /\ l0' = l0 /\ deep' \in deep..MaxDeep

(* LogAndApply returned OK.  RemoveObsoleteFiles does nothing after an      *)
(* error and otherwise releases mutex_ while it deletes.                    *)
FlushCommits ==
  /\ bg = "apply"
  /\ FlushedTo /\ seek' = FALSE
  /\ tables' = tables \cup imm /\ log_number' = edit_log
  /\ imm' = {} /\ has_imm' = FALSE
  /\ UNCHANGED <<threadVars, mem, logfile_number, log, edit_log, lastSeq,
                 bg_error, manualVars, endVars>>
  /\ IF bg_error THEN FlushEnd
     ELSE bg' = "unlink" /\ UNCHANGED <<scheduled, tasks, comp, waiting>>

(* RemoveObsoleteFiles, as far as log files go.                             *)
RemoveObsoleteFiles == log' = {r \in log : r.file >= log_number}

FlushUnlinks ==
  /\ bg = "unlink"
  /\ RemoveObsoleteFiles
  /\ UNCHANGED <<threadVars, memVars, tables, log_number, edit_log, lastSeq,
                 versionVars, bg_error, manualVars, endVars>>
  /\ FlushEnd

-----------------------------------------------------------------------------
(* The background task: compactions *)

(* DoCompactionWork notices has_imm_ and flushes before the next key; after *)
(* a failed flush the next key tries again.                                 *)
NestedFlush ==
  /\ bg = "work" /\ has_imm /\ ~shutting_down /\ comp.tries > 0
  /\ comp' = [comp EXCEPT !.tries = @ - 1]
  /\ bg' = "build"
  /\ UNCHANGED <<clientVars, versionVars, bg_error, scheduled, tasks, waiting,
                 manualVars>>

WorkDone ==
  /\ bg = "work" /\ ~shutting_down
  /\ bg' = "install"
  /\ UNCHANGED <<clientVars, versionVars, bg_error, scheduled, tasks, comp,
                 waiting, manualVars>>

(* The end of BackgroundCompaction.  For a manual compaction it             *)
(* dereferences manual_compaction_ without testing it.                      *)
CompactionEnd(ok) ==
  IF comp.manual /\ manual = Owner
    THEN /\ bg' = "crashed" /\ waiting' = {}
         /\ UNCHANGED <<scheduled, tasks, comp, manualVars>>
    ELSE /\ manual' = IF comp.manual THEN Owner ELSE manual
         /\ mdone' = IF comp.manual /\ ~ok THEN mdone \cup {manual} ELSE mdone
         /\ left' = [t \in Threads |->
                        IF comp.manual /\ ok /\ t = manual THEN left[t] - 1
                        ELSE left[t]]
         /\ UNCHANGED <<level, max_level>>
         /\ BackgroundCallEnd(tasks)

(* The new version after the inputs of comp moved down: some level below    *)
(* may overflow, or the overflow that was picked shrinks.                   *)
MovedDown ==
  /\ l0' = l0 - comp.files
  /\ deep' \in IF comp.deep THEN 0..(deep - 1) ELSE 0..MaxDeep
  /\ seek' = FALSE

(* DoCompactionWork or LogAndApply failed, or the DB is being deleted.      *)
CompactionFails ==
  /\ \/ bg = "work" /\ (IOErrors \/ shutting_down)
     \/ bg \in {"install", "move"} /\ IOErrors
  /\ bg_error' = TRUE
  /\ UNCHANGED <<clientVars, versionVars>>
  /\ CompactionEnd(FALSE)

Installs ==
  /\ bg = "install"
  /\ MovedDown
  /\ UNCHANGED <<clientVars, bg_error>>
  /\ IF bg_error THEN CompactionEnd(TRUE)
     ELSE /\ bg' = "cleanup"
          /\ UNCHANGED <<scheduled, tasks, comp, waiting, manualVars>>

Cleanup ==
  /\ bg = "cleanup"
  /\ RemoveObsoleteFiles
  /\ UNCHANGED <<threadVars, memVars, tables, log_number, edit_log, lastSeq,
                 versionVars, bg_error, endVars>>
  /\ CompactionEnd(TRUE)

TrivialMove ==
  /\ bg = "move"
  /\ MovedDown
  /\ UNCHANGED <<clientVars, bg_error>>
  /\ CompactionEnd(TRUE)

-----------------------------------------------------------------------------
(* ~DBImpl.  The caller must have no other call in progress.                *)

Close ==
  /\ life = "open" /\ \A t \in Threads : At(t, "idle")
  /\ shutting_down' = TRUE
  /\ IF scheduled THEN life' = "closing" /\ waiting' = waiting \cup {Owner}
                  ELSE life' = "closed" /\ UNCHANGED waiting
  /\ UNCHANGED <<threadVars, storeVars, versionVars, bg_error, taskVars,
                 manualVars, ackVars>>

CloseWakes ==
  /\ life = "closing" /\ Owner \notin waiting /\ bg # "crashed"
  /\ IF scheduled THEN waiting' = waiting \cup {Owner} /\ UNCHANGED life
                  ELSE life' = "closed" /\ UNCHANGED waiting
  /\ UNCHANGED <<threadVars, storeVars, versionVars, bg_error, taskVars,
                 manualVars, shutting_down, ackVars>>

-----------------------------------------------------------------------------
(* DB::Open leaves an empty memtable, a new log and a version of any shape, *)
(* and calls MaybeScheduleCompaction.  Recovery writes the memtables it     *)
(* replays to level 0 without looking at its size, and RepairDB lists every *)
(* table there, so that level 0 may open far above kL0_StopWritesTrigger.   *)
Init ==
  /\ pc = [t \in Threads |-> "idle"]
  /\ op = [t \in Threads |-> "write"]
  /\ calls = 0
  /\ ret = [t \in Threads |-> "none"]
  /\ writers = <<>>
  /\ batch = [t \in Threads |-> NoBatch]
  /\ sync = {} /\ done = {}
  /\ wstatus = [t \in Threads |-> "ok"]
  /\ cvwait = {} /\ waiting = {}
  /\ allow_delay = FALSE /\ group = 0 /\ last = 0
  /\ lastSeq = 0
  /\ mem = {} /\ imm = {} /\ has_imm = FALSE
  /\ tables = {} /\ log = {}
  /\ logfile_number = 1 /\ log_number = 1 /\ edit_log = 1
  /\ l0 \in 0..MaxOpenL0 /\ deep \in 0..MaxDeep /\ seek = FALSE
  /\ bg_error = FALSE
  /\ bg = "idle" /\ comp = NoCompaction
  /\ manual = Owner
  /\ mdone = {}
  /\ level = [t \in Threads |-> 0]
  /\ max_level = [t \in Threads |-> 0]
  /\ left = [t \in Threads |-> 0]
  /\ shutting_down = FALSE /\ life = "open"
  /\ acked = {} /\ syncAcked = {}
  /\ need = [t \in Threads |-> 0]
  /\ late = {}
  /\ scheduled = HasWork
  /\ tasks = IF HasWork THEN 1 ELSE 0

CallBegins(t) ==
  \/ \E b \in Batches, s \in SyncModes : CallWrite(t, b, s)
  \/ CallFlush(t)
  \/ CallRange(t)
  \/ UpdateStats(t)

ThreadStep(t) ==
  \/ Enqueue(t) \/ TakeResult(t)
  \/ RoomError(t) \/ RoomDelay(t) \/ RoomReady(t) \/ RoomWait(t)
  \/ RoomSwitch(t) \/ RoomSwitchFails(t)
  \/ AddRecord(t) \/ AddRecordFails(t) \/ Sync(t) \/ SyncFails(t)
  \/ InsertInto(t) \/ FinishWrite(t)
  \/ ImmWait(t) \/ ImmDone(t)
  \/ ManualSubmit(t) \/ ManualWait(t) \/ ManualEnd(t)

BackgroundStep ==
  \/ TaskSkipped \/ FlushStarts \/ ManualEmpty \/ ManualStarts
  \/ CompactionStarts
  \/ FlushBuilt \/ FlushFails \/ FlushCommits \/ FlushUnlinks
  \/ NestedFlush \/ WorkDone \/ CompactionFails \/ Installs \/ Cleanup
  \/ TrivialMove

Terminated == (life = "closed" \/ bg = "crashed") /\ UNCHANGED vars

Next ==
  \/ \E t \in Threads : CallBegins(t) \/ ThreadStep(t)
  \/ BackgroundStep
  \/ Close
  \/ CloseWakes
  \/ Terminated

Spec == Init /\ [][Next]_vars

(* mutex_ is granted to every thread that keeps asking for it, the 1 ms     *)
(* sleep ends, and the environment's background thread runs what was        *)
(* scheduled.  Beginning a call or closing the DB is up to the user.        *)
Fairness ==
  /\ \A t \in Threads : WF_vars(ThreadStep(t))
  /\ WF_vars(BackgroundStep)
  /\ WF_vars(CloseWakes)

FairSpec == Spec /\ Fairness

-----------------------------------------------------------------------------
(* Properties *)

Records == [first : Nat, last : Nat, file : Nat, synced : BOOLEAN]

Seqs(records) == UNION {r.first..r.last : r \in records}

LiveLog == {r \in log : r.file >= log_number}

Stored == mem \cup imm \cup tables

TypeThreads ==
  /\ pc \in [Threads -> PCs]
  /\ op \in [Threads -> {"write", "flush", "range"}]
  /\ calls \in Nat
  /\ ret \in [Threads -> {"none", "ok", "err"}]
  /\ need \in [Threads -> Nat]
  /\ late \subseteq Threads

TypeQueue ==
  /\ writers \in Seq(Threads)
  /\ batch \in [Threads -> Batches \cup {NoBatch}]
  /\ wstatus \in [Threads -> {"ok", "err"}]
  /\ sync \subseteq Threads /\ done \subseteq Threads /\ cvwait \subseteq Threads
  /\ group \in Nat /\ last \in Nat /\ allow_delay \in BOOLEAN

TypeStore ==
  /\ mem \subseteq Nat /\ imm \subseteq Nat /\ tables \subseteq Nat
  /\ acked \subseteq Nat /\ syncAcked \subseteq Nat
  /\ log \subseteq Records
  /\ lastSeq \in Nat /\ logfile_number \in Nat /\ log_number \in Nat
  /\ edit_log \in Nat /\ has_imm \in BOOLEAN

TypeTask ==
  /\ l0 \in Nat /\ deep \in 0..MaxDeep /\ seek \in BOOLEAN
  /\ tasks \in Nat /\ bg \in BGs /\ comp \in Compactions
  /\ bg_error \in BOOLEAN /\ scheduled \in BOOLEAN
  /\ waiting \subseteq Threads \cup {Owner}

TypeManual ==
  /\ manual \in Threads \cup {Owner}
  /\ mdone \subseteq Threads
  /\ level \in [Threads -> Nat] /\ max_level \in [Threads -> Nat]
  /\ left \in [Threads -> Nat]
  /\ shutting_down \in BOOLEAN /\ life \in {"open", "closing", "closed"}

(* Every variable keeps the type of the C++ member or local it stands for:  *)
(* counters such as NumLevelFiles(0) and the work left in a manual          *)
(* compaction never go below zero.                                          *)
TypeOK == TypeThreads /\ TypeQueue /\ TypeStore /\ TypeTask /\ TypeManual

(* Write's hand-over of the queue loses no wakeup: the writer at the front, *)
(* and every writer whose batch another thread has handled, is not asleep   *)
(* on its cv.                                                               *)
NoLostWakeup ==
  /\ writers # <<>> => Head(writers) \notin cvwait
  /\ \A t \in Threads : t \in done => t \notin cvwait

(* MaybeScheduleCompaction is called wherever work can appear: with an      *)
(* immutable memtable, a manual compaction or an overfull level pending and *)
(* neither an error nor a shutdown, a background task is scheduled.         *)
WorkScheduled == HasWork /\ ~bg_error /\ ~shutting_down => scheduled

(* Nobody sleeps on background_work_finished_signal_ (MakeRoomForWrite,     *)
(* TEST_CompactMemTable, TEST_CompactRange, ~DBImpl) without a background   *)
(* task that will signal it.                                                *)
SleepersHaveWaker == waiting # {} => scheduled

(* background_compaction_scheduled_ counts the tasks queued or running: at  *)
(* most one, and none once ~DBImpl has stopped waiting and frees the object.*)
OneTask ==
  /\ tasks + (IF bg = "idle" THEN 0 ELSE 1) = (IF scheduled THEN 1 ELSE 0)
  /\ life = "closed" => tasks = 0 /\ bg = "idle"

(* No flush takes level 0 above kL0_StopWritesTrigger, although the test in *)
(* MakeRoomForWrite and the arrival of the file are far apart: level 0 may  *)
(* be larger when the DB is opened, but then it only shrinks.               *)
L0GrowsToTrigger == [][l0' > l0 => l0' <= StopTrigger]_vars

(* No sequence number is written to the log twice, not even after a failed  *)
(* AddRecord whose record reached the file.                                 *)
RecordsDisjoint ==
  \A r, q \in log : r # q => (r.first..r.last) \cap (q.first..q.last) = {}

(* An acknowledged write stays readable and recoverable: it is in a         *)
(* memtable or a table, and in a table or in a log that recovery reads.     *)
AckedRecoverable ==
  /\ acked \subseteq Stored
  /\ acked \subseteq tables \cup Seqs(LiveLog)

(* A write acknowledged to a caller that set WriteOptions::sync is in a     *)
(* table or in the synced part of a log that recovery reads, also when      *)
(* another thread's Write did the work.                                     *)
SyncDurable ==
  syncAcked \subseteq tables \cup Seqs({r \in LiveLog : r.synced})

(* "Already got an error; no more changes": a write that begins after the   *)
(* background error was recorded never returns OK.                          *)
ErrorSticks == \A t \in Threads : t \in late => ret[t] # "ok"

(* Every call returns: no writer is left in the queue and no waiter asleep. *)
CallsReturn == \A t \in Threads : pc[t] # "idle" ~> pc[t] = "idle"

(* ~DBImpl returns. *)
CloseCompletes == shutting_down ~> life = "closed"

(* "Force current memtable contents to be compacted." (db_impl.h): when     *)
(* TEST_CompactMemTable returns OK, what was visible at its call is in      *)
(* tables.  The code does not keep this: a null batch that joins another    *)
(* writer's group forces nothing.                                           *)
FlushForces ==
  \A t \in Threads :
    op[t] = "flush" /\ pc[t] = "idle" /\ ret[t] = "ok" =>
      {s \in Stored : s <= need[t]} \subseteq tables

(* "Cancel my manual compaction since we aborted early for some reason."    *)
(* (db_impl.cc): cancelling is safe for the running background task.        *)
CancelIsSafe == bg # "crashed"

=============================================================================
