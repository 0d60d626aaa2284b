---------------------------- MODULE PebblesWrite ----------------------------
(***************************************************************************)
(* The write path of PebblesDB (db/db_impl.cc), which shares its outline   *)
(* with LevelDB's and none of its locking.  There is no leader and no      *)
(* group: every writer takes its sequence numbers from a counter, appends  *)
(* to the log by itself and enters the memtable by itself.  Three steps    *)
(* under two mutexes hold this together:                                   *)
(*   - SequenceWriteBegin makes room under mutex_, remembers the log file, *)
(*     and then, under writers_mutex_, joins a doubly linked list of       *)
(*     writers and draws its numbers;                                      *)
(*   - SequenceWriteEnd inserts into whatever memtable is current under    *)
(*     mutex_, and then leaves the list under writers_mutex_;              *)
(*   - WaitOutWriters, the second half of GetSnapshot, joins the list and  *)
(*     waits to become its head.                                           *)
(* A thread of its own writes the immutable memtable into tables.          *)
(*                                                                         *)
(* Left out: live backup and its blocking of writers, replay iterators,    *)
(* guards and compactions (the tables are a set of entries), shutdown,     *)
(* the slow-down sleep.  A crash here is one of the process.               *)
(***************************************************************************)
EXTENDS Integers, Sequences, FiniteSets

CONSTANTS
  Threads,          \* client threads
  Keys,             \* user keys
  Batches,          \* the batches clients write: sequences of keys
  WriteBufferSize,  \* entries a memtable holds before it counts as full
  MaxCalls,         \* bound: client calls started
  None              \* a null pointer

(* What the code assumes of its inputs. *)
PebblesAssumption ==
  /\ Batches \subseteq Seq(Keys) \ {<<>>}
  /\ WriteBufferSize \in Nat /\ MaxCalls \in Nat
  /\ None \notin Threads

VARIABLES
  w,          \* per thread: its place in its call, and its Writer
  writersTail,\* writers_tail_
  upper,      \* writers_upper_
  mem, imm,   \* mem_, a set of entries; imm_, a set of no or one memtable
  tables,     \* the entries of the current version's tables
  lastSequence,
  bgError,    \* bg_error_ is not OK
  logfile,    \* logfile_number_
  logs,       \* the records each log file holds: a set of entries
  logNumber,  \* LogNumber(): recovery reads the logs from here on
  bg, scan,   \* CompactMemTableThread, and the entries it writes
  acked,      \* history: entries of writes that returned OK
  calls       \* history: calls started

vars == <<w, writersTail, upper, mem, imm, tables, lastSequence, bgError,
          logfile, logs, logNumber, bg, scan, acked, calls>>

data == <<mem, imm, tables, lastSequence, bgError, logfile, logs, logNumber,
          bg, scan>>

\* A Writer, before it is linked.  A batch of <<>> stands for the NULL batch
\* of TEST_CompactMemTable; waiter marks the Writer of WaitOutWriters.
NewWriter ==
  [pc |-> "idle", batch |-> <<>>, waiter |-> FALSE, ok |-> TRUE,
   log |-> 0, start |-> 0, end |-> 0, prev |-> None, next |-> None,
   hasImm |-> FALSE]

Init ==
  /\ w = [t \in Threads |-> NewWriter]
  /\ writersTail = None /\ upper = 0
  /\ mem = {} /\ imm = {} /\ tables = {} /\ lastSequence = 0
  /\ bgError = FALSE
  /\ logfile = 1 /\ logs = <<{}>> /\ logNumber = 1
  /\ bg = "asleep" /\ scan = {}
  /\ acked = {} /\ calls = 0

-----------------------------------------------------------------------------
\* The entries a writer's batch becomes: consecutive numbers from start on.
Entries(t) == {[key |-> w[t].batch[i], seq |-> w[t].start + i - 1] :
                 i \in DOMAIN w[t].batch}

ImmEntries == UNION imm

Stored == mem \cup ImmEntries \cup tables

\* bg_memtable_cv_.Signal(): one thread waits there.
BgSignalled == IF bg = "asleep" THEN "run" ELSE bg

\* bg_fg_cv_.SignalAll(), applied to the writers f.
SignalledAll(f) ==
  [t \in Threads |->
     [f[t] EXCEPT !.pc = CASE @ = "wait" -> "room"
                           [] @ = "drainwait" -> "drain"
                           [] OTHER -> @]]

-----------------------------------------------------------------------------
(* Client calls.                                                           *)

\* Write(updates), and TEST_CompactMemTable, which is Write(NULL) first.
StartWrite(t, b) ==
  /\ w[t].pc = "idle" /\ calls < MaxCalls
  /\ calls' = calls + 1
  /\ w' = [w EXCEPT ![t] = [NewWriter EXCEPT !.pc = "room", !.batch = b]]
  /\ UNCHANGED <<writersTail, upper, acked, data>>

\* GetSnapshot: LastSequence is read under mutex_ (the number is left out);
\* WaitOutWriters follows.
StartSnapshot(t) ==
  /\ w[t].pc = "idle" /\ calls < MaxCalls
  /\ calls' = calls + 1
  /\ w' = [w EXCEPT ![t] = [NewWriter EXCEPT !.pc = "join", !.waiter = TRUE]]
  /\ UNCHANGED <<writersTail, upper, acked, data>>

-----------------------------------------------------------------------------
(* SequenceWriteBegin: the loop under mutex_.                              *)

HasRoom(t) == w[t].batch # <<>> /\ Cardinality(mem) <= WriteBufferSize

RoomError(t) ==
  /\ w[t].pc = "room" /\ bgError
  /\ w' = [w EXCEPT ![t] = NewWriter]
  /\ UNCHANGED <<writersTail, upper, acked, calls, data>>

RoomReady(t) ==
  /\ w[t].pc = "room" /\ ~bgError /\ HasRoom(t)
  /\ w' = [w EXCEPT ![t].pc = "enqueue", ![t].log = logfile]
  /\ UNCHANGED <<writersTail, upper, acked, calls, data>>

RoomWait(t) ==
  /\ w[t].pc = "room" /\ ~bgError /\ ~HasRoom(t) /\ imm # {}
  /\ bg' = BgSignalled
  /\ w' = [w EXCEPT ![t].pc = "wait"]
  /\ UNCHANGED <<writersTail, upper, mem, imm, tables, lastSequence, bgError,
                 logfile, logs, logNumber, scan, acked, calls>>

RoomSwitch(t) ==
  /\ w[t].pc = "room" /\ ~bgError /\ ~HasRoom(t) /\ imm = {}
  /\ logfile' = logfile + 1
  /\ logs' = Append(logs, {})
  /\ imm' = {mem} /\ mem' = {}
  /\ w' = [w EXCEPT ![t].pc = "enqueue", ![t].log = logfile',
                    ![t].hasImm = TRUE]
  /\ UNCHANGED <<writersTail, upper, tables, lastSequence, bgError,
                 logNumber, bg, scan, acked, calls>>

\* NewConcurrentWritableFile fails: the number is given back, the call fails.
RoomSwitchFails(t) ==
  /\ w[t].pc = "room" /\ ~bgError /\ ~HasRoom(t) /\ imm = {}
  /\ w' = [w EXCEPT ![t] = NewWriter]
  /\ UNCHANGED <<writersTail, upper, acked, calls, data>>

-----------------------------------------------------------------------------
(* The list of writers, under writers_mutex_.                              *)

\* The writers f once t stands at the tail of the list.
Linked(f, t) ==
  [u \in Threads |->
     CASE u = t -> [f[u] EXCEPT !.prev = writersTail, !.next = None]
       [] u = writersTail -> [f[u] EXCEPT !.next = t]
       [] OTHER -> f[u]]

\* The end of SequenceWriteBegin: link, and draw one number per entry and
\* one more.
Enqueue(t) ==
  /\ w[t].pc = "enqueue"
  /\ upper' = upper + 1 + Len(w[t].batch)
  /\ w' = Linked([w EXCEPT ![t].pc = IF w[t].batch = <<>> THEN "end"
                                     ELSE "log",
                           ![t].start = upper + 1, ![t].end = upper'], t)
  /\ writersTail' = t
  /\ UNCHANGED <<acked, calls, data>>

\* The writers once t has left the list: its neighbours are joined, has_imm_
\* moves to the predecessor, and a waiting successor that is now the head is
\* woken.
LinkedOut(t) ==
  LET p == w[t].prev
      n == w[t].next
  IN [u \in Threads |->
        CASE u = t -> [w[u] EXCEPT !.hasImm = @ /\ p = None]
          [] u # t /\ u = p -> [w[u] EXCEPT !.next = n,
                                           !.hasImm = @ \/ w[t].hasImm]
          [] u \notin {t, p} /\ u = n ->
               [w[u] EXCEPT !.prev = p,
                            !.pc = IF @ = "asleep" /\ p = None THEN "woken"
                                   ELSE @]
          [] OTHER -> w[u]]

\* ... which also clears the tail pointer when the last of the list leaves,
\* whether or not it had predecessors.
TailAfter(t) == IF writersTail = t THEN None ELSE writersTail

\* The call of t ends in the writers f: a write that went well is
\* acknowledged, and TEST_CompactMemTable goes on to wait for the flush.
Return(f, t) ==
  /\ w' = [f EXCEPT ![t] =
             IF ~f[t].waiter /\ f[t].batch = <<>>
             THEN [NewWriter EXCEPT !.pc = "drain"] ELSE NewWriter]
  /\ acked' = IF f[t].ok THEN acked \cup Entries(t) ELSE acked

-----------------------------------------------------------------------------
(* Write, between begin and end: the log is appended to without a mutex.   *)

LogRecord(t) ==
  /\ w[t].pc = "log"
  /\ logs' = [logs EXCEPT ![w[t].log] = @ \cup Entries(t)]
  /\ w' = [w EXCEPT ![t].pc = "end"]
  /\ UNCHANGED <<writersTail, upper, mem, imm, tables, lastSequence, bgError,
                 logfile, logNumber, bg, scan, acked, calls>>

\* AddRecord fails, or it succeeds and the Sync after it fails.
LogFails(t) ==
  /\ w[t].pc = "log"
  /\ \E written \in {{}, Entries(t)} :
       logs' = [logs EXCEPT ![w[t].log] = @ \cup written]
  /\ w' = [w EXCEPT ![t].pc = "end", ![t].ok = FALSE]
  /\ UNCHANGED <<writersTail, upper, mem, imm, tables, lastSequence, bgError,
                 logfile, logNumber, bg, scan, acked, calls>>

(* Mutant: the entries go to the memtable that was current when the writer *)
(* began, as w->mem_ had it.                                               *)
InsertIntoOwnMemTable(t) ==
  IF w[t].log = logfile
    THEN mem' = mem \cup Entries(t) /\ UNCHANGED imm
    ELSE imm' = {m \cup Entries(t) : m \in imm} /\ UNCHANGED mem

\* InsertIntoVersion: "Using current mem_ instead of w->mem_".
InsertIntoVersion(t) == mem' = mem \cup Entries(t) /\ UNCHANGED imm

\* SequenceWriteEnd under mutex_.  A failed write still advances
\* last_sequence_, after it has recorded the error and woken everyone.
End(t) ==
  LET ended == [w EXCEPT ![t].pc = "unlink"] IN
  /\ w[t].pc = "end"
  /\ IF w[t].ok THEN InsertIntoVersion(t) ELSE UNCHANGED <<mem, imm>>
  /\ bgError' = (bgError \/ ~w[t].ok)
  /\ w' = IF bgError' # bgError THEN SignalledAll(ended) ELSE ended
  /\ lastSequence' = IF lastSequence <= w[t].end THEN w[t].end
                     ELSE lastSequence
  /\ UNCHANGED <<writersTail, upper, tables, logfile, logs, logNumber, bg,
                 scan, acked, calls>>

\* SequenceWriteEnd under writers_mutex_; a head that holds has_imm_ still
\* has to wake the thread.
Unlink(t) ==
  LET f == LinkedOut(t) IN
  /\ w[t].pc = "unlink"
  /\ writersTail' = TailAfter(t)
  /\ IF f[t].hasImm
       THEN w' = [f EXCEPT ![t].pc = "signal"] /\ UNCHANGED acked
       ELSE Return(f, t)
  /\ UNCHANGED <<upper, calls, data>>

\* The last step of SequenceWriteEnd and of WaitOutWriters, under mutex_.
SignalImm(t) ==
  /\ w[t].pc = "signal"
  /\ bg' = BgSignalled
  /\ Return([w EXCEPT ![t].hasImm = FALSE], t)
  /\ UNCHANGED <<writersTail, upper, mem, imm, tables, lastSequence, bgError,
                 logfile, logs, logNumber, scan, calls>>

-----------------------------------------------------------------------------
(* GetSnapshot: ... then WaitOutWriters.                                   *)

WaitJoin(t) ==
  /\ w[t].pc = "join"
  /\ w' = Linked([w EXCEPT ![t].pc = IF writersTail = None THEN "woken"
                                     ELSE "asleep"], t)
  /\ writersTail' = t
  /\ UNCHANGED <<upper, acked, calls, data>>

\* At the head: leave the list and return.
WaitLeave(t) ==
  LET f == LinkedOut(t) IN
  /\ w[t].pc = "woken" /\ w[t].prev = None
  /\ writersTail' = TailAfter(t)
  /\ IF f[t].hasImm
       THEN w' = [f EXCEPT ![t].pc = "signal"] /\ UNCHANGED acked
       ELSE Return(f, t)
  /\ UNCHANGED <<upper, calls, data>>

-----------------------------------------------------------------------------
(* TEST_CompactMemTable, after its write.                                  *)

Drain(t) ==
  /\ w[t].pc = "drain"
  /\ w' = [w EXCEPT ![t] = IF imm # {} /\ ~bgError
                             THEN [@ EXCEPT !.pc = "drainwait"]
                             ELSE NewWriter]
  /\ UNCHANGED <<writersTail, upper, acked, calls, data>>

-----------------------------------------------------------------------------
(* CompactMemTableThread.                                                  *)

\* It sleeps while there is no immutable memtable.
BgSleep ==
  /\ bg = "run" /\ imm = {}
  /\ bg' = "asleep"
  /\ UNCHANGED <<w, writersTail, upper, mem, imm, tables, lastSequence,
                 bgError, logfile, logs, logNumber, scan, acked, calls>>

\* WriteLevel0TableGuards reads the immutable memtable without mutex_.
BgBuild ==
  /\ bg = "run" /\ imm # {}
  /\ bg' = "built" /\ scan' = ImmEntries
  /\ UNCHANGED <<w, writersTail, upper, mem, imm, tables, lastSequence,
                 bgError, logfile, logs, logNumber, acked, calls>>

\* LogAndApply installs the tables and the number of the current log;
\* DeleteObsoleteFiles removes the earlier ones.
BgCommit ==
  /\ bg = "built"
  /\ tables' = tables \cup scan /\ scan' = {}
  /\ logNumber' = logfile
  /\ imm' = {}
  /\ w' = SignalledAll(w)
  /\ bg' = "run"
  /\ UNCHANGED <<writersTail, upper, mem, lastSequence, bgError, logfile,
                 logs, acked, calls>>

\* A table or the manifest cannot be written: the error sticks, waiters are
\* woken and the thread tries again.
BgFails ==
  /\ bg = "built"
  /\ bgError' = TRUE /\ scan' = {}
  /\ w' = SignalledAll(w)
  /\ bg' = "run"
  /\ UNCHANGED <<writersTail, upper, mem, imm, tables, lastSequence, logfile,
                 logs, logNumber, acked, calls>>

-----------------------------------------------------------------------------
Step(t) ==
  \/ RoomError(t) \/ RoomReady(t) \/ RoomWait(t) \/ RoomSwitch(t)
  \/ RoomSwitchFails(t)
  \/ Enqueue(t) \/ LogRecord(t) \/ LogFails(t) \/ End(t) \/ Unlink(t)
  \/ SignalImm(t) \/ WaitJoin(t) \/ WaitLeave(t) \/ Drain(t)

Background == BgSleep \/ BgBuild \/ BgCommit \/ BgFails

\* Every call may have been made and have returned.
Done ==
  /\ calls = MaxCalls /\ \A t \in Threads : w[t].pc = "idle"
  /\ bg = "asleep"
  /\ UNCHANGED vars

Next ==
  \/ \E t \in Threads : \/ \E b \in Batches \cup {<<>>} : StartWrite(t, b)
                        \/ StartSnapshot(t)
                        \/ Step(t)
  \/ Background
  \/ Done

Spec == Init /\ [][Next]_vars

-----------------------------------------------------------------------------
(* No acknowledged entry is ever outside the memtables and the tables, and *)
(* the tables that replace a memtable hold all of it: a writer that began  *)
(* before a memtable switch and ends after it must not add to the          *)
(* memtable that is being written out.                                     *)
NothingLost == acked \subseteq Stored

(* Every acknowledged write is in a table or in a log that recovery reads, *)
(* so that the process may stop at any point: the logs a flush deletes     *)
(* hold nothing that is only in a memtable.                                *)
AckedRecoverable ==
  acked \subseteq tables \cup UNION {logs[i] : i \in logNumber .. logfile}
=============================================================================
