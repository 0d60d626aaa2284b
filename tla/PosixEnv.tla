------------------------------ MODULE PosixEnv ------------------------------
(***************************************************************************)
(* What the threads of a process share in PosixEnv (util/env_posix.cc):    *)
(* the queue of background work with the one thread that runs it, and the  *)
(* two Limiters for memory maps and read-only file descriptors.            *)
(*                                                                         *)
(* A work item is its number in the order of the calls of Schedule.  A     *)
(* Limiter is an atomic counter; each operation on it is a step.           *)
(***************************************************************************)
EXTENDS Integers, Sequences, FiniteSets

CONSTANTS
  Files,     \* the RandomAccessFiles of clients, one thread for each
  MaxMmaps,  \* MaxMmaps()
  MaxFds,    \* MaxOpenFiles()
  MaxItems   \* bound on the work items

(* What the code assumes of its parameters. *)
LimitsAssumption ==
  IsFiniteSet(Files) /\ MaxMmaps \in Nat /\ MaxFds \in Nat /\ MaxItems \in Nat

VARIABLES
  queue,   \* background_work_queue_
  thread,  \* the background thread: "none" (not started), "ready", "asleep"
           \* (in Wait), "running"
  items,   \* calls of Schedule so far
  run,     \* the items whose function has been called
  mmaps,   \* mmap_limiter_
  fds,     \* fd_limiter_
  file     \* where each file is in its life

workVars == <<queue, thread, items, run>>
fileVars == <<mmaps, fds, file>>
vars == <<workVars, fileVars>>

Init ==
  /\ queue = <<>> /\ thread = "none" /\ items = 0 /\ run = {}
  /\ mmaps = MaxMmaps /\ fds = MaxFds
  /\ file = [f \in Files |-> "none"]

-----------------------------------------------------------------------------
(* Background work. *)

(* Mutant: the signal is given when the queue is not empty.                 *)
ScheduleLateSignal ==
  /\ items < MaxItems
  /\ items' = items + 1
  /\ queue' = Append(queue, items')
  /\ thread' = IF thread = "none" \/ (thread = "asleep" /\ queue # <<>>)
               THEN "ready" ELSE thread
  /\ UNCHANGED <<run, fileVars>>

\* Schedule: the first call starts the thread; a signal is given only when
\* the queue is empty.
Schedule ==
  /\ items < MaxItems
  /\ items' = items + 1
  /\ queue' = Append(queue, items')
  /\ thread' = IF thread = "none" \/ (thread = "asleep" /\ queue = <<>>)
               THEN "ready" ELSE thread
  /\ UNCHANGED <<run, fileVars>>

\* BackgroundThreadMain: the mutex is taken, or Wait returns.
Wait ==
  /\ thread = "ready" /\ queue = <<>>
  /\ thread' = "asleep"
  /\ UNCHANGED <<queue, items, run, fileVars>>

TakeItem ==
  /\ thread = "ready" /\ queue # <<>>
  /\ thread' = "running"
  /\ run' = run \union {Head(queue)}
  /\ queue' = Tail(queue)
  /\ UNCHANGED <<items, fileVars>>

\* The function returns; it may have called Schedule before that.
ItemDone ==
  /\ thread = "running"
  /\ thread' = "ready"
  /\ UNCHANGED <<queue, items, run, fileVars>>

-----------------------------------------------------------------------------
(* Files. *)

GoFile(f, from, to) == file[f] = from /\ file' = [file EXCEPT ![f] = to]

\* Limiter::Acquire: what the fetch_sub returns decides.
Acquires(old) == old > 0

\* NewRandomAccessFile: mmap_limiter_.Acquire(), and its fetch_add when there
\* is none left.
TryMmap(f) ==
  /\ GoFile(f, "none", IF Acquires(mmaps) THEN "mapping" ELSE "no mmap")
  /\ mmaps' = mmaps - 1
  /\ UNCHANGED <<fds, workVars>>

NoMmap(f) ==
  /\ GoFile(f, "no mmap", "opened")
  /\ mmaps' = mmaps + 1
  /\ UNCHANGED <<fds, workVars>>

\* GetFileSize and mmap.
Map(f) == GoFile(f, "mapping", "mapped") /\ UNCHANGED <<mmaps, fds, workVars>>

(* Mutant: what was acquired is kept after an error.                        *)
MapFailsAndKeeps(f) ==
  GoFile(f, "mapping", "none") /\ UNCHANGED <<mmaps, fds, workVars>>

MapFails(f) ==
  /\ GoFile(f, "mapping", "none")
  /\ mmaps' = mmaps + 1
  /\ UNCHANGED <<fds, workVars>>

\* PosixRandomAccessFile(): fd_limiter_->Acquire(); without it the file is
\* opened for each Read.
TryFd(f) ==
  /\ GoFile(f, "opened", IF Acquires(fds) THEN "permanent" ELSE "no fd")
  /\ fds' = fds - 1
  /\ UNCHANGED <<mmaps, workVars>>

NoFd(f) ==
  /\ GoFile(f, "no fd", "temporary")
  /\ fds' = fds + 1
  /\ UNCHANGED <<mmaps, workVars>>

\* The destructors.
DeleteMapped(f) ==
  /\ GoFile(f, "mapped", "none")
  /\ mmaps' = mmaps + 1
  /\ UNCHANGED <<fds, workVars>>

DeletePermanent(f) ==
  /\ GoFile(f, "permanent", "none")
  /\ fds' = fds + 1
  /\ UNCHANGED <<mmaps, workVars>>

DeleteTemporary(f) ==
  GoFile(f, "temporary", "none") /\ UNCHANGED <<mmaps, fds, workVars>>

-----------------------------------------------------------------------------
Background == Wait \/ TakeItem \/ ItemDone

Next ==
  \/ Schedule
  \/ Background
  \/ \E f \in Files :
       \/ TryMmap(f) \/ NoMmap(f) \/ Map(f) \/ MapFails(f) \/ TryFd(f)
       \/ NoFd(f) \/ DeleteMapped(f) \/ DeletePermanent(f)
       \/ DeleteTemporary(f)

Spec == Init /\ [][Next]_vars

-----------------------------------------------------------------------------
InState(s) == {f \in Files : file[f] \in s}

(***************************************************************************)
(* Clients that race for the last unit of a Limiter never get it twice: no *)
(* more files are mapped, or kept open, than the limits say.               *)
(***************************************************************************)
LimitsKept ==
  /\ Cardinality(InState({"mapping", "mapped"})) <= MaxMmaps
  /\ Cardinality(InState({"permanent"})) <= MaxFds

(***************************************************************************)
(* Nothing is lost or gained over many opens, failures and deletions: a    *)
(* counter is short by the units in use and by those that a thread in the  *)
(* middle of a refused Acquire has still to put back.                      *)
(***************************************************************************)
NoLeak ==
  /\ mmaps + Cardinality(InState({"mapping", "mapped", "no mmap"})) = MaxMmaps
  /\ fds + Cardinality(InState({"permanent", "no fd"})) = MaxFds

(***************************************************************************)
(* Every item that is scheduled will be run, though Schedule signals the   *)
(* thread only when it finds the queue empty: while an item waits the      *)
(* thread is there and not asleep.                                         *)
(***************************************************************************)
QueueAttended ==
  /\ queue # <<>> => thread \in {"ready", "running"}
  /\ run \cup {queue[i] : i \in DOMAIN queue} = 1..items
=============================================================================
