----------------------------- MODULE FileLocks -----------------------------
(***************************************************************************)
(* The LOCK file of a DB: LockFile and UnlockFile of PosixEnv              *)
(* (util/env_posix.cc), called by threads of several processes, on top of  *)
(* the advisory locks of the kernel.  Each process has its PosixLockTable. *)
(*                                                                         *)
(* The kernel's part, modelled from fcntl's specification: a lock belongs  *)
(* to a process, F_SETLK by the owner succeeds again, and the close of any *)
(* descriptor of the file by the owner gives the lock up.                  *)
(***************************************************************************)
CONSTANTS
  Threads,
  Process,  \* the process of each thread
  NoProcess

Processes == {Process[t] : t \in Threads}

(* What the code assumes of its parameters. *)
ProcessAssumption ==
  DOMAIN Process = Threads /\ NoProcess \notin Processes

VARIABLES
  pc,      \* where each thread is; "held" between LockFile and UnlockFile
  table,   \* the processes whose locked_files_ has the file
  owner    \* the process that has the kernel's lock

vars == <<pc, table, owner>>

Go(t, to) == pc' = [pc EXCEPT ![t] = to]

-----------------------------------------------------------------------------
(* The kernel. *)

Grants(p) == owner \in {NoProcess, p}
Releases(p) == owner' = IF owner = p THEN NoProcess ELSE owner

-----------------------------------------------------------------------------
Init ==
  /\ pc = [t \in Threads |-> "idle"]
  /\ table = {}
  /\ owner = NoProcess

\* LockFile: the file is opened.
OpenFile(t) ==
  /\ pc[t] = "idle" /\ Go(t, "opened")
  /\ UNCHANGED <<table, owner>>

\* locks_.Insert(filename).
Insert(t) ==
  /\ pc[t] = "opened"
  /\ Go(t, IF Process[t] \in table THEN "refused" ELSE "inserted")
  /\ table' = table \union {Process[t]}
  /\ UNCHANGED owner

\* close(fd); "already held by process".
CloseRefused(t) ==
  /\ pc[t] = "refused" /\ Go(t, "idle")
  /\ Releases(Process[t])
  /\ UNCHANGED table

(* Mutant: an error of fcntl is not looked at.                              *)
LockAnyway(t) ==
  /\ pc[t] = "inserted" /\ Go(t, "held")
  /\ owner' = IF Grants(Process[t]) THEN Process[t] ELSE owner
  /\ UNCHANGED table

\* LockOrUnlock(fd, true).
Lock(t) ==
  /\ pc[t] = "inserted"
  /\ Go(t, IF Grants(Process[t]) THEN "held" ELSE "failed")
  /\ owner' = IF Grants(Process[t]) THEN Process[t] ELSE owner
  /\ UNCHANGED table

CloseFailed(t) ==
  /\ pc[t] = "failed" /\ Go(t, "closed")
  /\ Releases(Process[t])
  /\ UNCHANGED table

RemoveFailed(t) ==
  /\ pc[t] = "closed" /\ Go(t, "idle")
  /\ table' = table \ {Process[t]}
  /\ UNCHANGED owner

\* UnlockFile: LockOrUnlock(fd, false), locks_.Remove, close(fd).
Unlock(t) ==
  /\ pc[t] = "held" /\ Go(t, "unlocked")
  /\ Releases(Process[t])
  /\ UNCHANGED table

RemoveUnlocked(t) ==
  /\ pc[t] = "unlocked" /\ Go(t, "removed")
  /\ table' = table \ {Process[t]}
  /\ UNCHANGED owner

CloseUnlocked(t) ==
  /\ pc[t] = "removed" /\ Go(t, "idle")
  /\ Releases(Process[t])
  /\ UNCHANGED table

\* A process ends at any point; another one takes its place.
Exit(p) ==
  /\ pc' = [t \in Threads |-> IF Process[t] = p THEN "idle" ELSE pc[t]]
  /\ table' = table \ {p}
  /\ Releases(p)

Next ==
  \/ \E t \in Threads :
       \/ OpenFile(t) \/ Insert(t) \/ CloseRefused(t) \/ Lock(t)
       \/ CloseFailed(t) \/ RemoveFailed(t)
       \/ Unlock(t) \/ RemoveUnlocked(t) \/ CloseUnlocked(t)
  \/ \E p \in Processes : Exit(p)

Spec == Init /\ [][Next]_vars

-----------------------------------------------------------------------------
Holders == {t \in Threads : pc[t] = "held"}

\* Only this thread of its process opens the DB.
Alone(t) == \A u \in Threads : Process[u] = Process[t] => u = t

(***************************************************************************)
(* Of all processes that open the DB with one thread, at most one is       *)
(* between a LockFile that returned OK and its UnlockFile, and then the    *)
(* kernel's lock is with it: nobody else can open the DB.                  *)
(***************************************************************************)
LockExclusive ==
  /\ \A t, u \in Holders : Alone(t) /\ Alone(u) => t = u
  /\ \A t \in Holders : Alone(t) => owner = Process[t]

(***************************************************************************)
(* Threads of one process exclude each other, which the kernel's locks do  *)
(* not make them do.                                                       *)
(***************************************************************************)
OneHolderInProcess ==
  \A t, u \in Holders : Process[t] = Process[u] => t = u

(***************************************************************************)
(* A lock that could not be had, or was given back, leaves nothing behind  *)
(* that would make a later LockFile fail: when no thread of a process is   *)
(* at it, neither its table nor the kernel has the lock for it.            *)
(***************************************************************************)
NoStaleLock ==
  \A p \in Processes :
    (\A t \in Threads : Process[t] = p => pc[t] \in {"idle", "opened"}) =>
      p \notin table /\ owner # p
=============================================================================
