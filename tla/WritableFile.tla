---------------------------- MODULE WritableFile ----------------------------
(***************************************************************************)
(* PosixWritableFile (util/env_posix.cc): logs, tables and manifests are   *)
(* written through its buffer.  The bytes are numbered in the order of the *)
(* calls of Append.  write() may take the bytes piece by piece and fail    *)
(* after any of them; a failed Sync of the file or of its directory leaves *)
(* open what is durable.                                                   *)
(***************************************************************************)
EXTENDS Integers, Sequences

CONSTANTS
  BufferSize,  \* kWritableFileBufferSize
  Sizes,       \* lengths of the data given to Append
  MaxBytes     \* bound on the bytes of the file

(* What the code assumes of its parameters. *)
WritableFileAssumption ==
  /\ BufferSize \in Nat \ {0} /\ MaxBytes \in Nat /\ Sizes \subseteq Nat

VARIABLES
  appended,  \* bytes given to Append
  buf,       \* buf_[0, pos_ - 1]
  file,      \* the bytes written to fd_
  synced,    \* how many of them the last good Sync has made durable
  failed,    \* whether a call has returned an error
  open       \* fd_ >= 0

vars == <<appended, buf, file, synced, failed, open>>

Init ==
  /\ appended = 0 /\ buf = <<>> /\ file = <<>> /\ synced = 0
  /\ failed = FALSE /\ open = TRUE

\* WriteUnbuffered(data): all of it, or an error after the first n bytes.
WriteUnbuffered(data) ==
  {[ok |-> TRUE, data |-> data]} \union
    {[ok |-> FALSE, data |-> SubSeq(data, 1, n)] : n \in 0..(Len(data) - 1)}

(* Mutant: after an error the buffer is kept.                               *)
FlushBufferKeeps(w) == IF w.ok THEN <<>> ELSE buf

\* What FlushBuffer leaves in the buffer, whatever the result of the write.
FlushBuffer(w) == <<>>

\* The numbers of the next n bytes.
Fresh(n) == [i \in 1..n |-> appended + i]

\* What is left of the data when the first bytes are in the buffer.
Rest(n, copied) == SubSeq(Fresh(n), copied + 1, n)

\* Append: the buffer is filled up; what does not fit is put into it after a
\* flush, or written directly when it is as large as the buffer.
AppendData(n) ==
  LET copied == IF n < BufferSize - Len(buf) THEN n ELSE BufferSize - Len(buf)
      full == buf \o SubSeq(Fresh(n), 1, copied)
      rest == Rest(n, copied)
  IN  /\ open /\ appended + n <= MaxBytes
      /\ appended' = appended + n
      /\ \/ /\ rest = <<>>
            /\ buf' = full /\ UNCHANGED <<file, failed>>
         \/ /\ rest # <<>>
            /\ \E w \in WriteUnbuffered(full) :
                 \/ /\ ~w.ok
                    /\ file' = file \o w.data /\ buf' = FlushBuffer(w)
                    /\ failed' = TRUE
                 \/ /\ w.ok /\ Len(rest) < BufferSize
                    /\ file' = file \o w.data /\ buf' = rest
                    /\ UNCHANGED failed
                 \/ /\ w.ok /\ Len(rest) >= BufferSize
                    /\ \E v \in WriteUnbuffered(rest) :
                         /\ file' = file \o w.data \o v.data
                         /\ failed' = (failed \/ ~v.ok)
                    /\ buf' = FlushBuffer(w)
      /\ UNCHANGED <<synced, open>>

Flush ==
  /\ open
  /\ \E w \in WriteUnbuffered(buf) :
       /\ file' = file \o w.data /\ buf' = FlushBuffer(w)
       /\ failed' = (failed \/ ~w.ok)
  /\ UNCHANGED <<appended, synced, open>>

\* Close also closes fd_, which may fail as well.
Close ==
  /\ open /\ open' = FALSE
  /\ \E w \in WriteUnbuffered(buf), ok \in BOOLEAN :
       /\ file' = file \o w.data /\ buf' = FlushBuffer(w)
       /\ failed' = (failed \/ ~w.ok \/ ~ok)
  /\ UNCHANGED <<appended, synced>>

(* Mutant: the file is synced before the buffer is written.                 *)
SyncFirst ==
  /\ open
  /\ \/ failed' = TRUE /\ UNCHANGED <<file, buf, synced>>
     \/ \E w \in WriteUnbuffered(buf) :
          /\ file' = file \o w.data /\ buf' = FlushBuffer(w)
          /\ synced' = Len(file)
          /\ failed' = (failed \/ ~w.ok)
  /\ UNCHANGED <<appended, open>>

\* Sync: the directory of a manifest first, then the buffer, then the file.
Sync ==
  /\ open
  /\ \/ failed' = TRUE /\ UNCHANGED <<file, buf, synced>>
     \/ \E w \in WriteUnbuffered(buf) :
          /\ file' = file \o w.data /\ buf' = FlushBuffer(w)
          /\ \/ w.ok /\ synced' = Len(file') /\ UNCHANGED failed
             \/ failed' = TRUE /\ UNCHANGED synced
  /\ UNCHANGED <<appended, open>>

Next == (\E n \in Sizes : AppendData(n)) \/ Flush \/ Close \/ Sync

Spec == Init /\ [][Next]_vars

-----------------------------------------------------------------------------
(***************************************************************************)
(* As long as no call has failed, the file and the buffer are what was     *)
(* appended, byte by byte, and the buffer does not run over: also when     *)
(* data ends at, or one byte beside, the end of the buffer.                *)
(***************************************************************************)
NothingMissing ==
  /\ ~failed => file \o buf = [i \in 1..appended |-> i]
  /\ Len(buf) <= BufferSize
  /\ ~(failed \/ open) => buf = <<>>

(***************************************************************************)
(* After an error bytes may be missing, but no byte is written twice or    *)
(* out of order by the calls that follow.                                  *)
(***************************************************************************)
NeverRepeats ==
  \A i, j \in DOMAIN (file \o buf) :
    i < j => (file \o buf)[i] < (file \o buf)[j]

(***************************************************************************)
(* A Sync that returns OK, when no call failed before, has made everything *)
(* durable that was appended before it; what is durable stays so.          *)
(***************************************************************************)
SyncMakesDurable ==
  [][/\ synced' >= synced
     /\ (Sync /\ ~failed') => synced' = appended]_vars
=============================================================================
