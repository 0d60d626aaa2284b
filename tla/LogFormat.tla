----------------------------- MODULE LogFormat -----------------------------
(***************************************************************************)
(* The format of LevelDB's write-ahead logs and manifests (db/log_writer,  *)
(* db/log_reader): records are cut into fragments that never cross a block *)
(* boundary, and the reader must find its way again after a torn write.    *)
(*                                                                         *)
(* A file is a sequence of cells, one for each byte: <<e, i>> is byte i of *)
(* the e-th fragment ever emitted (its header first, then its payload),    *)
(* Zero a byte of padding.  The checksum is taken to be perfect: it agrees *)
(* with the payload exactly if all bytes come from the same fragment.  A   *)
(* header that mixes bytes of two fragments has an unknown length; that    *)
(* always ends in the rest of the block being dropped.                     *)
(***************************************************************************)
EXTENDS Integers, Sequences, FiniteSets, SequencesExt

CONSTANTS
  B,           \* kBlockSize
  H,           \* kHeaderSize
  Lens,        \* lengths of the records that are written
  MaxRecords,  \* bound on the calls of AddRecord
  MaxCrashes,  \* bound on the crashes
  MaxFailures, \* bound on the calls of AddRecord that fail
  Reuse        \* Options::reuse_logs

(* What the code assumes of its parameters. *)
LogAssumption == H \in Nat \ {0} /\ B \in Nat /\ B >= H

VARIABLES
  file,         \* the cells that reached the file
  durable,      \* how many of them a crash of the machine cannot take away
  frags,        \* all fragments emitted so far
  recs,         \* for each call of AddRecord the fragments it made
  acked,        \* the calls that returned OK
  synced,       \* those whose Sync returned OK
  open,         \* a log::Writer is there
  block_offset, \* Writer::block_offset_
  crashes, failures

vars == <<file, durable, frags, recs, acked, synced, open, block_offset,
          crashes, failures>>

Zero == <<0, 0>>

-----------------------------------------------------------------------------
(* The writer.                                                             *)

\* The zeros that fill a block with no room for a header.
Trailer(off) == IF B - off < H THEN B - off ELSE 0

\* A fragment for the next left bytes of a record at offset off of the
\* block, after the padding it needs.
Fragment(left, off, begin) ==
  LET start == IF B - off < H THEN 0 ELSE off
      avail == B - start - H
      length == IF left < avail THEN left ELSE avail
      end == left = length
  IN  [pad |-> Trailer(off),
       len |-> length,
       type |-> CASE begin /\ end -> "full" [] begin /\ ~end -> "first"
                  [] ~begin /\ end -> "last" [] OTHER -> "middle",
       next |-> start + H + length]

\* The fragments of a record: the loop of AddRecord, which runs once for an
\* empty record too.
RECURSIVE Fragments(_, _, _)
Fragments(left, off, begin) ==
  LET f == Fragment(left, off, begin)
  IN  <<f>> \o IF left = f.len THEN <<>>
               ELSE Fragments(left - f.len, f.next, FALSE)

\* The bytes appended for fragment f, the e-th one.
EmitPhysicalRecord(e, f) ==
  [i \in 1..f.pad |-> Zero] \o [i \in 1..H + f.len |-> <<e, i>>]

\* The bytes appended for the fragments fs.
Emitted(fs) ==
  FlattenSeq([i \in DOMAIN fs |-> EmitPhysicalRecord(Len(frags) + i, fs[i])])

-----------------------------------------------------------------------------
(* The reader, from offset 0 with checksums, as recovery uses it.          *)

Fragmentary(f, pos, n) == \A i \in 1..n : f[pos + i] = <<f[pos + 1][1], i>>

Bad(end, report) == [what |-> "bad", next |-> end, report |-> report]

\* A fragment that is longer than the buffer, which ends at end.
TooLong(eof, end) ==
  IF eof THEN [what |-> "eof", next |-> end, report |-> FALSE]
  ELSE Bad(end, TRUE)

\* ReadPhysicalRecord after pos bytes of f: what it returns, the bytes
\* consumed then, and whether it reported a corruption.
ReadPhysicalRecord(f, pos) ==
  LET blockEnd(p) == (p \div B + 1) * B
      atEof(p) == Len(f) < blockEnd(p)
      bufferEnd(p) == IF atEof(p) THEN Len(f) ELSE blockEnd(p)
      \* a trailer is skipped
      p == IF bufferEnd(pos) - pos < H /\ ~atEof(pos)
           THEN bufferEnd(pos) ELSE pos
      size == bufferEnd(p) - p
  IN  CASE size < H -> [what |-> "eof", next |-> Len(f), report |-> FALSE]
        [] size >= H /\ \A i \in 1..H : f[p + i] = Zero ->
             Bad(bufferEnd(p), FALSE)
        [] size >= H /\ Fragmentary(f, p, H) ->
             LET e == f[p + 1][1]
                 n == H + frags[e].len
             IN  CASE n > size -> TooLong(atEof(p), bufferEnd(p))
                   [] n <= size /\ Fragmentary(f, p, n) ->
                        [what |-> "fragment", e |-> e, next |-> p + n,
                         report |-> FALSE]
                   [] OTHER -> Bad(bufferEnd(p), TRUE)
        [] OTHER -> Bad(bufferEnd(p), TRUE)

(* Mutant: a bad record leaves the reader inside the fragmented record.     *)
KeepPartialRecord(r) == r

\* A bad record ends the record the reader r is in the middle of.
DropPartialRecord(r) ==
  [r EXCEPT !.scratch = <<>>, !.fragmented = FALSE,
            !.report = @ \/ r.fragmented]

\* One turn of the loop of ReadRecord.  A reader r has consumed r.pos bytes;
\* scratch holds the fragments of the record it is in the middle of (fragmented
\* is in_fragmented_record), out the records it has returned.
ReadStep(f, r) ==
  LET x == ReadPhysicalRecord(f, r.pos)
      s == [r EXCEPT !.pos = x.next, !.report = @ \/ x.report]
      bytes == {i \in DOMAIN r.scratch : frags[r.scratch[i]].len > 0}
      start == [s EXCEPT !.scratch = <<>>, !.fragmented = FALSE,
                         !.report = @ \/ (r.fragmented /\ bytes # {})]
  IN  CASE x.what = "eof" -> [s EXCEPT !.done = TRUE]
        [] x.what = "bad" -> DropPartialRecord(s)
        [] OTHER ->
             LET type == frags[x.e].type
                 more == Append(r.scratch, x.e)
                 whole(s1, fs) == [s1 EXCEPT !.out = Append(@, fs),
                                       !.scratch = <<>>, !.fragmented = FALSE]
             IN  CASE type = "full" -> whole(start, <<x.e>>)
                   [] type = "first" -> [start EXCEPT !.fragmented = TRUE,
                                                      !.scratch = <<x.e>>]
                   [] type # "first" /\ ~r.fragmented ->
                        [s EXCEPT !.report = TRUE]
                   [] type = "middle" /\ r.fragmented ->
                        [s EXCEPT !.scratch = more]
                   [] OTHER -> whole(s, more)

RECURSIVE ReadFrom(_, _)
ReadFrom(f, r) == IF r.done THEN r ELSE ReadFrom(f, ReadStep(f, r))

\* Everything RecoverLogFile or VersionSet::Recover reads from f.
ReadAll(f) ==
  ReadFrom(f, [pos |-> 0, scratch |-> <<>>, fragmented |-> FALSE, out |-> <<>>,
               report |-> FALSE, done |-> FALSE])

-----------------------------------------------------------------------------
Init ==
  /\ file = <<>> /\ durable = 0 /\ frags = <<>> /\ recs = <<>>
  /\ acked = {} /\ synced = {}
  /\ open = TRUE /\ block_offset = 0
  /\ crashes = 0 /\ failures = 0

\* The fragments fs are made for a new record; cells reach the file.
Emit(fs, cells) ==
  /\ frags' = frags \o [i \in DOMAIN fs |->
                          [type |-> fs[i].type, len |-> fs[i].len]]
  /\ recs' = Append(recs, [i \in DOMAIN fs |-> Len(frags) + i])
  /\ file' = file \o cells
  /\ block_offset' = fs[Len(fs)].next
  /\ UNCHANGED <<durable, synced, open, crashes>>

AddRecord(len) ==
  LET fs == Fragments(len, block_offset, TRUE)
  IN  /\ open /\ Len(recs) < MaxRecords
      /\ Emit(fs, Emitted(fs))
      /\ acked' = acked \cup {Len(recs) + 1}
      /\ UNCHANGED failures

\* The write of the last fragment of fs fails after n bytes.  block_offset_
\* moves on all the same, the loop stops, and DBImpl::Write returns the error
\* and keeps the log.
AddRecordFails(len) ==
  LET all == Fragments(len, block_offset, TRUE)
  IN  /\ open /\ Len(recs) < MaxRecords /\ failures < MaxFailures
      /\ \E k \in 1..Len(all) :
           LET fs == SubSeq(all, 1, k)
               cells == Emitted(fs)
           IN  \E n \in Len(Emitted(Front(fs)))..Len(cells) - 1 :
                 Emit(fs, SubSeq(cells, 1, n))
      /\ failures' = failures + 1
      /\ UNCHANGED acked

\* Sync at the end of a synchronous write: the caller has the record the
\* write added, which is the last one.
Sync ==
  /\ open /\ Len(recs) \in acked \ synced
  /\ durable' = Len(file)
  /\ synced' = synced \cup {Len(recs)}
  /\ UNCHANGED <<file, frags, recs, acked, open, block_offset, crashes,
                 failures>>

\* The machine stops; any part of what was not synced may be gone.  When only
\* the process stops, all of file stays.
Crash ==
  /\ open /\ crashes < MaxCrashes
  /\ \E n \in durable..Len(file) : file' = SubSeq(file, 1, n)
  /\ open' = FALSE
  /\ crashes' = crashes + 1
  /\ UNCHANGED <<durable, frags, recs, acked, synced, block_offset, failures>>

\* With reuse_logs the next DB::Open appends to the file it has read.
Reopen ==
  /\ Reuse /\ ~open
  /\ open' = TRUE
  /\ block_offset' = Len(file) % B
  /\ UNCHANGED <<file, durable, frags, recs, acked, synced, crashes, failures>>

Next ==
  \/ \E len \in Lens : AddRecord(len) \/ AddRecordFails(len)
  \/ Sync
  \/ Crash
  \/ Reopen

Spec == Init /\ [][Next]_vars

-----------------------------------------------------------------------------
(* One writer has written the log, and no call of it has failed.           *)
OneWriter == failures = 0 /\ (crashes = 0 \/ (crashes = 1 /\ ~open))

(* What the reader returned, as the calls of AddRecord it belongs to.      *)
Returned ==
  LET out == ReadAll(file).out
  IN  [i \in DOMAIN out |->
         IF \E r \in DOMAIN recs : recs[r] = out[i]
         THEN CHOOSE r \in DOMAIN recs : recs[r] = out[i]
         ELSE 0]

(***************************************************************************)
(* A log that was written by one writer without errors and cut anywhere by *)
(* a crash gives back the first records, whole, and the reader does not    *)
(* call the torn end a corruption (log_reader.cc, ReadRecord).             *)
(***************************************************************************)
PrefixRead ==
  OneWriter => /\ Returned = [i \in DOMAIN Returned |-> i]
               /\ ~ReadAll(file).report

(***************************************************************************)
(* A record of such a log whose synchronous write was acknowledged is      *)
(* returned by every later reading.                                        *)
(***************************************************************************)
SyncedReadable == OneWriter => synced \subseteq ToSet(Returned)

(* The places of the bytes of fragment e, and whether all are there.       *)
Places(e) == {p \in DOMAIN file : file[p][1] = e}
Whole(e) == Cardinality(Places(e)) = H + frags[e].len

(***************************************************************************)
(* When a log was cut by a crash and appended to, a record is lost only if *)
(* the cut left part of a fragment in front of it in the same block: the   *)
(* reader finds its way again at the next block boundary.                  *)
(***************************************************************************)
DamageConfined ==
  LET block(p) == (p - 1) \div B
      torn == {p \in DOMAIN file : file[p] # Zero /\ ~Whole(file[p][1])}
      clear(e) == \A p \in Places(e), q \in torn :
                    block(p) = block(q) => p < q
  IN  failures = 0 => \A r \in DOMAIN recs :
        (\A e \in ToSet(recs[r]) : Whole(e) /\ clear(e))
          => r \in ToSet(Returned)

(***************************************************************************)
(* Whatever was torn, by crashes or by failed writes, and appended to      *)
(* afterwards: the reader returns records that some AddRecord wrote and    *)
(* acknowledged, each at most once and in the order of the writes, and     *)
(* never glues the beginning of one record to the end of another.          *)
(***************************************************************************)
NoChimera ==
  /\ \A i \in DOMAIN Returned : Returned[i] \in acked
  /\ \A i, j \in DOMAIN Returned : i < j => Returned[i] < Returned[j]
=============================================================================
