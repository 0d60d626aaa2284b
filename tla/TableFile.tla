----------------------------- MODULE TableFile -----------------------------
(***************************************************************************)
(* A LevelDB table: TableBuilder and FilterBlockBuilder write it, Table    *)
(* looks keys up in it through the index and the filters, and a            *)
(* TwoLevelIterator walks over it (table/).                                *)
(*                                                                         *)
(* A data block is the sequence of its entries [k, seq] and the offset     *)
(* where it starts; how long it becomes on disk is open (compression).     *)
(* Blocks may turn out to be unreadable.  A filter is the set of the user  *)
(* keys it was made from: a filter policy may say more, never less.        *)
(***************************************************************************)
EXTENDS Integers, Sequences, FiniteSets, FiniteSetsExt,
        SequencesExt

CONSTANTS
  UserKeys,    \* numbers
  Seqs,        \* sequence numbers
  MaxEntries,  \* bound on the entries of the table
  Sizes,       \* lengths of blocks on disk, with their trailers
  Base         \* kFilterBase: a filter for each Base bytes of data

(* What the code assumes of its parameters. *)
TableFileAssumption ==
  /\ UserKeys \subseteq Nat /\ Seqs \subseteq Nat
  /\ Base \in Nat \ {0} /\ Sizes \subseteq Nat \ {0}

Internal == [k : UserKeys, seq : Seqs]
MaxSequence == Max(Seqs \cup {0}) + 1

VARIABLES
  phase,      \* "building", "failed" (the status of the builder), "open"
  data_block, \* the entries of the block being built
  pending,    \* pending_index_entry
  blocks,     \* the blocks written
  index,      \* the keys of the index block, one for each block
  offset,     \* where the next block goes
  filterKeys, \* keys since the last filter
  filters,    \* the filters generated
  bad,        \* the blocks that cannot be read
  it,         \* the TwoLevelIterator: ip, db, pos, status
  want        \* the entry the iterator should be at

vars == <<phase, data_block, pending, blocks, index, offset, filterKeys,
          filters, bad, it, want>>
builder == <<phase, data_block, pending, blocks, index, offset, filterKeys,
             filters, bad>>

Before(a, b) == a.k < b.k \/ (a.k = b.k /\ a.seq > b.seq)
None == [k |-> -1, seq |-> -1]   \* no entry
Error == [k |-> -2, seq |-> -2]  \* a status that is not OK

Entries == FlattenSeq([i \in DOMAIN blocks |-> blocks[i].entries])
           \o data_block

-----------------------------------------------------------------------------
(* Writing.                                                                *)

\* The index keys that FindShortestSeparator, with next the first key of the
\* next block, or FindShortSuccessor, at the end, may make of key start.
Separators(start, next) ==
  {start} \cup
    {[k |-> u, seq |-> MaxSequence] :
       u \in {v \in UserKeys : start.k < v /\ (next # None => v < next.k)}}

\* StartBlock: the first filter generated has the keys, the others are empty.
StartBlock(off, fs, ks) ==
  LET n == off \div Base
  IN  [i \in 1..(IF n > Len(fs) THEN n ELSE Len(fs)) |->
         CASE i <= Len(fs) -> fs[i]
           [] i = Len(fs) + 1 -> ks
           [] OTHER -> {}]

\* Flush: the block is written and becomes size bytes long.
Flush(block, ks, size) ==
  LET fs == StartBlock(offset + size, filters, ks)
  IN  [blocks |-> Append(blocks, [offset |-> offset, entries |-> block]),
       offset |-> offset + size,
       filters |-> fs,
       keys |-> IF Len(fs) > Len(filters) THEN {} ELSE ks]

Init ==
  /\ phase = "building" /\ data_block = <<>> /\ pending = FALSE
  /\ blocks = <<>> /\ index = <<>> /\ offset = 0
  /\ filterKeys = {} /\ filters = <<>> /\ bad = {}
  /\ it = [ip |-> 0, db |-> 0, pos |-> 0, ok |-> TRUE] /\ want = None

LastKey == IF Entries = <<>> THEN None ELSE Last(Entries)

\* Add; when the block has reached options.block_size it is flushed.
Add(e) ==
  LET block == Append(data_block, e)
      ks == filterKeys \cup {e.k}
  IN  /\ phase = "building" /\ Len(Entries) < MaxEntries
      /\ LastKey = None \/ Before(LastKey, e)
      /\ \/ pending /\ \E s \in Separators(LastKey, e) :
                          index' = Append(index, s)
         \/ ~pending /\ index' = index
      /\ \/ /\ \E size \in Sizes :
                 LET r == Flush(block, ks, size)
                 IN  /\ blocks' = r.blocks /\ offset' = r.offset
                     /\ filters' = r.filters /\ filterKeys' = r.keys
            /\ data_block' = <<>> /\ pending' = TRUE
         \/ /\ data_block' = block /\ pending' = FALSE
            /\ filterKeys' = ks
            /\ UNCHANGED <<blocks, offset, filters>>
      /\ UNCHANGED <<phase, bad, it, want>>

\* A write to the file fails: nothing more is added, nobody opens the table.
WriteFails ==
  /\ phase = "building" /\ LastKey # None
  /\ phase' = "failed"
  /\ UNCHANGED <<data_block, pending, blocks, index, offset, filterKeys,
                 filters, bad, it, want>>

\* Finish, which flushes the last block, and Table::Open by a reader, who may
\* find any data blocks damaged.
Finish ==
  /\ phase = "building" /\ LastKey # None
  /\ phase' = "open"
  /\ \E size \in Sizes :
       LET r == IF data_block # <<>> THEN Flush(data_block, filterKeys, size)
                ELSE [blocks |-> blocks, offset |-> offset,
                      filters |-> filters, keys |-> filterKeys]
       IN  /\ blocks' = r.blocks /\ offset' = r.offset
           /\ filters' = IF r.keys = {} THEN r.filters
                         ELSE Append(r.filters, r.keys)
  /\ \E s \in Separators(LastKey, None) : index' = Append(index, s)
  /\ data_block' = <<>> /\ pending' = FALSE /\ filterKeys' = {}
  /\ bad' \in SUBSET DOMAIN blocks'
  /\ UNCHANGED <<it, want>>

-----------------------------------------------------------------------------
(* Looking up.                                                             *)

\* The first position of sequence s at or after key t, Len(s) + 1 if none.
SeekPos(s, t) ==
  LET ps == {i \in DOMAIN s : ~Before(s[i], t)}
  IN  IF ps = {} THEN Len(s) + 1 ELSE CHOOSE i \in ps : \A j \in ps : i <= j

KeyMayMatch(off, t) ==
  LET i == off \div Base + 1 IN i <= Len(filters) => t.k \in filters[i]

\* InternalGet: an error, or the entry given to handle_result, or None.
InternalGet(t) ==
  LET b == SeekPos(index, t)
      block == blocks[b].entries
      p == SeekPos(block, t)
  IN  CASE b > Len(index) -> None
        [] b <= Len(index) /\ ~KeyMayMatch(blocks[b].offset, t) -> None
        [] b <= Len(index) /\ KeyMayMatch(blocks[b].offset, t) ->
             CASE b \in bad -> Error
               [] b \notin bad /\ p > Len(block) -> None
               [] OTHER -> block[p]

-----------------------------------------------------------------------------
(* TwoLevelIterator: ip is the position of index_iter_ (0 when it is not    *)
(* valid), db the block of data_iter_ (0 for none), pos its position (0     *)
(* when it is not valid), ok whether status() is.                           *)

BlockAt(b) == IF b \in bad THEN <<>> ELSE blocks[b].entries
BlockLen(b) == IF b = 0 THEN 0 ELSE Len(BlockAt(b))

(* Mutant: the error of a data iterator is dropped with it.                 *)
SetDataIteratorQuietly(i, b) == [i EXCEPT !.db = b, !.pos = 0]

\* SetDataIterator keeps the error of the iterator it replaces; status()
\* adds that of the iterator in place.
SetDataIterator(i, b) ==
  [i EXCEPT !.db = b, !.pos = 0, !.ok = @ /\ i.db \notin bad]

InitDataBlock(i) ==
  IF i.ip # 0 /\ i.db = i.ip THEN i ELSE SetDataIterator(i, i.ip)

\* data_iter_ is moved to position p of the block index_iter_ is at.
At(i, p) ==
  [i EXCEPT !.pos = IF i.ip # 0 /\ p \in DOMAIN BlockAt(i.ip) THEN p ELSE 0]

\* A position of index_iter_.
InIndex(p) == IF p \in DOMAIN index THEN p ELSE 0

RECURSIVE SkipEmptyDataBlocksForward(_)
SkipEmptyDataBlocksForward(i) ==
  CASE i.pos # 0 -> i
    [] i.pos = 0 /\ i.ip = 0 -> SetDataIterator(i, 0)
    [] OTHER -> SkipEmptyDataBlocksForward(
                  At(InitDataBlock([i EXCEPT !.ip = InIndex(@ + 1)]), 1))

RECURSIVE SkipEmptyDataBlocksBackward(_)
SkipEmptyDataBlocksBackward(i) ==
  CASE i.pos # 0 -> i
    [] i.pos = 0 /\ i.ip = 0 -> SetDataIterator(i, 0)
    [] OTHER -> LET d == InitDataBlock([i EXCEPT !.ip = @ - 1])
                IN  SkipEmptyDataBlocksBackward(At(d, BlockLen(d.ip)))

\* The iterator has moved to i; it should be at the p-th entry of the table.
Move(i, p) ==
  /\ it' = i
  /\ want' = IF p \in DOMAIN Entries THEN Entries[p] ELSE None
  /\ UNCHANGED builder

IterSeek(t) ==
  LET d == InitDataBlock([it EXCEPT !.ip = InIndex(SeekPos(index, t))])
  IN  /\ phase = "open"
      /\ Move(SkipEmptyDataBlocksForward(
                At(d, IF d.ip = 0 THEN 0 ELSE SeekPos(BlockAt(d.ip), t))),
              SeekPos(Entries, t))

IterSeekToFirst ==
  /\ phase = "open"
  /\ Move(SkipEmptyDataBlocksForward(
            At(InitDataBlock([it EXCEPT !.ip = 1]), 1)), 1)

IterSeekToLast ==
  LET d == InitDataBlock([it EXCEPT !.ip = Len(index)])
  IN  /\ phase = "open"
      /\ Move(SkipEmptyDataBlocksBackward(At(d, BlockLen(d.ip))),
              Len(Entries))

Current == BlockAt(it.db)[it.pos]

IterNext ==
  /\ phase = "open" /\ it.pos # 0
  /\ Move(SkipEmptyDataBlocksForward(At(it, it.pos + 1)),
          SeekPos(Entries, Current) + 1)

IterPrev ==
  /\ phase = "open" /\ it.pos # 0
  /\ Move(SkipEmptyDataBlocksBackward(At(it, it.pos - 1)),
          SeekPos(Entries, Current) - 1)

Next ==
  \/ \E e \in Internal : Add(e) \/ IterSeek(e)
  \/ WriteFails
  \/ Finish
  \/ IterSeekToFirst \/ IterSeekToLast \/ IterNext \/ IterPrev

Spec == Init /\ [][Next]_vars

-----------------------------------------------------------------------------
(* The block of the i-th entry of the table.                               *)
BlockOf(i) ==
  CHOOSE b \in DOMAIN blocks : Entries[i] \in ToSet(blocks[b].entries)

(***************************************************************************)
(* Every entry is found: a lookup of a user key at a sequence number gives *)
(* the newest entry at or below it, or the error of the block it is in;    *)
(* neither an index key, shortened or not, nor the filter of a window      *)
(* sends it elsewhere, also when the versions of a key are spread over     *)
(* several blocks.                                                         *)
(***************************************************************************)
GetFinds ==
  phase = "open" =>
    \A i \in DOMAIN Entries : \A t \in Internal :
      (SeekPos(Entries, t) = i /\ Entries[i].k = t.k) =>
        InternalGet(t) = (IF BlockOf(i) \in bad THEN Error ELSE Entries[i])

(***************************************************************************)
(* An iterator arrives at the entry it should be at, or its status says    *)
(* that a block could not be read: none is skipped silently.               *)
(***************************************************************************)
NoSilentSkip ==
  LET at == IF it.pos = 0 THEN None ELSE Current
  IN  at = want \/ ~(it.ok /\ it.db \notin bad)
=============================================================================
