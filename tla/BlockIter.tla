----------------------------- MODULE BlockIter -----------------------------
(***************************************************************************)
(* One block of a LevelDB table: BlockBuilder writes it with its keys      *)
(* prefix-compressed between restart points (table/block_builder.cc), and  *)
(* Block::Iter finds its way in it (table/block.cc).                       *)
(*                                                                         *)
(* A key is a sequence of bytes.  The p-th entry is at offset p, so the    *)
(* restart array is at Limit; values are left out.  Entries may turn out   *)
(* to be damaged: DecodeEntry returns nullptr for them.                    *)
(***************************************************************************)
EXTENDS Integers, Sequences, FiniteSetsExt

CONSTANTS
  Keys,        \* the keys
  Less(_, _),  \* their order
  Intervals,   \* values of options.block_restart_interval
  MaxEntries   \* bound on the entries of a block

(* What the code assumes of its parameters. *)
BlockIterAssumption ==
  /\ \A k \in Keys : DOMAIN k = 1..Len(k)
  /\ Intervals \subseteq Nat \ {0}

VARIABLES
  interval,  \* options.block_restart_interval
  keys,      \* the keys added to the block
  entries,   \* what is written for them: [shared, rest]
  restarts,  \* the restart points
  counter,   \* entries since the last one
  last_key,
  finished,
  damaged,   \* the entries that do not decode
  it,        \* the iterator: current, restart_index, key, next, ok
  want       \* the entry the iterator should be at, 0 for none

builder == <<interval, keys, entries, restarts, counter, last_key, finished,
             damaged>>
vars == <<builder, it, want>>

Limit == Len(entries) + 1

-----------------------------------------------------------------------------
(* BlockBuilder.                                                           *)

\* The length of the prefix that two keys share.
SharedLen(a, b) ==
  Max({n \in 0..Min({Len(a), Len(b)}) : \A i \in 1..n : a[i] = b[i]})

Init ==
  /\ interval \in Intervals
  /\ keys = <<>> /\ entries = <<>> /\ restarts = <<1>> /\ counter = 0
  /\ last_key = <<>> /\ finished = FALSE /\ damaged = {}
  /\ it = [current |-> 1, restart_index |-> 1, key |-> <<>>, next |-> 1,
           ok |-> TRUE]
  /\ want = 0

Add(k) ==
  LET restart == counter >= interval
      shared == IF restart THEN 0 ELSE SharedLen(last_key, k)
  IN  /\ ~finished /\ Len(keys) < MaxEntries
      /\ keys = <<>> \/ Less(last_key, k)
      /\ keys' = Append(keys, k)
      /\ entries' = Append(entries, [shared |-> shared,
                                     rest |-> SubSeq(k, shared + 1, Len(k))])
      /\ restarts' = IF restart THEN Append(restarts, Limit) ELSE restarts
      /\ counter' = IF restart THEN 1 ELSE counter + 1
      /\ last_key' = k
      /\ UNCHANGED <<interval, finished, damaged, it, want>>

\* The block has been written (TableBuilder::WriteBlock); the builder is
\* used for the next one.
Reset ==
  /\ ~finished /\ keys # <<>>
  /\ keys' = <<>> /\ entries' = <<>> /\ restarts' = <<1>> /\ counter' = 0
  /\ last_key' = <<>>
  /\ UNCHANGED <<interval, finished, damaged, it, want>>

-----------------------------------------------------------------------------
(* Block::Iter.                                                            *)

Valid(i) == i.current < Limit
NumRestarts == Len(restarts)

\* Past the last entry, or before the first one.
NoMore(i) == [i EXCEPT !.current = Limit, !.restart_index = NumRestarts + 1]

CorruptionError(i) == [NoMore(i) EXCEPT !.ok = FALSE, !.key = <<>>]

\* Finish, and a reader's iterator on the block, which is not valid yet.
Finish ==
  /\ ~finished /\ finished' = TRUE
  /\ damaged' \in SUBSET DOMAIN entries
  /\ it' = NoMore(it)
  /\ UNCHANGED <<interval, keys, entries, restarts, counter, last_key, want>>

SeekToRestartPoint(i, index) ==
  [i EXCEPT !.key = <<>>, !.restart_index = index, !.next = restarts[index]]

\* ParseNextKey: the entry at next becomes the current one; restart_index is
\* the last restart point before it (not at it).
ParseNextKey(i) ==
  LET c == i.next
      e == entries[c]
  IN  CASE c >= Limit -> NoMore(i)
        [] c < Limit /\ (c \in damaged \/ Len(i.key) < e.shared) ->
             CorruptionError(i)
        [] OTHER ->
             [i EXCEPT
                !.current = c, !.next = c + 1,
                !.key = SubSeq(i.key, 1, e.shared) \o e.rest,
                !.restart_index =
                  Max({@} \cup {x \in @ + 1..NumRestarts : restarts[x] < c})]

\* Parse on until the end of an entry is at or past offset end.
RECURSIVE ParseTo(_, _)
ParseTo(i, end) ==
  LET j == ParseNextKey(i)
  IN  IF Valid(j) /\ j.next < end THEN ParseTo(j, end) ELSE j

\* Parse on until a key that is not less than t.
RECURSIVE ParseToKey(_, _)
ParseToKey(i, t) ==
  LET j == ParseNextKey(i)
  IN  IF Valid(j) /\ Less(j.key, t) THEN ParseToKey(j, t) ELSE j

\* The binary search of Seek in the restart points left..right: the last one
\* with a key less than t, or 0 when it meets a damaged entry.
RECURSIVE SearchRestarts(_, _, _)
SearchRestarts(left, right, t) ==
  LET mid == (left + right + 1) \div 2
      e == entries[restarts[mid]]
  IN  CASE left >= right -> left
        [] left < right /\ (restarts[mid] \in damaged \/ e.shared # 0) -> 0
        [] OTHER -> IF Less(e.rest, t) THEN SearchRestarts(mid, right, t)
                    ELSE SearchRestarts(left, mid - 1, t)

(* Mutant: the position is also used when the target is behind it.          *)
MaySkipAnyway(i, left, t) == left = i.restart_index

\* skip_seek: the target is in the restart block of i, after its position.
MaySkip(i, left, t) ==
  left = i.restart_index /\ Valid(i) /\ Less(i.key, t)

Moved(i, p) ==
  /\ it' = i
  /\ want' = p
  /\ UNCHANGED builder

\* The position of the first key that is not less than t, 0 if there is none.
Target(t) ==
  LET ps == {p \in DOMAIN keys : ~Less(keys[p], t)}
  IN  IF ps = {} THEN 0 ELSE Min(ps)

Seek(t) ==
  LET ahead == Valid(it) /\ Less(it.key, t)
      behind == Valid(it) /\ Less(t, it.key)
      left == SearchRestarts(IF ahead THEN it.restart_index ELSE 1,
                             IF behind THEN it.restart_index ELSE NumRestarts,
                             t)
  IN  /\ finished
      /\ \/ Valid(it) /\ it.key = t /\ Moved(it, Target(t))
         \/ /\ ~(Valid(it) /\ it.key = t)
            /\ Moved(IF left = 0 THEN CorruptionError(it)
                     ELSE ParseToKey(IF MaySkip(it, left, t) THEN it
                                     ELSE SeekToRestartPoint(it, left), t),
                     Target(t))

SeekToFirst ==
  finished /\ Moved(ParseNextKey(SeekToRestartPoint(it, 1)),
                    IF keys = <<>> THEN 0 ELSE 1)

SeekToLast ==
  finished /\ Moved(ParseTo(SeekToRestartPoint(it, NumRestarts), Limit),
                    Len(keys))

IterNext ==
  /\ finished /\ Valid(it)
  /\ Moved(ParseNextKey(it), (it.current + 1) % Limit)

\* Prev: from the last restart point before the current entry up to it.
IterPrev ==
  LET before == {x \in 1..it.restart_index : restarts[x] < it.current}
  IN  /\ finished /\ Valid(it)
      /\ Moved(IF before = {} THEN NoMore(it)
               ELSE ParseTo(SeekToRestartPoint(it, Max(before)), it.current),
               it.current - 1)

Next ==
  \/ \E k \in Keys : Add(k) \/ Seek(k)
  \/ Reset \/ Finish
  \/ SeekToFirst \/ SeekToLast \/ IterNext \/ IterPrev

Spec == Init /\ [][Next]_vars

-----------------------------------------------------------------------------
(***************************************************************************)
(* After any sequence of moves the iterator is at the entry the last move  *)
(* asked for, with the key that was added, or its status says corruption:  *)
(* what Seek reuses of an earlier position (the restart block, the key     *)
(* parsed so far) never leads it past the target, and a damaged entry is   *)
(* never stepped over.                                                     *)
(***************************************************************************)
ArrivesAtKey ==
  (finished /\ it.ok) =>
    IF want = 0 THEN ~Valid(it)
    ELSE it.current = want /\ it.key = keys[want]

(***************************************************************************)
(* Corruption is reported for damage only: the prefixes of a block rest on *)
(* keys of that block, whatever the builder wrote before, and each restart *)
(* point is a whole key.                                                   *)
(***************************************************************************)
NoFalseCorruption ==
  damaged = {} => it.ok
=============================================================================
