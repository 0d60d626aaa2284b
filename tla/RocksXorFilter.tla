--------------------------- MODULE RocksXorFilter ---------------------------
(***************************************************************************)
(* The Xor filter ported to RocksDB 8.6.7 and Speedb 2.8.0                 *)
(* (util/xor_filter.cc, the same code in both): the bits builder and the   *)
(* bits reader, and the filter block builders that drive them while a      *)
(* table is written.  With partition_filters one bits builder makes all    *)
(* partitions of a table, one after the other, and the index builder       *)
(* decides where a partition ends (table/block_based/                      *)
(* partitioned_filter_block.cc, index_builder.cc).                         *)
(*                                                                         *)
(* Mixed 64-bit hashes are the sets of their 1 bits.  The mixing is left   *)
(* open: the constants below are any functions.  Whole keys are filtered;  *)
(* there is no prefix extractor.                                           *)
(***************************************************************************)
EXTENDS FilterFormat, SequencesExt

CONSTANTS
  UserKey,       \* UserKey[i]: the user key of the i-th entry of the table
  Hashes,        \* GetSliceHash64 values, integers
  Low, Delta,    \* Low[h], Delta[h]: first probe and stride of the fallback
  HashBits,      \* the bits of a mixed hash
  MixHash,       \* MixHash[h][seed]
  Word,          \* Word[m][j]: low word of m rotated left by 21 * j
  Mix,           \* Mix[m]: the bits Fingerprint masks
  BitsPerKey,    \* values of bits_per_key_
  kCapacityNumerator, kCapacityDenominator, kCapacitySlack,
  kMaxSeedTries,
  KeysPerPartition \* keys_per_partition_

Seeds == 0..(kMaxSeedTries - 1)

(* What the code assumes of its inputs. *)
UserKeyAssumption ==
  /\ UserKey \in Seq(Int)
  /\ \A i, j \in DOMAIN UserKey : i < j => UserKey[i] <= UserKey[j]
MixAssumption ==
  /\ Hashes \subseteq Nat
  /\ MixHash \in [Hashes -> [Seeds -> SUBSET HashBits]]
  /\ \A s \in Seeds, g, h \in Hashes : MixHash[g][s] = MixHash[h][s] => g = h
ParameterAssumption ==
  BitsPerKey \subseteq Nat /\ KeysPerPartition \in Nat \ {0}

VARIABLES
  (* the options and the hash function *)
  hash, bits_per_key, partitioned,
  (* the table builder *)
  added,        \* number of entries added so far
  phase,
  num_filter_entries, \* TableProperties::num_filter_entries
  (* PartitionedIndexBuilder *)
  index,        \* sub_index_builder_ != nullptr, sub_index_last_key_,
                \* partition_cut_requested_, cut_filter_block
  (* the filter block builder *)
  keys_added_to_partition, total_added_in_built, filters,
  (* XorFilterBitsBuilder *)
  hash_entries

inputVars == <<hash, bits_per_key, partitioned>>
blockVars == <<keys_added_to_partition, total_added_in_built, filters>>
vars == <<inputVars, added, phase, num_filter_entries, index, blockVars,
          hash_entries>>

-----------------------------------------------------------------------------
(* Positions and fingerprints of a mixed hash, in a table of 3 * L values. *)

Position(m, L, j) == j * L + FastRange32(Word[m][j], L)
GetPositions(m, L) == {Position(m, L, j) : j \in 0..2}
Fingerprint(m, bits) == {b \in Mix[m] : b < bits}
Table(L) == 0..(3 * L - 1)

BlockLength(n) ==
  ((n * kCapacityNumerator) \div kCapacityDenominator + kCapacitySlack) \div 3

-----------------------------------------------------------------------------
(* XorFilterBitsBuilder::Finish. *)

\* One round of the peeling loop: the next position of the queue is skipped
\* if it is stale; else its hash leaves the table.
PeelStep(s, L) ==
  LET p == Head(s.queue)
      m == s.xors[p]
      hit == {q \in GetPositions(m, L) : s.counts[q] # 0}
  IN  CASE s.queue = <<>> -> s
        [] s.queue # <<>> /\ s.counts[p] # 1 -> [s EXCEPT !.queue = Tail(@)]
        [] OTHER ->
             [counts |-> [q \in Table(L) |->
                IF q \in hit THEN s.counts[q] - 1 ELSE s.counts[q]],
              xors |-> [q \in Table(L) |->
                IF q \in hit THEN Xor(s.xors[q], m) ELSE s.xors[q]],
              queue |-> Tail(s.queue) \o
                SetToSortSeq({q \in hit : s.counts[q] = 2}, <),
              order |-> Append(s.order, [hash |-> m, pos |-> p])]

\* The peeling order of the mixed hashes ms.  A position enters the queue at
\* most twice.
PeelOrder(ms, L) ==
  LET users(p) == {m \in ms : p \in GetPositions(m, L)}
      counts == [p \in Table(L) |-> Cardinality(users(p))]
      state[n \in 0..(6 * L)] ==
        IF n > 0 THEN PeelStep(state[n - 1], L)
        ELSE [counts |-> counts,
              xors |-> [p \in Table(L) |-> XorOf([m \in ms |-> m], users(p))],
              queue |-> SetToSortSeq({p \in Table(L) : counts[p] = 1}, <),
              order |-> <<>>]
  IN  state[6 * L].order

\* Fingerprints are assigned from the last hash peeled to the first.
Assigned(order, L, bits) ==
  LET B[n \in 0..Len(order)] ==
        IF n = 0 THEN [p \in Table(L) |-> {}]
        ELSE LET e == order[Len(order) + 1 - n]
                 old == XorOf(B[n - 1], GetPositions(e.hash, L))
             IN  [B[n - 1] EXCEPT ![e.pos] =
                    Xor(Fingerprint(e.hash, bits), old)]
  IN  B[Len(order)]

\* BuildBloomFallback: block_length 0 tells the two forms apart; the seed
\* field holds the number of bits and fingerprint_bits the number of probes.
BuildBloomFallback(hs) ==
  LET bits == BloomBitCount(Cardinality(hs), bits_per_key)
      probes == BloomProbeCount(bits_per_key)
  IN  Encoded("xor", bits, 0, probes,
              UNION {Probes(<<Low[h], Delta[h]>>, probes, bits) : h \in hs},
              bits \div 8)

Mixed(hs, s) == {MixHash[h][s] : h \in hs}

\* The seeds under which all hashes are peeled.
GoodSeeds(hs, L) ==
  {s \in Seeds : Len(PeelOrder(Mixed(hs, s), L)) = Cardinality(hs)}

(* Mutant: the trailer does not name the seed of the table.                 *)
EncodeXorSeed0(hs, L, s) ==
  LET bits == ComputeFingerprintBits(bits_per_key)
  IN  Encoded("xor", 0, L, bits,
              Packed(Assigned(PeelOrder(Mixed(hs, s), L), L, bits), bits),
              PackedByteSize(3 * L, bits))

EncodeXor(hs, L, s) ==
  LET bits == ComputeFingerprintBits(bits_per_key)
  IN  Encoded("xor", s, L, bits,
              Packed(Assigned(PeelOrder(Mixed(hs, s), L), L, bits), bits),
              PackedByteSize(3 * L, bits))

\* The filter of the distinct hashes hs.
BuiltFilter(hs) ==
  LET n == Cardinality(hs)
      L == BlockLength(n)
  IN  CASE n = 0 -> Encoded("xor", 0, 0, 0, {}, 0)
        [] \/ n > 0 /\ (bits_per_key = 0 \/ bits_per_key > 16)
           \/ n > 0 /\ (L = 0 \/ n > 3 * L)
           \/ n > 0 /\ GoodSeeds(hs, L) = {} -> BuildBloomFallback(hs)
        [] OTHER -> EncodeXor(hs, L, Min(GoodSeeds(hs, L)))

\* What Finish leaves in hash_entries_: sorted, without duplicates, not reset.
AfterFinish(entries) == SetToSortSeq(ToSet(entries), <)

\* AddKey skips a hash equal to the last one.
AddKey(entries, h) ==
  IF entries # <<>> /\ Last(entries) = h THEN entries ELSE Append(entries, h)

-----------------------------------------------------------------------------
(* XorFilterBitsReader. *)

HashMayMatch(h, f) ==
  LET m == MixHash[h][f.seed]
  IN  \/ f.size = 0
      \/ /\ f.length = 0
         /\ \/ f.seed = 0 \/ f.aux = 0
            \/ Probes(<<Low[h], Delta[h]>>, f.aux, f.seed) \subseteq f.payload
      \/ /\ f.length # 0
         /\ \/ \E p \in GetPositions(m, f.length) : ~Readable(f, p, f.aux)
            \/ XorOf([p \in GetPositions(m, f.length) |->
                        ReadPackedValue(f, p, f.aux)],
                     GetPositions(m, f.length)) = Fingerprint(m, f.aux)

\* PartitionedFilterBlockReader: the first partition whose key is not before
\* entry i, the last one if there is none.  A full filter has one partition.
PartitionOf(i) ==
  LET S == {p \in DOMAIN filters : filters[p].key >= i}
  IN  IF S = {} THEN Len(filters) ELSE Min(S)

EntryMayMatch(i) ==
  HashMayMatch(hash[UserKey[i]], filters[PartitionOf(i)].filter)

-----------------------------------------------------------------------------
(* Writing a table. *)

\* PartitionedIndexBuilder::AddIndexEntry after a data block that ends with
\* entry last; more says that another block follows, full that the index
\* partition has reached its size.  A new sub-index clears the request.
AddIndexEntry(ix, last, more, full) ==
  LET flush == more /\ ix.sub /\ (ix.requested \/ full)
  IN  [sub |-> more, key |-> last,
       requested |-> ix.requested /\ ix.sub /\ ~flush,
       cut |-> ix.cut \/ flush \/ ~more]

\* MaybeCutAFilterBlock's request to the index builder.
RequestPartitionCut(ix) ==
  IF partitioned /\ keys_added_to_partition = KeysPerPartition
  THEN [ix EXCEPT !.requested = TRUE] ELSE ix

\* The rest of MaybeCutAFilterBlock when the cut is granted.
CutAFilterBlock(key) ==
  /\ filters' = Append(filters, [key |-> key,
                                 filter |-> BuiltFilter(ToSet(hash_entries))])
  /\ total_added_in_built' = total_added_in_built + Len(hash_entries)

\* BlockBasedTableBuilder::Add for the next entry.  block says that the entry
\* starts a new data block.
Add(block, full) ==
  LET i == added + 1
      h == hash[UserKey[i]]
      ix == RequestPartitionCut(
              IF block THEN AddIndexEntry(index, added, TRUE, full) ELSE index)
      cutting == partitioned /\ ix.cut
  IN  /\ phase = "add" /\ added < Len(UserKey)
      /\ block => added > 0
      /\ full => block /\ index.sub
      /\ added' = i
      /\ index' = [ix EXCEPT !.cut = @ /\ ~cutting]
      /\ IF cutting
         THEN /\ CutAFilterBlock(ix.key)
              /\ keys_added_to_partition' = 1
              /\ hash_entries' = AddKey(AfterFinish(hash_entries), h)
         ELSE /\ keys_added_to_partition' = keys_added_to_partition + 1
              /\ hash_entries' = AddKey(hash_entries, h)
              /\ UNCHANGED <<total_added_in_built, filters>>
      /\ UNCHANGED <<inputVars, phase, num_filter_entries>>

\* BlockBasedTableBuilder::Finish: the last index entry cuts the last
\* partition; WriteFilterBlock counts the entries and finishes the filter.
Finish ==
  LET ix == AddIndexEntry(index, added, FALSE, FALSE)
  IN  /\ phase = "add" /\ added > 0
      /\ phase' = "done"
      /\ index' = [ix EXCEPT !.cut = FALSE]
      /\ num_filter_entries' = total_added_in_built + Len(hash_entries)
      /\ CutAFilterBlock(ix.key)
      /\ hash_entries' = AfterFinish(hash_entries)
      /\ keys_added_to_partition' = 0
      /\ UNCHANGED <<inputVars, added>>

Init ==
  /\ hash \in [Range(UserKey) -> Hashes]
  /\ bits_per_key \in BitsPerKey
  /\ partitioned \in BOOLEAN
  /\ added = 0 /\ phase = "add" /\ num_filter_entries = 0
  /\ index = [sub |-> FALSE, key |-> 0, requested |-> TRUE, cut |-> FALSE]
  /\ keys_added_to_partition = 0 /\ total_added_in_built = 0
  /\ filters = <<>>
  /\ hash_entries = <<>>

Next ==
  \/ \E block, full \in BOOLEAN : Add(block, full)
  \/ Finish

Spec == Init /\ [][Next]_vars

-----------------------------------------------------------------------------
(* Properties. *)

\* No entry of the table is denied by the partition a reader looks it up in,
\* wherever the partitions were cut (also between two entries of one user
\* key), with whatever hashes the builder kept from earlier partitions and
\* whichever form Finish chose.
NoFalseNegatives ==
  phase = "done" => \A i \in 1..added : EntryMayMatch(i)
=============================================================================
