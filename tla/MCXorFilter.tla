---------------------------- MODULE MCXorFilter ----------------------------
(* The builders of both Xor filters, each on its own: LevelDB's, and the    *)
(* one of RocksDB and Speedb with the filter blocks it fills.               *)
EXTENDS XorFilter, TLC

CONSTANTS EntryKeys, RocksBitsPerKey, KeysPerPartition

(* Hashes of four bits: three choose the positions, the fourth leaves them  *)
(* unchanged in a table of block length 2, so that two hashes may collide   *)
(* in all three positions.                                                  *)
Bits == 0..3
HashValues == {{}, {3}, {0}, {0, 1, 2}}
WordOf == [h \in SUBSET Bits |-> [j \in 0..2 |->
            (IF j \in h THEN 64 ELSE 0) + (IF 3 \in h THEN 32 ELSE 0)]]
MixOf == [h \in SUBSET Bits |-> h \cup {b + 4 : b \in h}]
BloomHashOf == [h \in SUBSET Bits |-> 37 * Cardinality(h) + (IF 0 \in h THEN 5 ELSE 0)]
BloomDeltaOf == [h \in SUBSET Bits |-> 17 + (IF 3 \in h THEN 8 ELSE 0)]
Symmetry == Permutations(Keys)

-----------------------------------------------------------------------------
(* RocksDB: raw hashes 0..3.  Hashes 0 and 1 collide in all positions under *)
(* the first seed, hashes 2 and 3 under both.                               *)
TableEntries == <<1, 2, 2, 3>>
RawHashes == 0..3
MixHashOf == [h \in RawHashes |-> [s \in Seeds |->
  CASE h = 0 -> {0, 1}
    [] h = 1 -> IF s = 0 THEN {0, 1, 3} ELSE {1, 3}
    [] h = 2 -> {2}
    [] OTHER -> {2, 3}]]
RocksWordOf ==
  [m \in SUBSET Bits |-> [j \in 0..2 |-> IF j \in m THEN 64 ELSE 0]]
LowOf == [h \in RawHashes |-> 37 * h + 5]
DeltaOf == [h \in RawHashes |-> 17 + h]

VARIABLES
  engine, rHash, rBitsPerKey, partitioned, added, rPhase, num_filter_entries,
  index, keys_added_to_partition, total_added_in_built, filters, hash_entries

rocksVars ==
  <<rHash, rBitsPerKey, partitioned, added, rPhase, num_filter_entries, index,
    keys_added_to_partition, total_added_in_built, filters, hash_entries>>

Rocks == INSTANCE RocksXorFilter WITH
  UserKey <- EntryKeys, Hashes <- RawHashes, Low <- LowOf, Delta <- DeltaOf,
  MixHash <- MixHashOf, Word <- RocksWordOf, kCapacitySlack <- 4,
  BitsPerKey <- RocksBitsPerKey,
  hash <- rHash, bits_per_key <- rBitsPerKey, phase <- rPhase

ASSUME Rocks!UserKeyAssumption /\ Rocks!MixAssumption
         /\ Rocks!ParameterAssumption

-----------------------------------------------------------------------------
RocksIdle ==
  /\ rHash = 0 /\ rBitsPerKey = 0 /\ partitioned = 0 /\ added = 0
  /\ rPhase = 0 /\ num_filter_entries = 0 /\ index = 0
  /\ keys_added_to_partition = 0 /\ total_added_in_built = 0
  /\ filters = 0 /\ hash_entries = 0

MCInit ==
  \/ engine = "leveldb" /\ Init /\ RocksIdle
  \/ /\ engine = "rocksdb" /\ Rocks!Init
     /\ keys = {} /\ bits_per_key = 10 /\ Init

LevelDBStep == engine = "leveldb" /\ Next /\ UNCHANGED <<engine, rocksVars>>

RocksStep == engine = "rocksdb" /\ Rocks!Next /\ UNCHANGED <<engine, vars>>

RocksTerminated ==
  /\ engine = "rocksdb" /\ rPhase = "done"
  /\ UNCHANGED <<engine, vars, rocksVars>>

MCNext == LevelDBStep \/ RocksStep \/ RocksTerminated

MCSpec == MCInit /\ [][MCNext]_<<engine, vars, rocksVars>>

(* RocksDB and Speedb: no entry of a table is denied by the partition a     *)
(* reader looks it up in, wherever the partitions were cut (also between    *)
(* two entries of one user key), with whatever hashes the builder kept from *)
(* earlier partitions and whichever form Finish chose.                      *)
RocksNoFalseNegatives == engine = "rocksdb" => Rocks!NoFalseNegatives

=============================================================================
