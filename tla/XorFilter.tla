----------------------------- MODULE XorFilter -----------------------------
(***************************************************************************)
(* The packed three-way Xor filter added to LevelDB (util/xor_filter.cc):  *)
(* CreateFilter, which peels the keys' hashes, assigns fingerprints in the *)
(* reverse order and packs them, retries with other seeds and falls back   *)
(* to a Bloom filter; and KeyMayMatch, which reads the packed form.        *)
(*                                                                         *)
(* A 64-bit hash and a fingerprint are the sets of their 1 bits.  The      *)
(* mixing inside Hash, RotateLeft64 and Fingerprint is left open: the      *)
(* constants below are any functions of a hash.                            *)
(***************************************************************************)
EXTENDS FilterFormat, Sequences

CONSTANTS
  Keys,                  \* user keys of a table
  HashBits,              \* the bits of a 64-bit hash
  Hashes,                \* hash values XorHash64 yields (a bound for TLC)
  Word,                  \* Word[h][j]: low word of h rotated left by 21 * j
  Mix,                   \* Mix[h]: the bits Fingerprint masks
  BloomHash, BloomDelta, \* first probe and stride of the fallback
  BitsPerKey,            \* precisions NewXorFilterPolicy accepts
  kCapacityNumerator, kCapacityDenominator, kCapacitySlack,
  kMaxSeedTries

ASSUME KeysAssumption == IsFiniteSet(Keys)
ASSUME WordAssumption ==
  /\ Hashes \subseteq SUBSET HashBits
  /\ Word \in [SUBSET HashBits -> [0..2 -> 0..(WordSize - 1)]]
  /\ Mix \in [SUBSET HashBits -> SUBSET Nat]
  /\ BloomHash \in [SUBSET HashBits -> Nat]
  /\ BloomDelta \in [SUBSET HashBits -> Nat]
ASSUME ParameterAssumption ==
  /\ BitsPerKey \subseteq Nat \ {0}
  /\ kCapacityNumerator \in Nat /\ kCapacityDenominator \in Nat \ {0}
  /\ kCapacitySlack \in Nat
  /\ kMaxSeedTries \in Nat \ {0}

VARIABLES
  (* arguments, and the hash function they meet *)
  keys, bits_per_key, hash,
  (* CreateFilter and TryBuildXor *)
  phase, seed, hashes, block_length,
  counts, hash_xors, queue, peel_order,
  fingerprints, reverse,
  (* the encoded filter *)
  filter

inputVars == <<keys, bits_per_key, hash>>
peelVars == <<counts, hash_xors, queue, peel_order>>
assignVars == <<fingerprints, reverse>>
vars == <<inputVars, phase, seed, hashes, block_length, peelVars, assignVars,
          filter>>

Seeds == 0..(kMaxSeedTries - 1)

-----------------------------------------------------------------------------
(* Sizes *)

fingerprint_bits == ComputeFingerprintBits(bits_per_key)

ComputeBlockLength(n) ==
  LET scaled == (n * kCapacityNumerator + kCapacityDenominator - 1)
                  \div kCapacityDenominator
      length == (scaled + kCapacitySlack + 2) \div 3
  IN IF n = 0 \/ length > (WordSize - 1) \div 3 THEN 0 ELSE length

-----------------------------------------------------------------------------
(* Hashes, positions and fingerprints *)

(* BuildUniqueHashes: sorted and without duplicates, that is, a set. *)
UniqueHashes(s) == {hash[<<k, s>>] : k \in keys}

(* Each of the three positions has a block of the table of its own.         *)
Position(h, L, j) == j * L + FastRange32(Word[h][j], L)

GetPositions(h, L) == {Position(h, L, j) : j \in 0..2}

Fingerprint(h, bits) == {b \in Mix[h] : b < bits}

Table(L) == 0..(3 * L - 1)

Occupants(hs, L, p) == {h \in hs : p \in GetPositions(h, L)}

(* counts and hash_xors after the loop over all hashes: how many of them    *)
(* use a position, and their exclusive or (the bits set in an odd number).  *)
Counts(hs, L) == [p \in Table(L) |-> Cardinality(Occupants(hs, L, p))]

OddBits(hs) == {b \in HashBits : Cardinality({h \in hs : b \in h}) % 2 = 1}

HashXors(hs, L) == [p \in Table(L) |-> OddBits(Occupants(hs, L, p))]

-----------------------------------------------------------------------------
(* The encoded filter *)

BloomWord(h) == <<BloomHash[h], BloomDelta[h]>>

BuildBloomEncoding(hs, s) ==
  BloomEncoding(s, Cardinality(hs), bits_per_key, {BloomWord(h) : h \in hs})

BloomMayMatch(k, f) == BloomAccepts(BloomWord(hash[<<k, f.seed>>]), f)

XorMayMatch(k, f) ==
  LET h == hash[<<k, f.seed>>]
      Value(j) == ReadPackedValue(f, Position(h, f.length, j), f.aux)
  IN \/ f.length = 0 \/ f.length > (WordSize - 1) \div 3
     \/ f.aux < 1 \/ f.aux > 16
     \/ f.size # PackedByteSize(3 * f.length, f.aux)
     \/ \E j \in 0..2 : ~Readable(f, Position(h, f.length, j), f.aux)
     \/ Xor(Xor(Value(0), Value(1)), Value(2)) = Fingerprint(h, f.aux)

KeyMayMatch(k, f) ==
  \/ f.type = "empty" /\ f.size # 0
  \/ f.type \notin {"empty", "bloom", "xor"}
  \/ f.type = "bloom" /\ BloomMayMatch(k, f)
  \/ f.type = "xor" /\ XorMayMatch(k, f)

-----------------------------------------------------------------------------
(* CreateFilter *)

CreateEmpty ==
  /\ phase = "start" /\ keys = {}
  /\ filter' = EmptyFilter
  /\ phase' = "done"
  /\ UNCHANGED <<inputVars, seed, hashes, block_length, peelVars, assignVars>>

(* Whether the Xor form is smaller than the Bloom form, judged by the       *)
(* number of distinct hashes under seed 0.                                  *)
XorPays ==
  LET n == Cardinality(UniqueHashes(0))
      L == ComputeBlockLength(n)
  IN /\ L # 0
     /\ SmallerThanBloom(PackedByteSize(3 * L, fingerprint_bits), n,
                         bits_per_key)

CreateBloom ==
  /\ phase = "start" /\ keys # {} /\ ~XorPays
  /\ filter' = BuildBloomEncoding(UniqueHashes(0), 0)
  /\ phase' = "done"
  /\ UNCHANGED <<inputVars, seed, hashes, block_length, peelVars, assignVars>>

(* TryBuildXor for seed s, up to the peeling loop.  With a block length of  *)
(* 0 the table is empty and the attempt fails at once.                      *)
StartSeed(s) ==
  LET hs == UniqueHashes(s)
      L == ComputeBlockLength(Cardinality(hs))
  IN /\ seed' = s /\ hashes' = hs /\ block_length' = L
     /\ counts' = Counts(hs, L) /\ hash_xors' = HashXors(hs, L)
     /\ queue' = {p \in Table(L) : Counts(hs, L)[p] = 1}
     /\ peel_order' = <<>>
     /\ phase' = "peel"
     /\ UNCHANGED <<inputVars, assignVars, filter>>

CreateXor == phase = "start" /\ keys # {} /\ XorPays /\ StartSeed(0)

-----------------------------------------------------------------------------
(* TryBuildXor: peeling.  queue is the part of the work list not read yet;  *)
(* the order in which it is read does not matter and is left open.          *)

PeelStale(p) ==
  /\ phase = "peel" /\ p \in queue /\ counts[p] # 1
  /\ queue' = queue \ {p}
  /\ UNCHANGED <<inputVars, phase, seed, hashes, block_length, counts,
                 hash_xors, peel_order, assignVars, filter>>

(* Mutant: counts is tested before it is decremented.                       *)
PushedTooEarly(hit) == {q \in hit : counts[q] = 1}

(* The positions whose count a step brings down to 1.                       *)
Pushed(hit) == {q \in hit : counts[q] = 2}

Peel(p) ==
  /\ phase = "peel" /\ p \in queue /\ counts[p] = 1
  /\ LET h == hash_xors[p]
         hit == {q \in GetPositions(h, block_length) : counts[q] # 0}
     IN /\ peel_order' = Append(peel_order, [hash |-> h, pos |-> p])
        /\ counts' = [q \in Table(block_length) |->
                        IF q \in hit THEN counts[q] - 1 ELSE counts[q]]
        /\ hash_xors' = [q \in Table(block_length) |->
                        IF q \in hit THEN Xor(hash_xors[q], h) ELSE hash_xors[q]]
        /\ queue' = (queue \ {p}) \cup Pushed(hit)
  /\ UNCHANGED <<inputVars, phase, seed, hashes, block_length, assignVars,
                 filter>>

Peeled == Len(peel_order) = Cardinality(hashes)

(* Mutant: the seed is not advanced.                                        *)
RetrySameSeed ==
  /\ phase = "peel" /\ queue = {} /\ ~Peeled
  /\ seed + 1 < kMaxSeedTries
  /\ StartSeed(seed)

Retry ==
  /\ phase = "peel" /\ queue = {} /\ ~Peeled
  /\ seed + 1 < kMaxSeedTries
  /\ StartSeed(seed + 1)

(* All seeds failed: a Bloom filter over the hashes of seed 0.              *)
GiveUp ==
  /\ phase = "peel" /\ queue = {} /\ ~Peeled
  /\ seed + 1 >= kMaxSeedTries
  /\ filter' = BuildBloomEncoding(UniqueHashes(0), 0)
  /\ phase' = "done"
  /\ UNCHANGED <<inputVars, seed, hashes, block_length, peelVars, assignVars>>

-----------------------------------------------------------------------------
(* TryBuildXor: fingerprints, from the last hash peeled to the first.       *)

StartAssign ==
  /\ phase = "peel" /\ queue = {} /\ Peeled
  /\ fingerprints' = [p \in Table(block_length) |-> {}]
  /\ reverse' = Len(peel_order)
  /\ phase' = "assign"
  /\ UNCHANGED <<inputVars, seed, hashes, block_length, peelVars, filter>>

(* Mutant: the entries are taken in the order they were peeled.             *)
EntryForward == peel_order[Len(peel_order) + 1 - reverse]

Entry == peel_order[reverse]

Assign ==
  /\ phase = "assign" /\ reverse > 0
  /\ LET h == Entry.hash
         Stored(j) == fingerprints[Position(h, block_length, j)]
         value == Xor(Xor(Xor(Fingerprint(h, fingerprint_bits),
                              Stored(0)), Stored(1)), Stored(2))
     IN fingerprints' = [fingerprints EXCEPT ![Entry.pos] =
                           {b \in value : b < fingerprint_bits}]
  /\ reverse' = reverse - 1
  /\ UNCHANGED <<inputVars, phase, seed, hashes, block_length, peelVars, filter>>

Encode ==
  /\ phase = "assign" /\ reverse = 0
  /\ filter' = Encoded("xor", seed, block_length, fingerprint_bits,
                       Packed(fingerprints, fingerprint_bits),
                       PackedByteSize(3 * block_length, fingerprint_bits))
  /\ phase' = "done"
  /\ UNCHANGED <<inputVars, seed, hashes, block_length, peelVars, assignVars>>

-----------------------------------------------------------------------------
Init ==
  /\ keys \in SUBSET Keys
  /\ bits_per_key \in BitsPerKey
  /\ hash \in [keys \X Seeds -> Hashes]
  /\ phase = "start" /\ seed = 0 /\ hashes = {} /\ block_length = 0
  /\ counts = <<>> /\ hash_xors = <<>> /\ queue = {} /\ peel_order = <<>>
  /\ fingerprints = <<>> /\ reverse = 0
  /\ filter = NoFilter

Step ==
  \/ CreateEmpty \/ CreateBloom \/ CreateXor
  \/ \E p \in queue : PeelStale(p) \/ Peel(p)
  \/ Retry \/ GiveUp
  \/ StartAssign \/ Assign \/ Encode

Terminated == phase = "done" /\ UNCHANGED vars

Next == Step \/ Terminated

Spec == Init /\ [][Next]_vars

-----------------------------------------------------------------------------
(* Properties *)

(* The hashes that peeling has not reached. *)
Remaining == hashes \ {peel_order[i].hash : i \in 1..Len(peel_order)}

(* A filter never denies a key it was built from, whichever encoding        *)
(* CreateFilter chose and whatever seed it ended with.                      *)
NoFalseNegatives ==
  phase = "done" => \A k \in keys : KeyMayMatch(k, filter)

(* A seed is given up only when it must be: every position that a remaining *)
(* hash uses is shared with another one (the hashes have a 2-core).         *)
RetryOnlyOnCore ==
  phase = "peel" /\ queue = {} =>
    \A p \in Table(block_length) :
      Cardinality(Occupants(Remaining, block_length, p)) # 1

(* What CreateFilter has left to do: seeds, phases of the attempt, and      *)
(* iterations of the loop it is in.  A step of peeling queues at most two   *)
(* more positions.                                                          *)
Work ==
  CASE phase = "start" -> <<kMaxSeedTries - seed, 3, 0>>
    [] phase = "peel" -> <<kMaxSeedTries - seed, 2,
         3 * (Cardinality(hashes) - Len(peel_order)) + Cardinality(queue)>>
    [] phase = "assign" -> <<kMaxSeedTries - seed, 1, reverse>>
    [] OTHER -> <<kMaxSeedTries - seed, 0, 0>>

(* Every step leaves less to do, so CreateFilter returns whatever the       *)
(* hashes are: no hash is peeled twice, no seed is tried twice, and a       *)
(* position is queued again only by the step that peels another hash.       *)
WorkShrinks == [][Descends(Work', Work)]_vars

=============================================================================
