-------------------------- MODULE XorFilterProofs --------------------------
(***************************************************************************)
(* No false negatives, for every set of keys, every hash function and any  *)
(* values of the construction's parameters.                                *)
(***************************************************************************)
EXTENDS XorFilter, FilterFormatProofs, FiniteSetTheorems, TLAPS

-----------------------------------------------------------------------------
(* Positions *)

(* The three positions of a hash lie in the table, each in its own block.   *)
LEMMA PositionsInTable ==
  ASSUME NEW h \in SUBSET HashBits, NEW L \in Nat \ {0}
  PROVE  /\ \A j \in 0..2 : Position(h, L, j) \in Table(L)
         /\ Position(h, L, 0) # Position(h, L, 1)
         /\ Position(h, L, 0) # Position(h, L, 2)
         /\ Position(h, L, 1) # Position(h, L, 2)
         /\ GetPositions(h, L) =
              {Position(h, L, 0), Position(h, L, 1), Position(h, L, 2)}
<1> DEFINE d(j) == FastRange32(Word[h][j], L)
<1>1. ASSUME NEW j \in 0..2
      PROVE  d(j) \in 0..(L - 1)
  <2>1. Word[h][j] \in 0..(WordSize - 1)
    BY WordAssumption
  <2> QED BY <2>1, FastRange
<1>2. d(0) \in 0..(L - 1) /\ d(1) \in 0..(L - 1) /\ d(2) \in 0..(L - 1)
  BY <1>1
<1>3. /\ Position(h, L, 0) = d(0)
      /\ Position(h, L, 1) = L + d(1)
      /\ Position(h, L, 2) = 2 * L + d(2)
  BY <1>2 DEF Position
<1> HIDE DEF d
<1>4. 0..2 = {0, 1, 2}
  OBVIOUS
<1>5. GetPositions(h, L) =
        {Position(h, L, 0), Position(h, L, 1), Position(h, L, 2)}
  BY <1>4 DEF GetPositions
<1>6. \A j \in {0, 1, 2} : Position(h, L, j) \in Table(L)
  BY <1>2, <1>3 DEF Table
<1> QED BY <1>2, <1>3, <1>4, <1>5, <1>6

-----------------------------------------------------------------------------
(* Exclusive or *)

(* The exclusive or of a single hash is that hash. *)
LEMMA OddBitsSingleton ==
  ASSUME NEW h \in SUBSET HashBits
  PROVE  OddBits({h}) = h
<1>1. ASSUME NEW b \in HashBits
      PROVE  b \in OddBits({h}) <=> b \in h
  <2>1. CASE b \in h
    <3>1. {g \in {h} : b \in g} = {h}
      BY <2>1
    <3>2. Cardinality({h}) % 2 = 1
      BY FS_Singleton
    <3> QED BY <2>1, <3>1, <3>2 DEF OddBits
  <2>2. CASE b \notin h
    <3>1. {g \in {h} : b \in g} = {}
      BY <2>2
    <3>2. Cardinality({}) % 2 # 1
      BY FS_EmptySet
    <3> QED BY <2>2, <3>1, <3>2 DEF OddBits
  <2> QED BY <2>1, <2>2
<1>2. OddBits({h}) \subseteq HashBits
  BY DEF OddBits
<1> QED BY <1>1, <1>2

(* Taking a hash out of a set changes the exclusive or by that hash.        *)
LEMMA OddBitsRemove ==
  ASSUME NEW S, IsFiniteSet(S), NEW h \in S, h \in SUBSET HashBits
  PROVE  OddBits(S \ {h}) = Xor(OddBits(S), h)
<1>1. ASSUME NEW b \in HashBits
      PROVE  b \in OddBits(S \ {h}) <=> b \in Xor(OddBits(S), h)
  <2> DEFINE A == {g \in S : b \in g}
             B == {g \in S \ {h} : b \in g}
  <2>1. IsFiniteSet(A) /\ Cardinality(A) \in Nat
    BY FS_Subset, FS_CardinalityType
  <2>2. (b \in OddBits(S \ {h}) <=> Cardinality(B) % 2 = 1)
        /\ (b \in OddBits(S) <=> Cardinality(A) % 2 = 1)
    BY DEF OddBits
  <2>3. CASE b \in h
    <3>1. B = A \ {h} /\ h \in A
      BY <2>3
    <3>2. Cardinality(B) = Cardinality(A) - 1 /\ Cardinality(B) \in Nat
      <4>1. IsFiniteSet(A \ {h}) /\ Cardinality(A \ {h}) = Cardinality(A) - 1
        BY <2>1, <3>1, FS_RemoveElement
      <4> HIDE DEF A, B
      <4>2. Cardinality(A \ {h}) \in Nat
        BY <4>1, FS_CardinalityType
      <4> QED BY <3>1, <4>1, <4>2
    <3>3. Cardinality(B) % 2 = 1 <=> ~(Cardinality(A) % 2 = 1)
      BY <2>1, <3>2
    <3> QED BY <2>2, <2>3, <3>3 DEF Xor
  <2>4. CASE b \notin h
    <3>1. B = A
      BY <2>4
    <3> QED BY <2>2, <2>4, <3>1 DEF Xor
  <2> QED BY <2>3, <2>4
<1>2. OddBits(S \ {h}) \subseteq HashBits /\ Xor(OddBits(S), h) \subseteq HashBits
  BY DEF OddBits, Xor
<1> QED BY <1>1, <1>2

-----------------------------------------------------------------------------
(* One step of peeling *)

(* Where exactly one of the hashes R is left, hash_xors holds it.           *)
LEMMA PeelsOneOf ==
  ASSUME NEW R, IsFiniteSet(R), R \subseteq SUBSET HashBits, NEW L, NEW p \in Table(L),
         Counts(R, L)[p] = 1
  PROVE  /\ HashXors(R, L)[p] \in R
         /\ p \in GetPositions(HashXors(R, L)[p], L)
         /\ \A g \in R \ {HashXors(R, L)[p]} : p \notin GetPositions(g, L)
<1> DEFINE S == Occupants(R, L, p)
<1>1. S \subseteq R /\ IsFiniteSet(S) /\ Cardinality(S) = 1
  BY FS_Subset DEF Occupants, Counts
<1>2. PICK h : S = {h}
  BY <1>1, FS_Singleton
<1>3. h \in R /\ p \in GetPositions(h, L)
  BY <1>2 DEF Occupants
<1>4. HashXors(R, L)[p] = h
  BY <1>2, <1>3, OddBitsSingleton DEF HashXors
<1>5. \A g \in R \ {h} : p \notin GetPositions(g, L)
  BY <1>2 DEF Occupants
<1> QED BY <1>3, <1>4, <1>5

(* Updating counts and hash_xors at the positions of a hash that is left    *)
(* gives their values for the others.                                       *)
LEMMA PeelUpdates ==
  ASSUME NEW R, IsFiniteSet(R), R \subseteq SUBSET HashBits, NEW L \in Nat \ {0},
         NEW h \in R
  PROVE  LET P == GetPositions(h, L)
         IN /\ \A q \in P : q \in Table(L) /\ Counts(R, L)[q] \in Nat \ {0}
            /\ Counts(R \ {h}, L) = [q \in Table(L) |->
                  IF q \in P THEN Counts(R, L)[q] - 1 ELSE Counts(R, L)[q]]
            /\ HashXors(R \ {h}, L) = [q \in Table(L) |->
                  IF q \in P THEN Xor(HashXors(R, L)[q], h)
                             ELSE HashXors(R, L)[q]]
<1> DEFINE P == GetPositions(h, L)
<1>1. P \subseteq Table(L)
  BY PositionsInTable
<1>2. ASSUME NEW q \in Table(L)
      PROVE  /\ IsFiniteSet(Occupants(R, L, q))
             /\ Cardinality(Occupants(R, L, q)) \in Nat
             /\ Occupants(R \ {h}, L, q) = Occupants(R, L, q) \ {h}
             /\ q \in P <=> h \in Occupants(R, L, q)
  <2>1. Occupants(R, L, q) \in SUBSET R
    BY DEF Occupants
  <2> QED BY <2>1, FS_Subset, FS_CardinalityType DEF Occupants
<1>3. ASSUME NEW q \in P
      PROVE  q \in Table(L) /\ Counts(R, L)[q] \in Nat \ {0}
  <2>1. h \in Occupants(R, L, q)
    BY <1>1, <1>2
  <2> QED BY <1>1, <1>2, <2>1, FS_EmptySet DEF Counts
<1>4. Counts(R \ {h}, L) = [q \in Table(L) |->
         IF q \in P THEN Counts(R, L)[q] - 1 ELSE Counts(R, L)[q]]
  <2>1. ASSUME NEW q \in Table(L)
        PROVE  Counts(R \ {h}, L)[q] =
                 IF q \in P THEN Counts(R, L)[q] - 1 ELSE Counts(R, L)[q]
    <3> DEFINE S == Occupants(R, L, q)
    <3>1. Cardinality(S \ {h}) =
            IF h \in S THEN Cardinality(S) - 1 ELSE Cardinality(S)
      BY <1>2, FS_RemoveElement
    <3> QED BY <1>2, <3>1 DEF Counts
  <2> QED BY <2>1 DEF Counts
<1>5. HashXors(R \ {h}, L) = [q \in Table(L) |->
         IF q \in P THEN Xor(HashXors(R, L)[q], h) ELSE HashXors(R, L)[q]]
  <2>1. ASSUME NEW q \in Table(L)
        PROVE  HashXors(R \ {h}, L)[q] =
                 IF q \in P THEN Xor(HashXors(R, L)[q], h) ELSE HashXors(R, L)[q]
    <3>1. CASE q \in P
      BY <1>2, <3>1, OddBitsRemove DEF HashXors
    <3>2. CASE q \notin P
      <4>1. Occupants(R \ {h}, L, q) = Occupants(R, L, q)
        BY <1>2, <3>2
      <4> QED BY <3>2, <4>1 DEF HashXors
    <3> QED BY <3>1, <3>2
  <2> QED BY <2>1 DEF HashXors
<1> QED BY <1>3, <1>4, <1>5

-----------------------------------------------------------------------------
(* The invariant *)

Entries == [hash : SUBSET HashBits, pos : Nat]

InputInv ==
  /\ keys \subseteq Keys /\ bits_per_key \in BitsPerKey
  /\ hash \in [keys \X Seeds -> Hashes]
  /\ seed \in Seeds
  /\ phase \in {"start", "peel", "assign", "done"}

(* What TryBuildXor works on. *)
BuildInv ==
  phase \in {"peel", "assign"} =>
    /\ keys # {}
    /\ hashes = UniqueHashes(seed)
    /\ block_length = ComputeBlockLength(Cardinality(hashes))

(* The order of peeling: when an entry was taken, no hash that came later   *)
(* used its position.                                                       *)
OrderInv ==
  phase \in {"peel", "assign"} =>
    /\ peel_order \in Seq(Entries)
    /\ \A i \in 1..Len(peel_order) :
         /\ peel_order[i].hash \in hashes
         /\ peel_order[i].pos \in Table(block_length)
         /\ peel_order[i].pos \in GetPositions(peel_order[i].hash, block_length)
         /\ \A h \in Remaining :
              peel_order[i].pos \notin GetPositions(h, block_length)
    /\ \A i, j \in 1..Len(peel_order) :
         i < j => peel_order[i].pos \notin
                    GetPositions(peel_order[j].hash, block_length)
    /\ Cardinality(Remaining) = Cardinality(hashes) - Len(peel_order)

(* counts and hash_xors describe the hashes not peeled yet, and the work    *)
(* list misses no position that has exactly one of them.                    *)
PeelInv ==
  phase = "peel" =>
    /\ counts = Counts(Remaining, block_length)
    /\ hash_xors = HashXors(Remaining, block_length)
    /\ queue \subseteq Table(block_length)
    /\ \A p \in Table(block_length) : counts[p] = 1 => p \in queue

Values == [Table(block_length) -> SUBSET (0..(fingerprint_bits - 1))]

Solved(h) ==
  LET Stored(j) == fingerprints[Position(h, block_length, j)]
  IN Xor(Xor(Stored(0), Stored(1)), Stored(2)) = Fingerprint(h, fingerprint_bits)

(* The entries after reverse are solved, and the positions of the others    *)
(* are still zero.                                                          *)
AssignInv ==
  phase = "assign" =>
    /\ Remaining = {} /\ block_length # 0
    /\ reverse \in 0..Len(peel_order)
    /\ fingerprints \in Values
    /\ \A i \in 1..reverse : fingerprints[peel_order[i].pos] = {}
    /\ \A i \in (reverse + 1)..Len(peel_order) : Solved(peel_order[i].hash)

Inv == InputInv /\ BuildInv /\ OrderInv /\ PeelInv /\ AssignInv /\ NoFalseNegatives

(* The block length is a natural number. *)
LEMMA BlockLengthType ==
  ASSUME NEW n \in Nat
  PROVE  ComputeBlockLength(n) \in Nat
<1> DEFINE x == n * kCapacityNumerator + kCapacityDenominator - 1
           scaled == x \div kCapacityDenominator
<1>1. x \in Nat
  <2>1. n * kCapacityNumerator \in Nat
    BY ParameterAssumption
  <2> QED BY <2>1, ParameterAssumption
<1>2. scaled \in Nat
  BY <1>1, ParameterAssumption
<1> HIDE DEF x, scaled
<1>3. (scaled + kCapacitySlack + 2) \div 3 \in Nat
  BY <1>2, ParameterAssumption
<1> QED BY <1>3 DEF ComputeBlockLength, scaled, x

(* A fingerprint has at least one bit. *)
LEMMA FingerprintBitsType ==
  ASSUME InputInv
  PROVE  fingerprint_bits \in Nat \ {0}
<1>1. bits_per_key \in Nat
  BY ParameterAssumption DEF InputInv
<1> QED BY <1>1, ResultBitsType DEF fingerprint_bits

(* The hashes of any seed are a finite set of hash values.                  *)
LEMMA UniqueHashesType ==
  ASSUME InputInv, NEW s \in Seeds
  PROVE  /\ IsFiniteSet(UniqueHashes(s))
         /\ Cardinality(UniqueHashes(s)) \in Nat
         /\ UniqueHashes(s) \subseteq SUBSET HashBits
         /\ keys # {} => Cardinality(UniqueHashes(s)) # 0
<1>1. IsFiniteSet(keys)
  BY KeysAssumption, FS_Subset DEF InputInv
<1> DEFINE f == [k \in keys |-> hash[<<k, s>>]]
<1>2. f \in Surjection(keys, UniqueHashes(s))
  BY DEF Surjection, UniqueHashes
<1>3. IsFiniteSet(UniqueHashes(s))
  BY <1>1, <1>2, FS_Surjection
<1>4. UniqueHashes(s) \subseteq SUBSET HashBits
  <2>1. \A k \in keys : hash[<<k, s>>] \in Hashes
    BY DEF InputInv
  <2>2. \A g \in UniqueHashes(s) : g \in Hashes
    BY <2>1 DEF UniqueHashes
  <2>3. Hashes \subseteq SUBSET HashBits
    BY WordAssumption
  <2> QED BY <2>2, <2>3
<1>5. keys # {} => UniqueHashes(s) # {}
  BY DEF UniqueHashes
<1> QED BY <1>3, <1>4, <1>5, FS_CardinalityType, FS_EmptySet

(* Peeling works on finitely many hashes. *)
LEMMA RemainingType ==
  ASSUME Inv, phase \in {"peel", "assign"}
  PROVE  /\ IsFiniteSet(Remaining) /\ Cardinality(Remaining) \in Nat
         /\ Remaining \subseteq SUBSET HashBits
         /\ Remaining \subseteq hashes
         /\ hashes \subseteq SUBSET HashBits
         /\ IsFiniteSet(hashes) /\ Cardinality(hashes) \in Nat \ {0}
         /\ block_length \in Nat
<1>1. /\ IsFiniteSet(hashes) /\ Cardinality(hashes) \in Nat
      /\ hashes \subseteq SUBSET HashBits
      /\ Cardinality(hashes) # 0
  BY UniqueHashesType DEF Inv, BuildInv, InputInv
<1>2. Remaining \in SUBSET hashes
  BY DEF Remaining
<1>3. IsFiniteSet(Remaining) /\ Cardinality(Remaining) \in Nat
  BY <1>1, <1>2, FS_Subset, FS_CardinalityType
<1>4. block_length \in Nat
  BY <1>1, BlockLengthType DEF Inv, BuildInv
<1> QED BY <1>1, <1>2, <1>3, <1>4

(* Peeling one hash keeps the invariant. *)
LEMMA PeelKeeps ==
  ASSUME Inv, NEW p \in queue, Peel(p)
  PROVE  OrderInv' /\ PeelInv'
<1> DEFINE L == block_length
           R == Remaining
           h == hash_xors[p]
           P == GetPositions(h, L)
           n == Len(peel_order)
<1>1. phase = "peel" /\ counts[p] = 1 /\ phase' = phase /\ hashes' = hashes
      /\ block_length' = L
  BY DEF Peel
<1>2. /\ IsFiniteSet(R) /\ Cardinality(R) \in Nat /\ R \subseteq SUBSET HashBits
      /\ R \subseteq hashes /\ Cardinality(hashes) \in Nat
      /\ L \in Nat
  BY <1>1, RemainingType
<1>3. /\ counts = Counts(R, L) /\ hash_xors = HashXors(R, L)
      /\ queue \subseteq Table(L) /\ p \in Table(L)
      /\ \A q \in Table(L) : counts[q] = 1 => q \in queue
  BY <1>1 DEF Inv, PeelInv
<1>4. L # 0 /\ p \in Nat
  BY <1>2, <1>3 DEF Table
<1>5. h \in R /\ p \in P /\ \A g \in R \ {h} : p \notin GetPositions(g, L)
  BY <1>1, <1>2, <1>3, PeelsOneOf
<1>6. /\ \A q \in P : q \in Table(L) /\ counts[q] \in Nat \ {0}
      /\ Counts(R \ {h}, L) = [q \in Table(L) |->
            IF q \in P THEN counts[q] - 1 ELSE counts[q]]
      /\ HashXors(R \ {h}, L) = [q \in Table(L) |->
            IF q \in P THEN Xor(hash_xors[q], h) ELSE hash_xors[q]]
  <2>1. L \in Nat \ {0}
    BY <1>2, <1>4
  <2> HIDE DEF h, R, L
  <2> QED BY <1>2, <1>3, <1>5, <2>1, PeelUpdates DEF P
<1>7. {q \in P : counts[q] # 0} = P
  BY <1>6
<1>8. /\ peel_order' = Append(peel_order, [hash |-> h, pos |-> p])
      /\ counts' = Counts(R \ {h}, L)
      /\ hash_xors' = HashXors(R \ {h}, L)
      /\ queue' = (queue \ {p}) \cup {q \in P : counts[q] = 2}
  BY <1>6, <1>7 DEF Peel, Pushed
<1>9. /\ peel_order \in Seq(Entries) /\ n \in Nat
      /\ \A i \in 1..n : /\ peel_order[i].hash \in hashes
                         /\ peel_order[i].pos \in Table(L)
                         /\ peel_order[i].pos \in
                              GetPositions(peel_order[i].hash, L)
                         /\ \A g \in R : peel_order[i].pos \notin GetPositions(g, L)
      /\ \A i, j \in 1..n : i < j =>
           peel_order[i].pos \notin GetPositions(peel_order[j].hash, L)
      /\ Cardinality(R) = Cardinality(hashes) - n
  BY <1>1 DEF Inv, OrderInv
<1>10. /\ peel_order' \in Seq(Entries) /\ Len(peel_order') = n + 1
       /\ \A i \in 1..n : peel_order'[i] = peel_order[i]
       /\ peel_order'[n + 1].hash = h /\ peel_order'[n + 1].pos = p
  <2>1. [hash |-> h, pos |-> p] \in Entries
    BY <1>2, <1>4, <1>5 DEF Entries
  <2> HIDE DEF h
  <2> QED BY <1>8, <1>9, <2>1
<1>11. Remaining' = R \ {h}
  <2>1. {peel_order'[i].hash : i \in 1..(n + 1)} =
          {peel_order[i].hash : i \in 1..n} \cup {h}
    <3>1. 1..(n + 1) = 1..n \cup {n + 1}
      BY <1>9
    <3> HIDE DEF h, n
    <3> QED BY <1>10, <3>1
  <2> HIDE DEF h
  <2> QED BY <1>1, <1>10, <2>1 DEF Remaining
<1>12. Cardinality(R \ {h}) = Cardinality(R) - 1
  BY <1>2, <1>5, FS_RemoveElement
<1>13. PeelInv'
  <2>1. ASSUME NEW q \in Table(L), counts'[q] = 1
        PROVE  q \in queue'
    <3>1. CASE q \in P
      <4>1. counts'[q] = counts[q] - 1 /\ counts[q] \in Nat
        BY <1>6, <1>8, <3>1
      <4> QED BY <1>8, <2>1, <3>1, <4>1
    <3>2. CASE q \notin P
      <4>1. counts[q] = 1 /\ q # p
        BY <1>5, <1>6, <1>8, <2>1, <3>2
      <4> QED BY <1>3, <1>8, <4>1
    <3> QED BY <3>1, <3>2
  <2>2. queue' \subseteq Table(L)
    BY <1>3, <1>6, <1>8
  <2> QED BY <1>1, <1>8, <1>11, <2>1, <2>2 DEF PeelInv
<1>14. OrderInv'
  <2> HIDE DEF h, P, n, R, L
  <2>1. \A i \in 1..(n + 1) : i \in 1..n \/ i = n + 1
    BY <1>9
  <2>2. ASSUME NEW i \in 1..(n + 1)
        PROVE  /\ peel_order'[i].hash \in hashes
               /\ peel_order'[i].pos \in Table(L)
               /\ peel_order'[i].pos \in GetPositions(peel_order'[i].hash, L)
               /\ \A g \in R \ {h} : peel_order'[i].pos \notin GetPositions(g, L)
    <3>1. CASE i \in 1..n
      BY <1>9, <1>10, <3>1
    <3>2. CASE i = n + 1
      BY <1>2, <1>3, <1>5, <1>10, <3>2 DEF P
    <3> QED BY <2>1, <3>1, <3>2
  <2>3. ASSUME NEW i \in 1..(n + 1), NEW j \in 1..(n + 1), i < j
        PROVE  peel_order'[i].pos \notin GetPositions(peel_order'[j].hash, L)
    <3>1. i \in 1..n
      BY <1>9, <2>3
    <3>2. CASE j \in 1..n
      BY <1>9, <1>10, <2>3, <3>1, <3>2
    <3>3. CASE j = n + 1
      BY <1>5, <1>9, <1>10, <3>1, <3>3
    <3> QED BY <2>1, <3>2, <3>3
  <2>4. Cardinality(R \ {h}) = Cardinality(hashes) - (n + 1)
    BY <1>2, <1>9, <1>12
  <2> QED BY <1>1, <1>10, <1>11, <2>2, <2>3, <2>4 DEF OrderInv, L
<1> QED BY <1>13, <1>14

(* Skipping a position of the work list whose count has changed.            *)
LEMMA PeelStaleKeeps ==
  ASSUME Inv, NEW p \in queue, PeelStale(p)
  PROVE  OrderInv' /\ PeelInv'
<1>1. /\ phase = "peel" /\ phase' = phase /\ hashes' = hashes
      /\ block_length' = block_length /\ peel_order' = peel_order
      /\ counts' = counts /\ hash_xors' = hash_xors
      /\ counts[p] # 1 /\ queue' = queue \ {p}
  BY DEF PeelStale
<1>2. Remaining' = Remaining
  BY <1>1 DEF Remaining
<1>3. OrderInv'
  BY <1>1, <1>2 DEF Inv, OrderInv
<1>4. PeelInv'
  BY <1>1, <1>2 DEF Inv, PeelInv
<1> QED BY <1>3, <1>4

(* An attempt with a seed starts with every hash to be peeled.              *)
LEMMA StartSeedKeeps ==
  ASSUME Inv, keys # {}, NEW s \in Seeds, StartSeed(s)
  PROVE  Inv'
<1> DEFINE hs == UniqueHashes(s)
           L == ComputeBlockLength(Cardinality(hs))
<1>1. /\ keys' = keys /\ bits_per_key' = bits_per_key /\ hash' = hash
      /\ seed' = s /\ hashes' = hs /\ block_length' = L
      /\ counts' = Counts(hs, L) /\ hash_xors' = HashXors(hs, L)
      /\ queue' = {p \in Table(L) : Counts(hs, L)[p] = 1}
      /\ peel_order' = <<>> /\ phase' = "peel"
  BY DEF StartSeed, inputVars
<1>2. InputInv'
  BY <1>1 DEF Inv, InputInv
<1>3. UniqueHashes(s)' = hs
  BY <1>1 DEF UniqueHashes
<1>4. BuildInv'
  BY <1>1, <1>3 DEF BuildInv, UniqueHashes
<1>5. Remaining' = hs /\ Len(peel_order') = 0 /\ 1..Len(peel_order') = {}
  BY <1>1 DEF Remaining
<1>6. Cardinality(hs) \in Nat
  BY UniqueHashesType DEF Inv
<1> HIDE DEF hs, L
<1>7. OrderInv'
  BY <1>1, <1>5, <1>6 DEF OrderInv
<1>8. PeelInv'
  BY <1>1, <1>5 DEF PeelInv
<1>9. AssignInv' /\ NoFalseNegatives'
  BY <1>1 DEF AssignInv, NoFalseNegatives
<1> QED BY <1>2, <1>4, <1>7, <1>8, <1>9 DEF Inv

(* Once all hashes are peeled, the table is not empty and every value is    *)
(* still to be stored.                                                      *)
LEMMA StartAssignKeeps ==
  ASSUME Inv, StartAssign
  PROVE  Inv'
<1>1. /\ phase = "peel" /\ Len(peel_order) = Cardinality(hashes)
      /\ fingerprints' = [p \in Table(block_length) |-> {}]
      /\ reverse' = Len(peel_order) /\ phase' = "assign"
      /\ keys' = keys /\ bits_per_key' = bits_per_key /\ hash' = hash
      /\ seed' = seed /\ hashes' = hashes /\ block_length' = block_length
      /\ peel_order' = peel_order
  BY DEF StartAssign, Peeled, inputVars, peelVars
<1>2. /\ IsFiniteSet(Remaining) /\ Cardinality(hashes) \in Nat \ {0}
      /\ block_length \in Nat
  BY <1>1, RemainingType
<1>3. /\ peel_order \in Seq(Entries)
      /\ \A i \in 1..Len(peel_order) : peel_order[i].pos \in Table(block_length)
      /\ Cardinality(Remaining) = Cardinality(hashes) - Len(peel_order)
  BY <1>1 DEF Inv, OrderInv
<1>4. Remaining = {}
  BY <1>1, <1>2, <1>3, FS_EmptySet
<1>5. block_length # 0
  BY <1>1, <1>2, <1>3 DEF Table
<1>6. Remaining' = Remaining
  BY <1>1 DEF Remaining
<1>7. InputInv' /\ BuildInv'
  BY <1>1 DEF Inv, InputInv, BuildInv, UniqueHashes
<1>8. OrderInv' /\ PeelInv'
  BY <1>1, <1>6 DEF Inv, OrderInv, PeelInv
<1>9. AssignInv'
  <2>1. Len(peel_order) \in Nat
    BY <1>3
  <2>2. Values' = [Table(block_length) -> SUBSET (0..(fingerprint_bits - 1))]
    BY <1>1 DEF Values, fingerprint_bits
  <2>3. fingerprints' \in Values'
    BY <1>1, <2>2
  <2>4. \A i \in 1..Len(peel_order) : fingerprints'[peel_order[i].pos] = {}
    BY <1>1, <1>3
  <2>5. \A i : i \notin (reverse' + 1)..Len(peel_order')
    BY <1>1, <2>1
  <2>6. \A i \in (reverse' + 1)..Len(peel_order') : Solved(peel_order[i].hash)'
    BY <2>5
  <2>7. reverse' \in 0..Len(peel_order')
    BY <1>1, <2>1
  <2>8. \A i \in 1..reverse' : fingerprints'[peel_order'[i].pos] = {}
    BY <1>1, <2>4
  <2>9. Remaining' = {} /\ block_length' # 0
    BY <1>1, <1>4, <1>5, <1>6
  <2> QED BY <2>3, <2>6, <2>7, <2>8, <2>9 DEF AssignInv
<1>10. NoFalseNegatives'
  BY <1>1 DEF NoFalseNegatives
<1> QED BY <1>7, <1>8, <1>9, <1>10 DEF Inv

(* Storing a value solves its hash, and disturbs neither the hashes solved  *)
(* before nor the positions still to be filled: both by the order of        *)
(* peeling.                                                                 *)
LEMMA AssignKeeps ==
  ASSUME Inv, Assign
  PROVE  Inv'
<1> DEFINE L == block_length
           bits == fingerprint_bits
           h == Entry.hash
           pos == Entry.pos
           St(j) == fingerprints[Position(h, L, j)]
           F == Fingerprint(h, bits)
           value == Xor(Xor(Xor(F, St(0)), St(1)), St(2))
<1>1. /\ phase = "assign" /\ reverse > 0
      /\ fingerprints' = [fingerprints EXCEPT ![pos] = {b \in value : b < bits}]
      /\ reverse' = reverse - 1 /\ phase' = phase
      /\ keys' = keys /\ bits_per_key' = bits_per_key /\ hash' = hash
      /\ seed' = seed /\ hashes' = hashes /\ block_length' = L
      /\ peel_order' = peel_order
  BY DEF Assign, inputVars, peelVars
<1>2. /\ Remaining = {} /\ L # 0
      /\ reverse \in 0..Len(peel_order)
      /\ fingerprints \in [Table(L) -> SUBSET (0..(bits - 1))]
      /\ \A i \in 1..reverse : fingerprints[peel_order[i].pos] = {}
      /\ \A i \in (reverse + 1)..Len(peel_order) : Solved(peel_order[i].hash)
  BY <1>1 DEF Inv, AssignInv, Values
<1>3. /\ L \in Nat \ {0} /\ hashes \subseteq SUBSET HashBits
      /\ bits \in Nat \ {0}
  BY <1>1, <1>2, RemainingType, FingerprintBitsType DEF Inv
<1>4. /\ peel_order \in Seq(Entries) /\ Len(peel_order) \in Nat
      /\ \A i \in 1..Len(peel_order) :
           /\ peel_order[i].hash \in hashes
           /\ peel_order[i].pos \in Table(L)
           /\ peel_order[i].pos \in GetPositions(peel_order[i].hash, L)
      /\ \A i, j \in 1..Len(peel_order) : i < j =>
           peel_order[i].pos \notin GetPositions(peel_order[j].hash, L)
  BY <1>1 DEF Inv, OrderInv
<1>5. /\ reverse \in 1..Len(peel_order) /\ Entry = peel_order[reverse]
      /\ h \in SUBSET HashBits /\ pos \in Table(L) /\ pos \in GetPositions(h, L)
      /\ fingerprints[pos] = {}
  BY <1>1, <1>2, <1>3, <1>4 DEF Entry
<1> HIDE DEF h, pos, bits, L
<1>6. /\ \A j \in 0..2 : Position(h, L, j) \in Table(L)
      /\ Position(h, L, 0) # Position(h, L, 1)
      /\ Position(h, L, 0) # Position(h, L, 2)
      /\ Position(h, L, 1) # Position(h, L, 2)
      /\ pos \in {Position(h, L, 0), Position(h, L, 1), Position(h, L, 2)}
  BY <1>3, <1>5, PositionsInTable
<1>7. F \subseteq 0..(bits - 1) /\ \A j \in 0..2 : St(j) \subseteq 0..(bits - 1)
  <2>1. \A b \in F : b \in Nat /\ b < bits
    BY <1>5, WordAssumption DEF Fingerprint
  <2>2. F \subseteq 0..(bits - 1)
    BY <1>3, <2>1
  <2>3. \A j \in 0..2 : St(j) \subseteq 0..(bits - 1)
    BY <1>2, <1>6 DEF L, bits
  <2> QED BY <2>2, <2>3
<1> HIDE DEF St, F
<1>8. value \subseteq 0..(bits - 1) /\ {b \in value : b < bits} = value
  <2>1. St(0) \subseteq 0..(bits - 1) /\ St(1) \subseteq 0..(bits - 1)
        /\ St(2) \subseteq 0..(bits - 1)
    BY <1>7
  <2>2. \A b \in value : b \in 0..(bits - 1)
    BY <1>7, <2>1 DEF Xor
  <2>3. \A b \in 0..(bits - 1) : b < bits
    BY <1>3
  <2> HIDE DEF value
  <2> QED BY <2>2, <2>3
<1>9. /\ fingerprints' \in [Table(L) -> SUBSET (0..(bits - 1))]
      /\ fingerprints'[pos] = value
      /\ \A q \in Table(L) : q # pos => fingerprints'[q] = fingerprints[q]
  <2> HIDE DEF value
  <2>1. fingerprints' = [fingerprints EXCEPT ![pos] = value]
    BY <1>1, <1>8 DEF bits
  <2> QED BY <1>2, <1>5, <1>8, <2>1 DEF L, bits
<1>10. bits = fingerprint_bits' /\ Values' = [Table(L) -> SUBSET (0..(bits - 1))]
  BY <1>1 DEF bits, fingerprint_bits, Values
<1>11. ASSUME NEW i \in 1..Len(peel_order), i = reverse
       PROVE  Solved(peel_order[i].hash)'
  <2> DEFINE S(j) == fingerprints'[Position(h, L, j)]
  <2>1. Xor(Xor(S(0), S(1)), S(2)) = F
    <3>1. CASE pos = Position(h, L, 0)
      <4>1. St(0) = {} /\ S(0) = value /\ S(1) = St(1) /\ S(2) = St(2)
        BY <1>5, <1>6, <1>9, <3>1 DEF St
      <4> HIDE DEF S
      <4>2. Xor(Xor(Xor(Xor(Xor(F, {}), St(1)), St(2)), St(1)), St(2)) = F
        BY XorSolves
      <4> QED BY <4>1, <4>2
    <3>2. CASE pos = Position(h, L, 1)
      <4>1. St(1) = {} /\ S(1) = value /\ S(0) = St(0) /\ S(2) = St(2)
        BY <1>5, <1>6, <1>9, <3>2 DEF St
      <4> HIDE DEF S
      <4>2. Xor(Xor(St(0), Xor(Xor(Xor(F, St(0)), {}), St(2))), St(2)) = F
        BY XorSolves
      <4> QED BY <4>1, <4>2
    <3>3. CASE pos = Position(h, L, 2)
      <4>1. St(2) = {} /\ S(2) = value /\ S(0) = St(0) /\ S(1) = St(1)
        BY <1>5, <1>6, <1>9, <3>3 DEF St
      <4> HIDE DEF S
      <4>2. Xor(Xor(St(0), St(1)), Xor(Xor(Xor(F, St(0)), St(1)), {})) = F
        BY XorSolves
      <4> QED BY <4>1, <4>2
    <3> QED BY <1>6, <3>1, <3>2, <3>3
  <2>2. peel_order'[i].hash = h
    BY <1>1, <1>11 DEF h, Entry
  <2>3. /\ bits = fingerprint_bits' /\ block_length' = L
    BY <1>1, <1>10
  <2> QED BY <2>1, <2>2, <2>3 DEF Solved, F
<1>12. ASSUME NEW i \in (reverse + 1)..Len(peel_order)
       PROVE  Solved(peel_order[i].hash)'
  <2> DEFINE g == peel_order[i].hash
  <2>1. i \in 1..Len(peel_order) /\ reverse < i
    BY <1>2, <1>4
  <2>2. g \in SUBSET HashBits /\ pos \notin GetPositions(g, L)
    BY <1>3, <1>4, <1>5, <2>1 DEF pos
  <2> HIDE DEF g
  <2>3. \A j \in 0..2 : Position(g, L, j) \in Table(L)
                        /\ Position(g, L, j) # pos
    BY <1>3, <2>2, PositionsInTable DEF GetPositions
  <2>4. \A j \in 0..2 :
          fingerprints'[Position(g, L, j)] = fingerprints[Position(g, L, j)]
    BY <1>9, <2>3
  <2>5. Solved(g)
    BY <1>2 DEF g
  <2>6. fingerprint_bits' = fingerprint_bits
    BY <1>10 DEF bits
  <2> QED BY <1>1, <2>4, <2>5, <2>6 DEF Solved, L, g
<1>13. ASSUME NEW i \in 1..(reverse - 1)
       PROVE  fingerprints'[peel_order[i].pos] = {}
  <2>1. i \in 1..Len(peel_order) /\ i \in 1..reverse /\ i < reverse
    BY <1>2, <1>4, <1>5
  <2>2. peel_order[i].pos # pos /\ peel_order[i].pos \in Table(L)
    BY <1>4, <1>5, <2>1 DEF h, L
  <2> QED BY <1>2, <1>9, <2>1, <2>2
<1>14. Remaining' = Remaining
  BY <1>1 DEF Remaining
<1>15. InputInv' /\ BuildInv'
  BY <1>1 DEF Inv, InputInv, BuildInv, UniqueHashes, L
<1>16. OrderInv' /\ PeelInv'
  BY <1>1, <1>14 DEF Inv, OrderInv, PeelInv, L
<1>17. AssignInv'
  <2>1. reverse - 1 \in 0..Len(peel_order)
    BY <1>4, <1>5
  <2>2. \A i \in reverse..Len(peel_order) : Solved(peel_order[i].hash)'
    <3>1. \A i \in reverse..Len(peel_order) :
            i = reverse \/ i \in (reverse + 1)..Len(peel_order)
      BY <1>5
    <3> QED BY <1>5, <1>11, <1>12, <3>1
  <2>3. (reverse - 1) + 1 = reverse
    BY <1>5
  <2>4. fingerprints' \in Values' /\ block_length' # 0 /\ Remaining' = {}
    BY <1>1, <1>2, <1>9, <1>10, <1>14 DEF L
  <2> QED BY <1>1, <1>13, <2>1, <2>2, <2>3, <2>4 DEF AssignInv
<1>18. NoFalseNegatives'
  BY <1>1 DEF NoFalseNegatives
<1> QED BY <1>15, <1>16, <1>17, <1>18 DEF Inv

(* Once CreateFilter has returned, only the filter matters. *)
LEMMA DoneKeeps ==
  ASSUME Inv, phase' = "done", UNCHANGED <<inputVars, seed>>,
         \A k \in keys : KeyMayMatch(k, filter)'
  PROVE  Inv'
<1>1. keys' = keys /\ bits_per_key' = bits_per_key /\ hash' = hash /\ seed' = seed
  BY DEF inputVars
<1>2. InputInv'
  BY <1>1 DEF Inv, InputInv
<1>3. BuildInv' /\ OrderInv' /\ PeelInv' /\ AssignInv'
  BY DEF BuildInv, OrderInv, PeelInv, AssignInv
<1>4. NoFalseNegatives'
  BY <1>1 DEF NoFalseNegatives
<1> QED BY <1>2, <1>3, <1>4 DEF Inv

(* The Bloom form accepts every key: the trailer names the seed of the      *)
(* hashes, and the probes of each are set.                                  *)
LEMMA BloomKeeps ==
  ASSUME Inv, phase' = "done", UNCHANGED <<inputVars, seed>>,
         filter' = BuildBloomEncoding(UniqueHashes(0), 0)
  PROVE  Inv'
<1> DEFINE words == {BloomWord(h) : h \in UniqueHashes(0)}
<1>1. hash' = hash
  BY DEF inputVars
<1>2. ASSUME NEW k \in keys
      PROVE  KeyMayMatch(k, filter)'
  <2>1. BloomWord(hash[<<k, 0>>]) \in words
    BY DEF UniqueHashes
  <2> HIDE DEF words
  <2>2. /\ filter'.seed = 0
        /\ \/ filter'.type = "always"
           \/ filter'.type = "bloom" /\ BloomAccepts(BloomWord(hash[<<k, 0>>]), filter')
    BY <2>1, BloomComplete DEF BuildBloomEncoding, words
  <2>3. CASE filter'.type = "always"
    BY <2>3 DEF KeyMayMatch
  <2>4. CASE filter'.type = "bloom" /\ BloomAccepts(BloomWord(hash[<<k, 0>>]), filter')
    <3>1. BloomMayMatch(k, filter)'
      BY <1>1, <2>2, <2>4 DEF BloomMayMatch, BloomWord
    <3> QED BY <2>4, <3>1 DEF KeyMayMatch
  <2> QED BY <2>2, <2>3, <2>4
<1> QED BY <1>2, DoneKeeps

(* The Xor form accepts every key: each hash is solved, and reading the     *)
(* payload gives back the values stored.                                    *)
LEMMA EncodeKeeps ==
  ASSUME Inv, Encode
  PROVE  Inv'
<1> DEFINE L == block_length
           bits == fingerprint_bits
<1>1. /\ phase = "assign" /\ reverse = 0 /\ phase' = "done"
      /\ filter'.type = "xor" /\ filter'.seed = seed /\ filter'.length = L
      /\ filter'.aux = bits /\ filter'.payload = Packed(fingerprints, bits)
      /\ UNCHANGED <<inputVars, seed>>
      /\ hash' = hash
  BY DEF Encode, Encoded, inputVars
<1>2. /\ Remaining = {} /\ L # 0
      /\ fingerprints \in [Table(L) -> SUBSET (0..(bits - 1))]
      /\ \A i \in 1..Len(peel_order) : Solved(peel_order[i].hash)
  <2>1. reverse + 1 = 1
    BY <1>1
  <2> QED BY <1>1, <2>1 DEF Inv, AssignInv, Values
<1>3. /\ L \in Nat \ {0} /\ hashes \subseteq SUBSET HashBits
      /\ bits \in Nat \ {0} /\ hashes = UniqueHashes(seed)
  BY <1>1, <1>2, RemainingType, FingerprintBitsType DEF Inv, BuildInv
<1>4. ASSUME NEW k \in keys
      PROVE  KeyMayMatch(k, filter)'
  <2> DEFINE h == hash[<<k, seed>>]
  <2>1. h \in hashes /\ h \in SUBSET HashBits
    BY <1>3 DEF UniqueHashes
  <2>2. Solved(h)
    <3>1. PICK i \in 1..Len(peel_order) : peel_order[i].hash = h
      BY <1>2, <2>1 DEF Remaining
    <3> QED BY <1>2, <3>1
  <2> HIDE DEF h, L, bits
  <2>3. ASSUME NEW j \in 0..2
        PROVE  ReadPackedValue(filter', Position(h, L, j), bits)
                 = fingerprints[Position(h, L, j)]
    <3>1. Position(h, L, j) \in Table(L)
      BY <1>3, <2>1, PositionsInTable
    <3>2. Table(L) \in SUBSET Nat
      BY <1>3 DEF Table
    <3> QED BY <1>1, <1>2, <1>3, <3>1, <3>2, ReadBack DEF L, bits
  <2> DEFINE V(j) == ReadPackedValue(filter', Position(h, L, j), bits)
             S(j) == fingerprints[Position(h, L, j)]
  <2>4. V(0) = S(0) /\ V(1) = S(1) /\ V(2) = S(2)
    BY <2>3
  <2>5. Xor(Xor(S(0), S(1)), S(2)) = Fingerprint(h, bits)
    BY <2>2 DEF Solved, L, bits
  <2>6. Xor(Xor(V(0), V(1)), V(2)) = Fingerprint(h, bits)
    <3> HIDE DEF V, S
    <3> QED BY <2>4, <2>5
  <2>7. hash'[<<k, filter'.seed>>] = h
    BY <1>1 DEF h
  <2>8. XorMayMatch(k, filter)'
    BY <1>1, <2>6, <2>7 DEF XorMayMatch, L, bits
  <2> QED BY <1>1, <2>8 DEF KeyMayMatch
<1> QED BY <1>1, <1>4, DoneKeeps

-----------------------------------------------------------------------------
(* The theorems *)

(* CreateFilter keeps the invariant from its first step to its return.      *)
THEOREM Invariance == Spec => []Inv
<1>1. Init => Inv
  <2> SUFFICES ASSUME Init PROVE Inv
    OBVIOUS
  <2>1. 0 \in Seeds
    BY ParameterAssumption DEF Seeds
  <2>2. InputInv
    BY <2>1 DEF Init, InputInv
  <2>3. phase = "start"
    BY DEF Init
  <2> QED BY <2>2, <2>3 DEF Inv, BuildInv, OrderInv, PeelInv, AssignInv,
                            NoFalseNegatives
<1>2. Inv /\ [Next]_vars => Inv'
  <2> SUFFICES ASSUME Inv, [Next]_vars PROVE Inv'
    OBVIOUS
  <2>1. seed \in Seeds /\ 0 \in Seeds /\ (seed + 1 < kMaxSeedTries => seed + 1 \in Seeds)
    BY ParameterAssumption DEF Inv, InputInv, Seeds
  <2>2. CASE CreateEmpty
    <3>1. phase' = "done" /\ UNCHANGED <<inputVars, seed>> /\ keys = {}
      BY <2>2 DEF CreateEmpty
    <3> QED BY <3>1, DoneKeeps
  <2>3. CASE CreateBloom
    BY <2>3, BloomKeeps DEF CreateBloom
  <2>4. CASE CreateXor
    BY <2>1, <2>4, StartSeedKeeps DEF CreateXor
  <2>5. ASSUME NEW p \in queue, PeelStale(p) \/ Peel(p)
        PROVE  Inv'
    <3>1. OrderInv' /\ PeelInv'
      BY <2>5, PeelKeeps, PeelStaleKeeps
    <3>2. /\ phase = "peel" /\ phase' = phase /\ hashes' = hashes
          /\ block_length' = block_length /\ seed' = seed /\ keys' = keys
          /\ bits_per_key' = bits_per_key /\ hash' = hash
      BY <2>5 DEF PeelStale, Peel, inputVars
    <3>3. InputInv' /\ BuildInv'
      BY <3>2 DEF Inv, InputInv, BuildInv, UniqueHashes
    <3>4. AssignInv' /\ NoFalseNegatives'
      BY <3>2 DEF AssignInv, NoFalseNegatives
    <3> QED BY <3>1, <3>3, <3>4 DEF Inv
  <2>6. CASE Retry
    <3>1. keys # {}
      BY <2>6 DEF Retry, Inv, BuildInv
    <3> QED BY <2>1, <2>6, <3>1, StartSeedKeeps DEF Retry
  <2>7. CASE GiveUp
    BY <2>7, BloomKeeps DEF GiveUp
  <2>8. CASE StartAssign
    BY <2>8, StartAssignKeeps
  <2>9. CASE Assign
    BY <2>9, AssignKeeps
  <2>10. CASE Encode
    BY <2>10, EncodeKeeps
  <2>11. CASE UNCHANGED vars
    <3>1. /\ UNCHANGED <<phase, seed, hashes, block_length, keys, bits_per_key,
                         hash, counts, hash_xors, queue, peel_order,
                         fingerprints, reverse, filter>>
      BY <2>11 DEF vars, inputVars, peelVars, assignVars
    <3>2. Remaining' = Remaining /\ fingerprint_bits' = fingerprint_bits
      BY <3>1 DEF Remaining, fingerprint_bits
    <3>3. InputInv' /\ BuildInv' /\ OrderInv' /\ PeelInv'
      <4>1. InputInv' /\ BuildInv'
        BY <3>1 DEF Inv, InputInv, BuildInv, UniqueHashes
      <4>2. OrderInv'
        BY <3>1, <3>2 DEF Inv, OrderInv
      <4>3. PeelInv'
        BY <3>1, <3>2 DEF Inv, PeelInv
      <4> QED BY <4>1, <4>2, <4>3
    <3>4. AssignInv'
      BY <3>1, <3>2 DEF Inv, AssignInv, Values, Solved
    <3>5. NoFalseNegatives'
      BY <3>1 DEF Inv, NoFalseNegatives, KeyMayMatch, BloomMayMatch, XorMayMatch, BloomWord
    <3> QED BY <3>3, <3>4, <3>5 DEF Inv
  <2> QED BY <2>2, <2>3, <2>4, <2>5, <2>6, <2>7, <2>8, <2>9, <2>10, <2>11
          DEF Next, Step, Terminated
<1> QED BY <1>1, <1>2, PTL DEF Spec

(* A filter never denies a key it was built from.  The argument: peeling    *)
(* takes a hash only when it is alone at a position, so filling positions   *)
(* in the reverse order never disturbs a hash already solved; packing loses *)
(* nothing; and each encoding names the seed its hashes were made with.     *)
THEOREM FilterComplete == Spec => []NoFalseNegatives
<1>1. Inv => NoFalseNegatives
  BY DEF Inv
<1> QED BY <1>1, Invariance, PTL

(* TryBuildXor abandons a seed only when every position that the remaining  *)
(* hashes use is shared: the work list never loses a position whose count   *)
(* has fallen to 1.                                                         *)
THEOREM SeedAbandonedOnCore == Spec => []RetryOnlyOnCore
<1>1. Inv => RetryOnlyOnCore
  <2> SUFFICES ASSUME Inv, phase = "peel", queue = {},
                      NEW p \in Table(block_length)
               PROVE  Cardinality(Occupants(Remaining, block_length, p)) # 1
    BY DEF RetryOnlyOnCore
  <2>1. counts[p] # 1 /\ counts = Counts(Remaining, block_length)
    BY DEF Inv, PeelInv
  <2> QED BY <2>1 DEF Counts
<1> QED BY <1>1, Invariance, PTL

-----------------------------------------------------------------------------
(* CreateFilter returns *)

(* Before the first attempt the seed is the first one.                      *)
StartInv == phase = "start" => seed = 0

(* What is left to do is counted in natural numbers.                        *)
WorkInv ==
  /\ kMaxSeedTries - seed \in Nat
  /\ phase = "peel" => /\ Cardinality(hashes) - Len(peel_order) \in Nat
                       /\ IsFiniteSet(queue) /\ Cardinality(queue) \in Nat
  /\ phase = "assign" => reverse \in Nat

(* That follows from the invariant: fewer hashes are peeled than there are, *)
(* and the work list holds positions of the table.                          *)
LEMMA WorkType ==
  ASSUME Inv
  PROVE  WorkInv
<1>1. kMaxSeedTries - seed \in Nat
  BY ParameterAssumption DEF Inv, InputInv, Seeds
<1>2. ASSUME phase = "peel"
      PROVE  /\ Cardinality(hashes) - Len(peel_order) \in Nat
             /\ IsFiniteSet(queue) /\ Cardinality(queue) \in Nat
  <2>1. Cardinality(Remaining) \in Nat /\ block_length \in Nat
    BY <1>2, RemainingType
  <2>2. Cardinality(Remaining) = Cardinality(hashes) - Len(peel_order)
    BY <1>2 DEF Inv, OrderInv
  <2>3. IsFiniteSet(Table(block_length))
    <3>1. 3 * block_length - 1 \in Int
      BY <2>1
    <3> QED BY <3>1, FS_Interval DEF Table
  <2>4. IsFiniteSet(queue)
    BY <1>2, <2>3, FS_Subset DEF Inv, PeelInv
  <2> QED BY <2>1, <2>2, <2>4, FS_CardinalityType
<1>3. phase = "assign" => reverse \in Nat
  BY DEF Inv, AssignInv
<1> QED BY <1>1, <1>2, <1>3 DEF WorkInv

(* A hash that is peeled leaves the work list with at most its other        *)
(* positions in its place.                                                  *)
LEMMA PeelShrinks ==
  ASSUME Inv, NEW p \in queue, Peel(p)
  PROVE  3 * (Cardinality(hashes') - Len(peel_order')) + Cardinality(queue')
           < 3 * (Cardinality(hashes) - Len(peel_order)) + Cardinality(queue)
<1> DEFINE h == hash_xors[p]
           P == GetPositions(h, block_length)
           more == Pushed({q \in P : counts[q] # 0})
           m == Cardinality(hashes) - Len(peel_order)
<1>1. /\ phase = "peel" /\ phase' = "peel" /\ hashes' = hashes
      /\ peel_order' = Append(peel_order, [hash |-> h, pos |-> p])
      /\ queue' = (queue \ {p}) \cup more
  BY DEF Peel
<1>2. /\ IsFiniteSet(queue) /\ Cardinality(queue) \in Nat /\ m \in Nat
      /\ Cardinality(hashes) \in Nat
  BY <1>1, WorkType, RemainingType DEF WorkInv
<1>3. Len(peel_order') = Len(peel_order) + 1 /\ Len(peel_order) \in Nat
  <2>1. peel_order \in Seq(Entries)
    BY <1>1 DEF Inv, OrderInv
  <2> HIDE DEF h
  <2> QED BY <1>1, <2>1
<1>4. IsFiniteSet(P) /\ Cardinality(P) <= 3 /\ Cardinality(P) \in Nat
  <2> DEFINE f == [j \in 0..2 |-> Position(h, block_length, j)]
  <2>1. f \in Surjection(0..2, P)
    BY DEF Surjection, GetPositions
  <2>2. IsFiniteSet(0..2) /\ Cardinality(0..2) = 3
    <3>1. ASSUME NEW n \in Nat
          PROVE  IsFiniteSet(0..n) /\ Cardinality(0..n) = n + 1
      BY FS_Interval
    <3>2. 2 \in Nat /\ 2 + 1 = 3
      OBVIOUS
    <3> QED BY <3>1, <3>2, Zenon
  <2>3. IsFiniteSet(P) /\ Cardinality(P) <= Cardinality(0..2)
    BY <2>1, <2>2, FS_Surjection
  <2> QED BY <2>2, <2>3, FS_CardinalityType
<1> HIDE DEF P, h
<1>5. IsFiniteSet(more) /\ Cardinality(more) <= 3 /\ Cardinality(more) \in Nat
  <2>1. more \in SUBSET P
    BY DEF Pushed
  <2> QED BY <1>4, <2>1, FS_Subset, FS_CardinalityType
<1> HIDE DEF more
<1>6. IsFiniteSet(queue \ {p}) /\ Cardinality(queue \ {p}) = Cardinality(queue) - 1
  BY <1>2, FS_RemoveElement
<1>7. Cardinality(queue') <= Cardinality(queue) - 1 + 3
  <2>1. IsFiniteSet((queue \ {p}) \cap more)
    BY <1>5, FS_Intersection
  <2>2. Cardinality((queue \ {p}) \cap more) \in Nat
    BY <2>1, FS_CardinalityType
  <2>3. Cardinality(queue') = Cardinality(queue \ {p}) + Cardinality(more)
                                - Cardinality((queue \ {p}) \cap more)
    BY <1>1, <1>5, <1>6, FS_Union
  <2> QED BY <1>2, <1>5, <1>6, <2>2, <2>3
<1>8. Cardinality(queue') \in Nat
  <2>1. IsFiniteSet(queue')
    BY <1>1, <1>5, <1>6, FS_Union
  <2> QED BY <2>1, FS_CardinalityType
<1>9. Cardinality(hashes') - Len(peel_order') = m - 1
  BY <1>1, <1>2, <1>3
<1> HIDE DEF m
<1> QED BY <1>2, <1>7, <1>8, <1>9 DEF m

(* Every step of CreateFilter leaves less to do.                            *)
LEMMA StepShrinks ==
  ASSUME Inv, WorkInv', seed' \in Seeds, StartInv, Next
  PROVE  Descends(Work', Work) \/ UNCHANGED vars
<1> DEFINE s == kMaxSeedTries - seed
<1>0. s \in Nat /\ s' \in Nat
  BY WorkType DEF WorkInv
<1>a. kMaxSeedTries \in Nat /\ seed \in Nat /\ seed' \in Nat
  BY ParameterAssumption DEF Inv, InputInv, Seeds
<1>b. 3 * (Cardinality(hashes) - Len(peel_order)) + Cardinality(queue) \in Nat
      \/ phase # "peel"
  BY WorkType DEF WorkInv
<1>c. 3 * (Cardinality(hashes') - Len(peel_order')) + Cardinality(queue') \in Nat
      \/ phase' # "peel"
  BY WorkType DEF WorkInv
<1>d. /\ phase = "start" => Work = <<s, 3, 0>>
      /\ phase = "peel" => Work = <<s, 2,
           3 * (Cardinality(hashes) - Len(peel_order)) + Cardinality(queue)>>
      /\ phase = "assign" => Work = <<s, 1, reverse>>
      /\ phase = "done" => Work = <<s, 0, 0>>
  BY DEF Work
<1>e. /\ phase' = "peel" => Work' = <<s', 2,
           3 * (Cardinality(hashes') - Len(peel_order')) + Cardinality(queue')>>
      /\ phase' = "assign" => Work' = <<s', 1, reverse'>>
      /\ phase' = "done" => Work' = <<s', 0, 0>>
  BY DEF Work
<1>f. (phase = "assign" => reverse \in Nat) /\ (phase' = "assign" => reverse' \in Nat)
  BY WorkType DEF WorkInv
<1> DEFINE w == 3 * (Cardinality(hashes) - Len(peel_order)) + Cardinality(queue)
<1> HIDE DEF s
<1>1. CASE CreateEmpty \/ CreateBloom
  <2>1. phase = "start" /\ phase' = "done" /\ s' = s
    BY <1>1 DEF CreateEmpty, CreateBloom, s
  <2> QED BY <1>0, <1>d, <1>e, <2>1, TripleDescends
<1>2. CASE CreateXor
  <2>1. phase = "start" /\ phase' = "peel" /\ s' = s
    BY <1>2 DEF CreateXor, StartSeed, StartInv, s
  <2> HIDE DEF w
  <2> QED BY <1>0, <1>c, <1>d, <1>e, <2>1, TripleDescends DEF w
<1>3. ASSUME NEW p \in queue, PeelStale(p)
      PROVE  Descends(Work', Work)
  <2>1. /\ phase = "peel" /\ phase' = "peel" /\ s' = s /\ hashes' = hashes
        /\ peel_order' = peel_order /\ queue' = queue \ {p}
    BY <1>3 DEF PeelStale, s
  <2>2. /\ IsFiniteSet(queue) /\ Cardinality(queue) \in Nat
        /\ Cardinality(hashes) - Len(peel_order) \in Nat
    BY <2>1, WorkType DEF WorkInv
  <2>3. Cardinality(queue') = Cardinality(queue) - 1
    BY <2>1, <2>2, FS_RemoveElement
  <2>4. w' < w
    BY <2>1, <2>2, <2>3
  <2> QED BY <1>0, <1>b, <1>c, <1>d, <1>e, <2>1, <2>4, TripleDescends
<1>4. ASSUME NEW p \in queue, Peel(p)
      PROVE  Descends(Work', Work)
  <2>1. phase = "peel" /\ phase' = "peel" /\ s' = s
    BY <1>4 DEF Peel, s
  <2>2. w' < w
    BY <1>4, PeelShrinks
  <2> QED BY <1>0, <1>b, <1>c, <1>d, <1>e, <2>1, <2>2, TripleDescends
<1>5. CASE Retry
  <2>1. phase = "peel" /\ phase' = "peel" /\ seed' = seed + 1
    BY <1>5 DEF Retry, StartSeed
  <2>2. s' < s
    BY <1>a, <2>1 DEF s
  <2> QED BY <1>0, <1>b, <1>c, <1>d, <1>e, <2>1, <2>2, TripleDescends
<1>6. CASE GiveUp
  <2>1. phase = "peel" /\ phase' = "done" /\ s' = s
    BY <1>6 DEF GiveUp, s
  <2> QED BY <1>0, <1>b, <1>d, <1>e, <2>1, TripleDescends
<1>7. CASE StartAssign
  <2>1. phase = "peel" /\ phase' = "assign" /\ s' = s
    BY <1>7 DEF StartAssign, s
  <2> QED BY <1>0, <1>b, <1>d, <1>e, <1>f, <2>1, TripleDescends
<1>8. CASE Assign
  <2>1. phase = "assign" /\ phase' = "assign" /\ s' = s /\ reverse' = reverse - 1
    BY <1>8 DEF Assign, s
  <2> QED BY <1>0, <1>d, <1>e, <1>f, <2>1, TripleDescends
<1>9. CASE Encode
  <2>1. phase = "assign" /\ phase' = "done" /\ s' = s
    BY <1>9 DEF Encode, s
  <2> QED BY <1>0, <1>d, <1>e, <1>f, <2>1, TripleDescends
<1> QED BY <1>1, <1>2, <1>3, <1>4, <1>5, <1>6, <1>7, <1>8, <1>9
        DEF Next, Step, Terminated

(* CreateFilter returns for every set of keys and every hash function: each *)
(* step takes the seeds, the phases of an attempt and the iterations of its *)
(* loop down, in that order, and natural numbers do not go down forever.    *)
THEOREM CreateFilterReturns == Spec => WorkShrinks
<1>1. Init => StartInv
  BY DEF Init, StartInv
<1>2. StartInv /\ [Next]_vars => StartInv'
  BY DEF StartInv, Next, Step, Terminated, vars, CreateEmpty, CreateBloom,
         CreateXor, StartSeed, PeelStale, Peel, Retry, GiveUp, StartAssign,
         Assign, Encode
<1>3. Inv => WorkInv /\ seed \in Seeds
  BY WorkType DEF Inv, InputInv
<1>4. Inv /\ (WorkInv /\ seed \in Seeds)' /\ StartInv /\ [Next]_vars
      => [Descends(Work', Work)]_vars
  BY StepShrinks
<1> QED BY <1>1, <1>2, <1>3, <1>4, Invariance, PTL DEF Spec, WorkShrinks

=============================================================================
