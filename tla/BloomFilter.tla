---------------------------- MODULE BloomFilter ----------------------------
(***************************************************************************)
(* The stock Bloom filter of LevelDB (util/bloom.cc) the way a table uses  *)
(* it: CreateFilter appends one filter after another to the string of the  *)
(* filter block, and KeyMayMatch is later given the slice of one of them.  *)
(* The reader knows neither the number of keys nor the policy that built   *)
(* the slice; it works out the number of bits from the length and takes    *)
(* the number of probes from the last byte.                                *)
(*                                                                         *)
(* The array is the set of its 1 bits, counted from the start of the       *)
(* string.  A key is <<hash, delta>>, its hash and the hash rotated.       *)
(***************************************************************************)
EXTENDS FilterFormat, Sequences

CONSTANTS
  Words,       \* the keys that occur
  BitsPerKey,  \* the values of bits_per_key_ that occur
  MaxKeys,     \* bound: keys of one filter
  MaxFilters   \* bound: filters of one block

ASSUME BloomAssumption ==
  /\ Words \subseteq (0..(WordSize - 1)) \X (0..(WordSize - 1))
  /\ BitsPerKey \subseteq Nat

VARIABLES
  ones,    \* the 1 bits of dst
  size,    \* its bytes
  filters  \* its filters: slice, probe count, and (history) the keys

vars == <<ones, size, filters>>

Init == ones = {} /\ size = 0 /\ filters = <<>>

(* Mutant: the number of bits is not brought up to whole bytes. *)
UnroundedBits(n, bits_per_key) ==
  IF n * bits_per_key < 64 THEN 64 ELSE n * bits_per_key

(* The bits of the array: at least 64, and whole bytes. *)
ArrayBits(n, bits_per_key) ==
  LET bits == IF n * bits_per_key < 64 THEN 64 ELSE n * bits_per_key
  IN 8 * ((bits + 7) \div 8)

(* The first bit of the array that begins after init_size bytes. *)
Array(init_size) == 8 * init_size

(* The 1 bits the keys of S get in an array of that many bits. *)
BitsSet(S, probes, bits, init_size) ==
  UNION {{Array(init_size) + p : p \in Probes(w, probes, bits)} : w \in S}

CreateFilter(keys, bits_per_key) ==
  LET bits == ArrayBits(Len(keys), bits_per_key)
      S == {keys[i] : i \in DOMAIN keys}
      limit == size + (bits + 7) \div 8 + 1
      k == BloomProbeCount(bits_per_key)
  IN /\ ones' = ones \cup BitsSet(S, k, bits, size)
     /\ size' = limit
     /\ filters' = Append(filters, [start |-> size, limit |-> limit,
                                    k |-> k, keys |-> S])

KeyMayMatch(w, f) ==
  LET bits == (f.limit - f.start - 1) * 8
  IN /\ f.limit - f.start >= 2
     /\ \/ f.k > 30
        \/ \A p \in Probes(w, f.k, bits) : 8 * f.start + p \in ones

Next ==
  /\ Len(filters) < MaxFilters
  /\ \E n \in 1..MaxKeys, bits_per_key \in BitsPerKey :
       \E keys \in [1..n -> Words] : CreateFilter(keys, bits_per_key)

Spec == Init /\ [][Next]_vars

-----------------------------------------------------------------------------
(* A filter accepts every key it was built from, whatever the number of    *)
(* keys, the policy, the position in the string and the filters appended   *)
(* after it: reader and writer must agree on the bits of every probe.      *)
NoFalseNegatives ==
  \A i \in DOMAIN filters : \A w \in filters[i].keys :
    KeyMayMatch(w, filters[i])

(* Appending a filter changes no answer of an earlier one: its bits stay   *)
(* inside its own array.                                                   *)
AnswersStable ==
  [][\A i \in DOMAIN filters : \A w \in Words :
       KeyMayMatch(w, filters[i])' = KeyMayMatch(w, filters[i])]_vars
=============================================================================
