---------------------------- MODULE FilterFormat ----------------------------
(***************************************************************************)
(* What the Xor and the Ribbon filter of LevelDB have in common: the       *)
(* packed payload and its trailer, the sizes the choice of an encoding     *)
(* rests on, and the Bloom filter both fall back to.  Each filter's file   *)
(* has its own copy of this code; the copies agree.                        *)
(*                                                                         *)
(* A machine word that is treated bit by bit is the set of its 1 bits, so  *)
(* exclusive or is the symmetric difference and a mask an intersection.    *)
(***************************************************************************)
EXTENDS Integers, FiniteSets

CONSTANT WordSize  \* 2^32

ASSUME WordSizeAssumption == WordSize \in Nat \ {0}

Xor(a, b) == (a \ b) \cup (b \ a)

(* The exclusive or of the values at the indices S. *)
XorOf(values, S) ==
  {b \in UNION {values[q] : q \in S} :
     Cardinality({q \in S : b \in values[q]}) % 2 = 1}

(* FastRange32 maps a word to 0..(range - 1). *)
FastRange32(word, range) == (word * range) \div WordSize

-----------------------------------------------------------------------------
(* Sizes *)

(* ceil(bits_per_key * ln 2), between 1 and 16. *)
ComputeFingerprintBits(bits_per_key) ==
  LET bits == (bits_per_key * 693148 + 999999) \div 1000000
  IN IF bits < 1 THEN 1 ELSE IF bits > 16 THEN 16 ELSE bits

BloomProbeCount(bits_per_key) ==
  LET probes == (bits_per_key * 69) \div 100
  IN IF probes < 1 THEN 1 ELSE IF probes > 30 THEN 30 ELSE probes

(* 0 when the number of bits does not fit a word. *)
BloomBitCount(n, bits_per_key) ==
  LET least == IF n * bits_per_key < 64 THEN 64 ELSE n * bits_per_key
      bits == 8 * ((least + 7) \div 8)
  IN IF bits > WordSize - 1 THEN 0 ELSE bits

PackedByteSize(n, bits) == (n * bits + 7) \div 8

(* Whether a payload is smaller than that of the Bloom filter for n keys.   *)
SmallerThanBloom(size, n, bits_per_key) ==
  \/ BloomBitCount(n, bits_per_key) = 0
  \/ size < BloomBitCount(n, bits_per_key) \div 8

-----------------------------------------------------------------------------
(* The encoded filter: payload as the set of its 1 bits, its size in bytes, *)
(* and the fields of the trailer.                                           *)

Encoded(type, s, length, aux, payload, size) ==
  [type |-> type, seed |-> s, length |-> length, aux |-> aux,
   payload |-> payload, size |-> size]

NoFilter == Encoded("none", 0, 0, 0, {}, 0)

EmptyFilter == Encoded("empty", 0, 0, 0, {}, 0)

(* AppendPackedValues: value i occupies the bits from i * bits on.          *)
Packed(values, bits) ==
  UNION {{i * bits + b : b \in values[i]} : i \in DOMAIN values}

ReadPackedValue(f, i, bits) == {b \in 0..(bits - 1) : i * bits + b \in f.payload}

(* ReadPackedValue's test that the value lies inside the payload. *)
Readable(f, i, bits) ==
  LET shift == (i * bits) % 8
  IN (i * bits) \div 8 + (shift + bits + 7) \div 8 <= f.size

-----------------------------------------------------------------------------
(* The Bloom fallback.  A key is given by w = <<hash, delta>>: hash is the  *)
(* first probe and advances by delta, modulo 2^32.                          *)

Probe(w, i, bits) == ((w[1] + i * w[2]) % WordSize) % bits

Probes(w, probes, bits) == {Probe(w, i, bits) : i \in 0..(probes - 1)}

BloomEncoding(s, n, bits_per_key, words) ==
  LET bits == BloomBitCount(n, bits_per_key)
      probes == BloomProbeCount(bits_per_key)
  IN IF bits = 0 THEN Encoded("always", s, 0, 0, {}, 0)
     ELSE Encoded("bloom", s, bits, probes,
                  UNION {Probes(w, probes, bits) : w \in words}, bits \div 8)

BloomAccepts(w, f) ==
  \/ f.length < 64 \/ f.aux < 1 \/ f.aux > 30 \/ f.size # (f.length + 7) \div 8
  \/ Probes(w, f.aux, f.length) \subseteq f.payload

(* a is below b in the lexicographic order of tuples of natural numbers,    *)
(* which is well founded: a loop that descends in it ends.                  *)
Descends(a, b) ==
  /\ \A i \in DOMAIN a : a[i] >= 0
  /\ \E i \in DOMAIN a : a[i] < b[i] /\ \A j \in 1..(i - 1) : a[j] = b[j]

=============================================================================
