------------------------ MODULE FilterFormatProofs ------------------------
(***************************************************************************)
(* Facts about the encoding both filters use: what is packed can be read   *)
(* back, the Bloom fallback accepts its keys, and exclusive or.            *)
(***************************************************************************)
EXTENDS FilterFormat, FiniteSetTheorems, TLAPS

-----------------------------------------------------------------------------
(* Arithmetic *)

(* Scaling a number below M to the range of L. *)
LEMMA ScaledBelow ==
  ASSUME NEW M \in Nat \ {0}, NEW w \in 0..(M - 1), NEW L \in Nat \ {0}
  PROVE  (w * L) \div M \in 0..(L - 1)
<1>1. w * L <= (M - 1) * L
  OBVIOUS
<1>2. (M - 1) * L = M * L - L
  OBVIOUS
<1>3. w * L \in Nat /\ w * L < M * L
  BY <1>1, <1>2
<1> DEFINE d == (w * L) \div M
<1>4. d \in Nat /\ M * d <= w * L
  BY <1>3
<1>5. ~(d >= L)
  <2> SUFFICES ASSUME d >= L PROVE FALSE
    OBVIOUS
  <2>1. M * d >= M * L
    BY <1>4
  <2> QED BY <1>3, <1>4, <2>1
<1> QED BY <1>4, <1>5

(* FastRange32 stays below the range. *)
LEMMA FastRange ==
  ASSUME NEW w \in 0..(WordSize - 1), NEW L \in Nat \ {0}
  PROVE  FastRange32(w, L) \in 0..(L - 1)
BY WordSizeAssumption, ScaledBelow DEF FastRange32

(* A fingerprint has at least one bit. *)
LEMMA ResultBitsType ==
  ASSUME NEW n \in Nat
  PROVE  ComputeFingerprintBits(n) \in Nat \ {0}
<1>1. (n * 693148 + 999999) \div 1000000 \in Nat
  OBVIOUS
<1> QED BY <1>1 DEF ComputeFingerprintBits

(* The bits of two packed values do not meet. *)
LEMMA PackedApart ==
  ASSUME NEW i \in Nat, NEW j \in Nat, NEW n \in Nat \ {0},
         NEW b \in 0..(n - 1), NEW c \in 0..(n - 1), i * n + b = j * n + c
  PROVE  i = j /\ b = c
<1>1. ASSUME NEW x \in Nat, NEW y \in Nat, x < y
      PROVE  x * n + n <= y * n
  <2>1. (x + 1) * n <= y * n
    BY <1>1
  <2>2. (x + 1) * n = x * n + n
    OBVIOUS
  <2> QED BY <2>1, <2>2
<1>2. ~(i < j)
  BY <1>1
<1>3. ~(j < i)
  BY <1>1
<1>4. i = j
  BY <1>2, <1>3
<1> QED BY <1>4

(* Reading a value from the packed payload gives back what was packed.      *)
LEMMA ReadBack ==
  ASSUME NEW n \in Nat \ {0}, NEW D \in SUBSET Nat,
         NEW values \in [D -> SUBSET (0..(n - 1))], NEW i \in D,
         NEW f, f.payload = Packed(values, n)
  PROVE  ReadPackedValue(f, i, n) = values[i]
<1>2. ASSUME NEW b \in 0..(n - 1)
      PROVE  i * n + b \in Packed(values, n) <=> b \in values[i]
  <2>1. ASSUME b \in values[i]
        PROVE  i * n + b \in Packed(values, n)
    BY <2>1 DEF Packed
  <2>2. ASSUME i * n + b \in Packed(values, n)
        PROVE  b \in values[i]
    <3>1. PICK j \in D : \E c \in values[j] : i * n + b = j * n + c
      BY <2>2 DEF Packed
    <3>2. PICK c \in values[j] : i * n + b = j * n + c
      BY <3>1
    <3>3. c \in 0..(n - 1) /\ i \in Nat /\ j \in Nat
      OBVIOUS
    <3>4. i = j /\ b = c
      BY <3>2, <3>3, PackedApart
    <3> QED BY <3>4
  <2> QED BY <2>1, <2>2
<1> QED BY <1>2 DEF ReadPackedValue

(* The Bloom fallback accepts every word it was built from. *)
LEMMA BloomComplete ==
  ASSUME NEW s, NEW n, NEW bpk, NEW words, NEW w \in words, NEW f,
         f = BloomEncoding(s, n, bpk, words)
  PROVE  /\ f.seed = s
         /\ f.type = "always" \/ (f.type = "bloom" /\ BloomAccepts(w, f))
<1> DEFINE bits == BloomBitCount(n, bpk)
           probes == BloomProbeCount(bpk)
<1>1. CASE bits = 0
  BY <1>1 DEF BloomEncoding, Encoded
<1>2. CASE bits # 0
  <2> HIDE DEF bits, probes
  <2>1. /\ f.type = "bloom" /\ f.seed = s /\ f.length = bits /\ f.aux = probes
        /\ f.payload = UNION {Probes(v, probes, bits) : v \in words}
    BY <1>2 DEF BloomEncoding, Encoded, bits, probes
  <2>2. Probes(w, f.aux, f.length) \subseteq f.payload
    BY <2>1
  <2> QED BY <2>1, <2>2 DEF BloomAccepts
<1> QED BY <1>1, <1>2

-----------------------------------------------------------------------------
(* Exclusive or *)

(* A fingerprint stored at one of three positions, the others known, makes  *)
(* the three yield it again.                                                *)
LEMMA XorSolves ==
  ASSUME NEW F, NEW x, NEW y
  PROVE  LET v0 == Xor(Xor(Xor(F, {}), x), y)
             v1 == Xor(Xor(Xor(F, x), {}), y)
             v2 == Xor(Xor(Xor(F, x), y), {})
         IN /\ Xor(Xor(v0, x), y) = F
            /\ Xor(Xor(x, v1), y) = F
            /\ Xor(Xor(x, y), v2) = F
BY DEF Xor

(* A symmetric difference has an odd number of elements if exactly one of   *)
(* the two sets has.                                                        *)
LEMMA XorParity ==
  ASSUME NEW A, NEW B, IsFiniteSet(A), IsFiniteSet(B)
  PROVE  (Cardinality(Xor(A, B)) % 2 = 1)
           <=> ~(Cardinality(A) % 2 = 1 <=> Cardinality(B) % 2 = 1)
<1> DEFINE I == A \cap B
<1>1. /\ IsFiniteSet(A \cup B)
      /\ Cardinality(A \cup B) = Cardinality(A) + Cardinality(B) - Cardinality(I)
  BY FS_Union
<1>2. Xor(A, B) = (A \cup B) \ I /\ (A \cup B) \cap I = I
  BY DEF Xor
<1>3. /\ IsFiniteSet(I)
      /\ Cardinality((A \cup B) \ I) = Cardinality(A \cup B) - Cardinality((A \cup B) \cap I)
  BY <1>1, FS_Difference, FS_Intersection
<1> HIDE DEF I
<1>4. Cardinality(A) \in Nat /\ Cardinality(B) \in Nat /\ Cardinality(I) \in Nat
  BY <1>3, FS_CardinalityType
<1>5. Cardinality(Xor(A, B)) = Cardinality(A) + Cardinality(B) - 2 * Cardinality(I)
  <2> DEFINE x == Cardinality(A \cup B)
  <2>1. Cardinality(Xor(A, B)) = x - Cardinality(I)
    <3> HIDE DEF x
    <3>1. Cardinality((A \cup B) \cap I) = Cardinality(I)
      BY <1>2
    <3>2. Cardinality(Xor(A, B)) = Cardinality((A \cup B) \ I)
      BY <1>2
    <3> QED BY <1>3, <3>1, <3>2 DEF x
  <2>2. x = Cardinality(A) + Cardinality(B) - Cardinality(I)
    BY <1>1
  <2> HIDE DEF x
  <2> QED BY <1>4, <2>1, <2>2
<1>6. ASSUME NEW a \in Nat, NEW b \in Nat, NEW i \in Nat
      PROVE  ((a + b - 2 * i) % 2 = 1) <=> ~(a % 2 = 1 <=> b % 2 = 1)
  OBVIOUS
<1> QED BY <1>4, <1>5, <1>6

(* A bit is in the exclusive or if it is in an odd number of the values.    *)
LEMMA XorOfMember ==
  ASSUME NEW v, NEW S, NEW b
  PROVE  b \in XorOf(v, S) <=> Cardinality({q \in S : b \in v[q]}) % 2 = 1
<1>1. CASE \E q \in S : b \in v[q]
  BY <1>1 DEF XorOf
<1>2. CASE ~\E q \in S : b \in v[q]
  <2>1. {q \in S : b \in v[q]} = {}
    BY <1>2
  <2>2. Cardinality({}) % 2 # 1
    BY FS_EmptySet
  <2>3. b \notin XorOf(v, S)
    BY <1>2 DEF XorOf
  <2> QED BY <2>1, <2>2, <2>3
<1> QED BY <1>1, <1>2

(* The exclusive or is linear in the set of indices. *)
LEMMA XorOfXor ==
  ASSUME NEW v, NEW A, NEW B, IsFiniteSet(A), IsFiniteSet(B)
  PROVE  XorOf(v, Xor(A, B)) = Xor(XorOf(v, A), XorOf(v, B))
<1>1. ASSUME NEW b
      PROVE  b \in XorOf(v, Xor(A, B)) <=> b \in Xor(XorOf(v, A), XorOf(v, B))
  <2> DEFINE a == {q \in A : b \in v[q]}
             c == {q \in B : b \in v[q]}
  <2>1. IsFiniteSet(a) /\ IsFiniteSet(c)
    BY FS_Subset
  <2>2. {q \in Xor(A, B) : b \in v[q]} = Xor(a, c)
    BY DEF Xor
  <2>3. b \in XorOf(v, Xor(A, B)) <=> Cardinality(Xor(a, c)) % 2 = 1
    BY <2>2, XorOfMember
  <2>4. (b \in XorOf(v, A) <=> Cardinality(a) % 2 = 1)
        /\ (b \in XorOf(v, B) <=> Cardinality(c) % 2 = 1)
    BY XorOfMember
  <2>5. Cardinality(Xor(a, c)) % 2 = 1
          <=> ~(Cardinality(a) % 2 = 1 <=> Cardinality(c) % 2 = 1)
    BY <2>1, XorParity
  <2>6. b \in Xor(XorOf(v, A), XorOf(v, B))
          <=> ~(b \in XorOf(v, A) <=> b \in XorOf(v, B))
    BY DEF Xor
  <2> HIDE DEF a, c
  <2> QED BY <2>3, <2>4, <2>5, <2>6
<1> QED BY <1>1

(* It depends only on the values at the indices. *)
LEMMA XorOfSame ==
  ASSUME NEW v, NEW w, NEW S, \A q \in S : v[q] = w[q]
  PROVE  XorOf(v, S) = XorOf(w, S)
<1>1. ASSUME NEW b
      PROVE  b \in XorOf(v, S) <=> b \in XorOf(w, S)
  <2>1. {q \in S : b \in v[q]} = {q \in S : b \in w[q]}
    OBVIOUS
  <2>2. b \in XorOf(v, S) <=> Cardinality({q \in S : b \in v[q]}) % 2 = 1
    BY XorOfMember
  <2>3. b \in XorOf(w, S) <=> Cardinality({q \in S : b \in w[q]}) % 2 = 1
    BY XorOfMember
  <2> QED BY <2>1, <2>2, <2>3
<1> QED BY <1>1

(* The exclusive or of no value, and of one. *)
LEMMA XorOfFew ==
  ASSUME NEW v, NEW p
  PROVE  XorOf(v, {}) = {} /\ XorOf(v, {p}) = v[p]
<1>1. XorOf(v, {}) = {}
  BY DEF XorOf
<1>2. ASSUME NEW b
      PROVE  b \in XorOf(v, {p}) <=> b \in v[p]
  <2>1. CASE b \in v[p]
    <3>1. {q \in {p} : b \in v[q]} = {p}
      BY <2>1
    <3>2. Cardinality({p}) % 2 = 1
      <4>1. Cardinality({p}) = 1
        BY FS_Singleton, Zenon
      <4>2. 1 % 2 = 1
        OBVIOUS
      <4> QED BY <4>1, <4>2, Zenon
    <3> DEFINE S == {p}
    <3> HIDE DEF S
    <3>3. b \in XorOf(v, S) <=> Cardinality({q \in S : b \in v[q]}) % 2 = 1
      BY XorOfMember
    <3> QED BY <2>1, <3>1, <3>2, <3>3 DEF S
  <2>2. CASE b \notin v[p]
    BY <2>2 DEF XorOf
  <2> QED BY <2>1, <2>2
<1> QED BY <1>1, <1>2

(* Its bits are bits of the values. *)
LEMMA XorOfBits ==
  ASSUME NEW v, NEW S, NEW M, \A q \in S : v[q] \subseteq M
  PROVE  XorOf(v, S) \subseteq M
BY DEF XorOf

(* Exclusive or with the same word can be cancelled. *)
LEMMA XorCancel ==
  ASSUME NEW a, NEW b, NEW c
  PROVE  Xor(a, c) = Xor(b, c) <=> a = b
<1>1. ASSUME Xor(a, c) = Xor(b, c)
      PROVE  a = b
  <2>1. \A x : x \in Xor(a, c) <=> x \in Xor(b, c)
    BY <1>1
  <2>2. \A x : x \in a <=> x \in b
    BY <2>1 DEF Xor
  <2> QED BY <2>2
<1> QED BY <1>1

(* It commutes with a mask, and undoes itself. *)
LEMMA XorMask ==
  ASSUME NEW a, NEW b, NEW M
  PROVE  /\ Xor(a, b) \cap M = Xor(a \cap M, b \cap M)
         /\ Xor(a, Xor(b, a)) = b
BY DEF Xor

-----------------------------------------------------------------------------
(* Termination *)

(* A lexicographic step down, on triples of natural numbers.                *)
LEMMA TripleDescends ==
  ASSUME NEW a \in Nat, NEW b \in Nat, NEW c \in Nat,
         NEW x \in Nat, NEW y \in Nat, NEW z \in Nat,
         \/ a < x
         \/ a = x /\ b < y
         \/ a = x /\ b = y /\ c < z
  PROVE  Descends(<<a, b, c>>, <<x, y, z>>)
<1> DEFINE s == <<a, b, c>>
           t == <<x, y, z>>
<1>1. DOMAIN s = 1..3 /\ s[1] = a /\ s[2] = b /\ s[3] = c
      /\ t[1] = x /\ t[2] = y /\ t[3] = z
  OBVIOUS
<1>2. \A i \in 1..3 : i = 1 \/ i = 2 \/ i = 3
  OBVIOUS
<1>3. 1..(1 - 1) = {} /\ 1..(2 - 1) = {1} /\ 1..(3 - 1) = {1, 2}
  OBVIOUS
<1> HIDE DEF s, t
<1>4. \A i \in DOMAIN s : s[i] >= 0
  BY <1>1, <1>2
<1>5. \E i \in DOMAIN s : s[i] < t[i] /\ \A j \in 1..(i - 1) : s[j] = t[j]
  <2>1. CASE a < x
    <3>1. 1 \in DOMAIN s
      BY <1>1
    <3> QED BY <1>1, <1>3, <2>1, <3>1
  <2>2. CASE a = x /\ b < y
    <3>1. 2 \in DOMAIN s
      BY <1>1
    <3> QED BY <1>1, <1>3, <2>2, <3>1
  <2>3. CASE a = x /\ b = y /\ c < z
    <3>1. 3 \in DOMAIN s
      BY <1>1
    <3> QED BY <1>1, <1>3, <2>3, <3>1
  <2> QED BY <2>1, <2>2, <2>3
<1>6. Descends(s, t)
  BY <1>4, <1>5 DEF Descends
<1> QED BY <1>6 DEF s, t

=============================================================================
