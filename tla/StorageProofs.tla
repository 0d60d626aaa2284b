--------------------------- MODULE StorageProofs ---------------------------
(***************************************************************************)
(* The parts of Storage keep their promises, for every value of the        *)
(* constants: a Bloom filter has no false negatives, a file holds what was *)
(* appended to it and Sync makes it durable, the lock of a DB excludes,    *)
(* the Limiters of PosixEnv are exact, and its background thread does not  *)
(* sleep while there is work.                                              *)
(***************************************************************************)
EXTENDS Storage, SequenceTheorems, FiniteSetTheorems, TLAPS

-----------------------------------------------------------------------------
(* Bloom filters. *)

(* A slice of the string: m bytes of bits, m > 0, and the probe count.     *)
Slices == [start : Nat, limit : Nat, k : Nat, keys : SUBSET Words]

(* The inductive invariant: every slice lies inside the string, has at     *)
(* least one byte of bits, and accepts its keys.                           *)
BloomInv ==
  /\ size \in Nat
  /\ filters \in Seq(Slices)
  /\ \A i \in DOMAIN filters : /\ filters[i].limit <= size
                               /\ filters[i].limit - filters[i].start >= 2
  /\ NoFalseNegatives

(* KeyMayMatch over an array whose 1 bits are A. *)
Accepts(A, w, f) ==
  LET bits == (f.limit - f.start - 1) * 8
  IN /\ f.limit - f.start >= 2
     /\ \/ f.k > 30
        \/ \A p \in Probes(w, f.k, bits) : 8 * f.start + p \in A

(* An array has whole bytes, and at least eight of them. *)
LEMMA WholeBytes ==
  ASSUME NEW n \in Nat, NEW bpk \in Nat
  PROVE  \E m \in Nat : m >= 8 /\ ArrayBits(n, bpk) = 8 * m
<1> DEFINE bits == IF n * bpk < 64 THEN 64 ELSE n * bpk
<1>1. n * bpk \in Nat
  OBVIOUS
<1>2. bits \in Nat /\ bits >= 64
  BY <1>1
<1> HIDE DEF bits
<1>3. (bits + 7) \div 8 \in Nat /\ (bits + 7) \div 8 >= 8
  BY <1>2
<1>4. ArrayBits(n, bpk) = 8 * ((bits + 7) \div 8)
  BY DEF ArrayBits, bits
<1> QED BY <1>3, <1>4

(* There is at least one probe. *)
LEMMA ProbeCountType ==
  ASSUME NEW bpk \in Nat
  PROVE  BloomProbeCount(bpk) \in Nat
<1>1. (bpk * 69) \div 100 \in Nat
  OBVIOUS
<1> QED BY <1>1 DEF BloomProbeCount

(* Every probe falls inside the array. *)
LEMMA ProbeInside ==
  ASSUME NEW w \in Words, NEW probes \in Nat, NEW bits \in Nat \ {0},
         NEW p \in Probes(w, probes, bits)
  PROVE  p \in 0..(bits - 1)
<1>1. PICK i \in 0..(probes - 1) : p = Probe(w, i, bits)
  BY DEF Probes
<1>2. w[1] \in Nat /\ w[2] \in Nat
  BY BloomAssumption, WordSizeAssumption
<1>3. i \in Nat /\ i * w[2] \in Nat
  BY <1>2
<1>4. w[1] + i * w[2] \in Nat
  BY <1>2, <1>3
<1>5. (w[1] + i * w[2]) % WordSize \in Nat
  BY <1>4, WordSizeAssumption
<1>6. ((w[1] + i * w[2]) % WordSize) % bits \in 0..(bits - 1)
  BY <1>5
<1> QED BY <1>1, <1>6 DEF Probe

(* What one call of CreateFilter does, in terms of the bytes m of its      *)
(* array: the new slice, its position, and where its bits are.             *)
LEMMA Created ==
  ASSUME BloomInv, NEW n \in Nat, NEW keys \in [1..n -> Words],
         NEW bpk \in BitsPerKey, CreateFilter(keys, bpk)
  PROVE  \E m \in Nat, k \in Nat, S \in SUBSET Words :
           /\ m >= 8
           /\ ones' = ones \cup BitsSet(S, k, 8 * m, size)
           /\ size' = size + m + 1
           /\ filters' = Append(filters, [start |-> size,
                                          limit |-> size + m + 1,
                                          k |-> k, keys |-> S])
<1> DEFINE S == {keys[i] : i \in DOMAIN keys}
           k == BloomProbeCount(bpk)
<1>1. Len(keys) \in Nat /\ bpk \in Nat
  <2>1. keys \in Seq(Words)
    OBVIOUS
  <2> QED BY <2>1, BloomAssumption
<1>2. PICK m \in Nat : m >= 8 /\ ArrayBits(Len(keys), bpk) = 8 * m
  BY <1>1, WholeBytes
<1>3. (8 * m + 7) \div 8 = m
  OBVIOUS
<1>4. S \in SUBSET Words
  OBVIOUS
<1>5. k \in Nat
  BY <1>1, ProbeCountType
<1>6. /\ ones' = ones \cup BitsSet(S, k, 8 * m, size)
      /\ size' = size + m + 1
      /\ filters' = Append(filters, [start |-> size, limit |-> size + m + 1,
                                     k |-> k, keys |-> S])
  <2> HIDE DEF k
  <2> QED BY <1>2, <1>3 DEF CreateFilter, k
<1> HIDE DEF S, k
<1> QED BY <1>2, <1>4, <1>5, <1>6

(* A key that is among those of the new slice is accepted by it. *)
LEMMA NewAccepts ==
  ASSUME NEW m \in Nat, m >= 8, NEW k \in Nat, NEW S \in SUBSET Words,
         NEW sz \in Nat, NEW A, NEW w \in S
  PROVE  Accepts(A \cup BitsSet(S, k, 8 * m, sz), w,
                 [start |-> sz, limit |-> sz + m + 1, k |-> k, keys |-> S])
<1> DEFINE f == [start |-> sz, limit |-> sz + m + 1, k |-> k, keys |-> S]
           B == A \cup BitsSet(S, k, 8 * m, sz)
<1>1. (f.limit - f.start - 1) * 8 = 8 * m /\ f.limit - f.start >= 2
  OBVIOUS
<1>2. \A p \in Probes(w, k, 8 * m) : 8 * sz + p \in B
  BY DEF BitsSet, Array
<1>3. f.k = k /\ f.start = sz
  OBVIOUS
<1> HIDE DEF f, B
<1>4. Accepts(B, w, f)
  BY <1>1, <1>2, <1>3 DEF Accepts
<1> QED BY <1>4 DEF f, B

(* An earlier slice answers as before. *)
LEMMA OldAnswers ==
  ASSUME NEW m \in Nat, m >= 8, NEW k \in Nat, NEW S \in SUBSET Words,
         NEW sz \in Nat, NEW A, NEW w \in Words, NEW f \in Slices,
         f.limit <= sz, f.limit - f.start >= 2
  PROVE  Accepts(A \cup BitsSet(S, k, 8 * m, sz), w, f) <=> Accepts(A, w, f)
<1> DEFINE bits == (f.limit - f.start - 1) * 8
           B == A \cup BitsSet(S, k, 8 * m, sz)
<1>1. f.start \in Nat /\ f.limit \in Nat /\ f.k \in Nat
  BY DEF Slices
<1>2. bits \in Nat \ {0} /\ 8 * f.start + bits = 8 * f.limit - 8
  BY <1>1
<1>3. 8 * m \in Nat \ {0}
  OBVIOUS
<1> HIDE DEF bits
<1>4. ASSUME NEW p \in Probes(w, f.k, bits)
      PROVE  8 * f.start + p \in B <=> 8 * f.start + p \in A
  <2>1. p \in 0..(bits - 1)
    BY <1>1, <1>2, <1>4, ProbeInside
  <2>2. 8 * f.start + p < 8 * sz
    BY <1>1, <1>2, <2>1
  <2>3. 8 * f.start + p \notin BitsSet(S, k, 8 * m, sz)
    <3> SUFFICES ASSUME NEW v \in S, NEW q \in Probes(v, k, 8 * m),
                        8 * f.start + p = 8 * sz + q
                 PROVE  FALSE
      BY DEF BitsSet, Array
    <3>1. q \in 0..(8 * m - 1)
      BY <1>3, ProbeInside
    <3> QED BY <2>2, <3>1
  <2> QED BY <2>3
<1>5. (\A p \in Probes(w, f.k, bits) : 8 * f.start + p \in B)
        <=> (\A p \in Probes(w, f.k, bits) : 8 * f.start + p \in A)
  BY <1>4
<1> HIDE DEF B
<1>6. Accepts(B, w, f) <=> Accepts(A, w, f)
  BY <1>5 DEF Accepts, bits
<1> QED BY <1>6 DEF B

(* Next keeps the invariant, and no answer of an existing filter changes. *)
LEMMA NextKeeps ==
  ASSUME BloomInv, Next
  PROVE  /\ BloomInv'
         /\ \A i \in DOMAIN filters : \A w \in Words :
              Accepts(ones', w, filters'[i]) <=> Accepts(ones, w, filters[i])
<1>1. PICK n \in 1..MaxKeys, bpk \in BitsPerKey :
        \E keys \in [1..n -> Words] : CreateFilter(keys, bpk)
  BY DEF Next
<1>2. PICK keys \in [1..n -> Words] : CreateFilter(keys, bpk)
  BY <1>1
<1>3. n \in Nat
  OBVIOUS
<1>4. PICK m \in Nat, k \in Nat, S \in SUBSET Words :
        /\ m >= 8
        /\ ones' = ones \cup BitsSet(S, k, 8 * m, size)
        /\ size' = size + m + 1
        /\ filters' = Append(filters, [start |-> size,
                                       limit |-> size + m + 1,
                                       k |-> k, keys |-> S])
  BY <1>2, <1>3, Created
<1> DEFINE new == [start |-> size, limit |-> size + m + 1, k |-> k,
                   keys |-> S]
<1>5. size \in Nat /\ filters \in Seq(Slices)
  BY DEF BloomInv
<1>6. new \in Slices
  BY <1>5 DEF Slices
<1>7. /\ filters' \in Seq(Slices)
      /\ Len(filters') = Len(filters) + 1
      /\ \A i \in 1..Len(filters) : filters'[i] = filters[i]
      /\ filters'[Len(filters) + 1] = new
  <2> HIDE DEF new
  <2>1. filters' = Append(filters, new)
    BY <1>4 DEF new
  <2> QED BY <1>5, <1>6, <2>1
<1>8. /\ Len(filters) \in Nat /\ DOMAIN filters = 1..Len(filters)
      /\ DOMAIN filters' = 1..(Len(filters) + 1)
  BY <1>5, <1>7
<1>9. ASSUME NEW i \in DOMAIN filters
      PROVE  /\ filters'[i] = filters[i] /\ filters[i] \in Slices
             /\ filters[i].limit <= size
             /\ filters[i].limit - filters[i].start >= 2
  BY <1>5, <1>7, <1>8 DEF BloomInv
<1>10. ASSUME NEW i \in DOMAIN filters, NEW w \in Words
       PROVE  Accepts(ones', w, filters'[i]) <=> Accepts(ones, w, filters[i])
  <2>1. m >= 8 /\ size \in Nat /\ filters[i] \in Slices
        /\ filters[i].limit <= size
        /\ filters[i].limit - filters[i].start >= 2
    BY <1>4, <1>5, <1>9
  <2>2. Accepts(ones \cup BitsSet(S, k, 8 * m, size), w, filters[i])
          <=> Accepts(ones, w, filters[i])
    BY <2>1, OldAnswers, Zenon
  <2>3. /\ ones' = ones \cup BitsSet(S, k, 8 * m, size)
        /\ filters'[i] = filters[i]
    BY <1>4, <1>9
  <2> QED BY <2>2, <2>3
<1>11. /\ size' \in Nat
       /\ \A i \in DOMAIN filters' :
            /\ filters'[i].limit <= size'
            /\ filters'[i].limit - filters'[i].start >= 2
  <2>1. size' \in Nat /\ size' >= size /\ size' = size + m + 1
    BY <1>4, <1>5
  <2>2. ASSUME NEW i \in DOMAIN filters
        PROVE  /\ filters'[i].limit <= size'
               /\ filters'[i].limit - filters'[i].start >= 2
    <3>1. /\ filters'[i] = filters[i]
          /\ filters[i].limit \in Nat /\ filters[i].limit <= size
          /\ filters[i].limit - filters[i].start >= 2
      BY <1>9 DEF Slices
    <3> QED BY <1>5, <2>1, <3>1
  <2>3. new.limit <= size' /\ new.limit - new.start >= 2
    BY <1>4, <1>5, <2>1
  <2> HIDE DEF new
  <2> QED BY <1>7, <1>8, <2>1, <2>2, <2>3
<1>12. ASSUME NEW i \in DOMAIN filters', NEW w \in filters'[i].keys
       PROVE  Accepts(ones', w, filters'[i])
  <2>1. CASE i \in DOMAIN filters
    <3>1. w \in filters[i].keys /\ w \in Words
      BY <1>9, <1>12, <2>1 DEF Slices
    <3>2. Accepts(ones, w, filters[i])
      BY <2>1, <3>1 DEF BloomInv, NoFalseNegatives, KeyMayMatch, Accepts
    <3> QED BY <1>10, <2>1, <3>1, <3>2
  <2>2. CASE i = Len(filters) + 1
    <3>1. filters'[i] = new /\ w \in S
      BY <1>7, <1>12, <2>2
    <3>2. Accepts(ones', w, new)
      BY <1>4, <1>5, <3>1, NewAccepts
    <3> QED BY <3>1, <3>2
  <2> QED BY <1>8, <2>1, <2>2
<1>13. NoFalseNegatives'
  BY <1>12 DEF NoFalseNegatives, KeyMayMatch, Accepts
<1>14. BloomInv'
  BY <1>7, <1>11, <1>13 DEF BloomInv
<1> QED BY <1>10, <1>14

(* The invariant holds in every state. *)
LEMMA BloomInvariant == Spec => []BloomInv
<1>1. Init => BloomInv
  BY DEF Init, BloomInv, NoFalseNegatives
<1>2. BloomInv /\ [Next]_vars => BloomInv'
  <2>1. CASE Next
    BY <2>1, NextKeeps
  <2>2. CASE UNCHANGED vars
    BY <2>2 DEF vars, BloomInv, NoFalseNegatives, KeyMayMatch
  <2> QED BY <2>1, <2>2
<1> QED BY <1>1, <1>2, PTL DEF Spec

(* bloom.cc: KeyMayMatch is true of every key CreateFilter was given,      *)
(* whichever filters were appended to the block before and after.          *)
THEOREM BloomNoFalseNegatives == Spec => []NoFalseNegatives
<1>1. BloomInv => NoFalseNegatives
  BY DEF BloomInv
<1> QED BY <1>1, BloomInvariant, PTL

(* bloom.cc: CreateFilter writes behind init_size only; the answers of the *)
(* filters before it are the same after it, the negative ones too.         *)
THEOREM BloomAnswersStable == Spec => AnswersStable
<1> DEFINE Same == \A i \in DOMAIN filters : \A w \in Words :
                     KeyMayMatch(w, filters[i])' = KeyMayMatch(w, filters[i])
<1>1. BloomInv /\ [Next]_vars => [Same]_vars
  <2>1. ASSUME BloomInv, Next PROVE Same
    BY <2>1, NextKeeps DEF KeyMayMatch, Accepts
  <2> QED BY <2>1
<1> QED BY <1>1, BloomInvariant, PTL DEF Spec, AnswersStable

-----------------------------------------------------------------------------
(* Files with a buffer. *)

(* s is what t starts with.                                                 *)
StartOf(s, t) == Len(s) <= Len(t) /\ \A i \in 1..Len(s) : s[i] = t[i]

(* The bytes on their way through the file.                                 *)
Written == wFile \o buf

(* What they are when n more have been appended and nothing was lost.       *)
Grown(n) == wFile \o (buf \o Writable!Fresh(n))

(* What WritableFile keeps: the bytes are numbers already given out, in     *)
(* order; none is missing before the first error; no more is durable than   *)
(* was written.                                                             *)
ByteTypes ==
  /\ appended \in Nat /\ wSynced \in Nat
  /\ wFile \in Seq(Nat) /\ buf \in Seq(Nat)
  /\ failed \in BOOLEAN /\ wOpen \in BOOLEAN

ByteOrder ==
  /\ \A i \in 1..Len(Written) : Written[i] >= 1 /\ Written[i] <= appended
  /\ \A i, j \in 1..Len(Written) : i < j => Written[i] < Written[j]
  /\ ~failed => Written = [i \in 1..appended |-> i]

WritableInv ==
  /\ ByteTypes /\ ByteOrder
  /\ Len(buf) <= BufferSize /\ wSynced <= Len(wFile)
  /\ ~(failed \/ wOpen) => buf = <<>>

(* Two sequences of bytes, put together.                                    *)
LEMMA Joined ==
  ASSUME NEW s \in Seq(Nat), NEW t \in Seq(Nat)
  PROVE  /\ s \o t \in Seq(Nat) /\ Len(s \o t) = Len(s) + Len(t)
         /\ \A i \in 1..(Len(s) + Len(t)) :
              (s \o t)[i] = IF i <= Len(s) THEN s[i] ELSE t[i - Len(s)]
BY ConcatProperties

(* Three, in either way.                                                    *)
LEMMA JoinedThree ==
  ASSUME NEW s \in Seq(Nat), NEW t \in Seq(Nat), NEW u \in Seq(Nat)
  PROVE  (s \o t) \o u = s \o (t \o u)
BY ConcatAssociative

(* The bytes of an Append.                                                  *)
LEMMA FreshBytes ==
  ASSUME appended \in Nat, NEW n \in Nat
  PROVE  /\ Writable!Fresh(n) \in Seq(Nat) /\ Len(Writable!Fresh(n)) = n
         /\ \A i \in 1..n : Writable!Fresh(n)[i] = appended + i
BY DEF Writable!Fresh

(* What the first bytes are that reach the file.                            *)
LEMMA WriteStarts ==
  ASSUME NEW data \in Seq(Nat), NEW w \in Writable!WriteUnbuffered(data)
  PROVE  /\ w.ok \in BOOLEAN /\ w.data \in Seq(Nat)
         /\ StartOf(w.data, data)
         /\ w.ok => w.data = data
<1>1. CASE w = [ok |-> TRUE, data |-> data]
  BY <1>1 DEF StartOf
<1>2. ASSUME NEW n \in 0..(Len(data) - 1),
             w = [ok |-> FALSE, data |-> SubSeq(data, 1, n)]
      PROVE  /\ w.ok = FALSE /\ w.data \in Seq(Nat) /\ StartOf(w.data, data)
  <2>1. \A i \in 1..n : data[i] \in Nat
    OBVIOUS
  <2>2. /\ SubSeq(data, 1, n) \in Seq(Nat) /\ Len(SubSeq(data, 1, n)) = n
        /\ \A i \in 1..n : SubSeq(data, 1, n)[i] = data[i]
    BY <2>1, SubSeqProperties
  <2> QED BY <1>2, <2>2 DEF StartOf
<1> QED BY <1>1, <1>2 DEF Writable!WriteUnbuffered

(* A start of the second part makes a start of the whole.                   *)
LEMMA StartBehind ==
  ASSUME NEW s \in Seq(Nat), NEW t \in Seq(Nat), NEW p \in Seq(Nat),
         StartOf(p, t)
  PROVE  StartOf(s \o p, s \o t)
<1>1. /\ Len(s \o p) = Len(s) + Len(p) /\ Len(s \o t) = Len(s) + Len(t)
      /\ \A i \in 1..(Len(s) + Len(p)) :
           (s \o p)[i] = IF i <= Len(s) THEN s[i] ELSE p[i - Len(s)]
      /\ \A i \in 1..(Len(s) + Len(t)) :
           (s \o t)[i] = IF i <= Len(s) THEN s[i] ELSE t[i - Len(s)]
  BY ConcatProperties
<1>2. Len(s) \in Nat /\ Len(t) \in Nat /\ Len(p) \in Nat
  OBVIOUS
<1> QED BY <1>1, <1>2 DEF StartOf

(* A start of the first part is one of the whole.                           *)
LEMMA StartOfStart ==
  ASSUME NEW s \in Seq(Nat), NEW t \in Seq(Nat), NEW p \in Seq(Nat),
         StartOf(p, s)
  PROVE  StartOf(p, s \o t)
<1>1. /\ Len(s \o t) = Len(s) + Len(t)
      /\ \A i \in 1..(Len(s) + Len(t)) :
           (s \o t)[i] = IF i <= Len(s) THEN s[i] ELSE t[i - Len(s)]
  BY ConcatProperties
<1>2. Len(s) \in Nat /\ Len(t) \in Nat /\ Len(p) \in Nat
  OBVIOUS
<1> QED BY <1>1, <1>2 DEF StartOf

(* Cutting the bytes of an Append in two loses none.                        *)
LEMMA CutAppend ==
  ASSUME appended \in Nat, NEW n \in Nat, NEW c \in 0..n
  PROVE  LET head == SubSeq(Writable!Fresh(n), 1, c)
             rest == Writable!Rest(n, c)
         IN  /\ head \in Seq(Nat) /\ Len(head) = c
             /\ rest \in Seq(Nat) /\ Len(rest) = n - c
             /\ head \o rest = Writable!Fresh(n)
<1> DEFINE s == Writable!Fresh(n)
           head == SubSeq(s, 1, c)
           rest == SubSeq(s, c + 1, n)
<1>1. s \in Seq(Nat) /\ Len(s) = n /\ \A i \in 1..n : s[i] \in Nat
  <2>1. s \in Seq(Nat) /\ Len(s) = n
    BY FreshBytes
  <2> HIDE DEF s
  <2> QED BY <2>1
<1> HIDE DEF s
<1>2. /\ head \in Seq(Nat) /\ Len(head) = c
      /\ \A i \in 1..c : head[i] = s[i]
  <2>1. \A i \in 1..c : s[i] \in Nat
    BY <1>1
  <2>2. c \in Int /\ 1 \in Int
    OBVIOUS
  <2>3. /\ head \in Seq(Nat) /\ Len(head) = IF 1 <= c THEN c - 1 + 1 ELSE 0
        /\ \A i \in 1..(c - 1 + 1) : head[i] = s[1 + i - 1]
    BY <2>1, <2>2, SubSeqProperties
  <2> QED BY <2>3
<1>3. /\ rest \in Seq(Nat) /\ Len(rest) = n - c
      /\ \A i \in 1..(n - c) : rest[i] = s[c + i]
  <2>1. \A i \in (c + 1)..n : s[i] \in Nat
    BY <1>1
  <2>2. c + 1 \in Int /\ n \in Int
    OBVIOUS
  <2>3. /\ rest \in Seq(Nat)
        /\ Len(rest) = IF c + 1 <= n THEN n - (c + 1) + 1 ELSE 0
        /\ \A i \in 1..(n - (c + 1) + 1) : rest[i] = s[(c + 1) + i - 1]
    BY <2>1, <2>2, SubSeqProperties
  <2> QED BY <2>3
<1> HIDE DEF head, rest
<1>4. /\ head \o rest \in Seq(Nat) /\ Len(head \o rest) = n
      /\ \A i \in 1..n : (head \o rest)[i] = IF i <= c THEN head[i] ELSE rest[i - c]
  <2>1. /\ head \o rest \in Seq(Nat)
        /\ Len(head \o rest) = Len(head) + Len(rest)
        /\ \A i \in 1..(Len(head) + Len(rest)) :
             (head \o rest)[i] =
               IF i <= Len(head) THEN head[i] ELSE rest[i - Len(head)]
    BY <1>2, <1>3, Joined, Zenon
  <2>2. Len(head) = c /\ Len(head) + Len(rest) = n
    BY <1>2, <1>3
  <2> QED BY <2>1, <2>2, Zenon
<1>5. \A i \in 1..n : (head \o rest)[i] = s[i]
  BY <1>2, <1>3, <1>4
<1>6. head \o rest = s
  BY <1>1, <1>4, <1>5, SeqEqual
<1> QED BY <1>2, <1>3, <1>6 DEF head, rest, s, Writable!Rest

(* Numbers in order, and the next ones behind them.                         *)
LEMMA OrderGrows ==
  ASSUME NEW old \in Seq(Nat), NEW next \in Seq(Nat), NEW m \in Nat,
         \A i \in 1..Len(next) : next[i] = m + i,
         \A i \in 1..Len(old) : old[i] >= 1 /\ old[i] <= m,
         \A i, j \in 1..Len(old) : i < j => old[i] < old[j]
  PROVE  LET all == old \o next
         IN  /\ all \in Seq(Nat)
             /\ \A i \in 1..Len(all) : all[i] >= 1 /\ all[i] <= m + Len(next)
             /\ \A i, j \in 1..Len(all) : i < j => all[i] < all[j]
             /\ old = [i \in 1..m |-> i] => all = [i \in 1..(m + Len(next)) |-> i]
<1> DEFINE all == old \o next
           a == Len(old)
           b == Len(next)
<1>1. /\ all \in Seq(Nat) /\ Len(all) = a + b
      /\ \A i \in 1..(a + b) : all[i] = IF i <= a THEN old[i] ELSE next[i - a]
  BY ConcatProperties
<1>2. a \in Nat /\ b \in Nat /\ \A i \in 1..a : old[i] \in Nat
  OBVIOUS
<1>3. /\ \A i \in 1..b : next[i] = m + i
      /\ \A i \in 1..a : old[i] >= 1 /\ old[i] <= m
      /\ \A i, j \in 1..a : i < j => old[i] < old[j]
  OBVIOUS
<1>4. old = [i \in 1..m |-> i] => a = m /\ \A i \in 1..m : old[i] = i
  OBVIOUS
<1> HIDE DEF all, a, b
<1>5. \A i \in 1..(a + b) :
        \/ i \in 1..a /\ all[i] = old[i]
        \/ i > a /\ i - a \in 1..b /\ all[i] = m + (i - a)
  <2> TAKE i \in 1..(a + b)
  <2>1. CASE i <= a
    BY <1>1, <1>2, <2>1
  <2>2. CASE i > a
    <3>1. i - a \in 1..b
      BY <1>2, <2>2
    <3>2. all[i] = next[i - a]
      BY <1>1, <1>2, <2>2
    <3>3. next[i - a] = m + (i - a)
      BY <1>3, <3>1
    <3> QED BY <2>2, <3>1, <3>2, <3>3
  <2> QED BY <1>2, <2>1, <2>2
<1>6. \A i \in 1..(a + b) : all[i] >= 1 /\ all[i] <= m + b
  <2> TAKE i \in 1..(a + b)
  <2>1. CASE i \in 1..a /\ all[i] = old[i]
    <3>1. old[i] \in Nat /\ old[i] >= 1 /\ old[i] <= m
      BY <1>2, <1>3, <2>1
    <3> QED BY <1>2, <2>1, <3>1
  <2>2. CASE i > a /\ i - a \in 1..b /\ all[i] = m + (i - a)
    BY <1>2, <2>2
  <2> QED BY <1>5, <2>1, <2>2
<1>7. \A i, j \in 1..(a + b) : i < j => all[i] < all[j]
  <2> SUFFICES ASSUME NEW i \in 1..(a + b), NEW j \in 1..(a + b), i < j
               PROVE  all[i] < all[j]
    OBVIOUS
  <2>1. CASE j \in 1..a /\ all[j] = old[j]
    <3>1. i \in 1..a /\ all[i] = old[i]
      BY <1>2, <1>5, <2>1
    <3> QED BY <1>3, <2>1, <3>1
  <2>2. CASE j > a /\ j - a \in 1..b /\ all[j] = m + (j - a)
    BY <1>2, <1>3, <1>5, <2>2
  <2> QED BY <1>5, <2>1, <2>2
<1>8. old = [i \in 1..m |-> i] => all = [i \in 1..(m + b) |-> i]
  <2> SUFFICES ASSUME a = m /\ \A i \in 1..m : old[i] = i
               PROVE  all = [i \in 1..(m + b) |-> i]
    BY <1>4
  <2> DEFINE count == [i \in 1..(m + b) |-> i]
  <2>1. count \in Seq(Nat) /\ Len(count) = m + b
        /\ \A i \in 1..(m + b) : count[i] = i
    BY <1>2
  <2> HIDE DEF count
  <2>2. \A i \in 1..(m + b) : all[i] = i
    BY <1>2, <1>5
  <2>3. all = count
    <3>1. all \in Seq(Nat) /\ Len(all) = m + b
      BY <1>1
    <3>2. Len(all) = Len(count) /\ \A i \in 1..Len(all) : all[i] = count[i]
      BY <2>1, <2>2, <3>1
    <3> QED BY <2>1, <3>1, <3>2, SeqEqual
  <2> QED BY <2>3 DEF count
<1> QED BY <1>1, <1>6, <1>7, <1>8 DEF all, b

(* A step that lets only bytes of Grown through, in order, and all of them  *)
(* unless it reports an error, keeps the order of the bytes.                *)
LEMMA BytesKept ==
  ASSUME ByteTypes, ByteOrder, NEW n \in Nat, appended' = appended + n,
         wFile' \in Seq(Nat), buf' \in Seq(Nat),
         StartOf(wFile' \o buf', Grown(n)),
         ~failed' => ~failed /\ wFile' \o buf' = Grown(n)
  PROVE  ByteOrder'
<1> DEFINE old == Written
           next == Writable!Fresh(n)
           new == wFile' \o buf'
           all == Grown(n)
<1>1. /\ next \in Seq(Nat) /\ Len(next) = n
      /\ \A i \in 1..n : next[i] = appended + i
      /\ appended \in Nat
  BY FreshBytes DEF ByteTypes
<1>2. old \in Seq(Nat) /\ new \in Seq(Nat)
  BY ConcatProperties DEF ByteTypes, Written
<1>3. all = old \o next
  <2>1. wFile \in Seq(Nat) /\ buf \in Seq(Nat)
    BY DEF ByteTypes
  <2> HIDE DEF next
  <2>2. (wFile \o buf) \o next = wFile \o (buf \o next)
    BY <1>1, <2>1, JoinedThree, Zenon
  <2> QED BY <2>2 DEF Written, Grown, next
<1>4. /\ \A i \in 1..Len(old) : old[i] >= 1 /\ old[i] <= appended
      /\ \A i, j \in 1..Len(old) : i < j => old[i] < old[j]
      /\ ~failed => old = [i \in 1..appended |-> i]
  BY DEF ByteOrder
<1>5. /\ StartOf(new, all) /\ Written' = new
      /\ ~failed' => ~failed /\ new = all
  BY DEF Written
<1> HIDE DEF old, next, new, all
<1>6. /\ all \in Seq(Nat)
      /\ \A i \in 1..Len(all) : all[i] >= 1 /\ all[i] <= appended + n
      /\ \A i, j \in 1..Len(all) : i < j => all[i] < all[j]
      /\ old = [i \in 1..appended |-> i] => all = [i \in 1..(appended + n) |-> i]
  <2>1. \A i \in 1..Len(next) : next[i] = appended + i
    BY <1>1
  <2>2. /\ old \o next \in Seq(Nat)
        /\ \A i \in 1..Len(old \o next) :
             (old \o next)[i] >= 1 /\ (old \o next)[i] <= appended + Len(next)
        /\ \A i, j \in 1..Len(old \o next) :
             i < j => (old \o next)[i] < (old \o next)[j]
        /\ old = [i \in 1..appended |-> i] =>
             old \o next = [i \in 1..(appended + Len(next)) |-> i]
    BY <1>1, <1>2, <1>4, <2>1, OrderGrows, Zenon
  <2> QED BY <1>1, <1>3, <2>2, Zenon
<1>7. \A i \in 1..Len(new) : i \in 1..Len(all) /\ new[i] = all[i]
  BY <1>2, <1>5, <1>6 DEF StartOf
<1>8. /\ \A i \in 1..Len(new) : new[i] >= 1 /\ new[i] <= appended + n
      /\ \A i, j \in 1..Len(new) : i < j => new[i] < new[j]
  BY <1>6, <1>7
<1>9. ~failed' => new = [i \in 1..(appended + n) |-> i]
  BY <1>4, <1>5, <1>6
<1> QED BY <1>5, <1>8, <1>9 DEF ByteOrder

(* What a step that lets bytes through, and grows the file, has to show.    *)
LEMMA StepKeepsWritable ==
  ASSUME WritableInv, NEW n \in Nat, appended' = appended + n,
         wFile' \in Seq(Nat), buf' \in Seq(Nat),
         failed' \in BOOLEAN, wOpen' \in BOOLEAN,
         StartOf(wFile' \o buf', Grown(n)),
         ~failed' => ~failed /\ wFile' \o buf' = Grown(n),
         wSynced' \in Nat, wSynced' <= Len(wFile'), Len(buf') <= BufferSize,
         ~(failed' \/ wOpen') => buf' = <<>>
  PROVE  WritableInv'
<1>1. ByteOrder'
  BY BytesKept DEF WritableInv
<1>2. ByteTypes'
  BY DEF WritableInv, ByteTypes
<1> QED BY <1>1, <1>2 DEF WritableInv

(* A flush writes a start of the buffer, and all of it when it succeeds.    *)
LEMMA FlushWrites ==
  ASSUME ByteTypes, NEW w \in Writable!WriteUnbuffered(buf),
         wFile' = wFile \o w.data, buf' = <<>>
  PROVE  /\ w.ok \in BOOLEAN
         /\ wFile' \in Seq(Nat) /\ buf' \in Seq(Nat)
         /\ StartOf(wFile' \o buf', Grown(0))
         /\ w.ok => wFile' \o buf' = Grown(0)
         /\ Len(wFile) <= Len(wFile') /\ Len(wFile') \in Nat
<1>1. /\ w.ok \in BOOLEAN /\ w.data \in Seq(Nat)
      /\ StartOf(w.data, buf) /\ (w.ok => w.data = buf)
      /\ wFile \in Seq(Nat) /\ buf \in Seq(Nat)
  BY WriteStarts DEF ByteTypes
<1>2. Grown(0) = wFile \o buf
  <2>1. Writable!Fresh(0) = <<>>
    <3>1. Writable!Fresh(0) \in Seq(Nat) /\ Len(Writable!Fresh(0)) = 0
      BY FreshBytes DEF ByteTypes
    <3> QED BY <3>1, EmptySeq
  <2>2. buf \o <<>> = buf
    BY <1>1, ConcatEmptySeq
  <2> QED BY <2>1, <2>2 DEF Grown
<1>3. /\ wFile' \in Seq(Nat) /\ Len(wFile') = Len(wFile) + Len(w.data)
      /\ wFile' \o buf' = wFile \o w.data
  <2>1. wFile \o w.data \in Seq(Nat)
        /\ Len(wFile \o w.data) = Len(wFile) + Len(w.data)
    BY <1>1, Joined
  <2>2. (wFile \o w.data) \o <<>> = wFile \o w.data
    BY <2>1, ConcatEmptySeq
  <2> QED BY <2>1, <2>2
<1>4. StartOf(wFile \o w.data, wFile \o buf)
  BY <1>1, StartBehind
<1>5. Len(wFile) \in Nat /\ Len(w.data) \in Nat
  BY <1>1
<1>6. Len(wFile) <= Len(wFile') /\ Len(wFile') \in Nat
  BY <1>3, <1>5
<1>7. w.ok => wFile' \o buf' = Grown(0)
  BY <1>1, <1>2, <1>3
<1>8. StartOf(wFile' \o buf', Grown(0))
  BY <1>2, <1>3, <1>4
<1> QED BY <1>1, <1>3, <1>6, <1>7, <1>8

(* What Append takes into the buffer, and what it has left.                 *)
LEMMA AppendCuts ==
  ASSUME WritableInv, NEW n \in Nat
  PROVE  LET copied == IF n < BufferSize - Len(buf) THEN n
                       ELSE BufferSize - Len(buf)
             full == buf \o SubSeq(Writable!Fresh(n), 1, copied)
             rest == Writable!Rest(n, copied)
         IN  /\ full \in Seq(Nat) /\ rest \in Seq(Nat)
             /\ Len(full) <= BufferSize
             /\ Grown(n) = wFile \o (full \o rest)
<1> DEFINE copied == IF n < BufferSize - Len(buf) THEN n ELSE BufferSize - Len(buf)
           head == SubSeq(Writable!Fresh(n), 1, copied)
           rest == Writable!Rest(n, copied)
<1>1. /\ appended \in Nat /\ buf \in Seq(Nat) /\ Len(buf) <= BufferSize
      /\ BufferSize \in Nat
  BY WritableAssumption DEF WritableInv, ByteTypes, Writable!WritableFileAssumption
<1>2. copied \in 0..n /\ Len(buf) + copied <= BufferSize /\ Len(buf) \in Nat
  BY <1>1
<1> HIDE DEF copied
<1>3. /\ head \in Seq(Nat) /\ Len(head) = copied /\ rest \in Seq(Nat)
      /\ head \o rest = Writable!Fresh(n)
  BY <1>1, <1>2, CutAppend
<1> HIDE DEF head, rest
<1>4. buf \o head \in Seq(Nat) /\ Len(buf \o head) = Len(buf) + Len(head)
  BY <1>1, <1>3, Joined
<1>5. (buf \o head) \o rest = buf \o (head \o rest)
  BY <1>1, <1>3, JoinedThree, Zenon
<1>6. Grown(n) = wFile \o ((buf \o head) \o rest)
  BY <1>3, <1>5, Zenon DEF Grown
<1>7. Len(buf \o head) <= BufferSize
  BY <1>2, <1>3, <1>4
<1> QED BY <1>3, <1>4, <1>6, <1>7, Zenon DEF head, rest, copied

(* Append keeps WritableInv.                                                *)
LEMMA AppendKeepsWritable ==
  ASSUME WritableInv, NEW n \in AppendSizes, Writable!AppendData(n)
  PROVE  WritableInv' /\ wSynced' = wSynced
<1> DEFINE copied == IF n < BufferSize - Len(buf) THEN n ELSE BufferSize - Len(buf)
           full == buf \o SubSeq(Writable!Fresh(n), 1, copied)
           rest == Writable!Rest(n, copied)
<1>1. /\ n \in Nat /\ BufferSize \in Nat
  BY WritableAssumption DEF Writable!WritableFileAssumption
<1>2. /\ full \in Seq(Nat) /\ rest \in Seq(Nat) /\ Len(full) <= BufferSize
      /\ Grown(n) = wFile \o (full \o rest)
  BY <1>1, AppendCuts
<1>3. /\ appended' = appended + n /\ wSynced' = wSynced /\ wOpen' = wOpen /\ wOpen
      /\ \/ rest = <<>> /\ buf' = full /\ wFile' = wFile /\ failed' = failed
         \/ \E w \in Writable!WriteUnbuffered(full) :
              \/ ~w.ok /\ wFile' = wFile \o w.data /\ buf' = <<>> /\ failed' = TRUE
              \/ /\ w.ok /\ Len(rest) < BufferSize
                 /\ wFile' = wFile \o w.data /\ buf' = rest /\ failed' = failed
              \/ /\ w.ok /\ buf' = <<>>
                 /\ \E v \in Writable!WriteUnbuffered(rest) :
                      /\ wFile' = wFile \o w.data \o v.data
                      /\ failed' = (failed \/ ~v.ok)
  BY DEF Writable!AppendData, Writable!FlushBuffer
<1>4. wFile \in Seq(Nat) /\ failed \in BOOLEAN /\ wSynced \in Nat
      /\ wSynced <= Len(wFile) /\ Len(wFile) \in Nat
  BY DEF WritableInv, ByteTypes
<1> HIDE DEF full, rest
<1>5. \A s \in Seq(Nat) : s \o <<>> = s
  BY ConcatEmptySeq
<1>6. ASSUME wFile' \in Seq(Nat), buf' \in Seq(Nat), failed' \in BOOLEAN,
             StartOf(wFile' \o buf', Grown(n)),
             ~failed' => ~failed /\ wFile' \o buf' = Grown(n),
             Len(wFile') >= Len(wFile), Len(buf') <= BufferSize
      PROVE  WritableInv'
  <2>1. wSynced' \in Nat /\ wSynced' <= Len(wFile') /\ wOpen' = TRUE
    <3>1. Len(wFile') \in Nat
      BY <1>6
    <3> QED BY <1>3, <1>4, <1>6, <3>1 DEF WritableInv, ByteTypes
  <2> QED BY <1>1, <1>3, <1>6, <2>1, StepKeepsWritable
<1>7. ASSUME rest = <<>>, buf' = full, wFile' = wFile, failed' = failed
      PROVE  WritableInv'
  <2>1. wFile' \o buf' = Grown(n)
    BY <1>2, <1>5, <1>7
  <2>2. StartOf(Grown(n), Grown(n))
    <3>1. wFile' \o buf' \in Seq(Nat)
      BY <1>2, <1>4, <1>7, Joined
    <3> QED BY <2>1, <3>1 DEF StartOf
  <2> QED BY <1>2, <1>4, <1>6, <1>7, <2>1, <2>2
<1>8. ASSUME NEW w \in Writable!WriteUnbuffered(full), ~w.ok,
             wFile' = wFile \o w.data, buf' = <<>>, failed' = TRUE
      PROVE  WritableInv'
  <2>1. w.data \in Seq(Nat) /\ StartOf(w.data, full)
    BY <1>2, WriteStarts
  <2>2. StartOf(w.data, full \o rest) /\ full \o rest \in Seq(Nat)
    BY <1>2, <2>1, StartOfStart, Joined
  <2>3. StartOf(wFile \o w.data, Grown(n))
    BY <1>2, <1>4, <2>1, <2>2, StartBehind
  <2>4. wFile \o w.data \in Seq(Nat) /\ Len(wFile \o w.data) >= Len(wFile)
    BY <1>4, <2>1, Joined
  <2>5. wFile' \o buf' = wFile \o w.data
    BY <1>5, <1>8, <2>4
  <2> QED BY <1>1, <1>6, <1>8, <2>3, <2>4, <2>5
<1>9. ASSUME Len(rest) < BufferSize,
             wFile' = wFile \o full, buf' = rest, failed' = failed
      PROVE  WritableInv'
  <2>1. wFile \o full \in Seq(Nat) /\ Len(wFile \o full) >= Len(wFile)
    BY <1>2, <1>4, Joined
  <2>2. wFile' \o buf' = Grown(n)
    BY <1>2, <1>4, <1>9, JoinedThree, Zenon
  <2>3. StartOf(Grown(n), Grown(n))
    <3>1. wFile' \o buf' \in Seq(Nat)
      BY <1>2, <1>9, <2>1, Joined
    <3> QED BY <2>2, <3>1 DEF StartOf
  <2>4. Len(rest) \in Nat
    BY <1>2
  <2> QED BY <1>1, <1>2, <1>4, <1>6, <1>9, <2>1, <2>2, <2>3, <2>4
<1>10. ASSUME NEW v \in Writable!WriteUnbuffered(rest), buf' = <<>>,
              wFile' = wFile \o full \o v.data, failed' = (failed \/ ~v.ok)
       PROVE  WritableInv'
  <2>1. /\ v.data \in Seq(Nat) /\ StartOf(v.data, rest) /\ v.ok \in BOOLEAN
        /\ v.ok => v.data = rest
    BY <1>2, WriteStarts
  <2>2. StartOf(full \o v.data, full \o rest)
    BY <1>2, <2>1, StartBehind
  <2>3. full \o v.data \in Seq(Nat) /\ full \o rest \in Seq(Nat)
    BY <1>2, <2>1, Joined
  <2>4. StartOf(wFile \o (full \o v.data), Grown(n))
    BY <1>2, <1>4, <2>2, <2>3, StartBehind
  <2>5. wFile' = wFile \o (full \o v.data)
    BY <1>2, <1>4, <1>10, <2>1, JoinedThree, Zenon
  <2>6. wFile' \in Seq(Nat) /\ Len(wFile') >= Len(wFile)
    BY <1>4, <2>3, <2>5, Joined
  <2>7. wFile' \o buf' = wFile'
    BY <1>5, <1>10, <2>6
  <2>8. v.ok => wFile' = Grown(n)
    BY <1>2, <2>1, <2>5
  <2>9. failed' \in BOOLEAN /\ (~failed' => ~failed /\ v.ok)
    BY <1>4, <1>10, <2>1, Zenon
  <2> QED BY <1>1, <1>6, <1>10, <2>4, <2>5, <2>6, <2>7, <2>8, <2>9
<1>11. WritableInv'
  <2>1. \A w \in Writable!WriteUnbuffered(full) : w.ok => w.data = full
    BY <1>2, WriteStarts
  <2> QED BY <1>3, <1>7, <1>8, <1>9, <1>10, <2>1
<1> QED BY <1>3, <1>11

(* Flush, Close and Sync keep it.                                           *)
LEMMA FlushKeepsWritable ==
  ASSUME WritableInv, Writable!Flush \/ Writable!Close \/ Writable!Sync
  PROVE  WritableInv' /\ wSynced' >= wSynced
<1>1. /\ ByteTypes /\ wFile \in Seq(Nat) /\ buf \in Seq(Nat)
      /\ wSynced \in Nat /\ wSynced <= Len(wFile) /\ Len(wFile) \in Nat
      /\ failed \in BOOLEAN /\ wOpen \in BOOLEAN /\ appended \in Nat
      /\ BufferSize \in Nat
  BY WritableAssumption DEF WritableInv, ByteTypes, Writable!WritableFileAssumption
<1>2. ASSUME NEW w \in Writable!WriteUnbuffered(buf), appended' = appended,
             wFile' = wFile \o w.data, buf' = <<>>,
             failed' \in BOOLEAN, wOpen' \in BOOLEAN, ~failed' => ~failed /\ w.ok,
             wSynced' \in Nat, wSynced' <= Len(wFile')
      PROVE  WritableInv'
  <2>1. /\ wFile' \in Seq(Nat) /\ buf' \in Seq(Nat)
        /\ StartOf(wFile' \o buf', Grown(0))
        /\ w.ok => wFile' \o buf' = Grown(0)
    BY <1>1, <1>2, FlushWrites
  <2>2. appended' = appended + 0 /\ Len(buf') <= BufferSize
    BY <1>1, <1>2
  <2> QED BY <1>2, <2>1, <2>2, StepKeepsWritable
<1>3. ASSUME NEW w \in Writable!WriteUnbuffered(buf),
             wFile' = wFile \o w.data, buf' = <<>>
      PROVE  w.ok \in BOOLEAN /\ Len(wFile) <= Len(wFile') /\ Len(wFile') \in Nat
  BY <1>1, <1>3, FlushWrites
<1>4. CASE Writable!Flush
  <2>1. PICK w \in Writable!WriteUnbuffered(buf) :
          wFile' = wFile \o w.data /\ buf' = <<>> /\ failed' = (failed \/ ~w.ok)
    BY <1>4 DEF Writable!Flush, Writable!FlushBuffer
  <2>2. wSynced' = wSynced /\ wOpen' = wOpen /\ appended' = appended
    BY <1>4 DEF Writable!Flush
  <2>3. failed' \in BOOLEAN /\ (~failed' => ~failed /\ w.ok)
    BY <1>1, <1>3, <2>1, Zenon
  <2>4. wSynced' \in Nat /\ wSynced' <= Len(wFile')
    BY <1>1, <1>3, <2>1, <2>2
  <2>5. wOpen' \in BOOLEAN
    BY <1>1, <2>2, Zenon
  <2>6. WritableInv'
    BY <1>2, <2>1, <2>2, <2>3, <2>4, <2>5
  <2> QED BY <1>1, <2>2, <2>6
<1>5. CASE Writable!Close
  <2>1. PICK w \in Writable!WriteUnbuffered(buf), ok \in BOOLEAN :
          /\ wFile' = wFile \o w.data /\ buf' = <<>>
          /\ failed' = (failed \/ ~w.ok \/ ~ok)
    BY <1>5 DEF Writable!Close, Writable!FlushBuffer
  <2>2. wSynced' = wSynced /\ wOpen' = FALSE /\ appended' = appended
    BY <1>5 DEF Writable!Close
  <2>3. failed' \in BOOLEAN /\ (~failed' => ~failed /\ w.ok)
    BY <1>1, <1>3, <2>1, Zenon
  <2>4. wSynced' \in Nat /\ wSynced' <= Len(wFile')
    BY <1>1, <1>3, <2>1, <2>2
  <2>5. WritableInv'
    BY <1>2, <2>1, <2>2, <2>3, <2>4
  <2> QED BY <1>1, <2>2, <2>5
<1>6. CASE Writable!Sync
  <2>1. wOpen' = wOpen /\ appended' = appended /\ wOpen' \in BOOLEAN
    BY <1>1, <1>6 DEF Writable!Sync
  <2>2. CASE failed' = TRUE /\ UNCHANGED <<wFile, buf, wSynced>>
    <3>1. ByteTypes'
      BY <1>1, <2>1, <2>2 DEF ByteTypes
    <3>2. ByteOrder'
      BY <2>1, <2>2 DEF WritableInv, ByteOrder, Written
    <3>3. Len(buf') <= BufferSize /\ wSynced' <= Len(wFile')
      BY <2>2 DEF WritableInv
    <3>4. wSynced' >= wSynced
      BY <1>1, <2>2
    <3> QED BY <2>2, <3>1, <3>2, <3>3, <3>4 DEF WritableInv
  <2>3. ASSUME NEW w \in Writable!WriteUnbuffered(buf),
               wFile' = wFile \o w.data, buf' = <<>>,
               \/ w.ok /\ wSynced' = Len(wFile') /\ failed' = failed
               \/ failed' = TRUE /\ wSynced' = wSynced
        PROVE  WritableInv' /\ wSynced' >= wSynced
    <3>1. Len(wFile) <= Len(wFile') /\ Len(wFile') \in Nat
      BY <1>3, <2>3
    <3>2. wSynced' \in Nat /\ wSynced' <= Len(wFile') /\ wSynced' >= wSynced
      BY <1>1, <2>3, <3>1
    <3>3. failed' \in BOOLEAN /\ (~failed' => ~failed /\ w.ok)
      BY <1>1, <2>3
    <3> QED BY <1>2, <2>1, <2>3, <3>2, <3>3
  <2> QED BY <1>6, <2>2, <2>3 DEF Writable!Sync, Writable!FlushBuffer
<1> QED BY <1>4, <1>5, <1>6

(* Every step of the file keeps it, and what is durable stays so.           *)
LEMMA WritableStep ==
  ASSUME WritableInv, [Writable!Next]_(Writable!vars)
  PROVE  WritableInv' /\ wSynced' >= wSynced
<1>1. CASE Writable!Next
  <2>1. wSynced \in Nat
    BY DEF WritableInv, ByteTypes
  <2> QED BY <1>1, <2>1, AppendKeepsWritable, FlushKeepsWritable DEF Writable!Next
<1>2. CASE UNCHANGED Writable!vars
  BY <1>2 DEF Writable!vars, WritableInv, ByteTypes, ByteOrder, Written
<1> QED BY <1>1, <1>2

(* The empty file satisfies it.                                             *)
LEMMA WritableInit == Writable!Init => WritableInv
<1> SUFFICES ASSUME Writable!Init PROVE WritableInv
  OBVIOUS
<1>1. /\ appended = 0 /\ buf = <<>> /\ wFile = <<>> /\ wSynced = 0
      /\ failed = FALSE /\ wOpen = TRUE /\ BufferSize \in Nat
  BY WritableAssumption DEF Writable!Init, Writable!WritableFileAssumption
<1>2. Written = <<>> /\ [i \in 1..0 |-> i] = <<>>
  BY <1>1 DEF Written
<1>3. ByteOrder
  BY <1>1, <1>2 DEF ByteOrder
<1>4. ByteTypes
  <2>1. appended \in Nat /\ wSynced \in Nat /\ wFile \in Seq(Nat) /\ buf \in Seq(Nat)
    BY <1>1
  <2>2. failed \in BOOLEAN /\ wOpen \in BOOLEAN
    BY <1>1, Zenon
  <2> QED BY <2>1, <2>2 DEF ByteTypes
<1> QED BY <1>1, <1>3, <1>4 DEF WritableInv

(* The file and the buffer of a PosixWritableFile hold what was appended    *)
(* (FileHoldsAppended), for a buffer of any size and any sequence of        *)
(* Append, Flush, Sync and Close, over partial writes and errors.           *)
THEOREM FilesHoldAppended == Writable!Spec => []FileHoldsAppended
<1>1. WritableInv => FileHoldsAppended
  <2> SUFFICES ASSUME WritableInv PROVE FileHoldsAppended
    OBVIOUS
  <2>1. Written \in Seq(Nat)
    BY Joined DEF WritableInv, ByteTypes, Written
  <2>2. Writable!NothingMissing
    BY DEF WritableInv, ByteOrder, Written, Writable!NothingMissing
  <2>3. DOMAIN Written = 1..Len(Written)
    BY <2>1
  <2>4. Writable!NeverRepeats
    BY <2>3 DEF WritableInv, ByteOrder, Written, Writable!NeverRepeats
  <2> QED BY <2>2, <2>4 DEF FileHoldsAppended
<1>2. WritableInv /\ [Writable!Next]_(Writable!vars) => WritableInv'
  BY WritableStep
<1> QED BY <1>1, <1>2, WritableInit, PTL DEF Writable!Spec

(* A Sync that returns OK, when no call failed before, has made durable all *)
(* that was appended, and nothing durable is ever given up                  *)
(* (SyncMakesDurable).                                                      *)
THEOREM SyncsMakeDurable == Writable!Spec => SyncMakesDurable
<1> DEFINE Durable == /\ wSynced' >= wSynced
                      /\ (Writable!Sync /\ ~failed') => wSynced' = appended
<1>1. WritableInv /\ [Writable!Next]_(Writable!vars) => WritableInv'
  BY WritableStep
<1>2. WritableInv /\ [Writable!Next]_(Writable!vars) => [Durable]_(Writable!vars)
  <2> SUFFICES ASSUME WritableInv, [Writable!Next]_(Writable!vars) PROVE Durable
    OBVIOUS
  <2>1. wSynced' >= wSynced /\ WritableInv'
    BY WritableStep
  <2>2. ASSUME Writable!Sync, ~failed' PROVE wSynced' = appended
    <3>1. wSynced' = Len(wFile') /\ buf' = <<>> /\ appended' = appended
      BY <2>2 DEF Writable!Sync, Writable!FlushBuffer
    <3>2. wFile' \o buf' = [i \in 1..appended' |-> i] /\ wFile' \in Seq(Nat)
          /\ appended' \in Nat
      BY <2>1, <2>2 DEF WritableInv, ByteTypes, ByteOrder, Written
    <3>3. wFile' \o <<>> = wFile'
      BY <3>2, ConcatEmptySeq
    <3>4. Len([i \in 1..appended' |-> i]) = appended'
      BY <3>2
    <3> QED BY <3>1, <3>2, <3>3, <3>4
  <2> QED BY <2>1, <2>2
<1> QED BY <1>1, <1>2, WritableInit, PTL
        DEF Writable!Spec, SyncMakesDurable, Writable!SyncMakesDurable

-----------------------------------------------------------------------------
(* The lock of a DB. *)

(* Where a thread is while its process has the file in its lock table.      *)
Busy == {"inserted", "held", "failed", "closed", "unlocked"}

(* The table of a process has the file if and only if one of its threads,   *)
(* and only one, is at it; the kernel's lock is with a process that holds   *)
(* it, and stays with a process that opens the DB once.                     *)
LockInv ==
  /\ pc = [t \in Threads |-> pc[t]]
  /\ \A t \in Threads : pc[t] \in Busy => Process[t] \in table
  /\ \A t, u \in Threads :
       pc[t] \in Busy /\ pc[u] \in Busy /\ Process[t] = Process[u] => t = u
  /\ \A p \in table : \E t \in Threads : Process[t] = p /\ pc[t] \in Busy
  /\ owner # NoProcess =>
       \E t \in Threads : Process[t] = owner /\ pc[t] = "held"
  /\ \A t \in Threads : pc[t] = "held" /\ Locks!Alone(t) => owner = Process[t]

(* LockInv holds at first.                                                  *)
LEMMA LockInit == Locks!Init => LockInv
BY DEF Locks!Init, LockInv, Busy

(* A step of one thread keeps LockInv.                                      *)
LEMMA LockStepKeeps ==
  ASSUME LockInv, NEW t \in Threads,
         \/ Locks!OpenFile(t) \/ Locks!Insert(t) \/ Locks!CloseRefused(t)
         \/ Locks!Lock(t) \/ Locks!CloseFailed(t) \/ Locks!RemoveFailed(t)
         \/ Locks!Unlock(t) \/ Locks!RemoveUnlocked(t) \/ Locks!CloseUnlocked(t)
  PROVE  LockInv'
<1> USE DEF LockInv, Busy, Locks!Go, Locks!Releases, Locks!Grants, Locks!Alone
<1>0. \A u \in Threads : Process[u] # NoProcess
  BY LocksAssumption DEF Locks!ProcessAssumption, Locks!Processes
<1>1. CASE Locks!OpenFile(t)
  BY <1>1 DEF Locks!OpenFile
<1>2. CASE Locks!Insert(t)
  BY <1>2 DEF Locks!Insert
<1>3. CASE Locks!CloseRefused(t)
  BY <1>3 DEF Locks!CloseRefused
<1>4. CASE Locks!Lock(t)
  BY <1>0, <1>4 DEF Locks!Lock
<1>5. CASE Locks!CloseFailed(t)
  BY <1>5 DEF Locks!CloseFailed
<1>6. CASE Locks!RemoveFailed(t)
  BY <1>6 DEF Locks!RemoveFailed
<1>7. CASE Locks!Unlock(t)
  BY <1>7 DEF Locks!Unlock
<1>8. CASE Locks!RemoveUnlocked(t)
  BY <1>8 DEF Locks!RemoveUnlocked
<1>9. CASE Locks!CloseUnlocked(t)
  BY <1>9 DEF Locks!CloseUnlocked
<1> QED BY <1>1, <1>2, <1>3, <1>4, <1>5, <1>6, <1>7, <1>8, <1>9

(* A process that ends leaves its entry and its lock.                       *)
LEMMA ExitKeeps ==
  ASSUME LockInv, NEW p \in Locks!Processes, Locks!Exit(p)
  PROVE  LockInv'
BY DEF LockInv, Busy, Locks!Exit, Locks!Releases, Locks!Alone

(* env_posix.cc, LockFile and UnlockFile: threads of one process exclude    *)
(* each other by the lock table, processes that open the DB once by the     *)
(* kernel's lock, and a refused or returned lock leaves nothing behind, for *)
(* any number of processes and threads.                                     *)
THEOREM LocksAreExclusive == Locks!Spec => []LocksExclude
<1>1. LockInv /\ [Locks!Next]_(Locks!vars) => LockInv'
  <2> SUFFICES ASSUME LockInv, [Locks!Next]_(Locks!vars) PROVE LockInv'
    OBVIOUS
  <2>1. CASE UNCHANGED Locks!vars
    BY <2>1 DEF Locks!vars, LockInv, Locks!Alone
  <2> QED BY <2>1, LockStepKeeps, ExitKeeps DEF Locks!Next
<1>2. LockInv => LocksExclude
  <2> SUFFICES ASSUME LockInv PROVE LocksExclude
    OBVIOUS
  <2> USE DEF LockInv, Busy, Locks!Holders
  <2>1. Locks!LockExclusive
    BY DEF Locks!LockExclusive, Locks!Alone
  <2>2. Locks!OneHolderInProcess
    BY DEF Locks!OneHolderInProcess
  <2>3. Locks!NoStaleLock
    BY LocksAssumption DEF Locks!NoStaleLock, Locks!ProcessAssumption
  <2> QED BY <2>1, <2>2, <2>3 DEF LocksExclude
<1> QED BY <1>1, <1>2, LockInit, PTL DEF Locks!Spec

-----------------------------------------------------------------------------
(* The background thread. *)

(* The items given to Schedule, in the order in which they are queued.      *)
Queued(q) == {q[i] : i \in DOMAIN q}

WorkInv ==
  /\ queue \in Seq(Nat) /\ items \in Nat
  /\ thread \in {"none", "ready", "asleep", "running"}
  /\ queue # <<>> => thread \in {"ready", "running"}
  /\ run \union Queued(queue) = 1..items

(* What Append, Head and Tail do to the queued items.                       *)
LEMMA QueuedItems ==
  ASSUME NEW q \in Seq(Nat)
  PROVE  /\ \A n \in Nat : Queued(Append(q, n)) = Queued(q) \union {n}
         /\ q # <<>> => /\ Tail(q) \in Seq(Nat) /\ Head(q) \in Nat
                        /\ Queued(q) = {Head(q)} \union Queued(Tail(q))
<1>1. DOMAIN q = 1..Len(q) /\ Len(q) \in Nat
  OBVIOUS
<1>2. ASSUME NEW n \in Nat PROVE Queued(Append(q, n)) = Queued(q) \union {n}
  <2> DEFINE r == Append(q, n)
  <2>1. /\ r \in Seq(Nat) /\ Len(r) = Len(q) + 1 /\ r[Len(q) + 1] = n
        /\ \A i \in 1..Len(q) : r[i] = q[i]
    BY <1>1
  <2>2. DOMAIN r = 1..Len(r)
    BY <2>1
  <2> HIDE DEF r
  <2>3. ASSUME NEW i \in DOMAIN r PROVE r[i] \in Queued(q) \union {n}
    <3>1. i \in 1..Len(q) \/ i = Len(q) + 1
      BY <1>1, <2>1, <2>2
    <3> QED BY <1>1, <2>1, <3>1 DEF Queued
  <2>4. ASSUME NEW i \in DOMAIN q PROVE q[i] \in Queued(r)
    <3>1. i \in DOMAIN r /\ r[i] = q[i]
      BY <1>1, <2>1, <2>2
    <3> QED BY <3>1 DEF Queued
  <2>5. n \in Queued(r)
    <3>1. Len(q) + 1 \in DOMAIN r
      BY <1>1, <2>1, <2>2
    <3> QED BY <2>1, <3>1 DEF Queued
  <2>6. Queued(r) \subseteq Queued(q) \union {n}
    BY <2>3 DEF Queued
  <2>7. Queued(q) \subseteq Queued(r)
    BY <2>4 DEF Queued
  <2> QED BY <2>5, <2>6, <2>7 DEF r
<1>3. ASSUME q # <<>>
      PROVE  /\ Tail(q) \in Seq(Nat) /\ Head(q) \in Nat
             /\ Queued(q) = {Head(q)} \union Queued(Tail(q))
  <2> DEFINE r == Tail(q)
  <2>1. /\ Len(q) > 0 /\ r \in Seq(Nat) /\ Len(r) = Len(q) - 1
        /\ Head(q) = q[1] /\ Head(q) \in Nat
        /\ \A i \in 1..Len(r) : r[i] = q[i + 1]
    BY <1>1, <1>3
  <2>2. DOMAIN r = 1..Len(r)
    BY <2>1
  <2> HIDE DEF r
  <2>3. ASSUME NEW i \in DOMAIN q PROVE q[i] \in {Head(q)} \union Queued(r)
    <3>1. CASE i = 1
      BY <2>1, <3>1
    <3>2. CASE i # 1
      <4>1. i - 1 \in DOMAIN r /\ r[i - 1] = q[i]
        BY <1>1, <2>1, <2>2, <3>2
      <4> QED BY <4>1 DEF Queued
    <3> QED BY <3>1, <3>2
  <2>4. ASSUME NEW i \in DOMAIN r PROVE r[i] \in Queued(q)
    <3>1. i + 1 \in DOMAIN q /\ r[i] = q[i + 1]
      BY <1>1, <2>1, <2>2
    <3> QED BY <3>1 DEF Queued
  <2>5. Head(q) \in Queued(q)
    BY <1>1, <2>1 DEF Queued
  <2>6. Queued(q) \subseteq {Head(q)} \union Queued(r)
    BY <2>3 DEF Queued
  <2>7. Queued(r) \subseteq Queued(q)
    BY <2>4 DEF Queued
  <2> QED BY <2>1, <2>5, <2>6, <2>7 DEF r
<1> QED BY <1>2, <1>3

(* Every step keeps WorkInv.                                                *)
LEMMA WorkStepKeeps == WorkInv /\ [Posix!Next]_(Posix!vars) => WorkInv'
<1> SUFFICES ASSUME WorkInv, [Posix!Next]_(Posix!vars) PROVE WorkInv'
  OBVIOUS
<1>0. /\ queue \in Seq(Nat) /\ items \in Nat
      /\ thread \in {"none", "ready", "asleep", "running"}
      /\ queue # <<>> => thread \in {"ready", "running"}
      /\ run \union Queued(queue) = 1..items
  BY DEF WorkInv
<1>1. CASE Posix!Schedule
  <2>1. /\ items' = items + 1 /\ queue' = Append(queue, items + 1) /\ run' = run
        /\ thread' = IF thread = "none" \/ (thread = "asleep" /\ queue = <<>>)
                     THEN "ready" ELSE thread
    BY <1>1 DEF Posix!Schedule
  <2>2. Queued(queue') = Queued(queue) \union {items + 1}
    BY <1>0, <2>1, QueuedItems
  <2>3. 1..(items + 1) = 1..items \union {items + 1}
    BY <1>0
  <2>4. run' \union Queued(queue') = 1..items'
    BY <1>0, <2>1, <2>2, <2>3
  <2>5. queue' \in Seq(Nat) /\ items' \in Nat
    BY <1>0, <2>1
  <2>6. thread' \in {"ready", "running"}
    BY <1>0, <2>1
  <2> QED BY <2>4, <2>5, <2>6 DEF WorkInv
<1>2. CASE Posix!Wait
  BY <1>0, <1>2 DEF Posix!Wait, WorkInv, Queued
<1>3. CASE Posix!TakeItem
  <2>1. /\ queue # <<>> /\ thread' = "running"
        /\ run' = run \union {Head(queue)} /\ queue' = Tail(queue)
        /\ items' = items
    BY <1>3 DEF Posix!TakeItem
  <2>2. queue' \in Seq(Nat)
        /\ Queued(queue) = {Head(queue)} \union Queued(queue')
    BY <1>0, <2>1, QueuedItems
  <2>3. run' \union Queued(queue') = 1..items
    BY <1>0, <2>1, <2>2
  <2> QED BY <1>0, <2>1, <2>2, <2>3 DEF WorkInv
<1>4. CASE Posix!ItemDone
  BY <1>0, <1>4 DEF Posix!ItemDone, WorkInv, Queued
<1>5. CASE UNCHANGED Posix!workVars
  BY <1>0, <1>5 DEF Posix!workVars, WorkInv, Queued
<1>6. ASSUME NEW f \in Files,
             \/ Posix!TryMmap(f) \/ Posix!NoMmap(f) \/ Posix!Map(f)
             \/ Posix!MapFails(f) \/ Posix!TryFd(f) \/ Posix!NoFd(f)
             \/ Posix!DeleteMapped(f) \/ Posix!DeletePermanent(f)
             \/ Posix!DeleteTemporary(f)
      PROVE  UNCHANGED Posix!workVars
  BY <1>6 DEF Posix!TryMmap, Posix!NoMmap, Posix!Map, Posix!MapFails,
     Posix!TryFd, Posix!NoFd, Posix!DeleteMapped, Posix!DeletePermanent,
     Posix!DeleteTemporary
<1>7. CASE UNCHANGED Posix!vars
  BY <1>5, <1>7 DEF Posix!vars
<1> QED BY <1>1, <1>2, <1>3, <1>4, <1>5, <1>6, <1>7 DEF Posix!Next,
           Posix!Background

(* env_posix.cc, Schedule and BackgroundThreadMain: an item in the queue    *)
(* never waits for a thread that sleeps, and every item scheduled is in the *)
(* queue or has been run.                                                   *)
THEOREM QueueIsAttended == Posix!Spec => []QueueAttended
<1>1. Posix!Init => WorkInv
  BY DEF Posix!Init, WorkInv, Queued
<1>2. WorkInv => QueueAttended
  BY DEF WorkInv, QueueAttended, Posix!QueueAttended, Queued
<1> QED BY <1>1, <1>2, WorkStepKeeps, PTL DEF Posix!Spec

-----------------------------------------------------------------------------
(* The limits for maps and descriptors. *)

FileStates == {"none", "mapping", "no mmap", "opened", "mapped", "permanent",
               "no fd", "temporary"}

LimitInv ==
  /\ rFile \in [Files -> FileStates]
  /\ mmaps \in Int /\ fds \in Int
  /\ LimitsExact

(* How many files are in a state changes by one when one file enters or     *)
(* leaves it.                                                               *)
LEMMA CountMoves ==
  ASSUME NEW f \in Files, rFile \in [Files -> FileStates],
         NEW to \in FileStates, rFile' = [rFile EXCEPT ![f] = to], NEW S
  PROVE  LET old == Posix!InState(S)
             new == Posix!InState(S)'
         IN  /\ Cardinality(old) \in Nat /\ Cardinality(new) \in Nat
             /\ rFile[f] \in S /\ to \in S =>
                  Cardinality(new) = Cardinality(old)
             /\ rFile[f] \notin S /\ to \notin S =>
                  Cardinality(new) = Cardinality(old)
             /\ rFile[f] \notin S /\ to \in S =>
                  Cardinality(new) = Cardinality(old) + 1
             /\ rFile[f] \in S /\ to \notin S =>
                  Cardinality(new) = Cardinality(old) - 1
<1> DEFINE old == Posix!InState(S)
           new == Posix!InState(S)'
<1>1. old = {g \in Files : rFile[g] \in S} /\ new = {g \in Files : rFile'[g] \in S}
  BY DEF Posix!InState
<1>2. IsFiniteSet(Files)
  BY PosixAssumption DEF Posix!LimitsAssumption, Posix!IsFiniteSet, IsFiniteSet
<1>3. IsFiniteSet(old) /\ IsFiniteSet(new)
  BY <1>1, <1>2, FS_Subset
<1>4. rFile'[f] = to /\ \A g \in Files : g # f => rFile'[g] = rFile[g]
  OBVIOUS
<1>5. rFile[f] \in S /\ to \in S => new = old
  BY <1>1, <1>4
<1>6. rFile[f] \notin S /\ to \notin S => new = old
  BY <1>1, <1>4
<1>7. rFile[f] \notin S /\ to \in S => new = old \union {f} /\ f \notin old
  BY <1>1, <1>4
<1>8. rFile[f] \in S /\ to \notin S => new = old \ {f} /\ f \in old
  BY <1>1, <1>4
<1> HIDE DEF old, new
<1>9. Cardinality(old) \in Nat /\ Cardinality(new) \in Nat
  BY <1>3, FS_CardinalityType
<1>10. rFile[f] \notin S /\ to \in S => Cardinality(new) = Cardinality(old) + 1
  BY <1>3, <1>7, FS_AddElement
<1>11. rFile[f] \in S /\ to \notin S => Cardinality(new) = Cardinality(old) - 1
  BY <1>3, <1>8, FS_RemoveElement
<1> QED BY <1>5, <1>6, <1>9, <1>10, <1>11 DEF old, new

(* PosixEnv counts as this module does.                                     *)
LEMMA SameCount == \A S : Posix!Cardinality(S) = Cardinality(S)
BY DEF Posix!Cardinality, Cardinality

(* The states in which a file has a unit of a Limiter, and those in which   *)
(* it has taken one from the counter.                                       *)
Mapped == {"mapping", "mapped"}
TookMap == {"mapping", "mapped", "no mmap"}
Kept == {"permanent"}
TookFd == {"permanent", "no fd"}

Count(S) == Cardinality(Posix!InState(S))

(* The counters and the files agree, in these terms ...                     *)
Exact ==
  /\ Count(Mapped) <= MaxMmaps /\ Count(Kept) <= MaxFds
  /\ mmaps + Count(TookMap) = MaxMmaps /\ fds + Count(TookFd) = MaxFds

(* ... is LimitsExact.                                                      *)
LEMMA ExactIs == LimitsExact <=> Exact
BY SameCount DEF LimitsExact, Posix!LimitsKept, Posix!NoLeak, Exact, Count, Mapped,
                 TookMap, Kept, TookFd

(* A file that has a unit has taken it from the counter.                    *)
LEMMA CountsOrdered ==
  /\ Count(Mapped) \in Nat /\ Count(TookMap) \in Nat
  /\ Count(Kept) \in Nat /\ Count(TookFd) \in Nat
  /\ Count(Mapped) <= Count(TookMap) /\ Count(Kept) <= Count(TookFd)
<1>1. IsFiniteSet(Files)
  BY PosixAssumption DEF Posix!LimitsAssumption, Posix!IsFiniteSet, IsFiniteSet
<1>2. \A S : IsFiniteSet(Posix!InState(S))
  <2>1. \A S : Posix!InState(S) \subseteq Files
    BY DEF Posix!InState
  <2> QED BY <1>1, <2>1, FS_Subset
<1>3. /\ Posix!InState(Mapped) \subseteq Posix!InState(TookMap)
      /\ Posix!InState(Kept) \subseteq Posix!InState(TookFd)
  BY DEF Posix!InState, Mapped, TookMap, Kept, TookFd
<1>4. /\ Cardinality(Posix!InState(Mapped)) <= Cardinality(Posix!InState(TookMap))
      /\ Cardinality(Posix!InState(Kept)) <= Cardinality(Posix!InState(TookFd))
  BY <1>2, <1>3, FS_Subset
<1>5. \A S : Cardinality(Posix!InState(S)) \in Nat
  BY <1>2, FS_CardinalityType
<1> QED BY <1>4, <1>5 DEF Count

(* What a step does to a counter of which the states of S hold a unit.      *)
Charge(S, from, to, old, new) ==
  /\ from \notin S /\ to \in S => new = old - 1
  /\ from \in S /\ to \notin S => new = old + 1
  /\ (from \in S <=> to \in S) => new = old

(* A step that takes from the counters what its file takes, and lets it     *)
(* have a unit only when there was one, keeps LimitInv.                     *)
LEMMA FileMoves ==
  ASSUME LimitInv, NEW f \in Files, NEW from, NEW to \in FileStates,
         rFile[f] = from, rFile' = [rFile EXCEPT ![f] = to],
         Charge(TookMap, from, to, mmaps, mmaps'),
         Charge(TookFd, from, to, fds, fds'),
         from \notin Mapped /\ to \in Mapped => mmaps > 0 /\ from \notin TookMap,
         from \notin Kept /\ to \in Kept => fds > 0 /\ from \notin TookFd
  PROVE  LimitInv'
<1>1. /\ rFile \in [Files -> FileStates] /\ mmaps \in Int /\ fds \in Int /\ Exact
      /\ MaxMmaps \in Nat /\ MaxFds \in Nat
  BY PosixAssumption, ExactIs DEF LimitInv, Posix!LimitsAssumption
<1>2. ASSUME NEW S
      PROVE  /\ Count(S) \in Nat /\ Count(S)' \in Nat
             /\ from \notin S /\ to \in S => Count(S)' = Count(S) + 1
             /\ from \in S /\ to \notin S => Count(S)' = Count(S) - 1
             /\ (from \in S <=> to \in S) => Count(S)' = Count(S)
  BY <1>1, CountMoves DEF Count
<1>3. /\ Count(Mapped) <= Count(TookMap) /\ Count(Kept) <= Count(TookFd)
  BY CountsOrdered
<1>4. /\ Count(Mapped) <= MaxMmaps /\ Count(Kept) <= MaxFds
      /\ mmaps + Count(TookMap) = MaxMmaps /\ fds + Count(TookFd) = MaxFds
  BY <1>1 DEF Exact
<1>5. mmaps' \in Int /\ mmaps' + Count(TookMap)' = MaxMmaps
  BY <1>1, <1>2, <1>4 DEF Charge
<1>6. fds' \in Int /\ fds' + Count(TookFd)' = MaxFds
  BY <1>1, <1>2, <1>4 DEF Charge
<1>7. Count(Mapped)' <= MaxMmaps
  BY <1>1, <1>2, <1>3, <1>4
<1>8. Count(Kept)' <= MaxFds
  BY <1>1, <1>2, <1>3, <1>4
<1>9. LimitsExact'
  <2>1. Exact'
    BY <1>5, <1>6, <1>7, <1>8 DEF Exact
  <2>2. LimitsExact' <=> Exact'
    BY ExactIs, PTL
  <2> QED BY <2>1, <2>2
<1>10. rFile' \in [Files -> FileStates]
  BY <1>1
<1> QED BY <1>5, <1>6, <1>9, <1>10 DEF LimitInv

(* Every step on a file keeps LimitInv.                                     *)
LEMMA FileStepKeeps ==
  ASSUME LimitInv, NEW f \in Files,
         \/ Posix!TryMmap(f) \/ Posix!NoMmap(f) \/ Posix!Map(f)
         \/ Posix!MapFails(f) \/ Posix!TryFd(f) \/ Posix!NoFd(f)
         \/ Posix!DeleteMapped(f) \/ Posix!DeletePermanent(f)
         \/ Posix!DeleteTemporary(f)
  PROVE  LimitInv'
<1> DEFINE Sound(from, to) ==
             /\ to \in FileStates /\ rFile[f] = from
             /\ rFile' = [rFile EXCEPT ![f] = to]
             /\ Charge(TookMap, from, to, mmaps, mmaps')
             /\ Charge(TookFd, from, to, fds, fds')
             /\ from \notin Mapped /\ to \in Mapped =>
                  mmaps > 0 /\ from \notin TookMap
             /\ from \notin Kept /\ to \in Kept => fds > 0 /\ from \notin TookFd
<1>0. ASSUME \E from, to : Sound(from, to) PROVE LimitInv'
  <2>1. PICK from, to : Sound(from, to)
    BY <1>0
  <2> QED BY <2>1, FileMoves
<1> USE DEF Posix!GoFile, Posix!Acquires, Charge, FileStates, Mapped, TookMap, Kept,
            TookFd
<1>1. CASE Posix!TryMmap(f)
  <2>1. CASE mmaps > 0
    <3>1. Sound("none", "mapping")
      BY <1>1, <2>1 DEF Posix!TryMmap
    <3> QED BY <1>0, <3>1
  <2>2. CASE ~(mmaps > 0)
    <3>1. Sound("none", "no mmap")
      BY <1>1, <2>2 DEF Posix!TryMmap
    <3> QED BY <1>0, <3>1
  <2> QED BY <2>1, <2>2
<1>2. CASE Posix!TryFd(f)
  <2>1. CASE fds > 0
    <3>1. Sound("opened", "permanent")
      BY <1>2, <2>1 DEF Posix!TryFd
    <3> QED BY <1>0, <3>1
  <2>2. CASE ~(fds > 0)
    <3>1. Sound("opened", "no fd")
      BY <1>2, <2>2 DEF Posix!TryFd
    <3> QED BY <1>0, <3>1
  <2> QED BY <2>1, <2>2
<1>3. CASE Posix!NoMmap(f)
  <2>1. Sound("no mmap", "opened")
    BY <1>3 DEF Posix!NoMmap
  <2> QED BY <1>0, <2>1
<1>4. CASE Posix!Map(f)
  <2>1. Sound("mapping", "mapped")
    BY <1>4 DEF Posix!Map
  <2> QED BY <1>0, <2>1
<1>5. CASE Posix!MapFails(f)
  <2>1. Sound("mapping", "none")
    BY <1>5 DEF Posix!MapFails
  <2> QED BY <1>0, <2>1
<1>6. CASE Posix!NoFd(f)
  <2>1. Sound("no fd", "temporary")
    BY <1>6 DEF Posix!NoFd
  <2> QED BY <1>0, <2>1
<1>7. CASE Posix!DeleteMapped(f)
  <2>1. Sound("mapped", "none")
    BY <1>7 DEF Posix!DeleteMapped
  <2> QED BY <1>0, <2>1
<1>8. CASE Posix!DeletePermanent(f)
  <2>1. Sound("permanent", "none")
    BY <1>8 DEF Posix!DeletePermanent
  <2> QED BY <1>0, <2>1
<1>9. CASE Posix!DeleteTemporary(f)
  <2>1. Sound("temporary", "none")
    BY <1>9 DEF Posix!DeleteTemporary
  <2> QED BY <1>0, <2>1
<1> QED BY <1>1, <1>2, <1>3, <1>4, <1>5, <1>6, <1>7, <1>8, <1>9

(* env_posix.cc, Limiter: for any number of clients and any limits, no more *)
(* files are mapped or kept open than allowed, and the counters are short   *)
(* by exactly the units in use and those about to be put back.              *)
THEOREM LimitsAreExact == Posix!Spec => []LimitsExact
<1>1. Posix!Init => LimitInv
  <2> SUFFICES ASSUME Posix!Init PROVE LimitInv
    OBVIOUS
  <2>1. mmaps = MaxMmaps /\ fds = MaxFds /\ rFile = [f \in Files |-> "none"]
    BY DEF Posix!Init
  <2>2. MaxMmaps \in Nat /\ MaxFds \in Nat
    BY PosixAssumption DEF Posix!LimitsAssumption
  <2>3. /\ Posix!InState(Mapped) = {} /\ Posix!InState(TookMap) = {}
        /\ Posix!InState(Kept) = {} /\ Posix!InState(TookFd) = {}
    BY <2>1 DEF Posix!InState, Mapped, TookMap, Kept, TookFd
  <2>4. Cardinality({}) = 0
    BY FS_EmptySet
  <2>5. Exact
    BY <2>1, <2>2, <2>3, <2>4 DEF Exact, Count
  <2> QED BY <2>1, <2>2, <2>5, ExactIs DEF LimitInv, FileStates
<1>2. LimitInv /\ [Posix!Next]_(Posix!vars) => LimitInv'
  <2> SUFFICES ASSUME LimitInv, [Posix!Next]_(Posix!vars) PROVE LimitInv'
    OBVIOUS
  <2>1. CASE UNCHANGED Posix!fileVars
    BY <2>1, SameCount DEF Posix!fileVars, LimitInv, LimitsExact, Posix!LimitsKept,
       Posix!NoLeak, Posix!InState
  <2>2. CASE Posix!Schedule \/ Posix!Background
    BY <2>1, <2>2 DEF Posix!Schedule, Posix!Background, Posix!Wait,
       Posix!TakeItem, Posix!ItemDone
  <2>3. CASE UNCHANGED Posix!vars
    BY <2>1, <2>3 DEF Posix!vars
  <2> QED BY <2>2, <2>3, FileStepKeeps DEF Posix!Next
<1>3. LimitInv => LimitsExact
  BY DEF LimitInv
<1> QED BY <1>1, <1>2, <1>3, PTL DEF Posix!Spec
=============================================================================
