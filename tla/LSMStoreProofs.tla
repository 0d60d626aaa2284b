--------------------------- MODULE LSMStoreProofs ---------------------------
(***************************************************************************)
(* Theorems about modules LSMStore and Repair, for every set of keys,      *)
(* every set of batches, every number of levels, snapshots and iterators.  *)
(*                                                                         *)
(* FilesInUseExist: no table file in use is removed.  BaseInv is the       *)
(* invariant: the types, finitely many files per level, and                *)
(* LiveFilesExist itself.                                                  *)
(*                                                                         *)
(* LevelsStayOrdered: files below level 0 do not overlap and searches meet *)
(* newer entries first.  OrderInv adds what keeps this true while a        *)
(* compaction runs: its inputs were sound when it started (SoundInputs)    *)
(* and a flush in the middle of it keeps them so.  Most of the proof shows *)
(* that the inputs SetupOtherInputs chooses are sound, for which the       *)
(* recursive functions of GetOverlappingInputs and AddBoundaryInputs are   *)
(* followed to their last value by induction on sets of numbers            *)
(* (SetInduction) and shown to have stopped growing there (GrowthStops).   *)
(*                                                                         *)
(* StoreRefinesKVStore: the store implements the map of KVStore as long as *)
(* no dropped deletion leaves an older entry of its key behind in the two  *)
(* levels being merged.  OrderInv gives what a read answers: the newest    *)
(* visible entry of Held (GetNewest), so that every map of the refinement  *)
(* is a View of a set of entries (MapsAreViews) and a step is judged by    *)
(* what it does to those sets.  ReadInv adds what the maps need: handles   *)
(* see published entries, what is not published is one batch, and a        *)
(* running compaction drops only what its smallest snapshot allows, which  *)
(* no reader is below (DropsOK).  The condition cannot be left out: see    *)
(* DroppedDeletionsObsolete in LSMStore.                                   *)
(*                                                                         *)
(* DeletionsStayWithoutSnapshots and StoreRefinesKVStoreWithoutSnapshots:  *)
(* the condition holds when there are no snapshots, because then no two    *)
(* files of a level below 0 hold the same key (WholeInv).                  *)
(*                                                                         *)
(* RepairIsSound: RepairDB destroys nothing but what it replaces in lost/  *)
(* or skips, and leaves what can be opened.  It lists and renames files by *)
(* number, so that numbers must be of one file each: NumberInv for the     *)
(* running store, DirNumbered and LogsNumbered for the directory it        *)
(* leaves.  RepairInv says for each phase where a table is.                *)
(***************************************************************************)
EXTENDS Repair, FiniteSetTheorems, WellFoundedInduction, TLAPS

(* No key lies strictly between the ends of a range given to CompactRange.  *)
NarrowRanges ==
  \A r \in ManualRanges : \A k \in Keys : ~(r[1] < k /\ k < r[2])

Entry == [k : Keys, s : Nat, t : {"value", "deletion"}]

IsFirst(e, E) == e \in E /\ \A x \in E : x = e \/ Before(e, x)
IsLast(e, E) == e \in E /\ \A x \in E : x = e \/ Before(x, e)

(* The metadata of a file describes its entries.                            *)
FileOK(f) ==
  /\ f.entries \subseteq Entry
  /\ IsFirst(f.smallest, f.entries)
  /\ IsLast(f.largest, f.entries)

Ahead(A, B) == \A a \in A, b \in B : Before(a, b)
Apart(A, B) == Ahead(A, B) \/ Ahead(B, A)
Newer(A, B) == \A a \in A, b \in B : a.k = b.k => a.s > b.s

(* A range of keys that meets none of the files is on one side of them all. *)
OneSide(C, a, b) ==
  (\A f \in C : b < f.smallest.k) \/ (\A f \in C : f.largest.k < a)

Misses(C, a, b) == \A f \in C : ~Overlaps(f, a, b)

Solid(C) ==
  \A a, b \in Keys : a <= b /\ Misses(C, a, b) => OneSide(C, a, b)

Stored(v) == MergedEntries(UNION {v[l] : l \in Levels})
ImmEntries == IF hasImm THEN memtables[imm] ELSE {}

TypeInv ==
  /\ lastSeq \in Nat /\ pending \in Nat
  /\ memtables \in Seq(SUBSET Entry) /\ Len(memtables) > 0
  /\ hasImm \in BOOLEAN /\ (hasImm => Len(memtables) > 1)
  /\ nextFile \in Nat \ {0}
  /\ version = [l \in Levels |-> version[l]]
  /\ iters = [j \in Iters |-> iters[j]]

CompactionType ==
  compaction # NoCompaction =>
    /\ compaction = [level |-> compaction.level, inputs |-> compaction.inputs,
                     version |-> compaction.version,
                     outputs |-> compaction.outputs,
                     outfile |-> compaction.outfile,
                     smallestSnapshot |-> compaction.smallestSnapshot,
                     todo |-> compaction.todo]
    /\ compaction.level \in 0..(NumLevels - 2)
    /\ IsFiniteSet(compaction.outputs)

FinitelyMany == \A l \in Levels : IsFiniteSet(version[l])

BaseInv == TypeInv /\ CompactionType /\ FinitelyMany /\ LiveFilesExist

(* The files of a version v are sound; n is the next file number.           *)
VersionOK(v, n) ==
  \A l \in Levels : \A f \in v[l] :
    FileOK(f) /\ (l = 0 => f.num \in Nat /\ f.num < n)

(* The part of LevelsOrdered that is about files.                           *)
InOrder(v) ==
  /\ \A l \in Levels \ {0} : \A f, g \in v[l] :
       f # g => Apart(f.entries, g.entries)
  /\ \A f, g \in v[0] : f.num > g.num => Newer(f.entries, g.entries)
  /\ \A l, m \in Levels :
       l < m => Newer(MergedEntries(v[l]), MergedEntries(v[m]))

(* The memtables M and I hold newer entries than the files, sequence numbers *)
(* name entries, and none is beyond n.                                      *)
MemoryOK(M, I, v, n) ==
  LET E == M \union I \union Stored(v)
  IN  /\ M \subseteq Entry /\ I \subseteq Entry
      /\ Newer(M, I) /\ Newer(M \union I, Stored(v))
      /\ \A e \in E : e.s <= n
      /\ \A e, x \in E : e.s = x.s => e = x

(* What a compaction of level l may rely on of its inputs: the files it      *)
(* leaves in the next level are apart from them, those it leaves in level l  *)
(* are newer, and a file that meets none of them is on one side of them.    *)
SoundInputs(v, l, in) ==
  LET E == MergedEntries(in[1] \union in[2])
  IN  /\ in[1] \subseteq v[l] /\ in[2] \subseteq v[l + 1]
      /\ \A g \in v[l + 1] \ in[2] : Apart(g.entries, E)
      /\ \A g \in v[l] \ in[1] : Newer(g.entries, E)
      /\ Solid(in[1] \union in[2])

CompactionOK(v, c) ==
  c # NoCompaction =>
    LET E == MergedEntries(c.inputs[1] \union c.inputs[2])
    IN  /\ SoundInputs(v, c.level, c.inputs)
        /\ c.todo \subseteq E
        /\ \A o \in c.outputs : /\ FileOK(o) /\ o.entries \subseteq E
                                /\ Ahead(o.entries, c.todo)
        /\ \A o, p \in c.outputs : o # p => Apart(o.entries, p.entries)

OrderInv ==
  /\ VersionOK(version, nextFile)
  /\ InOrder(version)
  /\ MemoryOK(memtables[mem], ImmEntries, version, lastSeq + pending)
  /\ hasImm => memtables[imm] # {}
  /\ CompactionOK(version, compaction)

-----------------------------------------------------------------------------
(* Induction over the natural numbers, for sets. *)

(* A set of natural numbers has a least element.                            *)
LEMMA LeastNumber ==
  ASSUME NEW T, T \subseteq Nat, T # {}
  PROVE  \E n \in T : \A m \in T : n <= m
<1> DEFINE R == OpToRel(<, Nat)
<1>1. IsWellFoundedOn(R, Nat)
  BY NatLessThanWellFounded
<1>2. \A x, y \in Nat : x < y => <<x, y>> \in R
  BY DEF OpToRel
<1> HIDE DEF R
<1>3. PICK n \in T : \A y \in T : ~(<<y, n>> \in R)
  BY <1>1, WFMin
<1>4. ASSUME NEW m \in T PROVE n <= m
  <2>1. m \in Nat /\ n \in Nat /\ ~(m < n)
    BY <1>2, <1>3
  <2> QED BY <2>1
<1> QED BY <1>4

(* A set that contains 0 and with every number its successor contains them  *)
(* all.                                                                     *)
LEMMA SetInduction ==
  ASSUME NEW T, 0 \in T, \A n \in Nat : n \in T => n + 1 \in T
  PROVE  Nat \subseteq T
<1> SUFFICES ASSUME Nat \ T # {} PROVE FALSE
  OBVIOUS
<1>1. PICK n \in Nat \ T : \A m \in Nat \ T : n <= m
  BY LeastNumber
<1>2. n # 0 /\ n - 1 \in Nat
  OBVIOUS
<1>3. n - 1 \in T
  BY <1>1, <1>2
<1> QED BY <1>1, <1>2, <1>3

(* g is the repeated application of F to c.                                 *)
Iterates(g, N, S, F, c) ==
  /\ g \in [0..N -> S]
  /\ g[0] = c
  /\ \A n \in 1..N : g[n] = F[g[n - 1]]

(* The repeated application of a function to a value is well defined.       *)
LEMMA IterationExists ==
  ASSUME NEW N \in Nat, NEW S, NEW F \in [S -> S], NEW c \in S
  PROVE  \E g : Iterates(g, N, S, F, c)
<1> DEFINE T == {m \in Nat : \E g \in [0..m -> S] :
                   g[0] = c /\ \A n \in 1..m : g[n] = F[g[n - 1]]}
<1>1. 0 \in T
  <2> DEFINE g == [n \in 0..0 |-> c]
  <2>1. g \in [0..0 -> S] /\ g[0] = c
    OBVIOUS
  <2>2. \A n \in 1..0 : g[n] = F[g[n - 1]]
    OBVIOUS
  <2> HIDE DEF g
  <2> QED BY <2>1, <2>2
<1>2. ASSUME NEW m \in Nat, m \in T PROVE m + 1 \in T
  <2>1. PICK g \in [0..m -> S] :
          g[0] = c /\ \A n \in 1..m : g[n] = F[g[n - 1]]
    BY <1>2
  <2> DEFINE h == [n \in 0..(m + 1) |-> IF n = m + 1 THEN F[g[m]] ELSE g[n]]
  <2>2. h \in [0..(m + 1) -> S] /\ h[0] = c
    BY <2>1
  <2>3. ASSUME NEW n \in 1..(m + 1) PROVE h[n] = F[h[n - 1]]
    BY <2>1
  <2> HIDE DEF h
  <2> QED BY <2>2, <2>3
<1>3. N \in T
  <2> HIDE DEF T
  <2> QED BY <1>1, <1>2, SetInduction
<1> QED BY <1>3 DEF Iterates

(* A finite set that a transitive relation orders totally has a least       *)
(* element.                                                                 *)
LEMMA MinimumExists ==
  ASSUME NEW X, NEW R, IsFiniteSet(X), X # {},
         \A a, b \in X : a = b \/ <<a, b>> \in R \/ <<b, a>> \in R,
         \A a, b, c \in X : <<a, b>> \in R /\ <<b, c>> \in R => <<a, c>> \in R
  PROVE  \E e \in X : \A x \in X : x = e \/ <<e, x>> \in R
<1> DEFINE T == {m \in Nat : \A D \in SUBSET X :
                   IsFiniteSet(D) /\ Cardinality(D) = m + 1 =>
                     \E e \in D : \A x \in D : x = e \/ <<e, x>> \in R}
<1>1. 0 \in T
  <2> SUFFICES ASSUME NEW D \in SUBSET X, IsFiniteSet(D),
                      Cardinality(D) = 0 + 1
               PROVE  \E e \in D : \A x \in D : x = e \/ <<e, x>> \in R
    OBVIOUS
  <2>1. Cardinality(D) = 1
    OBVIOUS
  <2>2. PICK y : D = {y}
    BY <2>1, FS_Singleton
  <2> QED BY <2>2
<1>2. ASSUME NEW m \in Nat, m \in T PROVE m + 1 \in T
  <2> SUFFICES ASSUME NEW D \in SUBSET X, IsFiniteSet(D),
                      Cardinality(D) = m + 1 + 1
               PROVE  \E e \in D : \A x \in D : x = e \/ <<e, x>> \in R
    OBVIOUS
  <2>1. D # {}
    BY FS_EmptySet
  <2>2. PICK y : y \in D
    BY <2>1
  <2>3. IsFiniteSet(D \ {y}) /\ Cardinality(D \ {y}) = m + 1
    BY <2>2, FS_RemoveElement
  <2>4. D \ {y} \in SUBSET X
    OBVIOUS
  <2>5. PICK e \in D \ {y} : \A x \in D \ {y} : x = e \/ <<e, x>> \in R
    BY <1>2, <2>3, <2>4
  <2>6. CASE <<e, y>> \in R
    BY <2>5, <2>6
  <2>7. CASE <<y, e>> \in R
    <3>1. ASSUME NEW x \in D PROVE x = y \/ <<y, x>> \in R
      BY <2>2, <2>5, <2>7
    <3> QED BY <2>2, <3>1
  <2> QED BY <2>2, <2>5, <2>6, <2>7
<1>3. Cardinality(X) \in Nat /\ Cardinality(X) # 0
  BY FS_CardinalityType, FS_EmptySet
<1>4. Cardinality(X) - 1 \in T
  <2> HIDE DEF T
  <2>1. Cardinality(X) - 1 \in Nat
    BY <1>3
  <2> QED BY <1>1, <1>2, <2>1, SetInduction
<1>5. Cardinality(X) = Cardinality(X) - 1 + 1
  BY <1>3
<1>6. X \in SUBSET X
  OBVIOUS
<1> QED BY <1>4, <1>5, <1>6

(* A function on numbers that never leaves its value for good after a step  *)
(* without change: growing sets of at most N members stop growing.          *)
LEMMA GrowthStops ==
  ASSUME NEW X, IsFiniteSet(X),
         NEW g \in [0..Cardinality(X) -> SUBSET X], g[0] # {},
         \A n \in 1..Cardinality(X) : g[n - 1] \subseteq g[n],
         \A n \in 1..Cardinality(X) :
           n > 1 /\ g[n - 1] = g[n - 2] => g[n] = g[n - 1]
  PROVE  Cardinality(X) > 0 /\ g[Cardinality(X)] = g[Cardinality(X) - 1]
<1> DEFINE N == Cardinality(X)
<1>1. N \in Nat /\ N > 0
  <2>1. 0 \in 0..Cardinality(X)
    BY FS_CardinalityType
  <2>2. g[0] \subseteq X
    BY <2>1
  <2>3. X # {}
    BY <2>2
  <2> QED BY <2>3, FS_CardinalityType, FS_EmptySet
<1> DEFINE T == {m \in Nat : m + 1 <= N =>
                   Cardinality(g[m]) > m \/ g[m + 1] = g[m]}
<1> HIDE DEF N
<1>a. /\ g \in [0..N -> SUBSET X]
      /\ \A n \in 1..N : g[n - 1] \subseteq g[n]
      /\ \A n \in 1..N : n > 1 /\ g[n - 1] = g[n - 2] => g[n] = g[n - 1]
  BY DEF N
<1>b. ASSUME NEW n \in 0..N
      PROVE  g[n] \subseteq X /\ IsFiniteSet(g[n]) /\ Cardinality(g[n]) \in Nat
                /\ Cardinality(g[n]) <= N
  <2>1. g[n] \in SUBSET X
    BY <1>a
  <2> QED BY <2>1, FS_Subset, FS_CardinalityType DEF N
<1>2. 0 \in T
  <2>1. 0 \in 0..N
    BY <1>1
  <2>2. Cardinality(g[0]) \in Nat /\ Cardinality(g[0]) # 0
    BY <1>b, <2>1, FS_EmptySet
  <2> QED BY <2>2
<1>3. ASSUME NEW m \in Nat, m \in T PROVE m + 1 \in T
  <2> SUFFICES ASSUME m + 1 + 1 <= N
               PROVE  Cardinality(g[m + 1]) > m + 1 \/ g[m + 1 + 1] = g[m + 1]
    OBVIOUS
  <2>1. m \in 0..N /\ m + 1 \in 0..N /\ m + 1 \in 1..N /\ m + 2 \in 1..N
    BY <1>1
  <2>2. m + 1 - 1 = m /\ m + 2 - 1 = m + 1 /\ m + 2 - 2 = m /\ m + 1 + 1 = m + 2
    OBVIOUS
  <2>3. CASE g[m + 1] = g[m]
    <3>1. m + 2 > 1 /\ g[m + 2 - 1] = g[m + 2 - 2]
      BY <2>2, <2>3
    <3>2. g[m + 2] = g[m + 2 - 1]
      BY <1>a, <2>1, <3>1
    <3> QED BY <2>2, <3>2
  <2>4. CASE g[m + 1] # g[m]
    <3>1. Cardinality(g[m]) > m
      BY <1>3, <2>1, <2>4
    <3>2. g[m] \in SUBSET g[m + 1]
      BY <1>a, <2>1, <2>2
    <3>3. /\ Cardinality(g[m]) <= Cardinality(g[m + 1])
          /\ Cardinality(g[m + 1]) = Cardinality(g[m]) => g[m + 1] = g[m]
      BY <1>b, <2>1, <3>2, FS_Subset
    <3>4. Cardinality(g[m]) \in Nat /\ Cardinality(g[m + 1]) \in Nat
      BY <1>b, <2>1
    <3> QED BY <2>4, <3>1, <3>3, <3>4
  <2> QED BY <2>3, <2>4
<1>4. N - 1 \in T
  <2> HIDE DEF T
  <2> QED BY <1>1, <1>2, <1>3, SetInduction
<1>5. CASE g[N] = g[N - 1]
  BY <1>1, <1>5 DEF N
<1>6. CASE g[N] # g[N - 1]
  <2>1. N - 1 + 1 = N /\ N - 1 \in 0..N /\ N \in 0..N /\ N \in 1..N
    BY <1>1
  <2>2. Cardinality(g[N - 1]) > N - 1
    BY <1>4, <1>6, <2>1
  <2>3. Cardinality(g[N - 1]) = N
    BY <1>b, <2>1, <2>2, <1>1
  <2>4. g[N - 1] = X
    BY <1>b, <2>1, <2>3, FS_Subset DEF N
  <2>5. g[N - 1] \subseteq g[N] /\ g[N] \subseteq X
    BY <1>a, <1>b, <2>1
  <2> QED BY <1>6, <2>4, <2>5
<1> QED BY <1>5, <1>6

-----------------------------------------------------------------------------
(* Internal keys. *)

(* The fields of an entry.                                                  *)
LEMMA EntryType ==
  ASSUME NEW e \in Entry
  PROVE  e.k \in Keys /\ e.k \in Int /\ e.s \in Nat
BY KeysAssumption DEF Entry

(* Before, the internal key order, is a strict order that refines the order *)
(* of user keys.                                                            *)
LEMMA BeforeOrder ==
  /\ \A a, b, c \in Entry : Before(a, b) /\ Before(b, c) => Before(a, c)
  /\ \A a, b \in Entry : ~(Before(a, b) /\ Before(b, a))
  /\ \A a, b \in Entry : Before(a, b) => a.k <= b.k
  /\ \A a, b \in Entry : a.k < b.k => Before(a, b)
<1>1. ASSUME NEW a \in Entry, NEW b \in Entry, NEW c \in Entry
      PROVE  /\ Before(a, b) /\ Before(b, c) => Before(a, c)
             /\ ~(Before(a, b) /\ Before(b, a))
             /\ Before(a, b) => a.k <= b.k
             /\ a.k < b.k => Before(a, b)
  <2>1. /\ a.k \in Int /\ b.k \in Int /\ c.k \in Int
        /\ a.s \in Nat /\ b.s \in Nat /\ c.s \in Nat
    BY EntryType
  <2> QED BY <2>1 DEF Before
<1> QED BY <1>1

(* Entries whose sequence numbers identify them, and are bounded.           *)
Distinct(E) ==
  /\ E \subseteq Entry
  /\ \A e, x \in E : e.s = x.s => e = x
  /\ \E m \in Nat : \A e \in E : e.s <= m

(* Entries with different sequence numbers are totally ordered.             *)
LEMMA DistinctTotal ==
  ASSUME NEW E, Distinct(E)
  PROVE  \A a, b \in E : a = b \/ Before(a, b) \/ Before(b, a)
<1> SUFFICES ASSUME NEW a \in E, NEW b \in E
             PROVE  a = b \/ Before(a, b) \/ Before(b, a)
  OBVIOUS
<1>1. a.k \in Int /\ b.k \in Int /\ a.s \in Nat /\ b.s \in Nat
  BY EntryType DEF Distinct
<1>2. a.s = b.s => a = b
  BY DEF Distinct
<1> QED BY <1>1, <1>2 DEF Before

(* There are finitely many such entries below a sequence number.            *)
LEMMA DistinctFinite ==
  ASSUME NEW E, Distinct(E)
  PROVE  IsFiniteSet(E)
<1>1. PICK m \in Nat : \A e \in E : e.s <= m
  BY DEF Distinct
<1> DEFINE f == [e \in E |-> e.s]
<1>2. \A e \in E : e.s \in 0..m
  BY <1>1, EntryType DEF Distinct
<1>3. f \in [E -> 0..m]
  BY <1>2
<1>4. \A e, x \in E : f[e] = f[x] => e = x
  BY DEF Distinct
<1>5. f \in Injection(E, 0..m)
  BY <1>3, <1>4 DEF Injection, IsInjective
<1>6. IsFiniteSet(0..m)
  BY FS_Interval
<1> QED BY <1>5, <1>6, FS_Injection

(* Distinct is inherited by subsets.                                        *)
LEMMA DistinctSubset ==
  ASSUME NEW E, Distinct(E), NEW D, D \subseteq E
  PROVE  Distinct(D)
BY DEF Distinct

(* The first and the last of some entries exist.                            *)
LEMMA EndsExist ==
  ASSUME NEW E, Distinct(E), E # {}
  PROVE  IsFirst(First(E), E) /\ IsLast(Last(E), E)
<1> DEFINE R == {p \in E \X E : Before(p[1], p[2])}
           Q == {p \in E \X E : Before(p[2], p[1])}
<1>1. \A a, b \in E : /\ <<a, b>> \in R <=> Before(a, b)
                      /\ <<a, b>> \in Q <=> Before(b, a)
  OBVIOUS
<1> HIDE DEF R, Q
<1>2. \A a, b \in E : a = b \/ Before(a, b) \/ Before(b, a)
  BY DistinctTotal
<1>3. \A a, b, c \in E : Before(a, b) /\ Before(b, c) => Before(a, c)
  BY BeforeOrder DEF Distinct
<1>4. IsFiniteSet(E)
  BY DistinctFinite
<1>5. \E e \in E : \A x \in E : x = e \/ Before(e, x)
  <2>1. \A a, b \in E : a = b \/ <<a, b>> \in R \/ <<b, a>> \in R
    BY <1>1, <1>2
  <2>2. \A a, b, c \in E : <<a, b>> \in R /\ <<b, c>> \in R => <<a, c>> \in R
    BY <1>1, <1>3
  <2>3. \E e \in E : \A x \in E : x = e \/ <<e, x>> \in R
    BY <1>4, <2>1, <2>2, MinimumExists
  <2> QED BY <1>1, <2>3
<1>6. \E e \in E : \A x \in E : x = e \/ Before(x, e)
  <2>1. \A a, b \in E : a = b \/ <<a, b>> \in Q \/ <<b, a>> \in Q
    BY <1>1, <1>2
  <2>2. \A a, b, c \in E : <<a, b>> \in Q /\ <<b, c>> \in Q => <<a, c>> \in Q
    BY <1>1, <1>3
  <2>3. \E e \in E : \A x \in E : x = e \/ <<e, x>> \in Q
    BY <1>4, <2>1, <2>2, MinimumExists
  <2> QED BY <1>1, <2>3
<1>7. /\ First(E) \in E /\ \A x \in E : x = First(E) \/ Before(First(E), x)
      /\ Last(E) \in E /\ \A x \in E : x = Last(E) \/ Before(x, Last(E))
  BY <1>5, <1>6 DEF First, Last
<1> QED BY <1>7 DEF IsFirst, IsLast

(* A file made of distinct entries is described by its metadata.            *)
LEMMA FileMade ==
  ASSUME NEW E, Distinct(E), E # {}, NEW n
  PROVE  FileOK(File(n, E)) /\ File(n, E).entries = E /\ File(n, E).num = n
<1>1. IsFirst(First(E), E) /\ IsLast(Last(E), E)
  BY EndsExist
<1>2. /\ File(n, E).entries = E /\ File(n, E).smallest = First(E)
      /\ File(n, E).largest = Last(E) /\ File(n, E).num = n
  BY DEF File
<1> QED BY <1>1, <1>2 DEF FileOK, Distinct

(* The user keys of a file lie between those of its ends.                   *)
LEMMA FileKeys ==
  ASSUME NEW f, FileOK(f)
  PROVE  /\ f.smallest \in f.entries /\ f.largest \in f.entries
         /\ f.smallest \in Entry /\ f.largest \in Entry
         /\ f.smallest.k \in Keys /\ f.largest.k \in Keys
         /\ f.smallest.k \in Int /\ f.largest.k \in Int
         /\ f.smallest.k <= f.largest.k
         /\ \A e \in f.entries : /\ e \in Entry /\ e.k \in Int
                                 /\ f.smallest.k <= e.k /\ e.k <= f.largest.k
<1>1. /\ f.smallest \in f.entries /\ f.largest \in f.entries
      /\ f.smallest \in Entry /\ f.largest \in Entry
  BY DEF FileOK, IsFirst, IsLast
<1>2. /\ f.smallest.k \in Keys /\ f.largest.k \in Keys
      /\ f.smallest.k \in Int /\ f.largest.k \in Int
  BY <1>1, EntryType
<1>3. ASSUME NEW e \in f.entries
      PROVE  e \in Entry /\ e.k \in Int /\ f.smallest.k <= e.k /\ e.k <= f.largest.k
  <2>1. e \in Entry /\ e.k \in Int
    BY EntryType DEF FileOK
  <2>2. e = f.smallest \/ Before(f.smallest, e)
    BY DEF FileOK, IsFirst
  <2>3. e = f.largest \/ Before(e, f.largest)
    BY DEF FileOK, IsLast
  <2>4. f.smallest.k <= e.k
    BY <1>1, <1>2, <2>1, <2>2, BeforeOrder
  <2>5. e.k <= f.largest.k
    BY <1>1, <1>2, <2>1, <2>3, BeforeOrder
  <2> QED BY <2>1, <2>4, <2>5
<1>4. f.smallest.k <= f.largest.k
  BY <1>1, <1>3
<1> QED BY <1>1, <1>2, <1>3, <1>4

(* Files whose ranges of user keys do not meet have no key in common.       *)
LEMMA NoOverlapOrdered ==
  ASSUME NEW f, FileOK(f), NEW g, FileOK(g),
         ~Overlaps(g, f.smallest.k, f.largest.k)
  PROVE  /\ \A a \in f.entries, b \in g.entries : a.k # b.k
         /\ Apart(f.entries, g.entries)
<1>1. \/ f.largest.k < g.smallest.k
      \/ g.largest.k < f.smallest.k
  BY FileKeys DEF Overlaps
<1>2. CASE f.largest.k < g.smallest.k
  <2>1. ASSUME NEW a \in f.entries, NEW b \in g.entries
        PROVE  a.k < b.k /\ Before(a, b) /\ a.k # b.k
    <3>1. /\ a \in Entry /\ b \in Entry /\ a.k \in Int /\ b.k \in Int
          /\ a.k <= f.largest.k /\ g.smallest.k <= b.k
          /\ f.largest.k \in Int /\ g.smallest.k \in Int
      BY FileKeys
    <3>2. a.k < b.k
      BY <1>2, <3>1
    <3> QED BY <3>1, <3>2, BeforeOrder
  <2> QED BY <2>1 DEF Apart, Ahead
<1>3. CASE g.largest.k < f.smallest.k
  <2>1. ASSUME NEW a \in f.entries, NEW b \in g.entries
        PROVE  b.k < a.k /\ Before(b, a) /\ a.k # b.k
    <3>1. /\ a \in Entry /\ b \in Entry /\ a.k \in Int /\ b.k \in Int
          /\ b.k <= g.largest.k /\ f.smallest.k <= a.k
          /\ g.largest.k \in Int /\ f.smallest.k \in Int
      BY FileKeys
    <3>2. b.k < a.k
      BY <1>3, <3>1
    <3> QED BY <3>1, <3>2, BeforeOrder
  <2> QED BY <2>1 DEF Apart, Ahead
<1> QED BY <1>1, <1>2, <1>3

(* Two files are apart exactly if one ends before the other begins.         *)
LEMMA ApartEnds ==
  ASSUME NEW f, FileOK(f), NEW g, FileOK(g)
  PROVE  /\ Before(f.largest, g.smallest) => Ahead(f.entries, g.entries)
         /\ Ahead(f.entries, g.entries) => Before(f.largest, g.smallest)
<1>1. ASSUME Before(f.largest, g.smallest), NEW a \in f.entries, NEW b \in g.entries
      PROVE  Before(a, b)
  <2>1. /\ a \in Entry /\ b \in Entry /\ f.largest \in Entry
        /\ g.smallest \in Entry
    BY FileKeys
  <2>2. a = f.largest \/ Before(a, f.largest)
    BY DEF FileOK, IsLast
  <2>3. b = g.smallest \/ Before(g.smallest, b)
    BY DEF FileOK, IsFirst
  <2>4. Before(a, g.smallest)
    BY <1>1, <2>1, <2>2, BeforeOrder
  <2> QED BY <2>1, <2>3, <2>4, BeforeOrder
<1>2. ASSUME Ahead(f.entries, g.entries) PROVE Before(f.largest, g.smallest)
  BY <1>2, FileKeys DEF Ahead
<1> QED BY <1>1, <1>2 DEF Ahead

-----------------------------------------------------------------------------
(* The inputs of a compaction are files of the current version. *)

(* A level that can be compacted, and the one below it, are levels.         *)
LEMMA LevelsFact ==
  ASSUME NEW l \in 0..(NumLevels - 2)
  PROVE  l \in Levels /\ l + 1 \in Levels /\ l # l + 1 /\ l \in Nat /\ l + 1 # 0
BY LevelsAssumption DEF Levels

(* GetOverlappingInputs chooses files of the level.                         *)
LEMMA OverlappingWithin ==
  ASSUME NEW l, NEW lo, NEW hi
  PROVE  GetOverlappingInputs(l, lo, hi) \subseteq version[l]
BY DEF GetOverlappingInputs

(* AddBoundaryInputs is the last of the sets g[n].                          *)
Grown(g, fs, chosen) ==
  /\ g \in [0..Cardinality(fs) -> SUBSET fs]
  /\ AddBoundaryInputs(fs, chosen) = g[Cardinality(fs)]
  /\ g[0] = chosen
  /\ \A n \in 1..Cardinality(fs) :
       g[n] = g[n - 1] \union FindSmallestBoundaryFile(fs,
                                Last(MergedEntries(g[n - 1])))

(* The rounds of AddBoundaryInputs stay within the files given.             *)
LEMMA BoundarySteps ==
  ASSUME NEW fs, IsFiniteSet(fs), NEW chosen, chosen \subseteq fs, chosen # {}
  PROVE  \E g : Grown(g, fs, chosen)
<1> DEFINE step(c) ==
             c \union FindSmallestBoundaryFile(fs, Last(MergedEntries(c)))
           F == [c \in SUBSET fs |-> step(c)]
           N == Cardinality(fs)
           grown[n \in 0..N] ==
             IF n = 0 THEN chosen
             ELSE grown[n - 1] \union
                    FindSmallestBoundaryFile(fs, Last(MergedEntries(grown[n - 1])))
<1>1. AddBoundaryInputs(fs, chosen) = grown[N]
  BY DEF AddBoundaryInputs
<1>2. N \in Nat
  BY FS_CardinalityType
<1>3. \A c \in SUBSET fs : step(c) \in SUBSET fs
  BY DEF FindSmallestBoundaryFile
<1>4. F \in [SUBSET fs -> SUBSET fs] /\ chosen \in SUBSET fs
  BY <1>3
<1>5. \A c \in SUBSET fs : F[c] = step(c)
  OBVIOUS
<1> HIDE DEF F, N
<1>6. PICK g \in [0..N -> SUBSET fs] :
        g[0] = chosen /\ \A n \in 1..N : g[n] = F[g[n - 1]]
  <2>1. \E g : Iterates(g, N, SUBSET fs, F, chosen)
    BY <1>2, <1>4, IterationExists
  <2> QED BY <2>1 DEF Iterates
<1>7. \A n \in 1..N : g[n] = step(g[n - 1])
  <2> TAKE n \in 1..N
  <2>1. n - 1 \in 0..N
    BY <1>2
  <2> QED BY <1>5, <1>6, <2>1
<1>8. g = [n \in 0..N |-> IF n = 0 THEN chosen ELSE step(g[n - 1])]
  BY <1>2, <1>6, <1>7
<1>9. grown = [n \in 0..N |-> IF n = 0 THEN chosen ELSE step(grown[n - 1])]
  BY <1>8
<1> HIDE DEF grown, step
<1>10. /\ grown[0] = chosen
       /\ \A n \in 1..N : grown[n] = step(grown[n - 1])
  <2>1. 0 \in 0..N /\ \A n \in 1..N : n \in 0..N /\ n # 0
    BY <1>2
  <2> QED BY <1>9, <2>1
<1>11. \A n \in Nat : n <= N => grown[n] \in SUBSET fs
  <2> DEFINE T == {n \in Nat : n <= N => grown[n] \in SUBSET fs}
  <2>1. 0 \in T
    BY <1>10
  <2>2. ASSUME NEW n \in Nat, n \in T PROVE n + 1 \in T
    <3> SUFFICES ASSUME n + 1 <= N PROVE grown[n + 1] \in SUBSET fs
      OBVIOUS
    <3>1. n + 1 \in 1..N /\ n + 1 - 1 = n /\ n <= N
      BY <1>2
    <3>2. grown[n] \in SUBSET fs
      BY <2>2, <3>1
    <3>3. grown[n + 1] = step(grown[n])
      BY <1>10, <3>1
    <3> QED BY <1>3, <3>2, <3>3
  <2> HIDE DEF T
  <2>3. Nat \subseteq T
    BY <2>1, <2>2, SetInduction
  <2> QED BY <2>3 DEF T
<1>12. grown \in [0..N -> SUBSET fs]
  <2>1. \A n \in 0..N : grown[n] \in SUBSET fs
    BY <1>2, <1>11
  <2>2. grown = [n \in 0..N |-> grown[n]]
    BY <1>9
  <2> QED BY <2>1, <2>2
<1> QED BY <1>1, <1>10, <1>12 DEF N, step, Grown

(* AddBoundaryInputs adds files of the level only.                          *)
LEMMA BoundaryWithin ==
  ASSUME NEW fs, IsFiniteSet(fs), NEW chosen, chosen \subseteq fs
  PROVE  AddBoundaryInputs(fs, chosen) \subseteq fs
<1>1. CASE chosen = {}
  BY <1>1 DEF AddBoundaryInputs
<1>2. CASE chosen # {}
  <2>1. PICK g : Grown(g, fs, chosen)
    BY <1>2, BoundarySteps
  <2>2. Cardinality(fs) \in 0..Cardinality(fs)
    BY FS_CardinalityType
  <2> QED BY <2>1, <2>2 DEF Grown
<1> QED BY <1>1, <1>2

(* SetupOtherInputs chooses files of the level and of the next one.         *)
LEMMA SetupWithin ==
  ASSUME FinitelyMany, NEW l \in 0..(NumLevels - 2),
         NEW chosen, chosen \subseteq version[l],
         NEW in \in SetupOtherInputs(l, chosen)
  PROVE  in[1] \subseteq version[l] /\ in[2] \subseteq version[l + 1]
<1>1. IsFiniteSet(version[l])
  BY LevelsFact DEF FinitelyMany
<1>2. \A c : c \subseteq version[l] =>
        AddBoundaryInputs(version[l], c) \subseteq version[l]
  BY <1>1, BoundaryWithin
<1>3. \A lev, lo, hi : GetOverlappingInputs(lev, lo, hi) \subseteq version[lev]
  BY OverlappingWithin
<1> DEFINE in0 == AddBoundaryInputs(version[l], chosen)
           over(lev, fs) == GetOverlappingInputs(lev, GetRange(fs)[1],
                                                 GetRange(fs)[2])
           in1 == over(l + 1, in0)
           expanded0 == AddBoundaryInputs(version[l], over(l, in0 \union in1))
           expanded1 == over(l + 1, expanded0)
<1>4. in = <<in0, in1>> \/ in = <<expanded0, expanded1>>
  BY DEF SetupOtherInputs
<1>5. in0 \subseteq version[l] /\ in1 \subseteq version[l + 1]
  BY <1>2, <1>3
<1>6. expanded0 \subseteq version[l] /\ expanded1 \subseteq version[l + 1]
  BY <1>2, <1>3
<1> HIDE DEF in0, in1, expanded0, expanded1
<1> QED BY <1>4, <1>5, <1>6

(* The same for PickCompaction.                                             *)
LEMMA PickWithin ==
  ASSUME FinitelyMany, NEW l \in 0..(NumLevels - 2),
         NEW in \in PickCompaction(l)
  PROVE  in[1] \subseteq version[l] /\ in[2] \subseteq version[l + 1]
<1>1. PICK f \in version[l] :
        in \in SetupOtherInputs(l,
                 IF l > 0 THEN {f}
                 ELSE GetOverlappingInputs(0, f.smallest.k, f.largest.k))
  BY DEF PickCompaction
<1>2. CASE l > 0
  BY <1>1, <1>2, SetupWithin
<1>3. CASE l = 0
  <2>1. GetOverlappingInputs(0, f.smallest.k, f.largest.k) \subseteq version[l]
    BY <1>3, OverlappingWithin
  <2>2. in \in SetupOtherInputs(l,
                 GetOverlappingInputs(0, f.smallest.k, f.largest.k))
    BY <1>1, <1>3
  <2> QED BY <2>1, <2>2, SetupWithin
<1> QED BY <1>2, <1>3, LevelsFact

-----------------------------------------------------------------------------
(* Types, and the files that are in use. *)

(* The numbers of the files in use are in D.                                *)
InUse(D, v, c, its) ==
  /\ \A l \in Levels : \A f \in v[l] : f.num \in D
  /\ c # NoCompaction =>
       /\ \A l \in Levels : \A f \in c.version[l] : f.num \in D
       /\ \A f \in c.outputs : f.num \in D
       /\ c.outfile # 0 => c.outfile \in D
  /\ \A j \in Iters : its[j] # NoIter =>
       \A l \in Levels : \A f \in its[j].version[l] : f.num \in D

(* The numbers of a version lie in D if those of its files do.              *)
LEMMA NumbersWithin ==
  ASSUME NEW v, NEW D
  PROVE  FileNumbers(v) \subseteq D <=>
           \A l \in Levels : \A f \in v[l] : f.num \in D
BY DEF FileNumbers

(* InUse is about the files RemoveObsoleteFiles has to spare.               *)
LEMMA InUseWithin ==
  ASSUME NEW D, NEW v, NEW c, NEW its
  PROVE  InUse(D, v, c, its) <=>
           LiveFiles(v, c, its) \union PendingOutputs(c) \subseteq D
<1>1. FileNumbers(v) \subseteq D <=>
        \A l \in Levels : \A f \in v[l] : f.num \in D
  BY NumbersWithin
<1>2. FileNumbers(c.version) \subseteq D <=>
        \A l \in Levels : \A f \in c.version[l] : f.num \in D
  BY NumbersWithin
<1>3. PendingOutputs(c) \subseteq D <=>
        (c # NoCompaction => /\ \A f \in c.outputs : f.num \in D
                             /\ c.outfile # 0 => c.outfile \in D)
  BY DEF PendingOutputs
<1>4. \A j \in Iters : FileNumbers(its[j].version) \subseteq D <=>
        \A l \in Levels : \A f \in its[j].version[l] : f.num \in D
  BY NumbersWithin
<1>5. UNION {FileNumbers(its[j].version) : j \in OpenIters(its)} \subseteq D <=>
        \A j \in Iters : its[j] # NoIter => FileNumbers(its[j].version) \subseteq D
  BY DEF OpenIters
<1>6. LiveFiles(v, c, its) \subseteq D <=>
        /\ FileNumbers(v) \subseteq D
        /\ c # NoCompaction => FileNumbers(c.version) \subseteq D
        /\ UNION {FileNumbers(its[j].version) : j \in OpenIters(its)} \subseteq D
  BY DEF LiveFiles
<1> QED BY <1>1, <1>2, <1>3, <1>4, <1>5, <1>6 DEF InUse

(* What RemoveObsoleteFiles leaves.                                         *)
LEMMA RemoveKeeps ==
  ASSUME NEW D, NEW v, NEW c, NEW its, InUse(D, v, c, its)
  PROVE  InUse(RemoveObsoleteFiles(D, v, c, its), v, c, its)
BY InUseWithin DEF RemoveObsoleteFiles

(* Freeing memtables keeps those that are still referenced.                 *)
LEMMA FreeType ==
  ASSUME TypeInv, NEW its, NEW held
  PROVE  /\ FreeMemTables(its, held) \in Seq(SUBSET Entry)
         /\ Len(FreeMemTables(its, held)) = Len(memtables)
         /\ \A i \in Referenced(its, held) \cap (1..Len(memtables)) :
              FreeMemTables(its, held)[i] = memtables[i]
<1>1. DOMAIN memtables = 1..Len(memtables) /\ Len(memtables) \in Nat
  BY DEF TypeInv
<1>2. \A i \in DOMAIN memtables : memtables[i] \in SUBSET Entry
  BY DEF TypeInv
<1>3. FreeMemTables(its, held) \in [1..Len(memtables) -> SUBSET Entry]
  BY <1>1, <1>2 DEF FreeMemTables
<1>4. FreeMemTables(its, held) \in Seq(SUBSET Entry)
  BY <1>1, <1>3
<1>5. Len(FreeMemTables(its, held)) = Len(memtables)
  BY <1>1, <1>3, <1>4
<1>6. \A i \in Referenced(its, held) \cap (1..Len(memtables)) :
        FreeMemTables(its, held)[i] = memtables[i]
  BY <1>1 DEF FreeMemTables
<1> QED BY <1>4, <1>5, <1>6

(* The entries of a batch.                                                  *)
BatchEntries(b) ==
  {[k |-> b[i].k, s |-> lastSeq + i, t |-> b[i].t] : i \in DOMAIN b}

(* The entries of a batch have the sequence numbers behind LastSequence(),  *)
(* each its own.                                                            *)
LEMMA BatchType ==
  ASSUME TypeInv, NEW b \in Batches
  PROVE  /\ BatchEntries(b) \subseteq Entry /\ Len(b) \in Nat
         /\ \A e \in BatchEntries(b) : lastSeq < e.s /\ e.s <= lastSeq + Len(b)
         /\ \A e, x \in BatchEntries(b) : e.s = x.s => e = x
<1>1. b \in Seq([k : Keys, t : {"value", "deletion"}])
  BY BatchesAssumption
<1>2. DOMAIN b = 1..Len(b) /\ Len(b) \in Nat
  BY <1>1
<1>3. \A i \in DOMAIN b : b[i].k \in Keys /\ b[i].t \in {"value", "deletion"}
  <2> DEFINE U == [k : Keys, t : {"value", "deletion"}]
  <2>1. \A u \in U : u.k \in Keys /\ u.t \in {"value", "deletion"}
    OBVIOUS
  <2> HIDE DEF U
  <2>2. b \in Seq(U)
    BY <1>1 DEF U
  <2>3. \A i \in DOMAIN b : b[i] \in U
    BY ONLY <2>2
  <2> QED BY <2>1, <2>3
<1>4. lastSeq \in Nat
  BY DEF TypeInv
<1>5. \A i \in DOMAIN b : lastSeq + i \in Nat /\ i \in Int
  BY <1>2, <1>4
<1>6. BatchEntries(b) \subseteq Entry
  BY <1>3, <1>5 DEF BatchEntries, Entry
<1>7. \A e \in BatchEntries(b) : lastSeq < e.s /\ e.s <= lastSeq + Len(b)
  BY <1>2, <1>4 DEF BatchEntries
<1>8. ASSUME NEW e \in BatchEntries(b), NEW x \in BatchEntries(b), e.s = x.s
      PROVE  e = x
  <2>1. PICK i \in DOMAIN b : e = [k |-> b[i].k, s |-> lastSeq + i, t |-> b[i].t]
    BY DEF BatchEntries
  <2>2. PICK j \in DOMAIN b : x = [k |-> b[j].k, s |-> lastSeq + j, t |-> b[j].t]
    BY DEF BatchEntries
  <2>3. e.s = lastSeq + i /\ x.s = lastSeq + j
    BY <2>1, <2>2
  <2>4. i \in Int /\ j \in Int /\ lastSeq + i = lastSeq + j
    BY <1>5, <1>8, <2>3
  <2>a. \A n \in Nat : \A p, q \in Int : n + p = n + q => p = q
    OBVIOUS
  <2>5. i = j
    BY ONLY <1>4, <2>4, <2>a, Zenon
  <2> QED BY <2>1, <2>2, <2>5
<1> QED BY <1>2, <1>6, <1>7, <1>8

(* BaseInv holds at first.                                                  *)
LEMMA InitBase == Init => BaseInv
<1> SUFFICES ASSUME Init PROVE BaseInv
  OBVIOUS
<1>1. <<{}>> \in Seq(SUBSET Entry) /\ Len(<<{}>>) = 1
  OBVIOUS
<1>2. TypeInv
  <2>1. /\ memtables \in Seq(SUBSET Entry) /\ Len(memtables) = 1
        /\ lastSeq = 0 /\ pending = 0 /\ hasImm = FALSE /\ nextFile = 1
    BY <1>1 DEF Init
  <2>2. /\ version = [l \in Levels |-> version[l]]
        /\ iters = [j \in Iters |-> iters[j]]
    BY DEF Init
  <2>3. /\ lastSeq \in Nat /\ pending \in Nat /\ nextFile \in Nat \ {0}
        /\ Len(memtables) > 0
    BY <2>1
  <2>4. hasImm \in BOOLEAN /\ ~hasImm
    BY <2>1, Zenon
  <2> QED BY <2>1, <2>2, <2>3, <2>4, Zenon DEF TypeInv
<1>3. CompactionType
  BY DEF Init, CompactionType
<1>4. FinitelyMany
  BY FS_EmptySet DEF Init, FinitelyMany
<1>5. InUse(disk, version, compaction, iters)
  BY DEF Init, InUse
<1>6. LiveFilesExist
  BY <1>5, InUseWithin DEF LiveFilesExist
<1> QED BY <1>2, <1>3, <1>4, <1>6 DEF BaseInv

(* The actions of writers and readers leave the files alone.                *)
LEMMA HandlesBase ==
  ASSUME BaseInv,
         \/ \E b \in Batches : WriteInsert(b)
         \/ WritePublish
         \/ SwitchMemTable
         \/ \E i \in Snaps : GetSnapshot(i) \/ ReleaseSnapshot(i)
         \/ \E j \in Iters : DeleteIterator(j)
         \/ \E j \in Iters : \E s : NewIterator(j, s)
  PROVE  BaseInv'
<1> USE DEF BaseInv, writeVars, memVars, fileVars, readVars
<1>a. /\ memtables \in Seq(SUBSET Entry) /\ mem \in DOMAIN memtables
      /\ mem = Len(memtables) /\ Len(memtables) \in Nat
  BY DEF TypeInv, mem
<1>b. InUse(disk, version, compaction, iters)
  BY InUseWithin DEF LiveFilesExist
<1>c. UNCHANGED <<version, compaction>> =>
        CompactionType' /\ FinitelyMany'
  BY DEF CompactionType, FinitelyMany
<1>d. UNCHANGED <<disk, version, compaction, iters>> => LiveFilesExist'
  BY DEF LiveFilesExist, LiveFiles, OpenIters, FileNumbers, PendingOutputs
<1>1. ASSUME NEW b \in Batches, WriteInsert(b) PROVE BaseInv'
  <2>1. memtables' = [memtables EXCEPT ![mem] = @ \union BatchEntries(b)]
    BY <1>1 DEF WriteInsert, BatchEntries
  <2>2. memtables[mem] \union BatchEntries(b) \in SUBSET Entry
    BY <1>a, BatchType
  <2>3. memtables' \in Seq(SUBSET Entry) /\ Len(memtables') = Len(memtables)
    BY <1>a, <2>1, <2>2
  <2>4. TypeInv'
    BY <1>1, <2>3, BatchType DEF TypeInv, WriteInsert
  <2> QED BY <1>1, <1>c, <1>d, <2>4 DEF WriteInsert
<1>2. CASE WritePublish
  <2>1. TypeInv'
    BY <1>2 DEF TypeInv, WritePublish
  <2> QED BY <1>2, <1>c, <1>d, <2>1 DEF WritePublish
<1>3. CASE SwitchMemTable
  <2>1. /\ memtables' \in Seq(SUBSET Entry)
        /\ Len(memtables') = Len(memtables) + 1
    BY <1>3, <1>a DEF SwitchMemTable
  <2>2. TypeInv'
    BY <1>3, <1>a, <2>1 DEF TypeInv, SwitchMemTable
  <2> QED BY <1>3, <1>c, <1>d, <2>2 DEF SwitchMemTable
<1>4. ASSUME NEW i \in Snaps, GetSnapshot(i) \/ ReleaseSnapshot(i) PROVE BaseInv'
  <2>1. TypeInv'
    BY <1>4 DEF TypeInv, GetSnapshot, ReleaseSnapshot
  <2> QED BY <1>4, <1>c, <1>d, <2>1 DEF GetSnapshot, ReleaseSnapshot
<1>5. ASSUME NEW j \in Iters, DeleteIterator(j) PROVE BaseInv'
  <2>1. /\ iters' = [iters EXCEPT ![j] = NoIter]
        /\ memtables' = FreeMemTables(iters', hasImm)
        /\ UNCHANGED <<lastSeq, pending, hasImm, version, nextFile, disk,
                       compaction>>
    BY <1>5 DEF DeleteIterator
  <2>2. iters' = [i \in Iters |-> IF i = j THEN NoIter ELSE iters[i]]
    BY <2>1 DEF TypeInv
  <2>3. TypeInv'
    BY <2>1, <2>2, FreeType DEF TypeInv
  <2>4. InUse(disk, version, compaction, iters')
    BY <1>b, <2>2 DEF InUse
  <2>5. LiveFilesExist'
    BY <2>1, <2>4, InUseWithin DEF LiveFilesExist
  <2> QED BY <1>c, <2>1, <2>3, <2>5
<1>6. ASSUME NEW j \in Iters, NEW s, NewIterator(j, s) PROVE BaseInv'
  <2> DEFINE new == [seq |-> s, version |-> version,
                     mems |-> {mem} \union (IF hasImm THEN {imm} ELSE {})]
  <2>1. /\ iters' = [iters EXCEPT ![j] = new]
        /\ UNCHANGED <<lastSeq, pending, memtables, hasImm, version, nextFile,
                       disk, compaction>>
    BY <1>6 DEF NewIterator
  <2>2. new.version = version
    OBVIOUS
  <2> HIDE DEF new
  <2>3. iters' = [i \in Iters |-> IF i = j THEN new ELSE iters[i]]
    BY <2>1 DEF TypeInv
  <2>4. TypeInv'
    BY <2>1, <2>3 DEF TypeInv
  <2>5. InUse(disk, version, compaction, iters')
    BY <1>b, <2>2, <2>3 DEF InUse
  <2>6. LiveFilesExist'
    BY <2>1, <2>5, InUseWithin DEF LiveFilesExist
  <2> QED BY <1>c, <2>1, <2>4, <2>6
<1> QED BY <1>1, <1>2, <1>3, <1>4, <1>5, <1>6

(* Flush adds one file to one level.                                        *)
LEMMA FlushStep ==
  ASSUME TypeInv, Flush
  PROVE  /\ hasImm /\ hasImm' = FALSE
         /\ \E l \in PickLevelForMemTableOutput(
                       File(nextFile, memtables[imm]).smallest.k,
                       File(nextFile, memtables[imm]).largest.k) :
              /\ l \in Levels
              /\ version' = [m \in Levels |->
                   IF m = l THEN version[m] \union {File(nextFile, memtables[imm])}
                   ELSE version[m]]
         /\ nextFile' = nextFile + 1
         /\ memtables' = FreeMemTables(iters, FALSE)
         /\ disk' = RemoveObsoleteFiles(disk \union {nextFile}, version',
                                        compaction, iters)
         /\ UNCHANGED <<lastSeq, pending, compaction, snapshots, iters>>
<1> DEFINE f == File(nextFile, memtables[imm])
<1>1. PICK l \in PickLevelForMemTableOutput(f.smallest.k, f.largest.k) :
        version' = [version EXCEPT ![l] = @ \union {f}]
  BY DEF Flush
<1>2. l \in Levels
  BY LevelsAssumption DEF PickLevelForMemTableOutput, Levels
<1> HIDE DEF f
<1>3. version' = [m \in Levels |-> IF m = l THEN version[m] \union {f}
                                   ELSE version[m]]
  BY <1>1, <1>2 DEF TypeInv
<1>4. \E m \in PickLevelForMemTableOutput(f.smallest.k, f.largest.k) :
        /\ m \in Levels
        /\ version' = [i \in Levels |-> IF i = m THEN version[i] \union {f}
                                        ELSE version[i]]
  BY <1>1, <1>2, <1>3
<1>5. /\ hasImm /\ hasImm' = FALSE /\ nextFile' = nextFile + 1
      /\ memtables' = FreeMemTables(iters, FALSE)
      /\ disk' = RemoveObsoleteFiles(disk \union {nextFile}, version',
                                     compaction, iters)
      /\ UNCHANGED <<lastSeq, pending, compaction, snapshots, iters>>
  BY DEF Flush, writeVars, readVars
<1> QED BY <1>4, <1>5 DEF f

(* CompactMemTable keeps BaseInv: the new table is listed before obsolete   *)
(* files are removed.                                                       *)
LEMMA FlushBase ==
  ASSUME BaseInv, Flush
  PROVE  BaseInv'
<1> USE DEF BaseInv
<1> DEFINE f == File(nextFile, memtables[imm])
<1>1. PICK l \in Levels :
        version' = [m \in Levels |-> IF m = l THEN version[m] \union {f}
                                     ELSE version[m]]
  BY FlushStep
<1>2. /\ hasImm' = FALSE /\ nextFile' = nextFile + 1
      /\ memtables' = FreeMemTables(iters, FALSE)
      /\ disk' = RemoveObsoleteFiles(disk \union {nextFile}, version',
                                     compaction, iters)
      /\ UNCHANGED <<lastSeq, pending, compaction, iters>>
  BY FlushStep
<1>3. f.num = nextFile
  BY DEF File
<1> HIDE DEF f
<1>4. TypeInv'
  <2>1. /\ memtables' \in Seq(SUBSET Entry)
        /\ Len(memtables') = Len(memtables)
    BY <1>2, FreeType
  <2>2. nextFile' \in Nat \ {0}
    BY <1>2 DEF TypeInv
  <2>3. version' = [m \in Levels |-> version'[m]]
    BY <1>1
  <2>4. hasImm' \in BOOLEAN /\ ~hasImm'
    BY <1>2, Zenon
  <2>5. Len(memtables') > 0
    BY <2>1 DEF TypeInv
  <2>6. /\ lastSeq' \in Nat /\ pending' \in Nat
        /\ iters' = [j \in Iters |-> iters'[j]]
    BY <1>2 DEF TypeInv
  <2> QED BY <2>1, <2>2, <2>3, <2>4, <2>5, <2>6, Zenon DEF TypeInv
<1>5. CompactionType'
  BY <1>2 DEF CompactionType
<1>6. FinitelyMany'
  BY <1>1, FS_AddElement DEF FinitelyMany
<1>7. LiveFilesExist'
  <2>1. InUse(disk, version, compaction, iters)
    BY InUseWithin DEF LiveFilesExist
  <2>2. InUse(disk \union {nextFile}, version', compaction, iters)
    BY <1>1, <1>3, <2>1 DEF InUse
  <2>3. InUse(disk', version', compaction', iters')
    BY <1>2, <2>2, RemoveKeeps
  <2> QED BY <2>3, InUseWithin DEF LiveFilesExist
<1> QED BY <1>4, <1>5, <1>6, <1>7

(* A compaction that has chosen its inputs keeps BaseInv.                   *)
LEMMA StartBase ==
  ASSUME BaseInv, NEW l \in 0..(NumLevels - 2), NEW in, StartCompaction(l, in),
         UNCHANGED <<lastSeq, pending, memtables, hasImm, version, nextFile,
                     disk, iters>>
  PROVE  BaseInv'
<1> USE DEF BaseInv
<1>1. /\ compaction'.version = version /\ compaction'.outputs = {}
      /\ compaction'.outfile = 0 /\ compaction'.level = l
      /\ compaction' = [level |-> compaction'.level,
                        inputs |-> compaction'.inputs,
                        version |-> compaction'.version,
                        outputs |-> compaction'.outputs,
                        outfile |-> compaction'.outfile,
                        smallestSnapshot |-> compaction'.smallestSnapshot,
                        todo |-> compaction'.todo]
  BY DEF StartCompaction
<1>2. TypeInv'
  BY DEF TypeInv
<1>3. CompactionType'
  BY <1>1, FS_EmptySet DEF CompactionType
<1>4. FinitelyMany'
  BY DEF FinitelyMany
<1>5. InUse(disk, version, compaction, iters)
  BY InUseWithin DEF LiveFilesExist
<1>6. InUse(disk, version, compaction', iters)
  BY <1>1, <1>5 DEF InUse
<1>7. LiveFilesExist'
  BY <1>6, InUseWithin DEF LiveFilesExist
<1> QED BY <1>2, <1>3, <1>4, <1>7

(* What TrivialMove does, without its LETs.                                 *)
LEMMA TrivialMoveStep ==
  ASSUME BaseInv, NEW l \in 0..(NumLevels - 2), TrivialMove(l)
  PROVE  /\ compaction = NoCompaction
         /\ \E in \in PickCompaction(l) :
              /\ Cardinality(in[1]) = 1 /\ in[2] = {}
              /\ in[1] \subseteq version[l]
              /\ version' = [m \in Levels |->
                   CASE m = l -> version[m] \ in[1]
                     [] m = l + 1 -> version[m] \union in[1]
                     [] OTHER -> version[m]]
         /\ UNCHANGED <<lastSeq, pending, memtables, hasImm, nextFile, disk,
                        compaction, snapshots, iters>>
<1>1. PICK in \in PickCompaction(l) :
        /\ Cardinality(in[1]) = 1 /\ in[2] = {}
        /\ version' = [version EXCEPT ![l] = @ \ in[1],
                                      ![l + 1] = @ \union in[1]]
  BY DEF TrivialMove
<1>2. in[1] \subseteq version[l]
  BY PickWithin DEF BaseInv
<1>3. version' = [m \in Levels |-> CASE m = l -> version[m] \ in[1]
                                     [] m = l + 1 -> version[m] \union in[1]
                                     [] OTHER -> version[m]]
  BY <1>1, LevelsFact DEF BaseInv, TypeInv
<1>4. /\ compaction = NoCompaction
      /\ UNCHANGED <<lastSeq, pending, memtables, hasImm, nextFile, disk,
                     compaction, snapshots, iters>>
  BY DEF TrivialMove, BackgroundIdle, writeVars, memVars, readVars
<1> QED BY <1>1, <1>2, <1>3, <1>4

(* A trivial move keeps BaseInv: the file changes its level, not its        *)
(* number.                                                                  *)
LEMMA TrivialMoveBase ==
  ASSUME BaseInv, NEW l \in 0..(NumLevels - 2), TrivialMove(l)
  PROVE  BaseInv'
<1> USE DEF BaseInv
<1>1. PICK in \in PickCompaction(l) :
        /\ in[1] \subseteq version[l]
        /\ version' = [m \in Levels |->
             CASE m = l -> version[m] \ in[1]
               [] m = l + 1 -> version[m] \union in[1]
               [] OTHER -> version[m]]
  BY TrivialMoveStep
<1>2. UNCHANGED <<lastSeq, pending, memtables, hasImm, nextFile, disk,
                  compaction, snapshots, iters>>
  BY TrivialMoveStep
<1>3. l \in Levels /\ l + 1 \in Levels /\ l # l + 1
  BY LevelsFact
<1>4. /\ version'[l] = version[l] \ in[1]
      /\ version'[l + 1] = version[l + 1] \union in[1]
      /\ \A m \in Levels : m # l /\ m # l + 1 => version'[m] = version[m]
  BY <1>1, <1>3
<1>5. TypeInv'
  BY <1>1, <1>2 DEF TypeInv
<1>6. CompactionType'
  BY <1>2 DEF CompactionType
<1>7. FinitelyMany'
  <2>1. IsFiniteSet(version[l]) /\ IsFiniteSet(version[l + 1])
    BY <1>3 DEF FinitelyMany
  <2>2. IsFiniteSet(in[1]) /\ IsFiniteSet(version[l] \ in[1])
    BY <1>1, <2>1, FS_Subset
  <2>3. IsFiniteSet(version[l + 1] \union in[1])
    BY <2>1, <2>2, FS_Union
  <2> QED BY <1>3, <1>4, <2>2, <2>3 DEF FinitelyMany
<1>8. InUse(disk, version, compaction, iters)
  BY InUseWithin DEF LiveFilesExist
<1>9. \A m \in Levels : \A f \in version'[m] : f.num \in disk
  BY <1>1, <1>3, <1>4, <1>8 DEF InUse
<1>10. InUse(disk, version', compaction, iters)
  BY <1>8, <1>9 DEF InUse
<1>11. LiveFilesExist'
  BY <1>2, <1>10, InUseWithin DEF LiveFilesExist
<1> QED BY <1>5, <1>6, <1>7, <1>11

(* What OpenCompactionOutputFile does.                                      *)
LEMMA OpenOutputStep ==
  ASSUME BaseInv, OpenOutput
  PROVE  /\ compaction # NoCompaction
         /\ compaction' = [level |-> compaction.level,
                           inputs |-> compaction.inputs,
                           version |-> compaction.version,
                           outputs |-> compaction.outputs,
                           outfile |-> nextFile,
                           smallestSnapshot |-> compaction.smallestSnapshot,
                           todo |-> compaction.todo]
         /\ nextFile' = nextFile + 1 /\ disk' = disk \union {nextFile}
         /\ UNCHANGED <<lastSeq, pending, memtables, hasImm, version, snapshots,
                        iters>>
<1>1. /\ compaction # NoCompaction
      /\ compaction' = [compaction EXCEPT !.outfile = nextFile]
      /\ nextFile' = nextFile + 1 /\ disk' = disk \union {nextFile}
      /\ UNCHANGED <<lastSeq, pending, memtables, hasImm, version, snapshots,
                     iters>>
  BY DEF OpenOutput, writeVars, memVars, readVars
<1> QED BY <1>1 DEF BaseInv, CompactionType

(* The number of a new output is pending before the file exists.            *)
LEMMA OpenOutputBase ==
  ASSUME BaseInv, OpenOutput
  PROVE  BaseInv'
<1> USE DEF BaseInv
<1>1. /\ compaction # NoCompaction
      /\ compaction'.level = compaction.level
      /\ compaction'.version = compaction.version
      /\ compaction'.outputs = compaction.outputs
      /\ compaction'.outfile = nextFile
      /\ compaction' = [level |-> compaction'.level,
                        inputs |-> compaction'.inputs,
                        version |-> compaction'.version,
                        outputs |-> compaction'.outputs,
                        outfile |-> compaction'.outfile,
                        smallestSnapshot |-> compaction'.smallestSnapshot,
                        todo |-> compaction'.todo]
  BY OpenOutputStep
<1>2. /\ nextFile' = nextFile + 1 /\ disk' = disk \union {nextFile}
      /\ UNCHANGED <<lastSeq, pending, memtables, hasImm, version, iters>>
  BY OpenOutputStep
<1>3. TypeInv'
  <2>1. nextFile' \in Nat \ {0}
    BY <1>2 DEF TypeInv
  <2> QED BY <1>2, <2>1 DEF TypeInv
<1>4. CompactionType'
  BY <1>1 DEF CompactionType
<1>5. FinitelyMany'
  BY <1>2 DEF FinitelyMany
<1>6. InUse(disk, version, compaction, iters)
  BY InUseWithin DEF LiveFilesExist
<1>7. InUse(disk \union {nextFile}, version, compaction', iters)
  BY <1>1, <1>6 DEF InUse
<1>8. LiveFilesExist'
  BY <1>2, <1>7, InUseWithin DEF LiveFilesExist
<1> QED BY <1>3, <1>4, <1>5, <1>8

(* What FinishCompactionOutputFile does.                                    *)
LEMMA FinishOutputStep ==
  ASSUME BaseInv, compaction # NoCompaction, NEW e \in compaction.todo,
         FinishOutput(e)
  PROVE  /\ compaction.outfile # 0
         /\ compaction' = [level |-> compaction.level,
                           inputs |-> compaction.inputs,
                           version |-> compaction.version,
                           outputs |-> compaction.outputs \union
                                         {File(compaction.outfile, UpTo(e))},
                           outfile |-> 0,
                           smallestSnapshot |-> compaction.smallestSnapshot,
                           todo |-> compaction.todo \ UpTo(e)]
         /\ UNCHANGED <<lastSeq, pending, memtables, hasImm, version, nextFile,
                        disk, snapshots, iters>>
<1>1. /\ compaction.outfile # 0
      /\ compaction' = [compaction EXCEPT
           !.todo = @ \ UpTo(e),
           !.outputs = @ \union {File(compaction.outfile, UpTo(e))},
           !.outfile = 0]
      /\ UNCHANGED <<lastSeq, pending, memtables, hasImm, version, nextFile,
                     disk, snapshots, iters>>
  BY DEF FinishOutput, writeVars, memVars, fileVars, readVars
<1> QED BY <1>1 DEF BaseInv, CompactionType

(* A finished output is still protected, as an output of the compaction.    *)
LEMMA FinishOutputBase ==
  ASSUME BaseInv, compaction # NoCompaction, NEW e \in compaction.todo,
         FinishOutput(e)
  PROVE  BaseInv'
<1> USE DEF BaseInv
<1> DEFINE o == File(compaction.outfile, UpTo(e))
<1>1. /\ compaction.outfile # 0
      /\ compaction'.level = compaction.level
      /\ compaction'.version = compaction.version
      /\ compaction'.outputs = compaction.outputs \union {o}
      /\ compaction'.outfile = 0
      /\ compaction' = [level |-> compaction'.level,
                        inputs |-> compaction'.inputs,
                        version |-> compaction'.version,
                        outputs |-> compaction'.outputs,
                        outfile |-> compaction'.outfile,
                        smallestSnapshot |-> compaction'.smallestSnapshot,
                        todo |-> compaction'.todo]
  BY FinishOutputStep
<1>2. UNCHANGED <<lastSeq, pending, memtables, hasImm, version, nextFile, disk,
                  iters>>
  BY FinishOutputStep
<1>3. o.num = compaction.outfile
  BY DEF File
<1> HIDE DEF o
<1>4. TypeInv'
  BY <1>2 DEF TypeInv
<1>5. CompactionType'
  BY <1>1, FS_AddElement DEF CompactionType
<1>6. FinitelyMany'
  BY <1>2 DEF FinitelyMany
<1>7. InUse(disk, version, compaction, iters)
  BY InUseWithin DEF LiveFilesExist
<1>8. InUse(disk, version, compaction', iters)
  BY <1>1, <1>3, <1>7 DEF InUse
<1>9. LiveFilesExist'
  BY <1>2, <1>8, InUseWithin DEF LiveFilesExist
<1> QED BY <1>4, <1>5, <1>6, <1>9

(* What InstallCompactionResults and the clean-up behind it do.             *)
LEMMA InstallStep ==
  ASSUME BaseInv, InstallCompaction
  PROVE  LET c == compaction
             rest == IF c.todo = {} THEN {} ELSE {File(c.outfile, c.todo)}
         IN  /\ c # NoCompaction
             /\ c.todo # {} => c.outfile # 0
             /\ c.level \in 0..(NumLevels - 2)
             /\ version' = [m \in Levels |->
                  CASE m = c.level -> version[m] \ c.inputs[1]
                    [] m = c.level + 1 ->
                         (version[m] \ c.inputs[2]) \union c.outputs \union rest
                    [] OTHER -> version[m]]
             /\ compaction' = NoCompaction
             /\ disk' = RemoveObsoleteFiles(disk, version', NoCompaction, iters)
             /\ UNCHANGED <<lastSeq, pending, memtables, hasImm, nextFile,
                            snapshots, iters>>
<1> DEFINE c == compaction
           rest == IF c.todo = {} THEN {} ELSE {File(c.outfile, c.todo)}
<1>1. /\ c # NoCompaction
      /\ c.todo # {} => c.outfile # 0
      /\ version' = [version EXCEPT
           ![c.level] = @ \ c.inputs[1],
           ![c.level + 1] = (@ \ c.inputs[2]) \union c.outputs \union rest]
      /\ compaction' = NoCompaction
      /\ disk' = RemoveObsoleteFiles(disk, version', NoCompaction, iters)
      /\ UNCHANGED <<lastSeq, pending, memtables, hasImm, nextFile, snapshots,
                     iters>>
  BY DEF InstallCompaction, writeVars, memVars, readVars
<1>2. c.level \in 0..(NumLevels - 2)
  BY <1>1 DEF BaseInv, CompactionType
<1>3. c.level \in Levels /\ c.level + 1 \in Levels /\ c.level # c.level + 1
  BY <1>2, LevelsFact
<1> HIDE DEF rest
<1>4. version' = [m \in Levels |->
        CASE m = c.level -> version[m] \ c.inputs[1]
          [] m = c.level + 1 ->
               (version[m] \ c.inputs[2]) \union c.outputs \union rest
          [] OTHER -> version[m]]
  BY <1>1, <1>3 DEF BaseInv, TypeInv
<1> QED BY <1>1, <1>2, <1>4 DEF rest

(* Installing the outputs keeps BaseInv: they are listed before the inputs  *)
(* are removed.                                                             *)
LEMMA InstallBase ==
  ASSUME BaseInv, InstallCompaction
  PROVE  BaseInv'
<1> USE DEF BaseInv
<1> DEFINE c == compaction
           rest == IF c.todo = {} THEN {} ELSE {File(c.outfile, c.todo)}
           l == c.level
<1>1. /\ c # NoCompaction
      /\ c.todo # {} => c.outfile # 0
      /\ l \in 0..(NumLevels - 2)
      /\ version' = [m \in Levels |->
           CASE m = l -> version[m] \ c.inputs[1]
             [] m = l + 1 ->
                  (version[m] \ c.inputs[2]) \union c.outputs \union rest
             [] OTHER -> version[m]]
      /\ compaction' = NoCompaction
      /\ disk' = RemoveObsoleteFiles(disk, version', NoCompaction, iters)
      /\ UNCHANGED <<lastSeq, pending, memtables, hasImm, nextFile, iters>>
  BY InstallStep
<1>2. l \in Levels /\ l + 1 \in Levels /\ l # l + 1
  BY <1>1, LevelsFact
<1>3. IsFiniteSet(rest) /\ \A f \in rest : f.num = c.outfile /\ c.outfile # 0
  <2>1. CASE c.todo = {}
    BY <2>1, FS_EmptySet
  <2>2. CASE c.todo # {}
    <3>1. rest = {File(c.outfile, c.todo)}
      BY <2>2
    <3>2. IsFiniteSet(rest)
      BY <3>1, FS_Singleton
    <3>3. File(c.outfile, c.todo).num = c.outfile
      BY DEF File
    <3>4. c.outfile # 0
      BY <1>1, <2>2
    <3> HIDE DEF rest, c
    <3> QED BY <3>1, <3>2, <3>3, <3>4
  <2> QED BY <2>1, <2>2
<1> HIDE DEF rest, l
<1>4. /\ version'[l] = version[l] \ c.inputs[1]
      /\ version'[l + 1] =
           (version[l + 1] \ c.inputs[2]) \union c.outputs \union rest
      /\ \A m \in Levels : m # l /\ m # l + 1 => version'[m] = version[m]
  BY <1>1, <1>2
<1>5. TypeInv'
  BY <1>1 DEF TypeInv
<1>6. CompactionType'
  BY <1>1 DEF CompactionType
<1>7. FinitelyMany'
  <2>1. /\ IsFiniteSet(version[l]) /\ IsFiniteSet(version[l + 1])
        /\ IsFiniteSet(c.outputs)
    BY <1>1, <1>2 DEF FinitelyMany, CompactionType
  <2>2. /\ IsFiniteSet(version[l] \ c.inputs[1])
        /\ IsFiniteSet(version[l + 1] \ c.inputs[2])
    BY <2>1, FS_Subset
  <2>3. IsFiniteSet((version[l + 1] \ c.inputs[2]) \union c.outputs)
    BY <2>1, <2>2, FS_Union
  <2>4. IsFiniteSet((version[l + 1] \ c.inputs[2]) \union c.outputs \union rest)
    BY <1>3, <2>3, FS_Union
  <2> QED BY <1>4, <2>2, <2>4 DEF FinitelyMany
<1>8. InUse(disk, version, c, iters)
  BY InUseWithin DEF LiveFilesExist
<1>9. \A f \in c.outputs \union rest : f.num \in disk
  BY <1>1, <1>3, <1>8 DEF InUse
<1>10. \A m \in Levels : \A f \in version'[m] : f.num \in disk
  BY <1>2, <1>4, <1>8, <1>9 DEF InUse
<1>11. InUse(disk, version', NoCompaction, iters)
  BY <1>8, <1>10 DEF InUse
<1>12. InUse(disk', version', compaction', iters')
  BY <1>1, <1>11, RemoveKeeps
<1>13. LiveFilesExist'
  BY <1>12, InUseWithin DEF LiveFilesExist
<1> QED BY <1>5, <1>6, <1>7, <1>13

(* Every step keeps BaseInv.                                                *)
LEMMA NextBase == BaseInv /\ [Next]_vars => BaseInv'
<1> SUFFICES ASSUME BaseInv, [Next]_vars PROVE BaseInv'
  OBVIOUS
<1>1. CASE \/ \E b \in Batches : WriteInsert(b)
           \/ WritePublish
           \/ SwitchMemTable
           \/ \E i \in Snaps : GetSnapshot(i) \/ ReleaseSnapshot(i)
           \/ \E j \in Iters : DeleteIterator(j)
           \/ \E j \in Iters : \E s : NewIterator(j, s)
  BY <1>1, HandlesBase
<1>2. CASE Flush
  BY <1>2, FlushBase
<1>3. ASSUME NEW l \in 0..(NumLevels - 2),
             AutoCompaction(l) \/ \E r \in ManualRanges : ManualCompaction(l, r)
      PROVE  BaseInv'
  <2>1. \E in : StartCompaction(l, in)
    BY <1>3 DEF AutoCompaction, ManualCompaction
  <2>2. UNCHANGED <<lastSeq, pending, memtables, hasImm, version, nextFile,
                    disk, iters>>
    BY <1>3 DEF AutoCompaction, ManualCompaction, writeVars, memVars, fileVars,
                readVars
  <2> QED BY <2>1, <2>2, StartBase
<1>4. ASSUME NEW l \in 0..(NumLevels - 2), TrivialMove(l) PROVE BaseInv'
  BY <1>4, TrivialMoveBase
<1>5. CASE OpenOutput
  BY <1>5, OpenOutputBase
<1>6. CASE compaction # NoCompaction /\ \E e \in compaction.todo : FinishOutput(e)
  BY <1>6, FinishOutputBase
<1>7. CASE InstallCompaction
  BY <1>7, InstallBase
<1>8. CASE UNCHANGED vars
  <2>1. UNCHANGED <<lastSeq, pending, memtables, hasImm, version, nextFile, disk,
                    compaction, snapshots, iters>>
    BY <1>8 DEF vars, writeVars, memVars, fileVars, readVars
  <2>2. TypeInv' /\ CompactionType' /\ FinitelyMany'
    BY <2>1 DEF BaseInv, TypeInv, CompactionType, FinitelyMany
  <2>3. LiveFilesExist'
    BY <2>1 DEF BaseInv, LiveFilesExist, LiveFiles, OpenIters, FileNumbers,
                PendingOutputs
  <2> QED BY <2>2, <2>3 DEF BaseInv
<1> QED BY <1>1, <1>2, <1>3, <1>4, <1>5, <1>6, <1>7, <1>8 DEF Next

(* The types, and the files in use, in every reachable state.               *)
THEOREM BaseInvariance == Spec => []BaseInv
<1>1. Init => BaseInv
  BY InitBase
<1>2. BaseInv /\ [Next]_vars => BaseInv'
  BY NextBase
<1> QED BY <1>1, <1>2, PTL DEF Spec

(* No table file that the current version, an iterator or the running       *)
(* compaction may still read, and no output of that compaction, is ever     *)
(* removed: RemoveObsoleteFiles, also when a memtable is flushed inside a   *)
(* compaction, knows every version that is held and every pending output.   *)
THEOREM FilesInUseExist == Spec => []LiveFilesExist
<1>1. BaseInv => LiveFilesExist
  BY DEF BaseInv
<1> QED BY <1>1, BaseInvariance, PTL

-----------------------------------------------------------------------------
(* Sets of files and the range of keys they span. *)

Good(fs) ==
  /\ IsFiniteSet(fs)
  /\ \A f \in fs : FileOK(f)
  /\ Distinct(MergedEntries(fs))

(* Good files stay good when some are left out.                             *)
LEMMA GoodSubset ==
  ASSUME NEW fs, Good(fs), NEW gs, gs \subseteq fs
  PROVE  Good(gs) /\ MergedEntries(gs) \subseteq MergedEntries(fs)
<1>1. MergedEntries(gs) \subseteq MergedEntries(fs)
  BY DEF MergedEntries
<1> QED BY <1>1, DistinctSubset, FS_Subset DEF Good

(* The entries of a file are among those of its set.                        *)
LEMMA EntriesWithin ==
  ASSUME NEW fs, NEW f \in fs
  PROVE  f.entries \subseteq MergedEntries(fs)
BY DEF MergedEntries

(* An entry of a set of files is in one of them.                            *)
LEMMA EntriesOf ==
  ASSUME NEW fs, NEW e \in MergedEntries(fs)
  PROVE  \E f \in fs : e \in f.entries
BY DEF MergedEntries

(* MergedEntries distributes over union.                                    *)
LEMMA EntriesUnion ==
  ASSUME NEW A, NEW B
  PROVE  MergedEntries(A \union B) = MergedEntries(A) \union MergedEntries(B)
BY DEF MergedEntries

(* The range of some files: its ends are ends of files, and it spans them.  *)
LEMMA RangeOf ==
  ASSUME NEW fs, Good(fs), fs # {}
  PROVE  LET r == GetRange(fs)
             M == MergedEntries(fs)
         IN  /\ r[1] \in Int /\ r[2] \in Int
             /\ \A f \in fs : r[1] <= f.smallest.k /\ f.largest.k <= r[2]
             /\ \E f \in fs : f.smallest.k = r[1]
             /\ \E f \in fs : f.largest.k = r[2] /\ Last(M) \in f.entries
             /\ Last(M) \in Entry /\ Last(M) \in M /\ Last(M).k = r[2]
             /\ IsLast(Last(M), M)
<1> DEFINE M == MergedEntries(fs)
           r == GetRange(fs)
<1>1. M # {} /\ Distinct(M) /\ M \subseteq Entry
  <2>1. PICK f \in fs : TRUE
    OBVIOUS
  <2>2. f.smallest \in M
    BY EntriesWithin, FileKeys DEF Good
  <2> QED BY <2>2 DEF Good, Distinct
<1>2. IsFirst(First(M), M) /\ IsLast(Last(M), M)
  BY <1>1, EndsExist
<1>3. /\ First(M) \in M /\ Last(M) \in M
      /\ \A e \in M : e = First(M) \/ Before(First(M), e)
      /\ \A e \in M : e = Last(M) \/ Before(e, Last(M))
  BY <1>2 DEF IsFirst, IsLast
<1>4. r[1] = First(M).k /\ r[2] = Last(M).k
  BY DEF GetRange
<1>5. First(M) \in Entry /\ Last(M) \in Entry
  BY <1>1, <1>3
<1>6. r[1] \in Int /\ r[2] \in Int
  BY <1>4, <1>5, EntryType
<1>7. \A e \in M : First(M).k <= e.k /\ e.k <= Last(M).k
  <2> TAKE e \in M
  <2>1. e \in Entry
    BY <1>1
  <2>2. First(M).k <= e.k
    <3>1. CASE e = First(M)
      BY <3>1, <1>5, EntryType
    <3>2. CASE Before(First(M), e)
      BY <3>2, <1>5, <2>1, BeforeOrder
    <3> QED BY <1>3, <3>1, <3>2
  <2>3. e.k <= Last(M).k
    <3>1. CASE e = Last(M)
      BY <3>1, <1>5, EntryType
    <3>2. CASE Before(e, Last(M))
      BY <3>2, <1>5, <2>1, BeforeOrder
    <3> QED BY <1>3, <3>1, <3>2
  <2> QED BY <2>2, <2>3
<1> HIDE DEF r
<1>8. ASSUME NEW f \in fs
      PROVE  /\ FileOK(f) /\ f.smallest \in M /\ f.largest \in M
             /\ r[1] <= f.smallest.k /\ f.largest.k <= r[2]
  <2>1. FileOK(f)
    BY DEF Good
  <2>2. f.smallest \in M /\ f.largest \in M
    BY <2>1, EntriesWithin, FileKeys
  <2> QED BY <1>4, <1>7, <2>1, <2>2
<1>9. \E f \in fs : f.smallest.k = r[1]
  <2>1. PICK f \in fs : First(M) \in f.entries
    BY <1>3, EntriesOf
  <2>2. f.smallest.k <= First(M).k /\ f.smallest.k \in Int
    BY <1>8, <2>1, FileKeys
  <2> QED BY <1>4, <1>6, <1>8, <2>2
<1>10. \E f \in fs : f.largest.k = r[2] /\ Last(M) \in f.entries
  <2>1. PICK f \in fs : Last(M) \in f.entries
    BY <1>3, EntriesOf
  <2>2. Last(M).k <= f.largest.k /\ f.largest.k \in Int
    BY <1>8, <2>1, FileKeys
  <2> QED BY <1>4, <1>6, <1>8, <2>1, <2>2
<1> QED BY <1>2, <1>3, <1>4, <1>5, <1>6, <1>8, <1>9, <1>10 DEF r

(* Files that meet the range of files on one side are on that side too.     *)
LEMMA SideGrows ==
  ASSUME NEW C, NEW D, Good(C), C # {}, \A f \in D : FileOK(f),
         NEW a \in Int, NEW b \in Int, a <= b, OneSide(C, a, b), Misses(D, a, b),
         \A f \in D : Overlaps(f, GetRange(C)[1], GetRange(C)[2])
  PROVE  OneSide(C \union D, a, b)
<1> DEFINE lo == GetRange(C)[1]
           hi == GetRange(C)[2]
<1>1. lo \in Int /\ hi \in Int
  BY RangeOf
<1>2. PICK p \in C : p.smallest.k = lo
  BY RangeOf
<1>3. PICK q \in C : q.largest.k = hi
  BY RangeOf
<1>4. \A f \in D : /\ f.smallest.k \in Int /\ f.largest.k \in Int
                   /\ f.smallest.k <= hi /\ lo <= f.largest.k
                   /\ b < f.smallest.k \/ f.largest.k < a
  <2> TAKE f \in D
  <2>1. f.smallest.k \in Int /\ f.largest.k \in Int
    BY FileKeys
  <2>2. f.smallest.k <= hi /\ lo <= f.largest.k
    BY DEF Overlaps
  <2>3. ~(f.smallest.k <= b /\ a <= f.largest.k)
    BY DEF Misses, Overlaps
  <2> QED BY <2>1, <2>2, <2>3
<1> HIDE DEF lo, hi
<1>5. CASE \A f \in C : b < f.smallest.k
  <2>1. b < lo
    BY <1>2, <1>5
  <2>2. ASSUME NEW f \in D PROVE b < f.smallest.k
    BY <1>1, <1>4, <2>1
  <2> QED BY <1>5, <2>2 DEF OneSide
<1>6. CASE \A f \in C : f.largest.k < a
  <2>1. hi < a
    BY <1>3, <1>6
  <2>2. ASSUME NEW f \in D PROVE f.largest.k < a
    BY <1>1, <1>4, <2>1
  <2> QED BY <1>6, <2>2 DEF OneSide
<1> QED BY <1>5, <1>6 DEF OneSide

-----------------------------------------------------------------------------
(* AddBoundaryInputs. *)

(* In a chain of growing sets each one lies between the first and the last. *)
LEMMA ChainGrows ==
  ASSUME NEW N \in Nat, NEW X, NEW g \in [0..N -> SUBSET X],
         \A n \in 1..N : g[n - 1] \subseteq g[n]
  PROVE  \A n \in 0..N : g[0] \subseteq g[n] /\ g[n] \subseteq g[N]
<1> DEFINE T == {n \in Nat : n <= N => g[0] \subseteq g[n]}
           U == {n \in Nat : n <= N => g[N - n] \subseteq g[N]}
<1>1. 0 \in T
  OBVIOUS
<1>2. ASSUME NEW n \in Nat, n \in T PROVE n + 1 \in T
  <2> SUFFICES ASSUME n + 1 <= N PROVE g[0] \subseteq g[n + 1]
    OBVIOUS
  <2>1. n + 1 \in 1..N /\ n + 1 - 1 = n /\ n <= N
    OBVIOUS
  <2>2. g[n] \subseteq g[n + 1]
    BY <2>1
  <2>3. g[0] \subseteq g[n]
    BY <1>2, <2>1
  <2> QED BY <2>2, <2>3
<1>3. 0 \in U
  OBVIOUS
<1>4. ASSUME NEW n \in Nat, n \in U PROVE n + 1 \in U
  <2> SUFFICES ASSUME n + 1 <= N PROVE g[N - (n + 1)] \subseteq g[N]
    OBVIOUS
  <2>1. N - n \in 1..N /\ N - n - 1 = N - (n + 1) /\ n <= N
    OBVIOUS
  <2>2. g[N - (n + 1)] \subseteq g[N - n]
    BY <2>1
  <2>3. g[N - n] \subseteq g[N]
    BY <1>4, <2>1
  <2> QED BY <2>2, <2>3
<1>5. Nat \subseteq T
  <2> HIDE DEF T
  <2> QED BY <1>1, <1>2, SetInduction
<1>6. Nat \subseteq U
  <2> HIDE DEF U
  <2> QED BY <1>3, <1>4, SetInduction
<1>7. ASSUME NEW n \in 0..N PROVE g[0] \subseteq g[n] /\ g[n] \subseteq g[N]
  <2>1. n \in Nat /\ N - n \in Nat /\ n <= N /\ N - n <= N /\ N - (N - n) = n
    OBVIOUS
  <2>2. n \in T /\ N - n \in U
    BY <1>5, <1>6, <2>1
  <2> QED BY <2>1, <2>2
<1> QED BY <1>7

(* When some file continues the user key of u, one of them is the smallest. *)
LEMMA BoundaryExists ==
  ASSUME NEW fs, Good(fs), NEW u, NEW f \in fs,
         Before(u, f.smallest), f.smallest.k = u.k
  PROVE  FindSmallestBoundaryFile(fs, u) # {}
<1> DEFINE B == {g \in fs : Before(u, g.smallest) /\ g.smallest.k = u.k}
           S == {g.smallest : g \in B}
<1>1. S # {}
  OBVIOUS
<1>2. S \subseteq MergedEntries(fs)
  <2>1. \A g \in fs : g.smallest \in g.entries
    BY FileKeys DEF Good
  <2> QED BY <2>1, EntriesWithin
<1>3. Distinct(S) /\ S \subseteq Entry
  BY <1>2, DistinctSubset DEF Good, Distinct
<1> HIDE DEF S
<1>4. IsFirst(First(S), S)
  BY <1>1, <1>3, EndsExist
<1>5. PICK h \in B : h.smallest = First(S)
  BY <1>4 DEF IsFirst, S
<1>6. ASSUME NEW g \in B PROVE ~Before(g.smallest, h.smallest)
  <2>1. g.smallest \in S /\ h.smallest \in S
    BY DEF S
  <2>2. g.smallest = h.smallest \/ Before(h.smallest, g.smallest)
    BY <1>4, <1>5, <2>1 DEF IsFirst
  <2>3. g.smallest \in Entry /\ h.smallest \in Entry
    BY <1>3, <2>1
  <2> QED BY <2>2, <2>3, BeforeOrder
<1> QED BY <1>5, <1>6 DEF FindSmallestBoundaryFile

(* The sets only grow.                                                      *)
Chain(g, fs, chosen) ==
  /\ Grown(g, fs, chosen)
  /\ \A n \in 0..Cardinality(fs) :
       chosen \subseteq g[n] /\ g[n] \subseteq g[Cardinality(fs)]

(* Each round of AddBoundaryInputs adds one boundary file or none.          *)
LEMMA BoundaryChain ==
  ASSUME NEW fs, IsFiniteSet(fs), NEW chosen, chosen \subseteq fs, chosen # {}
  PROVE  \E g : Chain(g, fs, chosen)
<1> DEFINE N == Cardinality(fs)
<1>1. PICK g : Grown(g, fs, chosen)
  BY BoundarySteps
<1>2. N \in Nat
  BY FS_CardinalityType
<1>3. /\ g \in [0..N -> SUBSET fs] /\ g[0] = chosen
      /\ \A n \in 1..N : g[n - 1] \subseteq g[n]
  BY <1>1 DEF Grown
<1> HIDE DEF N
<1>4. \A n \in 0..N : g[0] \subseteq g[n] /\ g[n] \subseteq g[N]
  BY <1>2, <1>3, ChainGrows
<1> QED BY <1>1, <1>3, <1>4 DEF Chain, N

(* AddBoundaryInputs leaves no file behind that continues the last key.     *)
LEMMA BoundaryClosed ==
  ASSUME NEW fs, Good(fs), NEW chosen, chosen \subseteq fs, chosen # {}
  PROVE  LET c == AddBoundaryInputs(fs, chosen)
             u == Last(MergedEntries(c))
         IN  /\ chosen \subseteq c /\ c \subseteq fs
             /\ \A f \in fs : ~(Before(u, f.smallest) /\ f.smallest.k = u.k)
<1> DEFINE N == Cardinality(fs)
           c == AddBoundaryInputs(fs, chosen)
           u == Last(MergedEntries(c))
           add(d) == FindSmallestBoundaryFile(fs, Last(MergedEntries(d)))
<1>0. IsFiniteSet(fs) /\ N \in Nat
  BY FS_CardinalityType DEF Good
<1>1. PICK g : Chain(g, fs, chosen)
  BY <1>0, BoundaryChain
<1>2. /\ g \in [0..N -> SUBSET fs] /\ c = g[N] /\ g[0] = chosen
      /\ chosen \subseteq g[N]
      /\ \A n \in 1..N : g[n] = g[n - 1] \union add(g[n - 1])
  BY <1>0, <1>1 DEF Chain, Grown
<1>3. N > 0 /\ g[N] = g[N - 1]
  <2> HIDE DEF add
  <2>1. \A n \in 1..N : g[n - 1] \subseteq g[n]
    BY <1>2
  <2>2. ASSUME NEW n \in 1..N, n > 1, g[n - 1] = g[n - 2]
        PROVE  g[n] = g[n - 1]
    <3>1. n - 1 \in 1..N /\ n - 1 - 1 = n - 2
      BY <1>0, <2>2
    <3>2. g[n - 1] = g[n - 2] \union add(g[n - 2])
      BY <1>2, <3>1
    <3>3. g[n] = g[n - 1] \union add(g[n - 1])
      BY <1>2
    <3> QED BY <2>2, <3>2, <3>3
  <2> QED BY <1>0, <1>2, <2>1, <2>2, GrowthStops
<1>4. add(c) \subseteq c
  <2> HIDE DEF add, c
  <2>1. N \in 1..N
    BY <1>0, <1>3
  <2>2. g[N] = g[N - 1] \union add(g[N - 1])
    BY <1>2, <2>1
  <2> QED BY <1>2, <1>3, <2>2
<1>5. c \subseteq fs /\ chosen \subseteq c /\ c # {}
  BY <1>0, <1>2
<1>6. Good(c)
  BY <1>5, GoodSubset
<1> HIDE DEF c
<1>7. u \in Entry /\ IsLast(u, MergedEntries(c))
  BY <1>5, <1>6, RangeOf
<1>8. add(c) = {}
  <2> SUFFICES ASSUME NEW f \in add(c) PROVE FALSE
    OBVIOUS
  <2>1. f \in c /\ Before(u, f.smallest)
    BY <1>4 DEF FindSmallestBoundaryFile
  <2>2. f.smallest \in MergedEntries(c) /\ f.smallest \in Entry
    BY <1>6, <2>1, EntriesWithin, FileKeys DEF Good
  <2>3. f.smallest = u \/ Before(f.smallest, u)
    BY <1>7, <2>2 DEF IsLast
  <2> QED BY <1>7, <2>1, <2>2, <2>3, BeforeOrder
<1>9. ASSUME NEW f \in fs, Before(u, f.smallest), f.smallest.k = u.k
      PROVE  FALSE
  <2> HIDE DEF u
  <2>1. FindSmallestBoundaryFile(fs, u) # {}
    BY <1>9, BoundaryExists
  <2> QED BY <1>8, <2>1 DEF u
<1> QED BY <1>5, <1>9 DEF c

(* The files added by AddBoundaryInputs are on the side of the others.      *)
LEMMA BoundarySide ==
  ASSUME NEW fs, Good(fs), NEW chosen, chosen \subseteq fs, chosen # {},
         NEW a \in Int, NEW b \in Int, a <= b, OneSide(chosen, a, b),
         Misses(AddBoundaryInputs(fs, chosen), a, b)
  PROVE  OneSide(AddBoundaryInputs(fs, chosen), a, b)
<1> DEFINE N == Cardinality(fs)
           add(d) == FindSmallestBoundaryFile(fs, Last(MergedEntries(d)))
<1>0. IsFiniteSet(fs) /\ N \in Nat
  BY FS_CardinalityType DEF Good
<1>1. PICK g : Chain(g, fs, chosen)
  BY <1>0, BoundaryChain
<1>2. /\ g \in [0..N -> SUBSET fs] /\ g[0] = chosen
      /\ AddBoundaryInputs(fs, chosen) = g[N]
      /\ \A n \in 0..N : chosen \subseteq g[n] /\ g[n] \subseteq g[N]
      /\ \A n \in 1..N : g[n] = g[n - 1] \union add(g[n - 1])
  BY <1>1 DEF Chain, Grown
<1> DEFINE T == {n \in Nat : n <= N => OneSide(g[n], a, b)}
<1>3. 0 \in T
  BY <1>2
<1>4. ASSUME NEW n \in Nat, n \in T PROVE n + 1 \in T
  <2> HIDE DEF add, N
  <2> SUFFICES ASSUME n + 1 <= N PROVE OneSide(g[n + 1], a, b)
    OBVIOUS
  <2>1. n \in 0..N /\ n + 1 \in 0..N /\ n + 1 \in 1..N /\ n + 1 - 1 = n /\ n <= N
    BY <1>0
  <2>2. g[n + 1] = g[n] \union add(g[n])
    BY <1>2, <2>1
  <2>3. OneSide(g[n], a, b)
    BY <1>4, <2>1
  <2>4. g[n] \subseteq fs /\ g[n] # {} /\ add(g[n]) \subseteq g[N]
        /\ add(g[n]) \subseteq fs
    BY <1>2, <2>1, <2>2
  <2>5. Good(g[n]) /\ \A f \in add(g[n]) : FileOK(f)
    BY <2>4, GoodSubset DEF Good
  <2>6. Misses(add(g[n]), a, b)
    BY <1>2, <2>4 DEF Misses
  <2>7. ASSUME NEW f \in add(g[n])
        PROVE  Overlaps(f, GetRange(g[n])[1], GetRange(g[n])[2])
    <3>1. f.smallest.k = Last(MergedEntries(g[n])).k
      BY DEF add, FindSmallestBoundaryFile
    <3>2. f.smallest.k = GetRange(g[n])[2]
      BY <2>4, <2>5, <3>1, RangeOf
    <3>3. /\ GetRange(g[n])[1] \in Int /\ GetRange(g[n])[2] \in Int
          /\ \E h \in g[n] : h.smallest.k = GetRange(g[n])[1]
          /\ \A h \in g[n] : /\ GetRange(g[n])[1] <= h.smallest.k
                             /\ h.largest.k <= GetRange(g[n])[2]
      BY <2>4, <2>5, RangeOf
    <3>4. PICK h \in g[n] : h.smallest.k = GetRange(g[n])[1]
      BY <3>3
    <3>5. /\ h.smallest.k <= h.largest.k /\ h.smallest.k \in Int
          /\ h.largest.k \in Int
      BY <2>5, FileKeys DEF Good
    <3>6. f.smallest.k <= f.largest.k /\ f.smallest.k \in Int
          /\ f.largest.k \in Int
      BY <2>5, FileKeys
    <3>7. h.largest.k <= GetRange(g[n])[2]
      BY <3>3
    <3> QED BY ONLY <3>2, <3>3, <3>4, <3>5, <3>6, <3>7 DEF Overlaps
  <2>8. OneSide(g[n] \union add(g[n]), a, b)
    <3> HIDE DEF T
    <3> QED BY <2>3, <2>4, <2>5, <2>6, <2>7, SideGrows
  <2> QED BY <2>2, <2>8
<1>5. N \in T
  <2> HIDE DEF T
  <2> QED BY <1>0, <1>3, <1>4, SetInduction
<1> QED BY <1>0, <1>2, <1>5

(* No file of fs that is not in c is among the files of c.                  *)
ConvexIn(fs, c) == \A g \in fs \ c : Apart(g.entries, MergedEntries(c))

(* The inputs stay consecutive files of a sorted level.                     *)
LEMMA BoundaryConvex ==
  ASSUME NEW fs, Good(fs), NEW chosen, chosen \subseteq fs, chosen # {},
         \A f, g \in fs : f # g => Apart(f.entries, g.entries),
         ConvexIn(fs, chosen)
  PROVE  ConvexIn(fs, AddBoundaryInputs(fs, chosen))
<1> DEFINE N == Cardinality(fs)
           add(d) == FindSmallestBoundaryFile(fs, Last(MergedEntries(d)))
<1>0. IsFiniteSet(fs) /\ N \in Nat
  BY FS_CardinalityType DEF Good
<1>1. PICK g : Chain(g, fs, chosen)
  BY <1>0, BoundaryChain
<1>2. /\ g \in [0..N -> SUBSET fs] /\ g[0] = chosen
      /\ AddBoundaryInputs(fs, chosen) = g[N]
      /\ \A n \in 0..N : chosen \subseteq g[n]
      /\ \A n \in 1..N : g[n] = g[n - 1] \union add(g[n - 1])
  BY <1>1 DEF Chain, Grown
<1>3. ASSUME NEW c, c \subseteq fs, c # {}, ConvexIn(fs, c)
      PROVE  ConvexIn(fs, c \union add(c))
  <2> DEFINE u == Last(MergedEntries(c))
  <2>1. Good(c)
    BY <1>3, GoodSubset
  <2>2. /\ u \in Entry /\ u \in MergedEntries(c)
        /\ IsLast(u, MergedEntries(c))
    BY <1>3, <2>1, RangeOf
  <2> HIDE DEF u
  <2> SUFFICES ASSUME NEW x \in fs, x \notin c, x \notin add(c)
               PROVE  Apart(x.entries, MergedEntries(c \union add(c)))
    BY DEF ConvexIn
  <2>3. \A f \in add(c) :
          /\ f \in fs /\ Before(u, f.smallest) /\ f.smallest.k = u.k
          /\ Before(u, x.smallest) /\ x.smallest.k = u.k
               => ~Before(x.smallest, f.smallest)
    BY DEF FindSmallestBoundaryFile, u
  <2>4. FileOK(x) /\ \A f \in add(c) : FileOK(f) /\ Apart(f.entries, x.entries)
    BY <2>3 DEF Good
  <2>5. CASE Ahead(x.entries, MergedEntries(c))
    <3>1. ASSUME NEW f \in add(c) PROVE Ahead(x.entries, f.entries)
      <4> SUFFICES ASSUME Ahead(f.entries, x.entries) PROVE FALSE
        BY <2>4 DEF Apart
      <4>1. /\ f.smallest \in f.entries /\ x.smallest \in x.entries
            /\ f.smallest \in Entry /\ x.smallest \in Entry
        BY <2>4, FileKeys
      <4>2. Before(f.smallest, x.smallest) /\ Before(x.smallest, u)
        BY <2>2, <2>5, <4>1 DEF Ahead
      <4>3. Before(u, f.smallest)
        BY <2>3
      <4> QED BY <2>2, <4>1, <4>2, <4>3, BeforeOrder
    <3>2. Ahead(x.entries, MergedEntries(c \union add(c)))
      <4> HIDE DEF add
      <4> QED BY <2>5, <3>1, EntriesOf DEF Ahead, MergedEntries
    <3> QED BY <3>2 DEF Apart
  <2>6. CASE Ahead(MergedEntries(c), x.entries)
    <3>1. ASSUME NEW f \in add(c) PROVE Ahead(f.entries, x.entries)
      <4> SUFFICES ASSUME Ahead(x.entries, f.entries) PROVE FALSE
        BY <2>4 DEF Apart
      <4>1. /\ f.smallest \in f.entries /\ x.smallest \in x.entries
            /\ f.smallest \in Entry /\ x.smallest \in Entry
        BY <2>4, FileKeys
      <4>2. Before(x.smallest, f.smallest) /\ Before(u, x.smallest)
        BY <2>2, <2>6, <4>1 DEF Ahead
      <4>3. u.k <= x.smallest.k /\ x.smallest.k <= f.smallest.k
        BY <2>2, <4>1, <4>2, BeforeOrder
      <4>4. x.smallest.k = u.k
        <5>1. u.k \in Int /\ x.smallest.k \in Int /\ f.smallest.k = u.k
          BY <2>2, <2>3, <4>1, EntryType
        <5> QED BY <4>3, <5>1
      <4> QED BY <2>3, <4>2, <4>4
    <3>2. Ahead(MergedEntries(c \union add(c)), x.entries)
      <4> HIDE DEF add
      <4> QED BY <2>6, <3>1, EntriesOf DEF Ahead, MergedEntries
    <3> QED BY <3>2 DEF Apart
  <2> QED BY <1>3, <2>5, <2>6 DEF ConvexIn, Apart
<1> DEFINE T == {n \in Nat : n <= N => ConvexIn(fs, g[n])}
<1>4. 0 \in T
  BY <1>2
<1>5. ASSUME NEW n \in Nat, n \in T PROVE n + 1 \in T
  <2> HIDE DEF add, N
  <2> SUFFICES ASSUME n + 1 <= N PROVE ConvexIn(fs, g[n + 1])
    OBVIOUS
  <2>1. n \in 0..N /\ n + 1 \in 1..N /\ n + 1 - 1 = n /\ n <= N
    BY <1>0
  <2>2. g[n + 1] = g[n] \union add(g[n])
    BY <1>2, <2>1
  <2>3. g[n] \subseteq fs /\ g[n] # {}
    BY <1>2, <2>1
  <2>4. ConvexIn(fs, g[n])
    BY <1>5, <2>1
  <2> QED BY <1>3, <2>2, <2>3, <2>4
<1>6. N \in T
  <2> HIDE DEF T
  <2> QED BY <1>0, <1>4, <1>5, SetInduction
<1> QED BY <1>0, <1>2, <1>6

-----------------------------------------------------------------------------
(* GetOverlappingInputs. *)

(* Below level 0, and when nothing is found, the range is searched once.    *)
LEMMA OverlapBelow ==
  ASSUME NEW l \in Levels, IsFiniteSet(version[l]), NEW lo, NEW hi,
         l > 0 \/ {f \in version[l] : Overlaps(f, lo, hi)} = {}
  PROVE  GetOverlappingInputs(l, lo, hi) =
           {f \in version[l] : Overlaps(f, lo, hi)}
<1> DEFINE N == Cardinality(version[l])
           hit(r) == {f \in version[l] : Overlaps(f, r[1], r[2])}
           wider(r) == LET g == GetRange(hit(r))
                       IN  <<IF g[1] < r[1] THEN g[1] ELSE r[1],
                             IF g[2] > r[2] THEN g[2] ELSE r[2]>>
           range[n \in 0..N] ==
             IF n = 0 \/ l > 0 \/ hit(<<lo, hi>>) = {} THEN <<lo, hi>>
             ELSE wider(range[n - 1])
<1>1. GetOverlappingInputs(l, lo, hi) = hit(range[N])
  BY DEF GetOverlappingInputs
<1>2. N \in Nat
  BY FS_CardinalityType
<1> HIDE DEF wider, N
<1>3. \E g : g = [n \in 0..N |->
                    IF n = 0 \/ l > 0 \/ hit(<<lo, hi>>) = {} THEN <<lo, hi>>
                    ELSE wider(g[n - 1])]
  <2> DEFINE g == [n \in 0..N |-> <<lo, hi>>]
  <2>1. g = [n \in 0..N |->
               IF n = 0 \/ l > 0 \/ hit(<<lo, hi>>) = {} THEN <<lo, hi>>
               ELSE wider(g[n - 1])]
    OBVIOUS
  <2> QED BY <2>1
<1>4. range = [n \in 0..N |->
                 IF n = 0 \/ l > 0 \/ hit(<<lo, hi>>) = {} THEN <<lo, hi>>
                 ELSE wider(range[n - 1])]
  BY <1>3
<1> HIDE DEF range
<1>5. range[N] = <<lo, hi>>
  BY <1>2, <1>4
<1> QED BY <1>1, <1>5

Hit(V, r) == {f \in V : Overlaps(f, r[1], r[2])}
Wider(V, r) ==
  LET g == GetRange(Hit(V, r))
  IN  <<IF g[1] < r[1] THEN g[1] ELSE r[1], IF g[2] > r[2] THEN g[2] ELSE r[2]>>

(* A wider range spans the range and the files it met.                      *)
LEMMA WiderSpans ==
  ASSUME NEW V, Good(V), NEW r \in Int \X Int, Hit(V, r) # {}
  PROVE  LET w == Wider(V, r)
             g == GetRange(Hit(V, r))
         IN  /\ w \in Int \X Int /\ g[1] \in Int /\ g[2] \in Int
             /\ w[1] <= r[1] /\ r[2] <= w[2] /\ w[1] <= g[1] /\ g[2] <= w[2]
             /\ w[1] = r[1] \/ w[1] = g[1]
             /\ w[2] = r[2] \/ w[2] = g[2]
             /\ r[1] <= g[1] /\ g[2] <= r[2] => w = r
             /\ Hit(V, r) \subseteq Hit(V, w)
<1> DEFINE g == GetRange(Hit(V, r))
           w == Wider(V, r)
<1>1. Good(Hit(V, r))
  BY GoodSubset DEF Hit
<1>2. g[1] \in Int /\ g[2] \in Int
  BY <1>1, RangeOf
<1>3. r[1] \in Int /\ r[2] \in Int /\ r = <<r[1], r[2]>>
  OBVIOUS
<1>4. w = <<IF g[1] < r[1] THEN g[1] ELSE r[1],
            IF g[2] > r[2] THEN g[2] ELSE r[2]>>
  BY DEF Wider
<1> HIDE DEF g, w
<1>5. /\ w \in Int \X Int
      /\ w[1] <= r[1] /\ r[2] <= w[2] /\ w[1] <= g[1] /\ g[2] <= w[2]
      /\ w[1] = r[1] \/ w[1] = g[1]
      /\ w[2] = r[2] \/ w[2] = g[2]
      /\ r[1] <= g[1] /\ g[2] <= r[2] => w = r
  BY <1>2, <1>3, <1>4
<1>6. ASSUME NEW f \in Hit(V, r) PROVE f \in Hit(V, w)
  <2>1. f \in V /\ f.smallest.k <= r[2] /\ r[1] <= f.largest.k
    BY DEF Hit, Overlaps
  <2>2. f.smallest.k \in Int /\ f.largest.k \in Int
    BY <2>1, FileKeys DEF Good
  <2>3. w[1] \in Int /\ w[2] \in Int
    BY <1>5
  <2>4. f.smallest.k <= w[2] /\ w[1] <= f.largest.k
    BY <1>3, <1>5, <2>1, <2>2, <2>3
  <2> QED BY <2>1, <2>4 DEF Hit, Overlaps
<1> QED BY <1>2, <1>5, <1>6 DEF g, w

(* A file that only the wider range meets is met by the range of the files  *)
(* that were met before.                                                    *)
LEMMA WiderLinks ==
  ASSUME NEW V, Good(V), NEW r \in Int \X Int, Hit(V, r) # {},
         NEW f \in Hit(V, Wider(V, r))
  PROVE  \/ f \in Hit(V, r)
         \/ Overlaps(f, GetRange(Hit(V, r))[1], GetRange(Hit(V, r))[2])
<1> DEFINE w == Wider(V, r)
           g == GetRange(Hit(V, r))
<1>1. f \in V /\ f.smallest.k <= w[2] /\ w[1] <= f.largest.k
  BY DEF Hit, Overlaps
<1>2. /\ f.smallest.k \in Int /\ f.largest.k \in Int
      /\ f.smallest.k <= f.largest.k
  BY <1>1, FileKeys DEF Good
<1>3. /\ w[1] \in Int /\ w[2] \in Int /\ g[1] \in Int /\ g[2] \in Int
      /\ r[1] \in Int /\ r[2] \in Int
      /\ w[1] = r[1] \/ w[1] = g[1]
      /\ w[2] = r[2] \/ w[2] = g[2]
  <2>1. w \in Int \X Int
    BY WiderSpans
  <2> QED BY <2>1, WiderSpans
<1>4. PICK e \in Hit(V, r) : TRUE
  OBVIOUS
<1>5. Good(Hit(V, r))
  BY GoodSubset DEF Hit
<1>6. /\ e.smallest.k \in Int /\ e.largest.k \in Int
      /\ e.smallest.k <= r[2] /\ r[1] <= e.largest.k
      /\ g[1] <= e.smallest.k /\ e.largest.k <= g[2]
  <2>1. e.smallest.k <= r[2] /\ r[1] <= e.largest.k
    BY DEF Hit, Overlaps
  <2>2. g[1] <= e.smallest.k /\ e.largest.k <= g[2]
    BY <1>5, RangeOf
  <2> QED BY <1>5, <2>1, <2>2, FileKeys DEF Good
<1> HIDE DEF w, g
<1>7. \/ f.smallest.k <= r[2] /\ r[1] <= f.largest.k
      \/ f.smallest.k <= g[2] /\ g[1] <= f.largest.k
  BY <1>1, <1>2, <1>3, <1>6
<1> QED BY <1>1, <1>7 DEF Hit, Overlaps, g

(* The ranges GetOverlappingInputs goes through at level 0.                 *)
Widened(g, V, lo, hi) ==
  /\ g \in [0..Cardinality(V) -> Int \X Int]
  /\ g[0] = <<lo, hi>>
  /\ \A n \in 0..Cardinality(V) : Hit(V, g[n]) # {}
  /\ \A n \in 1..Cardinality(V) : g[n] = Wider(V, g[n - 1])
  /\ GetOverlappingInputs(0, lo, hi) = Hit(V, g[Cardinality(V)])

(* Each round of GetOverlappingInputs at level 0 widens the range by the    *)
(* files it hits.                                                           *)
LEMMA OverlapSteps ==
  ASSUME Good(version[0]), NEW lo \in Int, NEW hi \in Int,
         Hit(version[0], <<lo, hi>>) # {}
  PROVE  \E g : Widened(g, version[0], lo, hi)
<1> DEFINE V == version[0]
           N == Cardinality(V)
           S == {r \in Int \X Int : Hit(V, r) # {}}
           F == [r \in S |-> Wider(V, r)]
           hit(r) == {f \in version[0] : Overlaps(f, r[1], r[2])}
           wider(r) == LET g == GetRange(hit(r))
                       IN  <<IF g[1] < r[1] THEN g[1] ELSE r[1],
                             IF g[2] > r[2] THEN g[2] ELSE r[2]>>
           range[n \in 0..N] ==
             IF n = 0 \/ 0 > 0 \/ hit(<<lo, hi>>) = {} THEN <<lo, hi>>
             ELSE wider(range[n - 1])
<1>1. GetOverlappingInputs(0, lo, hi) = hit(range[N])
  BY DEF GetOverlappingInputs
<1>2. N \in Nat
  BY FS_CardinalityType DEF Good
<1>3. \A r : hit(r) = Hit(V, r) /\ wider(r) = Wider(V, r)
  BY DEF Hit, Wider
<1>4. F \in [S -> S] /\ <<lo, hi>> \in S
  <2>1. \A r \in S : Wider(V, r) \in S
    <3> TAKE r \in S
    <3>1. /\ Wider(V, r) \in Int \X Int
          /\ Hit(V, r) \subseteq Hit(V, Wider(V, r))
      BY WiderSpans
    <3> QED BY <3>1
  <2> QED BY <2>1
<1>5. \A r \in S : F[r] = Wider(V, r) /\ r \in Int \X Int /\ Hit(V, r) # {}
  OBVIOUS
<1> HIDE DEF F, N, V, S
<1>6. PICK g : Iterates(g, N, S, F, <<lo, hi>>)
  BY <1>2, <1>4, IterationExists
<1>7. /\ g \in [0..N -> S] /\ g[0] = <<lo, hi>>
      /\ \A n \in 1..N : g[n] = Wider(V, g[n - 1])
  <2>1. /\ g \in [0..N -> S] /\ g[0] = <<lo, hi>>
        /\ \A n \in 1..N : g[n] = F[g[n - 1]]
    BY <1>6 DEF Iterates
  <2>2. \A n \in 1..N : n - 1 \in 0..N
    BY <1>2
  <2> QED BY <1>5, <2>1, <2>2
<1> HIDE DEF hit, wider
<1>8. ~(0 > 0) /\ hit(<<lo, hi>>) # {}
  BY <1>3 DEF V
<1>9. g = [n \in 0..N |->
             IF n = 0 \/ 0 > 0 \/ hit(<<lo, hi>>) = {} THEN <<lo, hi>>
             ELSE wider(g[n - 1])]
  <2>1. \A n \in 0..N : n # 0 => n \in 1..N
    BY <1>2
  <2> QED BY <1>3, <1>7, <1>8, <2>1
<1>10. range = [n \in 0..N |->
                  IF n = 0 \/ 0 > 0 \/ hit(<<lo, hi>>) = {} THEN <<lo, hi>>
                  ELSE wider(range[n - 1])]
  BY <1>9
<1> HIDE DEF range
<1>11. range[0] = <<lo, hi>> /\ \A n \in 1..N : range[n] = Wider(V, range[n - 1])
  <2>1. 0 \in 0..N /\ \A n \in 1..N : n \in 0..N /\ n # 0
    BY <1>2
  <2> QED BY <1>3, <1>8, <1>10, <2>1
<1>12. range[N] = g[N]
  <2> DEFINE T == {n \in Nat : n <= N => range[n] = g[n]}
  <2>1. 0 \in T
    BY <1>7, <1>11
  <2>2. ASSUME NEW n \in Nat, n \in T PROVE n + 1 \in T
    <3> SUFFICES ASSUME n + 1 <= N PROVE range[n + 1] = g[n + 1]
      OBVIOUS
    <3>1. n + 1 \in 1..N /\ n + 1 - 1 = n /\ n <= N
      BY <1>2
    <3>2. range[n] = g[n]
      BY <2>2, <3>1
    <3> QED BY <1>7, <1>11, <3>1, <3>2
  <2>3. N \in T
    <3> HIDE DEF T
    <3> QED BY <1>2, <2>1, <2>2, SetInduction
  <2> QED BY <1>2, <2>3
<1>13. GetOverlappingInputs(0, lo, hi) = Hit(V, g[N])
  BY <1>1, <1>3, <1>12
<1>14. g \in [0..N -> Int \X Int] /\ \A n \in 0..N : Hit(V, g[n]) # {}
  BY <1>5, <1>7
<1> QED BY <1>7, <1>13, <1>14 DEF Widened, N, V

(* At level 0 a file that meets a chosen file is chosen.                    *)
LEMMA OverlapClosed ==
  ASSUME Good(version[0]), NEW lo \in Int, NEW hi \in Int,
         Hit(version[0], <<lo, hi>>) # {}
  PROVE  LET V == version[0]
             C == GetOverlappingInputs(0, lo, hi)
         IN  /\ Hit(V, <<lo, hi>>) \subseteq C /\ C \subseteq V
             /\ \A f \in C, x \in V :
                  Overlaps(x, f.smallest.k, f.largest.k) => x \in C
<1> DEFINE V == version[0]
           N == Cardinality(V)
           C == GetOverlappingInputs(0, lo, hi)
<1>0. Good(V) /\ IsFiniteSet(V) /\ N \in Nat
  BY FS_CardinalityType DEF Good
<1>1. PICK g : Widened(g, V, lo, hi)
  BY OverlapSteps
<1> HIDE DEF V, C
<1>2. /\ g \in [0..N -> Int \X Int]
      /\ g[0] = <<lo, hi>>
      /\ \A n \in 0..N : Hit(V, g[n]) # {}
      /\ \A n \in 1..N : g[n] = Wider(V, g[n - 1])
      /\ C = Hit(V, g[N])
  BY <1>1 DEF Widened, C
<1> DEFINE h == [n \in 0..N |-> Hit(V, g[n])]
<1> HIDE DEF N
<1>3. h \in [0..N -> SUBSET V] /\ \A n \in 0..N : h[n] = Hit(V, g[n])
  BY DEF Hit
<1> HIDE DEF h
<1>4. ASSUME NEW n \in 1..N
      PROVE  /\ n - 1 \in 0..N /\ n \in 0..N
             /\ g[n] = Wider(V, g[n - 1]) /\ g[n - 1] \in Int \X Int
             /\ Hit(V, g[n - 1]) # {}
  BY <1>0, <1>2
<1>5. \A n \in 1..N : h[n - 1] \subseteq h[n]
  <2> TAKE n \in 1..N
  <2>1. Hit(V, g[n - 1]) \subseteq Hit(V, Wider(V, g[n - 1]))
    BY <1>0, <1>4, WiderSpans
  <2> QED BY <1>3, <1>4, <2>1
<1>6. ASSUME NEW n \in 1..N, n > 1, h[n - 1] = h[n - 2]
      PROVE  h[n] = h[n - 1]
  <2>1. n - 1 \in 1..N /\ n - 1 - 1 = n - 2 /\ n - 2 \in 0..N
    BY <1>0, <1>6
  <2>2. g[n - 1] = Wider(V, g[n - 2]) /\ g[n - 2] \in Int \X Int
        /\ Hit(V, g[n - 2]) # {}
    BY <1>4, <2>1
  <2>3. Hit(V, g[n - 1]) = Hit(V, g[n - 2])
    BY <1>3, <1>4, <1>6, <2>1
  <2> DEFINE r == g[n - 1]
             p == GetRange(Hit(V, g[n - 2]))
  <2>4. r[1] <= p[1] /\ p[2] <= r[2]
    BY <1>0, <2>2, WiderSpans
  <2>5. r \in Int \X Int /\ Hit(V, r) # {} /\ p = GetRange(Hit(V, r))
    BY <1>4, <2>3
  <2> HIDE DEF r, p
  <2>6. Wider(V, r) = r
    BY <1>0, <2>4, <2>5, WiderSpans
  <2>7. g[n] = g[n - 1]
    BY <1>4, <2>6 DEF r
  <2> QED BY <1>3, <1>4, <2>7
<1>7. h[0] # {}
  BY <1>0, <1>2, <1>3
<1>8. N > 0 /\ h[N] = h[N - 1]
  BY <1>0, <1>3, <1>5, <1>6, <1>7, GrowthStops DEF N
<1>9. Hit(V, <<lo, hi>>) \subseteq C
  <2>1. \A n \in 0..N : h[0] \subseteq h[n] /\ h[n] \subseteq h[N]
    BY <1>0, <1>3, <1>5, ChainGrows
  <2>2. 0 \in 0..N /\ N \in 0..N
    BY <1>0
  <2> QED BY <1>2, <1>3, <2>1, <2>2
<1>10. ASSUME NEW f \in C, NEW x \in V,
              Overlaps(x, f.smallest.k, f.largest.k)
       PROVE  x \in C
  <2> DEFINE r == g[N]
             p == GetRange(Hit(V, g[N - 1]))
  <2>1. N \in 1..N /\ N - 1 \in 0..N /\ N \in 0..N
    BY <1>0, <1>8
  <2>2. g[N] = Wider(V, g[N - 1]) /\ g[N - 1] \in Int \X Int
        /\ Hit(V, g[N - 1]) # {}
    BY <1>4, <2>1
  <2>3. r \in Int \X Int /\ p[1] \in Int /\ p[2] \in Int
        /\ r[1] <= p[1] /\ p[2] <= r[2]
    BY <1>0, <2>2, WiderSpans
  <2>4. f \in Hit(V, g[N - 1]) /\ f \in V
    BY <1>2, <1>3, <1>8, <2>1 DEF Hit
  <2>5. Good(Hit(V, g[N - 1]))
    BY <1>0, GoodSubset DEF Hit
  <2>6. p[1] <= f.smallest.k /\ f.largest.k <= p[2]
    BY <2>2, <2>4, <2>5, RangeOf
  <2>7. /\ f.smallest.k \in Int /\ f.largest.k \in Int
        /\ x.smallest.k \in Int /\ x.largest.k \in Int
    BY <1>0, <2>4, FileKeys DEF Good
  <2>8. x.smallest.k <= f.largest.k /\ f.smallest.k <= x.largest.k
    BY <1>10 DEF Overlaps
  <2> HIDE DEF p, r
  <2>9. r[1] \in Int /\ r[2] \in Int
    BY <2>3
  <2>10. x.smallest.k <= r[2] /\ r[1] <= x.largest.k
    BY <2>3, <2>6, <2>7, <2>8, <2>9
  <2> QED BY <1>2, <2>10 DEF Hit, Overlaps, r
<1>11. C \subseteq V
  BY <1>2 DEF Hit
<1> QED BY <1>9, <1>10, <1>11 DEF V, C

(* The files that are added lie on the side of those that were met first.   *)
LEMMA OverlapSide ==
  ASSUME Good(version[0]), NEW lo \in Int, NEW hi \in Int,
         Hit(version[0], <<lo, hi>>) # {},
         NEW a \in Int, NEW b \in Int, a <= b,
         OneSide(Hit(version[0], <<lo, hi>>), a, b),
         Misses(GetOverlappingInputs(0, lo, hi), a, b)
  PROVE  OneSide(GetOverlappingInputs(0, lo, hi), a, b)
<1> DEFINE V == version[0]
           N == Cardinality(V)
           C == GetOverlappingInputs(0, lo, hi)
<1>0. Good(V) /\ IsFiniteSet(V) /\ N \in Nat
  BY FS_CardinalityType DEF Good
<1>1. PICK g : Widened(g, V, lo, hi)
  BY OverlapSteps
<1>2. OneSide(Hit(V, <<lo, hi>>), a, b) /\ Misses(C, a, b)
  OBVIOUS
<1> HIDE DEF V, C
<1>3. /\ g \in [0..N -> Int \X Int]
      /\ g[0] = <<lo, hi>>
      /\ \A n \in 0..N : Hit(V, g[n]) # {}
      /\ \A n \in 1..N : g[n] = Wider(V, g[n - 1])
      /\ C = Hit(V, g[N])
  BY <1>1 DEF Widened, C
<1> DEFINE h == [n \in 0..N |-> Hit(V, g[n])]
<1> HIDE DEF N
<1>4. h \in [0..N -> SUBSET V] /\ \A n \in 0..N : h[n] = Hit(V, g[n])
  BY DEF Hit
<1> HIDE DEF h
<1>5. ASSUME NEW n \in 1..N
      PROVE  /\ n - 1 \in 0..N /\ n \in 0..N
             /\ g[n] = Wider(V, g[n - 1]) /\ g[n - 1] \in Int \X Int
             /\ Hit(V, g[n - 1]) # {}
  BY <1>0, <1>3
<1>6. \A n \in 1..N : h[n - 1] \subseteq h[n]
  <2> TAKE n \in 1..N
  <2>1. Hit(V, g[n - 1]) \subseteq Hit(V, Wider(V, g[n - 1]))
    BY <1>0, <1>5, WiderSpans
  <2> QED BY <1>4, <1>5, <2>1
<1>7. \A n \in 0..N : h[0] \subseteq h[n] /\ h[n] \subseteq h[N]
  BY <1>0, <1>4, <1>6, ChainGrows
<1> DEFINE T == {n \in Nat : n <= N => OneSide(h[n], a, b)}
<1>8. 0 \in T
  <2>0. 0 \in 0..N
    BY <1>0
  <2>1. h[0] = Hit(V, <<lo, hi>>)
    BY ONLY <1>3, <1>4, <2>0
  <2> QED BY <1>2, <2>1
<1>9. ASSUME NEW n \in Nat, n \in T PROVE n + 1 \in T
  <2> SUFFICES ASSUME n + 1 <= N PROVE OneSide(h[n + 1], a, b)
    OBVIOUS
  <2>1. n + 1 \in 1..N /\ n + 1 - 1 = n /\ n <= N /\ n \in 0..N
        /\ n + 1 \in 0..N /\ N \in 0..N
    BY <1>0
  <2>2. OneSide(h[n], a, b)
    BY <1>9, <2>1
  <2>3. /\ g[n + 1] = Wider(V, g[n]) /\ g[n] \in Int \X Int
        /\ Hit(V, g[n]) # {}
    BY <1>5, <2>1
  <2> DEFINE D == h[n + 1] \ h[n]
  <2>4. h[n + 1] = h[n] \union D /\ h[n] = Hit(V, g[n])
        /\ h[n + 1] = Hit(V, Wider(V, g[n]))
    BY <1>4, <1>6, <2>1, <2>3
  <2>5. \A f \in D : Overlaps(f, GetRange(h[n])[1], GetRange(h[n])[2])
    BY <1>0, <2>3, <2>4, WiderLinks
  <2>6. Good(h[n]) /\ \A f \in D : FileOK(f)
    BY <1>0, <2>4, GoodSubset DEF Hit, Good
  <2>7. Misses(D, a, b)
    <3>1. h[n + 1] \subseteq C
      BY <1>3, <1>4, <1>7, <2>1
    <3> QED BY <1>2, <3>1 DEF Misses
  <2> HIDE DEF D, T
  <2>8. OneSide(h[n] \union D, a, b)
    BY <2>2, <2>3, <2>4, <2>5, <2>6, <2>7, SideGrows
  <2> QED BY <2>4, <2>8
<1>10. N \in T
  <2> HIDE DEF T
  <2> QED BY <1>0, <1>8, <1>9, SetInduction
<1>11. h[N] = C
  BY <1>0, <1>3, <1>4
<1> QED BY <1>0, <1>10, <1>11 DEF C

-----------------------------------------------------------------------------
(* The inputs of a compaction are sound. *)

(* OrderInv makes the entries of the store distinct and its files good.     *)
LEMMA StoredDistinct ==
  ASSUME TypeInv, FinitelyMany, OrderInv
  PROVE  /\ Distinct(memtables[mem] \union ImmEntries \union Stored(version))
         /\ \A l \in Levels : Good(version[l])
         /\ \A l \in Levels, m \in Levels : Good(version[l] \union version[m])
<1> DEFINE E == memtables[mem] \union ImmEntries \union Stored(version)
           n == lastSeq + pending
<1>1. MemoryOK(memtables[mem], ImmEntries, version, n) /\ n \in Nat
  BY DEF OrderInv, TypeInv
<1>2. \A l \in Levels : \A f \in version[l] : FileOK(f)
  BY DEF OrderInv, VersionOK
<1>3. \A l \in Levels : MergedEntries(version[l]) \subseteq Stored(version)
  BY DEF Stored, MergedEntries
<1>4. Stored(version) \subseteq Entry
  <2> SUFFICES ASSUME NEW e \in Stored(version) PROVE e \in Entry
    OBVIOUS
  <2>1. PICK l \in Levels : \E f \in version[l] : e \in f.entries
    BY DEF Stored, MergedEntries
  <2> QED BY <1>2, <2>1 DEF FileOK
<1> HIDE DEF n
<1>5. Distinct(E)
  <2>1. /\ memtables[mem] \subseteq Entry /\ ImmEntries \subseteq Entry
        /\ \A e \in E : e.s <= n
        /\ \A e, x \in E : e.s = x.s => e = x
    BY <1>1 DEF MemoryOK
  <2> HIDE DEF E
  <2>2. E \subseteq Entry
    BY <1>4, <2>1 DEF E
  <2> QED BY <1>1, <2>1, <2>2 DEF Distinct
<1>6. ASSUME NEW l \in Levels, NEW m \in Levels
      PROVE  Good(version[l] \union version[m])
  <2>1. IsFiniteSet(version[l] \union version[m])
    BY FS_Union DEF FinitelyMany
  <2>2. MergedEntries(version[l] \union version[m]) \subseteq E
    BY <1>3, EntriesUnion
  <2> HIDE DEF E
  <2> QED BY <1>2, <1>5, <2>1, <2>2, DistinctSubset DEF Good
<1>7. \A l \in Levels : Good(version[l])
  BY <1>6, GoodSubset
<1> QED BY <1>5, <1>6, <1>7

(* In a sorted level the files outside a range are on one side of those     *)
(* that meet it.                                                            *)
LEMMA RangeApart ==
  ASSUME NEW V, Good(V), \A f, g \in V : f # g => Apart(f.entries, g.entries),
         NEW lo \in Int, NEW hi \in Int, NEW g \in V \ Hit(V, <<lo, hi>>)
  PROVE  LET M == MergedEntries(Hit(V, <<lo, hi>>))
         IN  \/ g.largest.k < lo /\ Ahead(g.entries, M)
             \/ hi < g.smallest.k /\ Ahead(M, g.entries)
<1> DEFINE H == Hit(V, <<lo, hi>>)
<1>1. /\ FileOK(g) /\ g.smallest \in g.entries /\ g.largest \in g.entries
      /\ g.smallest \in Entry /\ g.largest \in Entry
      /\ g.smallest.k \in Int /\ g.largest.k \in Int
      /\ g.smallest.k <= g.largest.k
  BY FileKeys DEF Good
<1>2. g.largest.k < lo \/ hi < g.smallest.k
  BY <1>1 DEF Hit, Overlaps
<1>3. ASSUME NEW f \in H
      PROVE  /\ f.smallest \in f.entries /\ f.largest \in f.entries
             /\ f.smallest \in Entry /\ f.largest \in Entry
             /\ f.smallest.k \in Int /\ f.largest.k \in Int
             /\ f.smallest.k <= f.largest.k
             /\ f.smallest.k <= hi /\ lo <= f.largest.k
             /\ Apart(f.entries, g.entries)
  <2>1. f \in V /\ f.smallest.k <= hi /\ lo <= f.largest.k
    BY DEF Hit, Overlaps
  <2>2. f # g
    OBVIOUS
  <2> QED BY <2>1, <2>2, FileKeys DEF Good
<1> HIDE DEF H
<1>4. CASE g.largest.k < lo
  <2>1. ASSUME NEW f \in H PROVE Ahead(g.entries, f.entries)
    <3> SUFFICES ASSUME Ahead(f.entries, g.entries) PROVE FALSE
      BY <1>3 DEF Apart
    <3>1. Before(f.largest, g.smallest)
      BY <1>1, <1>3 DEF Ahead
    <3>2. f.largest.k <= g.smallest.k
      BY <1>1, <1>3, <3>1, BeforeOrder
    <3> QED BY <1>1, <1>3, <1>4, <3>2
  <2>2. Ahead(g.entries, MergedEntries(H))
    BY <2>1, EntriesOf DEF Ahead
  <2> QED BY <1>4, <2>2 DEF H
<1>5. CASE hi < g.smallest.k
  <2>1. ASSUME NEW f \in H PROVE Ahead(f.entries, g.entries)
    <3> SUFFICES ASSUME Ahead(g.entries, f.entries) PROVE FALSE
      BY <1>3 DEF Apart
    <3>1. Before(g.largest, f.smallest)
      BY <1>1, <1>3 DEF Ahead
    <3>2. g.largest.k <= f.smallest.k
      BY <1>1, <1>3, <3>1, BeforeOrder
    <3> QED BY <1>1, <1>3, <1>5, <3>2
  <2>2. Ahead(MergedEntries(H), g.entries)
    BY <2>1, EntriesOf DEF Ahead
  <2> QED BY <1>5, <2>2 DEF H
<1> QED BY <1>2, <1>4, <1>5

(* A file outside the range of some files is before or after their entries. *)
LEMMA Beyond ==
  ASSUME NEW C, Good(C), C # {}, NEW g, FileOK(g)
  PROVE  /\ g.largest.k < GetRange(C)[1]
              => Ahead(g.entries, MergedEntries(C))
         /\ GetRange(C)[2] < g.smallest.k
              => Ahead(MergedEntries(C), g.entries)
<1> DEFINE lo == GetRange(C)[1]
           hi == GetRange(C)[2]
<1>1. /\ lo \in Int /\ hi \in Int
      /\ \A f \in C : lo <= f.smallest.k /\ f.largest.k <= hi
  BY RangeOf
<1> HIDE DEF lo, hi
<1>2. ASSUME NEW a \in g.entries, NEW e \in MergedEntries(C)
      PROVE  /\ g.largest.k < lo => Before(a, e)
             /\ hi < g.smallest.k => Before(e, a)
  <2>1. PICK f \in C : e \in f.entries
    BY EntriesOf
  <2>2. /\ e \in Entry /\ e.k \in Int /\ f.smallest.k <= e.k
        /\ e.k <= f.largest.k /\ f.smallest.k \in Int /\ f.largest.k \in Int
    BY <2>1, FileKeys DEF Good
  <2>3. /\ a \in Entry /\ a.k \in Int /\ g.smallest.k <= a.k
        /\ a.k <= g.largest.k /\ g.smallest.k \in Int /\ g.largest.k \in Int
    BY FileKeys
  <2>4. lo <= f.smallest.k /\ f.largest.k <= hi
    BY <1>1
  <2>5. g.largest.k < lo => a.k < e.k
    BY <1>1, <2>2, <2>3, <2>4
  <2>6. hi < g.smallest.k => e.k < a.k
    BY <1>1, <2>2, <2>3, <2>4
  <2> QED BY <2>2, <2>3, <2>5, <2>6, BeforeOrder
<1> QED BY <1>2 DEF Ahead, lo, hi

(* No file of V outside c shares a user key with a file of c.               *)
ClosedIn(V, c) ==
  \A f \in c, x \in V : Overlaps(x, f.smallest.k, f.largest.k) => x \in c

(* At level 0 AddBoundaryInputs has nothing to add.                         *)
LEMMA BoundaryNone ==
  ASSUME NEW V, Good(V), NEW c, c \subseteq V, c # {}, ClosedIn(V, c)
  PROVE  AddBoundaryInputs(V, c) = c
<1> DEFINE N == Cardinality(V)
           add(d) == FindSmallestBoundaryFile(V, Last(MergedEntries(d)))
           u == Last(MergedEntries(c))
<1>0. IsFiniteSet(V) /\ N \in Nat
  BY FS_CardinalityType DEF Good
<1>1. PICK g : Grown(g, V, c)
  BY <1>0, BoundarySteps
<1>2. /\ g \in [0..N -> SUBSET V] /\ g[0] = c
      /\ AddBoundaryInputs(V, c) = g[N]
      /\ \A n \in 1..N : g[n] = g[n - 1] \union add(g[n - 1])
  BY <1>1 DEF Grown
<1>3. Good(c)
  BY GoodSubset
<1>4. add(c) = {}
  <2> SUFFICES ASSUME NEW f \in add(c) PROVE FALSE
    OBVIOUS
  <2>1. f \in V /\ Before(u, f.smallest) /\ f.smallest.k = u.k
    BY DEF FindSmallestBoundaryFile
  <2>2. /\ u \in Entry /\ IsLast(u, MergedEntries(c))
        /\ \E e \in c : e.largest.k = GetRange(c)[2] /\ u.k = GetRange(c)[2]
    BY <1>3, RangeOf
  <2>3. PICK e \in c : e.largest.k = u.k
    BY <2>2
  <2> HIDE DEF u
  <2>4. /\ FileOK(e) /\ FileOK(f)
        /\ e.smallest.k \in Int /\ e.largest.k \in Int
        /\ f.smallest.k \in Int /\ f.largest.k \in Int
        /\ e.smallest.k <= e.largest.k /\ f.smallest.k <= f.largest.k
        /\ f.smallest \in f.entries /\ f.smallest \in Entry
    BY <1>3, <2>1, FileKeys DEF Good
  <2>5. Overlaps(f, e.smallest.k, e.largest.k)
    BY <2>1, <2>3, <2>4 DEF Overlaps
  <2>6. f \in c
    BY <2>1, <2>5 DEF ClosedIn
  <2>7. f.smallest \in MergedEntries(c)
    BY <2>4, <2>6, EntriesWithin
  <2>8. f.smallest = u \/ Before(f.smallest, u)
    BY <2>2, <2>7 DEF IsLast
  <2> QED BY <2>1, <2>2, <2>4, <2>8, BeforeOrder
<1> HIDE DEF add
<1> DEFINE T == {n \in Nat : n <= N => g[n] = c}
<1>5. 0 \in T
  BY <1>2
<1>6. ASSUME NEW n \in Nat, n \in T PROVE n + 1 \in T
  <2> SUFFICES ASSUME n + 1 <= N PROVE g[n + 1] = c
    OBVIOUS
  <2>1. n + 1 \in 1..N /\ n + 1 - 1 = n /\ n <= N
    BY <1>0
  <2>2. g[n + 1] = g[n] \union add(g[n])
    BY <1>2, <2>1
  <2>3. g[n] = c
    BY <1>6, <2>1
  <2> QED BY <1>4, <2>2, <2>3
<1>7. N \in T
  <2> HIDE DEF T
  <2> QED BY <1>0, <1>5, <1>6, SetInduction
<1> QED BY <1>0, <1>2, <1>7

(* What SetupOtherInputs needs of the files c chosen at level l.            *)
ChosenOK(l, c) ==
  /\ c \subseteq version[l] /\ c # {}
  /\ l = 0 => ClosedIn(version[l], c)
  /\ l > 0 => ConvexIn(version[l], c)

(* A range that misses c and X has the files of c on one side.              *)
Sided(c, X) ==
  \A a, b \in Keys : a <= b /\ Misses(c \union X, a, b) => OneSide(c, a, b)

(* The files that AddBoundaryInputs leaves in level l are newer than its    *)
(* result.                                                                  *)
LEMMA BoundaryNewer ==
  ASSUME TypeInv, FinitelyMany, OrderInv, NEW l \in 0..(NumLevels - 2),
         NEW c, ChosenOK(l, c),
         NEW g \in version[l] \ AddBoundaryInputs(version[l], c)
  PROVE  Newer(g.entries, MergedEntries(AddBoundaryInputs(version[l], c)))
<1> DEFINE V == version[l]
           in0 == AddBoundaryInputs(V, c)
           u == Last(MergedEntries(in0))
<1>1. l \in Levels /\ l \in Nat /\ Good(V)
  BY LevelsFact, StoredDistinct
<1>2. c \subseteq V /\ c # {}
  BY DEF ChosenOK
<1>3. FileOK(g) /\ \A f \in V : FileOK(f)
  BY <1>1 DEF Good
<1>4. /\ c \subseteq in0 /\ in0 \subseteq V
      /\ \A f \in V : ~(Before(u, f.smallest) /\ f.smallest.k = u.k)
  BY <1>1, <1>2, BoundaryClosed
<1>5. Good(in0) /\ in0 # {}
  BY <1>1, <1>2, <1>4, GoodSubset
<1>6. u \in Entry /\ IsLast(u, MergedEntries(in0)) /\ u \in MergedEntries(in0)
  BY <1>5, RangeOf
<1>7. CASE l = 0
  <2>1. in0 = c /\ ClosedIn(V, c)
    BY <1>1, <1>2, <1>7, BoundaryNone DEF ChosenOK
  <2>2. ASSUME NEW a \in g.entries, NEW e \in MergedEntries(in0)
        PROVE  a.k # e.k
    <3>1. PICK f \in in0 : e \in f.entries
      BY EntriesOf
    <3>2. ~Overlaps(g, f.smallest.k, f.largest.k)
      BY <2>1 DEF ClosedIn
    <3>3. FileOK(f)
      BY <1>3, <1>4
    <3> QED BY <1>3, <3>1, <3>2, <3>3, NoOverlapOrdered
  <2> QED BY <2>2 DEF Newer
<1>8. CASE l > 0
  <2>1. \A f, h \in V : f # h => Apart(f.entries, h.entries)
    BY <1>1, <1>8 DEF OrderInv, InOrder
  <2>2. ConvexIn(V, in0)
    BY <1>1, <1>2, <1>8, <2>1, BoundaryConvex DEF ChosenOK
  <2>3. Apart(g.entries, MergedEntries(in0))
    BY <2>2 DEF ConvexIn
  <2> HIDE DEF in0, u, V
  <2>4. ASSUME NEW a \in g.entries, NEW e \in MergedEntries(in0), a.k = e.k
        PROVE  a.s > e.s
    <3>1. a \in Entry /\ e \in Entry
      BY <1>3, <1>5 DEF FileOK, Good, Distinct
    <3>2. a.k \in Int /\ e.k \in Int /\ a.s \in Nat /\ e.s \in Nat
      BY <3>1, EntryType
    <3>3. CASE Ahead(g.entries, MergedEntries(in0))
      <4>1. Before(a, e)
        BY <3>3 DEF Ahead
      <4> QED BY <2>4, <3>2, <4>1 DEF Before
    <3>4. CASE Ahead(MergedEntries(in0), g.entries)
      <4>1. /\ g.smallest \in g.entries /\ g.smallest \in Entry
            /\ g.smallest.k <= a.k
        BY <1>3, FileKeys
      <4>2. Before(u, g.smallest)
        BY <1>6, <3>4, <4>1 DEF Ahead
      <4>3. u.k <= g.smallest.k
        BY <1>6, <4>1, <4>2, BeforeOrder
      <4>4. e.k <= u.k
        <5>1. CASE e = u
          BY <3>2, <5>1
        <5>2. CASE Before(e, u)
          BY <1>6, <3>1, <5>2, BeforeOrder
        <5> QED BY <1>6, <5>1, <5>2 DEF IsLast
      <4>5. u.k \in Int /\ g.smallest.k \in Int
        BY <1>6, <4>1, EntryType
      <4>6. g.smallest.k = u.k
        BY ONLY <2>4, <3>2, <4>1, <4>3, <4>4, <4>5
      <4>7. g \in V
        BY DEF V
      <4> QED BY <1>4, <4>2, <4>6, <4>7
    <3> QED BY <2>3, <3>3, <3>4 DEF Apart
  <2> QED BY <2>4 DEF Newer, in0, V
<1> QED BY <1>1, <1>7, <1>8

(* The inputs SetupOtherInputs makes from one choice.                       *)
Over(l, fs) == GetOverlappingInputs(l, GetRange(fs)[1], GetRange(fs)[2])

(* Below level 0 GetOverlappingInputs is one pass over the level.           *)
LEMMA OverBelow ==
  ASSUME FinitelyMany, NEW l \in Levels, l > 0, NEW fs
  PROVE  Over(l, fs) = Hit(version[l], GetRange(fs))
BY OverlapBelow DEF Over, Hit, FinitelyMany

(* One choice of inputs in SetupOtherInputs, the level with its boundary    *)
(* files and what they overlap below, is sound.                             *)
LEMMA SetupStep ==
  ASSUME TypeInv, FinitelyMany, OrderInv, NEW l \in 0..(NumLevels - 2),
         NEW c, ChosenOK(l, c), NEW X, Sided(c, X),
         NEW in0, in0 = AddBoundaryInputs(version[l], c),
         X \subseteq Over(l + 1, in0)
  PROVE  /\ SoundInputs(version, l, <<in0, Over(l + 1, in0)>>)
         /\ c \subseteq in0 /\ in0 \subseteq version[l] /\ in0 # {}
         /\ Sided(in0, Over(l + 1, in0))
<1> DEFINE V == version[l]
           W == version[l + 1]
           in1 == Over(l + 1, in0)
           lo == GetRange(in0)[1]
           hi == GetRange(in0)[2]
<1>1. /\ l \in Levels /\ l + 1 \in Levels /\ l \in Nat /\ l + 1 > 0 /\ l < l + 1
      /\ Good(V) /\ Good(W)
  BY LevelsFact, StoredDistinct
<1>2. c \subseteq V /\ c # {}
  BY DEF ChosenOK
<1>3. c \subseteq in0 /\ in0 \subseteq V
  BY <1>1, <1>2, BoundaryClosed
<1>4. Good(in0) /\ in0 # {}
  BY <1>1, <1>2, <1>3, GoodSubset
<1>5. lo \in Int /\ hi \in Int
  BY <1>4, RangeOf
<1>6. in1 = Hit(W, <<lo, hi>>) /\ in1 \subseteq W
  <2>1. in1 = Hit(W, GetRange(in0))
    BY <1>1, OverBelow
  <2> QED BY <2>1 DEF Hit
<1>7. Good(in1)
  BY <1>1, <1>6, GoodSubset
<1>8. ASSUME NEW g \in W \ in1
      PROVE  Apart(g.entries, MergedEntries(in0 \union in1))
  <2>1. \A f, h \in W : f # h => Apart(f.entries, h.entries)
    BY <1>1 DEF OrderInv, InOrder
  <2>2. FileOK(g)
    BY <1>1 DEF Good
  <2>3. \/ g.largest.k < lo /\ Ahead(g.entries, MergedEntries(in1))
        \/ hi < g.smallest.k /\ Ahead(MergedEntries(in1), g.entries)
    <3> HIDE DEF lo, hi, W, in1
    <3> QED BY <1>1, <1>5, <1>6, <2>1, RangeApart
  <2>4. /\ g.largest.k < lo => Ahead(g.entries, MergedEntries(in0))
        /\ hi < g.smallest.k => Ahead(MergedEntries(in0), g.entries)
    BY <1>4, <2>2, Beyond
  <2> HIDE DEF lo, hi, in1
  <2> QED BY <2>3, <2>4, EntriesUnion DEF Apart, Ahead
<1>9. ASSUME NEW g \in V \ in0
      PROVE  Newer(g.entries, MergedEntries(in0 \union in1))
  <2>1. Newer(g.entries, MergedEntries(in0))
    BY BoundaryNewer
  <2>2. Newer(MergedEntries(V), MergedEntries(W))
    BY <1>1 DEF OrderInv, InOrder
  <2>3. /\ g.entries \subseteq MergedEntries(V)
        /\ MergedEntries(in1) \subseteq MergedEntries(W)
    BY <1>1, <1>6, EntriesWithin, GoodSubset
  <2> HIDE DEF in1, V, W
  <2>4. Newer(g.entries, MergedEntries(in1))
    BY <2>2, <2>3 DEF Newer
  <2> QED BY <2>1, <2>4, EntriesUnion DEF Newer
<1>10. ASSUME NEW a \in Keys, NEW b \in Keys, a <= b,
              Misses(in0 \union in1, a, b)
       PROVE  OneSide(in0 \union in1, a, b) /\ OneSide(in0, a, b)
  <2>1. a \in Int /\ b \in Int
    BY KeysAssumption
  <2>2. Misses(c \union X, a, b) /\ Misses(in0, a, b) /\ Misses(in1, a, b)
    BY <1>3, <1>10 DEF Misses
  <2>3. OneSide(c, a, b)
    BY <1>10, <2>2 DEF Sided
  <2>4. OneSide(in0, a, b)
    BY <1>1, <1>2, <1>10, <2>1, <2>2, <2>3, BoundarySide
  <2>5. \A f \in in1 : Overlaps(f, GetRange(in0)[1], GetRange(in0)[2])
    BY <1>6 DEF Hit
  <2>6. \A f \in in1 : FileOK(f)
    BY <1>7 DEF Good
  <2> HIDE DEF in1
  <2> QED BY <1>4, <1>10, <2>1, <2>2, <2>4, <2>5, <2>6, SideGrows
<1> HIDE DEF in1
<1>11. Solid(in0 \union in1) /\ Sided(in0, in1)
  BY <1>10 DEF Solid, Sided
<1>12. SoundInputs(version, l, <<in0, in1>>)
  BY <1>3, <1>6, <1>8, <1>9, <1>11 DEF SoundInputs
<1> QED BY <1>3, <1>4, <1>11, <1>12 DEF in1

(* The wider choice SetupOtherInputs tries next.                            *)
LEMMA ExpandChoice ==
  ASSUME TypeInv, FinitelyMany, OrderInv, NEW l \in 0..(NumLevels - 2),
         NEW in0, in0 \subseteq version[l], in0 # {},
         NEW in1, in1 = Over(l + 1, in0), Sided(in0, in1)
  PROVE  LET c == Over(l, in0 \union in1)
         IN  ChosenOK(l, c) /\ Sided(c, in1) /\ in0 \subseteq c
<1> DEFINE V == version[l]
           B == in0 \union in1
           lo == GetRange(B)[1]
           hi == GetRange(B)[2]
           c == Over(l, B)
           H == Hit(V, <<lo, hi>>)
<1>1. /\ l \in Levels /\ l + 1 \in Levels /\ l \in Nat /\ l + 1 > 0
      /\ Good(V) /\ Good(V \union version[l + 1])
  BY LevelsFact, StoredDistinct
<1>2. in1 \subseteq version[l + 1]
  BY OverlappingWithin DEF Over
<1>3. Good(B) /\ B # {}
  BY <1>1, <1>2, GoodSubset
<1>4. lo \in Int /\ hi \in Int /\ \A f \in B : lo <= f.smallest.k /\ f.largest.k <= hi
  BY <1>3, RangeOf
<1>5. in0 \subseteq H
  <2> SUFFICES ASSUME NEW f \in in0 PROVE Overlaps(f, lo, hi)
    BY DEF Hit
  <2>1. lo <= f.smallest.k /\ f.largest.k <= hi
    BY <1>4
  <2>2. f.smallest.k \in Int /\ f.largest.k \in Int /\ f.smallest.k <= f.largest.k
    BY <1>3, FileKeys DEF Good
  <2> HIDE DEF lo, hi, B
  <2> QED BY <1>4, <2>1, <2>2 DEF Overlaps
<1>6. c = GetOverlappingInputs(l, lo, hi)
  BY DEF Over
<1>7. ASSUME NEW a \in Keys, NEW b \in Keys, a <= b, Misses(H, a, b),
             Misses(in1, a, b)
      PROVE  OneSide(H, a, b)
  <2>1. a \in Int /\ b \in Int
    BY KeysAssumption
  <2>2. Misses(in0 \union in1, a, b)
    BY <1>5, <1>7 DEF Misses
  <2>3. OneSide(in0, a, b)
    BY <1>7, <2>2 DEF Sided
  <2>4. Good(in0) /\ \A f \in in1 : FileOK(f)
    BY <1>1, <1>3, GoodSubset DEF Good
  <2>5. \A f \in in1 : Overlaps(f, GetRange(in0)[1], GetRange(in0)[2])
    BY <1>1, OverBelow DEF Hit
  <2>6. OneSide(B, a, b)
    BY <1>7, <2>1, <2>3, <2>4, <2>5, SideGrows
  <2>7. \A f \in H : FileOK(f) /\ Overlaps(f, GetRange(B)[1], GetRange(B)[2])
    BY <1>1 DEF Good, Hit
  <2> HIDE DEF B, H
  <2>8. OneSide(B \union H, a, b)
    BY <1>3, <1>7, <2>1, <2>6, <2>7, SideGrows
  <2> QED BY <2>8 DEF OneSide
<1>8. CASE l = 0
  <2>0. /\ Good(version[0]) /\ Hit(version[0], <<lo, hi>>) # {}
        /\ H = Hit(version[0], <<lo, hi>>) /\ V = version[0]
        /\ c = GetOverlappingInputs(0, lo, hi)
    BY <1>1, <1>5, <1>6, <1>8
  <2> HIDE DEF lo, hi, c, H, V
  <2>1. /\ H \subseteq c /\ c \subseteq V
        /\ \A f \in c, x \in V : Overlaps(x, f.smallest.k, f.largest.k) => x \in c
    BY <1>4, <2>0, OverlapClosed
  <2>2. ChosenOK(l, c)
    BY <1>5, <1>8, <2>1 DEF ChosenOK, ClosedIn, V
  <2>3. ASSUME NEW a \in Keys, NEW b \in Keys, a <= b,
               Misses(c \union in1, a, b)
        PROVE  OneSide(c, a, b)
    <3>1. Misses(H, a, b) /\ Misses(in1, a, b) /\ Misses(c, a, b)
      BY <2>1, <2>3 DEF Misses
    <3>2. OneSide(H, a, b)
      BY <1>7, <2>3, <3>1
    <3>3. a \in Int /\ b \in Int /\ H # {}
      BY <1>5, KeysAssumption
    <3> QED BY <1>4, <2>0, <2>3, <3>1, <3>2, <3>3, OverlapSide
  <2> QED BY <1>5, <2>1, <2>2, <2>3 DEF Sided, c
<1>9. CASE l > 0
  <2>1. c = H
    <3>1. c = Hit(V, GetRange(B))
      BY <1>1, <1>9, OverBelow
    <3> QED BY <3>1 DEF Hit
  <2>2. \A f, h \in V : f # h => Apart(f.entries, h.entries)
    BY <1>1, <1>9 DEF OrderInv, InOrder
  <2>3. ConvexIn(V, c)
    <3> SUFFICES ASSUME NEW g \in V \ H
                 PROVE  Apart(g.entries, MergedEntries(H))
      BY <2>1 DEF ConvexIn
    <3>1. \/ g.largest.k < lo /\ Ahead(g.entries, MergedEntries(H))
          \/ hi < g.smallest.k /\ Ahead(MergedEntries(H), g.entries)
      <4> HIDE DEF lo, hi, V
      <4> QED BY <1>1, <1>4, <2>2, RangeApart
    <3> HIDE DEF lo, hi, H
    <3> QED BY <3>1 DEF Apart
  <2>4. ChosenOK(l, c)
    <3>1. c \subseteq V
      BY <2>1 DEF Hit
    <3>2. c # {}
      BY <1>5, <2>1
    <3> HIDE DEF c, H
    <3> QED BY <1>9, <2>3, <3>1, <3>2 DEF ChosenOK
  <2>5. Sided(c, in1)
    <3> HIDE DEF c, H
    <3>1. ASSUME NEW a \in Keys, NEW b \in Keys, a <= b,
                 Misses(c \union in1, a, b)
          PROVE  OneSide(c, a, b)
      <4>1. Misses(H, a, b) /\ Misses(in1, a, b)
        BY <2>1, <3>1 DEF Misses
      <4> QED BY <1>7, <2>1, <3>1, <4>1
    <3> QED BY <3>1 DEF Sided
  <2> HIDE DEF c, H
  <2> QED BY <1>5, <2>1, <2>4, <2>5 DEF c
<1>10. l = 0 \/ l > 0
  BY <1>1
<1> HIDE DEF H
<1> QED BY <1>8, <1>9, <1>10

(* Every pair of input sets SetupOtherInputs offers is sound.               *)
LEMMA SetupSound ==
  ASSUME TypeInv, FinitelyMany, OrderInv, NEW l \in 0..(NumLevels - 2),
         NEW c, ChosenOK(l, c), Sided(c, {}), NEW in \in SetupOtherInputs(l, c)
  PROVE  SoundInputs(version, l, in)
<1> DEFINE V == version[l]
           in0 == AddBoundaryInputs(V, c)
           in1 == Over(l + 1, in0)
           d == Over(l, in0 \union in1)
           expanded0 == AddBoundaryInputs(V, d)
           expanded1 == Over(l + 1, expanded0)
<1>1. in = <<in0, in1>> \/ in = <<expanded0, expanded1>>
  BY DEF SetupOtherInputs, Over
<1>2. /\ SoundInputs(version, l, <<in0, in1>>)
      /\ in0 \subseteq V /\ in0 # {} /\ Sided(in0, in1)
  <2> HIDE DEF in0
  <2>1. in0 = AddBoundaryInputs(version[l], c)
    BY DEF in0
  <2>2. {} \subseteq Over(l + 1, in0)
    OBVIOUS
  <2> QED BY <2>1, <2>2, SetupStep
<1>3. ChosenOK(l, d) /\ Sided(d, in1) /\ in0 \subseteq d
  <2> HIDE DEF in0
  <2> QED BY <1>2, ExpandChoice
<1>4. /\ l \in Levels /\ l + 1 \in Levels /\ l + 1 > 0
      /\ Good(V) /\ Good(version[l + 1])
  BY LevelsFact, StoredDistinct
<1>5. d \subseteq expanded0 /\ expanded0 \subseteq V
  <2> HIDE DEF d
  <2> QED BY <1>3, <1>4, BoundaryClosed DEF ChosenOK
<1>6. in1 = Hit(version[l + 1], GetRange(in0))
      /\ expanded1 = Hit(version[l + 1], GetRange(expanded0))
  BY <1>4, OverBelow
<1> HIDE DEF in0, d, in1
<1>7. in1 \subseteq expanded1
  <2> SUFFICES ASSUME NEW f \in in1 PROVE f \in expanded1
    OBVIOUS
  <2> DEFINE r == GetRange(in0)
             w == GetRange(expanded0)
  <2>1. /\ f \in version[l + 1] /\ f.smallest.k <= r[2] /\ r[1] <= f.largest.k
    BY <1>6 DEF Hit, Overlaps
  <2>2. f.smallest.k \in Int /\ f.largest.k \in Int
    BY <1>4, <2>1, FileKeys DEF Good
  <2>3. in0 \subseteq expanded0 /\ Good(expanded0) /\ Good(in0)
        /\ expanded0 # {}
    BY <1>2, <1>3, <1>4, <1>5, GoodSubset
  <2>4. /\ r[1] \in Int /\ r[2] \in Int
        /\ \E p \in in0 : p.smallest.k = r[1]
        /\ \E q \in in0 : q.largest.k = r[2]
    BY <1>2, <2>3, RangeOf
  <2>5. /\ w[1] \in Int /\ w[2] \in Int
        /\ \A p \in expanded0 : w[1] <= p.smallest.k /\ p.largest.k <= w[2]
    BY <2>3, RangeOf
  <2> HIDE DEF r, w, expanded0
  <2>6. w[1] <= r[1] /\ r[2] <= w[2]
    BY <2>3, <2>4, <2>5
  <2>7. f.smallest.k <= w[2] /\ w[1] <= f.largest.k
    BY <2>1, <2>2, <2>4, <2>5, <2>6
  <2> QED BY <1>6, <2>1, <2>7 DEF Hit, Overlaps, w
<1>8. SoundInputs(version, l, <<expanded0, expanded1>>)
  <2> HIDE DEF expanded0
  <2>1. expanded0 = AddBoundaryInputs(version[l], d)
    BY DEF expanded0
  <2> QED BY <1>3, <1>7, <2>1, SetupStep
<1> QED BY <1>1, <1>2, <1>8

(* PickCompaction starts from one file and, at level 0, those it meets.     *)
LEMMA PickSound ==
  ASSUME TypeInv, FinitelyMany, OrderInv, NEW l \in 0..(NumLevels - 2),
         NEW in \in PickCompaction(l)
  PROVE  SoundInputs(version, l, in)
<1> DEFINE V == version[l]
<1>1. l \in Levels /\ l \in Nat /\ Good(V)
  BY LevelsFact, StoredDistinct
<1>2. PICK f \in V :
        in \in SetupOtherInputs(l,
                 IF l > 0 THEN {f}
                 ELSE GetOverlappingInputs(0, f.smallest.k, f.largest.k))
  BY DEF PickCompaction
<1> DEFINE lo == f.smallest.k
           hi == f.largest.k
<1>3. FileOK(f) /\ lo \in Int /\ hi \in Int /\ lo <= hi
  BY <1>1, FileKeys DEF Good
<1>4. CASE l > 0
  <2>1. in \in SetupOtherInputs(l, {f})
    BY <1>2, <1>4
  <2>2. MergedEntries({f}) = f.entries
    BY DEF MergedEntries
  <2>3. \A g, h \in V : g # h => Apart(g.entries, h.entries)
    BY <1>1, <1>4 DEF OrderInv, InOrder
  <2>4. ConvexIn(V, {f})
    BY <2>2, <2>3 DEF ConvexIn
  <2>5. ChosenOK(l, {f})
    BY <1>4, <2>4 DEF ChosenOK
  <2>6. ASSUME NEW a \in Keys, NEW b \in Keys, Misses({f} \union {}, a, b)
        PROVE  OneSide({f}, a, b)
    <3>1. a \in Int /\ b \in Int
      BY KeysAssumption
    <3>2. ~(lo <= b /\ a <= hi)
      BY <2>6 DEF Misses, Overlaps
    <3> QED BY <1>3, <3>1, <3>2 DEF OneSide
  <2>7. Sided({f}, {})
    BY <2>6 DEF Sided
  <2> QED BY <2>1, <2>5, <2>7, SetupSound
<1>5. CASE l = 0
  <2> DEFINE c == GetOverlappingInputs(0, lo, hi)
             H == Hit(version[0], <<lo, hi>>)
  <2>1. in \in SetupOtherInputs(l, c)
    BY <1>2, <1>5
  <2>2. f \in H /\ Good(version[0]) /\ V = version[0]
    BY <1>1, <1>3, <1>5 DEF Hit, Overlaps
  <2> HIDE DEF lo, hi
  <2>3. /\ H \subseteq c /\ c \subseteq version[0]
        /\ \A g \in c, x \in version[0] :
             Overlaps(x, g.smallest.k, g.largest.k) => x \in c
    BY <1>3, <2>2, OverlapClosed
  <2>4. \A g \in H : /\ g.smallest.k \in Int /\ g.largest.k \in Int
                     /\ g.smallest.k <= hi /\ lo <= g.largest.k
    <3> TAKE g \in H
    <3>1. g \in version[0] /\ g.smallest.k <= hi /\ lo <= g.largest.k
      BY DEF Hit, Overlaps
    <3> QED BY <2>2, <3>1, FileKeys DEF Good
  <2> HIDE DEF c, H
  <2>5. ChosenOK(l, c)
    BY <1>5, <2>2, <2>3 DEF ChosenOK, ClosedIn
  <2>6. ASSUME NEW a \in Keys, NEW b \in Keys, a <= b, Misses(c \union {}, a, b)
        PROVE  OneSide(c, a, b)
    <3>1. a \in Int /\ b \in Int
      BY KeysAssumption
    <3>2. Misses(c, a, b)
      BY <2>6
    <3>3. \A g \in H : ~(g.smallest.k <= b /\ a <= g.largest.k)
      BY <2>3, <3>2 DEF Misses, Overlaps
    <3>4. ~(lo <= b /\ a <= hi)
      BY <2>2, <3>3 DEF lo, hi
    <3>5. OneSide(H, a, b)
      <4>1. b < lo \/ hi < a
        BY <1>3, <3>1, <3>4
      <4>2. ASSUME b < lo PROVE OneSide(H, a, b)
        <5>1. \A g \in H : b < g.smallest.k
          BY <1>3, <2>4, <2>6, <3>1, <3>3, <4>2
        <5> QED BY <5>1 DEF OneSide
      <4>3. ASSUME hi < a PROVE OneSide(H, a, b)
        <5>1. \A g \in H : g.largest.k < a
          BY <1>3, <2>4, <2>6, <3>1, <3>3, <4>3
        <5> QED BY <5>1 DEF OneSide
      <4> QED BY <4>1, <4>2, <4>3
    <3> QED BY <1>3, <2>2, <2>6, <3>1, <3>2, <3>5, OverlapSide DEF H, c
  <2>7. Sided(c, {})
    BY <2>6 DEF Sided
  <2> QED BY <2>1, <2>5, <2>7, SetupSound
<1> QED BY <1>1, <1>4, <1>5

(* VersionSet::CompactRange, for a range with no key strictly inside.       *)
LEMMA ManualSound ==
  ASSUME TypeInv, FinitelyMany, OrderInv, NEW l \in 0..(NumLevels - 2),
         NEW lo \in Keys, NEW hi \in Keys,
         \A k \in Keys : ~(lo < k /\ k < hi),
         NEW in \in CompactRange(l, lo, hi)
  PROVE  SoundInputs(version, l, in)
<1> DEFINE V == version[l]
           inputs == GetOverlappingInputs(l, lo, hi)
           upTo(f) == {g \in inputs : g = f \/ Before(g.smallest, f.smallest)}
           H == Hit(V, <<lo, hi>>)
<1>1. l \in Levels /\ l \in Nat /\ Good(V) /\ lo \in Int /\ hi \in Int
  BY LevelsFact, StoredDistinct, KeysAssumption
<1>2. ASSUME NEW c, c \subseteq H, NEW a \in Keys, NEW b \in Keys, a <= b,
             Misses(c, a, b)
      PROVE  OneSide(c, a, b)
  <2>1. a \in Int /\ b \in Int
    BY KeysAssumption
  <2>2. \A g \in c : /\ g.smallest.k \in Int /\ g.largest.k \in Int
                     /\ g.smallest.k <= hi /\ lo <= g.largest.k
                     /\ b < g.smallest.k \/ g.largest.k < a
    <3> TAKE g \in c
    <3>1. g \in V /\ g.smallest.k <= hi /\ lo <= g.largest.k
      BY <1>2 DEF Hit, Overlaps
    <3>2. g.smallest.k \in Int /\ g.largest.k \in Int
      BY <1>1, <3>1, FileKeys DEF Good
    <3>3. ~(g.smallest.k <= b /\ a <= g.largest.k)
      BY <1>2 DEF Misses, Overlaps
    <3> QED BY <2>1, <3>1, <3>2, <3>3
  <2>3. ASSUME NEW f \in c, NEW g \in c, b < f.smallest.k, g.largest.k < a
        PROVE  FALSE
    <3>1. lo < a /\ a < hi
      BY <1>1, <1>2, <2>1, <2>2, <2>3
    <3> QED BY <3>1
  <2> QED BY <2>2, <2>3 DEF OneSide
<1>3. CASE l = 0
  <2>1. inputs # {} /\ in \in SetupOtherInputs(l, inputs)
    BY <1>3 DEF CompactRange
  <2>2. H # {} /\ Good(version[0]) /\ V = version[0]
    <3> SUFFICES ASSUME {f \in V : Overlaps(f, lo, hi)} = {} PROVE FALSE
      BY <1>1, <1>3 DEF Hit
    <3>1. IsFiniteSet(V)
      BY <1>1 DEF Good
    <3>2. inputs = {f \in V : Overlaps(f, lo, hi)}
      BY <1>1, <3>1, OverlapBelow
    <3> QED BY <2>1, <3>2
  <2>3. inputs = GetOverlappingInputs(0, lo, hi) /\ H = Hit(version[0], <<lo, hi>>)
    BY <1>3
  <2> HIDE DEF inputs, H
  <2>4. /\ H \subseteq inputs /\ inputs \subseteq version[0]
        /\ \A g \in inputs, x \in version[0] :
             Overlaps(x, g.smallest.k, g.largest.k) => x \in inputs
    BY <1>1, <2>2, <2>3, OverlapClosed
  <2>5. ChosenOK(l, inputs)
    BY <1>3, <2>1, <2>4 DEF ChosenOK, ClosedIn
  <2>6. ASSUME NEW a \in Keys, NEW b \in Keys, a <= b,
               Misses(inputs \union {}, a, b)
        PROVE  OneSide(inputs, a, b)
    <3>1. a \in Int /\ b \in Int
      BY KeysAssumption
    <3>2. Misses(inputs, a, b) /\ Misses(H, a, b)
      BY <2>4, <2>6 DEF Misses
    <3>3. OneSide(H, a, b)
      BY <1>2, <2>6, <3>2
    <3> QED BY <1>1, <2>2, <2>3, <2>6, <3>1, <3>2, <3>3, OverlapSide
  <2>7. Sided(inputs, {})
    BY <2>6 DEF Sided
  <2> QED BY <2>1, <2>5, <2>7, SetupSound
<1>4. CASE l > 0
  <2>1. PICK f \in inputs : in \in SetupOtherInputs(l, upTo(f))
    <3>1. in \in UNION {SetupOtherInputs(l, chosen) :
                         chosen \in IF l = 0 THEN {inputs} \ {{}}
                                    ELSE {upTo(f) : f \in inputs}}
      BY DEF CompactRange
    <3> HIDE DEF inputs, upTo
    <3>2. PICK chosen \in {upTo(f) : f \in inputs} :
            in \in SetupOtherInputs(l, chosen)
      BY <1>4, <3>1
    <3> QED BY <3>2
  <2>2. inputs = H
    <3>1. IsFiniteSet(V)
      BY <1>1 DEF Good
    <3>2. inputs = {g \in V : Overlaps(g, lo, hi)}
      BY <1>1, <1>4, <3>1, OverlapBelow
    <3> QED BY <3>2 DEF Hit
  <2> HIDE DEF inputs
  <2> DEFINE c == upTo(f)
  <2>3. c \subseteq H /\ f \in c /\ f \in V
    BY <2>2 DEF Hit
  <2>4. \A g, h \in V : g # h => Apart(g.entries, h.entries)
    BY <1>1, <1>4 DEF OrderInv, InOrder
  <2>5. ASSUME NEW g \in V, g \notin c PROVE Apart(g.entries, MergedEntries(c))
    <3>1. CASE g \notin H
      <4>1. \/ g.largest.k < lo /\ Ahead(g.entries, MergedEntries(H))
            \/ hi < g.smallest.k /\ Ahead(MergedEntries(H), g.entries)
        <5> HIDE DEF V
        <5> QED BY <1>1, <2>4, <2>5, <3>1, RangeApart
      <4>2. MergedEntries(c) \subseteq MergedEntries(H)
        BY <2>3 DEF MergedEntries
      <4> HIDE DEF c, H
      <4> QED BY <4>1, <4>2 DEF Apart, Ahead
    <3>2. CASE g \in H
      <4>1. g # f /\ ~Before(g.smallest, f.smallest)
        BY <2>2, <2>5, <3>2
      <4>2. ASSUME NEW h \in c PROVE Ahead(h.entries, g.entries)
        <5>1. h \in V /\ h # g /\ (h = f \/ Before(h.smallest, f.smallest))
          BY <2>2, <2>3, <2>5, <3>2 DEF Hit
        <5>2. Apart(g.entries, h.entries)
          BY <2>4, <5>1
        <5> SUFFICES ASSUME Ahead(g.entries, h.entries) PROVE FALSE
          BY <5>2 DEF Apart
        <5>3. /\ g.smallest \in g.entries /\ h.smallest \in h.entries
              /\ g.smallest \in Entry /\ h.smallest \in Entry
              /\ f.smallest \in Entry
          BY <1>1, <2>3, <5>1, FileKeys DEF Good
        <5>4. Before(g.smallest, h.smallest)
          BY <5>3 DEF Ahead
        <5>5. Before(g.smallest, f.smallest)
          BY <5>1, <5>3, <5>4, BeforeOrder
        <5> QED BY <4>1, <5>5
      <4> HIDE DEF c
      <4>3. Ahead(MergedEntries(c), g.entries)
        BY <4>2, EntriesOf DEF Ahead
      <4> QED BY <4>3 DEF Apart
    <3> QED BY <3>1, <3>2
  <2>6. c \subseteq V /\ c # {}
    BY <2>3 DEF Hit
  <2> HIDE DEF c
  <2>7. ChosenOK(l, c)
    BY <1>4, <2>5, <2>6 DEF ChosenOK, ConvexIn
  <2>8. Sided(c, {})
    BY <1>2, <2>3 DEF Sided
  <2>9. in \in SetupOtherInputs(l, c)
    BY <2>1 DEF c
  <2> QED BY <2>7, <2>8, <2>9, SetupSound
<1> QED BY <1>1, <1>3, <1>4

-----------------------------------------------------------------------------
(* What the steps do to the order, as facts about versions. *)

(* Apart is inherited by subsets, and symmetric.                            *)
LEMMA ApartSubsets ==
  ASSUME NEW A, NEW B, Apart(A, B), NEW C, C \subseteq A, NEW D, D \subseteq B
  PROVE  Apart(C, D) /\ Apart(D, C)
BY DEF Apart, Ahead

(* Newer is inherited by subsets.                                           *)
LEMMA NewerSubsets ==
  ASSUME NEW A, NEW B, Newer(A, B), NEW C, C \subseteq A, NEW D, D \subseteq B
  PROVE  Newer(C, D)
BY DEF Newer

(* MemoryOK survives the loss of stored entries.                            *)
LEMMA MemoryShrinks ==
  ASSUME NEW M, NEW I, NEW v, NEW n, MemoryOK(M, I, v, n),
         NEW w, Stored(w) \subseteq Stored(v)
  PROVE  MemoryOK(M, I, w, n)
<1> DEFINE E == M \union I \union Stored(v)
           D == M \union I \union Stored(w)
<1>1. D \subseteq E
  OBVIOUS
<1>2. Newer(M \union I, Stored(w))
  BY NewerSubsets DEF MemoryOK
<1>3. /\ \A e \in D : e.s <= n
      /\ \A e, x \in D : e.s = x.s => e = x
  BY <1>1 DEF MemoryOK
<1> QED BY <1>2, <1>3 DEF MemoryOK

(* The files of two levels are replaced: w is v without the inputs, and     *)
(* with the files of new at level l + 1.                                    *)
Replaced(v, w, l, in, new) ==
  /\ w[l] = v[l] \ in[1]
  /\ w[l + 1] = (v[l + 1] \ in[2]) \union new
  /\ \A m \in Levels : m # l /\ m # l + 1 => w[m] = v[m]

(* Replacing sound inputs by files made of their entries keeps the order of *)
(* the levels.                                                              *)
LEMMA ReplaceKeepsOrder ==
  ASSUME NEW v, NEW w, NEW n, VersionOK(v, n), InOrder(v),
         NEW l \in 0..(NumLevels - 2), NEW in, SoundInputs(v, l, in),
         NEW new, Replaced(v, w, l, in, new),
         \A o \in new : /\ FileOK(o)
                        /\ o.entries \subseteq MergedEntries(in[1] \union in[2]),
         \A o, p \in new : o # p => Apart(o.entries, p.entries)
  PROVE  VersionOK(w, n) /\ InOrder(w) /\ Stored(w) \subseteq Stored(v)
<1> DEFINE E == MergedEntries(in[1] \union in[2])
<1>1. /\ l \in Levels /\ l + 1 \in Levels /\ l # l + 1 /\ l \in Nat /\ l + 1 # 0
      /\ 0 \in Levels
  BY LevelsFact, LevelsAssumption DEF Levels
<1>2. /\ in[1] \subseteq v[l] /\ in[2] \subseteq v[l + 1]
      /\ \A g \in v[l + 1] \ in[2] : Apart(g.entries, E)
      /\ \A g \in v[l] \ in[1] : Newer(g.entries, E)
  BY DEF SoundInputs
<1>3. /\ w[l] = v[l] \ in[1]
      /\ w[l + 1] = (v[l + 1] \ in[2]) \union new
      /\ \A m \in Levels : m # l /\ m # l + 1 => w[m] = v[m]
  BY DEF Replaced
<1>4. \A e \in E : e \in MergedEntries(v[l]) \/ e \in MergedEntries(v[l + 1])
  BY <1>2 DEF MergedEntries
<1>5. \A o \in new : FileOK(o) /\ o.entries \subseteq E
  OBVIOUS
<1> HIDE DEF E
<1>6. \A m \in Levels : \A f \in w[m] : f \in v[m] \/ (m = l + 1 /\ f \in new)
  BY <1>1, <1>3
<1>7. VersionOK(w, n)
  BY <1>1, <1>5, <1>6 DEF VersionOK
<1>8. ASSUME NEW m \in Levels, NEW a \in MergedEntries(w[m])
      PROVE  a \in MergedEntries(v[m]) \/ (m = l + 1 /\ a \in E)
  <2>1. PICK f \in w[m] : a \in f.entries
    BY EntriesOf
  <2>2. CASE f \in v[m]
    BY <2>1, <2>2, EntriesWithin
  <2>3. CASE m = l + 1 /\ f \in new
    BY <1>5, <2>1, <2>3
  <2> QED BY <1>6, <2>2, <2>3
<1>9. Stored(w) \subseteq Stored(v)
  <2>1. \A m \in Levels : MergedEntries(v[m]) \subseteq Stored(v)
    BY DEF MergedEntries, Stored
  <2>2. ASSUME NEW a \in Stored(w) PROVE a \in Stored(v)
    <3>1. PICK m \in Levels : a \in MergedEntries(w[m])
      BY DEF MergedEntries, Stored
    <3> QED BY <1>1, <1>4, <1>8, <2>1, <3>1
  <2> QED BY <2>2
<1>10. ASSUME NEW m \in Levels, m # 0, NEW f \in w[m], NEW g \in w[m], f # g
       PROVE  Apart(f.entries, g.entries)
  <2>1. CASE f \in v[m] /\ g \in v[m]
    BY <1>10, <2>1 DEF InOrder
  <2>2. ASSUME m = l + 1, NEW o \in new, NEW h \in w[m], h # o
        PROVE  Apart(o.entries, h.entries) /\ Apart(h.entries, o.entries)
    <3>1. CASE h \in new
      BY <2>2, <3>1
    <3>2. CASE h \in v[l + 1] \ in[2]
      BY <1>2, <1>5, <3>2, ApartSubsets
    <3> QED BY <1>3, <2>2, <3>1, <3>2
  <2> QED BY <1>6, <1>10, <2>1, <2>2
<1>11. ASSUME NEW f \in w[0], NEW g \in w[0], f.num > g.num
       PROVE  Newer(f.entries, g.entries)
  <2>1. f \in v[0] /\ g \in v[0]
    BY <1>1, <1>6
  <2> QED BY <1>11, <2>1 DEF InOrder
<1>12. ASSUME NEW p \in Levels, NEW q \in Levels, p < q,
              NEW a \in MergedEntries(w[p]), NEW b \in MergedEntries(w[q]),
              a.k = b.k
       PROVE  a.s > b.s
  <2>0. p \in Int /\ q \in Int
    BY LevelsAssumption DEF Levels
  <2>1. \A i, j \in Levels : i < j =>
          \A x \in MergedEntries(v[i]), y \in MergedEntries(v[j]) :
            x.k = y.k => x.s > y.s
    BY DEF InOrder, Newer
  <2>2. CASE a \in MergedEntries(v[p]) /\ b \in MergedEntries(v[q])
    BY <1>12, <2>1, <2>2
  <2>3. CASE p = l + 1 /\ a \in E
    <3>1. l < q /\ l + 1 < q /\ q # l + 1
      BY <1>1, <1>12, <2>0, <2>3
    <3>2. b \in MergedEntries(v[q])
      BY <1>8, <3>1
    <3> QED BY <1>1, <1>4, <1>12, <2>1, <2>3, <3>1, <3>2
  <2>4. CASE q = l + 1 /\ b \in E
    <3>1. p # l + 1 /\ (p = l \/ (p < l /\ p < l + 1))
      BY <1>1, <1>12, <2>0, <2>4
    <3>2. CASE p = l
      <4>1. PICK g \in w[l] : a \in g.entries
        BY <3>2, EntriesOf
      <4>2. Newer(g.entries, E)
        BY <1>2, <1>3
      <4> QED BY <1>12, <2>4, <4>1, <4>2 DEF Newer
    <3>3. CASE p < l /\ p < l + 1
      <4>1. a \in MergedEntries(v[p])
        BY <1>8, <3>1
      <4> QED BY <1>1, <1>4, <1>12, <2>1, <2>4, <3>3, <4>1
    <3> QED BY <3>1, <3>2, <3>3
  <2> QED BY <1>8, <2>2, <2>3, <2>4
<1>13. InOrder(w)
  BY <1>10, <1>11, <1>12 DEF InOrder, Newer
<1> QED BY <1>7, <1>9, <1>13

(* A flushed file f at level l of w.                                        *)
Added(v, w, l, f) ==
  /\ w[l] = v[l] \union {f}
  /\ \A m \in Levels : m # l => w[m] = v[m]

(* Adding the flushed memtable on level 0, or deeper where nothing overlaps *)
(* it, keeps the order of the levels.                                       *)
LEMMA AddKeepsOrder ==
  ASSUME NEW v, NEW w, NEW n \in Nat, VersionOK(v, n), InOrder(v),
         NEW M, NEW I, NEW s, MemoryOK(M, I, v, s),
         NEW f, FileOK(f), f.entries = I, f.num = n,
         NEW l \in Levels, Added(v, w, l, f),
         l > 0 => \A i \in 0..l : \A g \in v[i] :
                    ~Overlaps(g, f.smallest.k, f.largest.k)
  PROVE  /\ VersionOK(w, n + 1) /\ InOrder(w) /\ MemoryOK(M, {}, w, s)
         /\ Newer(I, Stored(v))
<1>0. 0 \in Levels /\ \A m \in Levels : m \in Nat
  BY LevelsAssumption DEF Levels
<1>1. /\ w[l] = v[l] \union {f}
      /\ \A m \in Levels : m # l => w[m] = v[m]
  BY DEF Added
<1>2. \A m \in Levels : \A g \in w[m] : g \in v[m] \/ (m = l /\ g = f)
  BY <1>1
<1>3. VersionOK(w, n + 1)
  <2>1. ASSUME NEW m \in Levels, NEW g \in w[m]
        PROVE  FileOK(g) /\ (m = 0 => g.num \in Nat /\ g.num < n + 1)
    <3>1. CASE g = f
      BY <3>1
    <3>2. CASE g \in v[m]
      BY <3>2 DEF VersionOK
    <3> QED BY <1>2, <3>1, <3>2
  <2> QED BY <2>1 DEF VersionOK
<1>4. Newer(M, I) /\ Newer(M \union I, Stored(v)) /\ Newer(I, Stored(v))
  <2>1. Newer(M, I) /\ Newer(M \union I, Stored(v))
    BY DEF MemoryOK
  <2> QED BY <2>1 DEF Newer
<1>5. \A m \in Levels : MergedEntries(v[m]) \subseteq Stored(v)
  BY DEF MergedEntries, Stored
<1>6. ASSUME NEW m \in Levels
      PROVE  \A a \in MergedEntries(w[m]) :
               a \in MergedEntries(v[m]) \/ (m = l /\ a \in I)
  <2> TAKE a \in MergedEntries(w[m])
  <2>1. PICK g \in w[m] : a \in g.entries
    BY EntriesOf
  <2>2. CASE g \in v[m]
    BY <2>1, <2>2, EntriesWithin
  <2>3. CASE m = l /\ g = f
    BY <2>1, <2>3
  <2> QED BY <1>2, <2>2, <2>3
<1>7. Stored(w) = Stored(v) \union I
  <2>1. ASSUME NEW a \in Stored(w) PROVE a \in Stored(v) \union I
    <3>1. PICK m \in Levels : a \in MergedEntries(w[m])
      BY DEF MergedEntries, Stored
    <3> QED BY <1>5, <1>6, <3>1
  <2>2. ASSUME NEW a \in Stored(v) PROVE a \in Stored(w)
    <3>1. PICK m \in Levels : \E g \in v[m] : a \in g.entries
      BY DEF MergedEntries, Stored
    <3>2. v[m] \subseteq w[m]
      BY <1>1
    <3> QED BY <3>1, <3>2 DEF MergedEntries, Stored
  <2>3. ASSUME NEW a \in I PROVE a \in Stored(w)
    <3>1. f \in w[l]
      BY <1>1
    <3> QED BY <3>1 DEF MergedEntries, Stored
  <2> QED BY <2>1, <2>2, <2>3
<1>8. MemoryOK(M, {}, w, s)
  <2> DEFINE E == M \union I \union Stored(v)
             D == M \union {} \union Stored(w)
  <2>1. D = E
    BY <1>7
  <2>2. Newer(M, {}) /\ Newer(M \union {}, Stored(w))
    BY <1>4, <1>7 DEF Newer
  <2>3. /\ M \subseteq Entry /\ \A e \in E : e.s <= s
        /\ \A e, x \in E : e.s = x.s => e = x
    BY DEF MemoryOK
  <2> HIDE DEF E
  <2> QED BY <2>1, <2>2, <2>3 DEF MemoryOK
<1>9. ASSUME NEW m \in Levels, m # 0, NEW g \in w[m], NEW h \in w[m], g # h
      PROVE  Apart(g.entries, h.entries)
  <2>1. CASE g \in v[m] /\ h \in v[m]
    BY <1>9, <2>1 DEF InOrder
  <2>2. ASSUME m = l, NEW x \in v[m]
        PROVE  Apart(f.entries, x.entries) /\ Apart(x.entries, f.entries)
    <3>1. FileOK(x)
      BY DEF VersionOK
    <3>2. l > 0 /\ l \in 0..l
      BY <1>0, <1>9, <2>2
    <3>3. ~Overlaps(x, f.smallest.k, f.largest.k)
      BY <2>2, <3>2
    <3>4. Apart(f.entries, x.entries)
      BY <3>1, <3>3, NoOverlapOrdered
    <3> QED BY <3>4, ApartSubsets
  <2> QED BY <1>2, <1>9, <2>1, <2>2
<1>10. ASSUME NEW g \in w[0], NEW h \in w[0], g.num > h.num
       PROVE  Newer(g.entries, h.entries)
  <2>1. CASE g \in v[0] /\ h \in v[0]
    BY <1>10, <2>1 DEF InOrder
  <2>2. CASE g = f /\ h \in v[0]
    <3>1. h.entries \subseteq Stored(v)
      BY <1>0, <1>5, <2>2, EntriesWithin
    <3> QED BY <1>4, <2>2, <3>1, NewerSubsets
  <2>3. CASE h = f /\ g \in v[0]
    <3>1. g.num \in Nat /\ g.num < n
      BY <1>0, <2>3 DEF VersionOK
    <3> QED BY <1>10, <2>3, <3>1
  <2>4. CASE g = f /\ h = f
    BY <1>10, <2>4
  <2> QED BY <1>0, <1>2, <2>1, <2>2, <2>3, <2>4
<1>11. ASSUME NEW p \in Levels, NEW q \in Levels, p < q,
              NEW a \in MergedEntries(w[p]), NEW b \in MergedEntries(w[q]),
              a.k = b.k
       PROVE  a.s > b.s
  <2>0. p \in Nat /\ q \in Nat
    BY <1>0
  <2>1. CASE a \in MergedEntries(v[p]) /\ b \in MergedEntries(v[q])
    BY <1>11, <2>1 DEF InOrder, Newer
  <2>2. CASE a \in I /\ p = l
    <3>1. q # l
      BY <1>11, <2>0, <2>2
    <3>2. b \in Stored(v)
      BY <1>5, <1>6, <3>1
    <3> QED BY <1>4, <1>11, <2>2, <3>2 DEF Newer
  <2>3. CASE b \in I /\ q = l
    <3>1. p # l /\ l > 0 /\ p \in 0..l
      BY <1>0, <1>11, <2>0, <2>3
    <3>2. a \in MergedEntries(v[p])
      BY <1>6, <3>1
    <3>3. PICK g \in v[p] : a \in g.entries
      BY <3>2, EntriesOf
    <3>4. ~Overlaps(g, f.smallest.k, f.largest.k) /\ FileOK(g)
      BY <3>1 DEF VersionOK
    <3>5. a.k # b.k
      BY <2>3, <3>3, <3>4, NoOverlapOrdered
    <3> QED BY <1>11, <3>5
  <2> QED BY <1>6, <2>1, <2>2, <2>3
<1>12. InOrder(w)
  BY <1>9, <1>10, <1>11 DEF InOrder, Newer
<1> QED BY <1>3, <1>4, <1>8, <1>12

(* The inputs of a compaction stay sound when a file is flushed meanwhile.  *)
LEMMA AddKeepsInputs ==
  ASSUME NEW v, NEW w, NEW n, VersionOK(v, n),
         NEW f, FileOK(f), Newer(f.entries, Stored(v)),
         NEW l \in Levels, Added(v, w, l, f),
         l > 0 => \A i \in 0..l : \A g \in v[i] :
                    ~Overlaps(g, f.smallest.k, f.largest.k),
         NEW c, CompactionOK(v, c),
         c # NoCompaction => c.level \in 0..(NumLevels - 2)
  PROVE  CompactionOK(w, c)
<1> SUFFICES ASSUME c # NoCompaction PROVE SoundInputs(w, c.level, c.inputs)
  BY DEF CompactionOK
<1> DEFINE m == c.level
           in1 == c.inputs[1]
           in2 == c.inputs[2]
           E == MergedEntries(in1 \union in2)
<1>0. /\ m \in Levels /\ m + 1 \in Levels /\ m \in Nat
      /\ \A i \in Levels : i \in Nat
  BY LevelsFact, LevelsAssumption DEF Levels
<1>1. /\ in1 \subseteq v[m] /\ in2 \subseteq v[m + 1]
      /\ \A g \in v[m + 1] \ in2 : Apart(g.entries, E)
      /\ \A g \in v[m] \ in1 : Newer(g.entries, E)
      /\ Solid(in1 \union in2)
  BY DEF CompactionOK, SoundInputs
<1>2. /\ w[l] = v[l] \union {f}
      /\ \A i \in Levels : i # l => w[i] = v[i]
  BY DEF Added
<1> HIDE DEF m, in1, in2
<1>3. in1 \subseteq w[m] /\ in2 \subseteq w[m + 1]
  BY <1>0, <1>1, <1>2
<1>4. ASSUME NEW g \in w[m] \ in1 PROVE Newer(g.entries, E)
  <2>1. CASE g \in v[m]
    BY <1>1, <1>4, <2>1
  <2>2. CASE g = f
    <3>1. E \subseteq Stored(v)
      BY <1>0, <1>1 DEF MergedEntries, Stored
    <3> HIDE DEF E
    <3> QED BY <2>2, <3>1, NewerSubsets
  <2> QED BY <1>0, <1>2, <2>1, <2>2
<1>5. ASSUME NEW g \in w[m + 1] \ in2 PROVE Apart(g.entries, E)
  <2>1. CASE g \in v[m + 1]
    BY <1>1, <1>5, <2>1
  <2>2. CASE g = f /\ l = m + 1
    <3> DEFINE a == f.smallest.k
               b == f.largest.k
    <3>1. a \in Keys /\ b \in Keys /\ a <= b /\ a \in Int /\ b \in Int
      BY FileKeys
    <3>2. l > 0 /\ m \in 0..l /\ m + 1 \in 0..l
      BY <1>0, <2>2
    <3>3. \A x \in in1 \union in2 : ~Overlaps(x, a, b) /\ FileOK(x)
      BY <1>0, <1>1, <3>2 DEF VersionOK
    <3>4. OneSide(in1 \union in2, a, b)
      BY <1>1, <3>1, <3>3 DEF Solid, Misses
    <3>5. ASSUME \A x \in in1 \union in2 : b < x.smallest.k
          PROVE  Ahead(f.entries, E)
      <4> SUFFICES ASSUME NEW y \in f.entries, NEW e \in E PROVE Before(y, e)
        BY DEF Ahead
      <4>1. PICK x \in in1 \union in2 : e \in x.entries
        BY EntriesOf
      <4>2. /\ e \in Entry /\ e.k \in Int /\ x.smallest.k <= e.k
            /\ x.smallest.k \in Int
        BY <3>3, <4>1, FileKeys
      <4>3. y \in Entry /\ y.k \in Int /\ y.k <= b
        BY FileKeys
      <4>4. b < x.smallest.k
        BY <3>5
      <4> HIDE DEF b
      <4>5. y.k < e.k
        BY <3>1, <4>2, <4>3, <4>4
      <4> QED BY <4>2, <4>3, <4>5, BeforeOrder
    <3>6. ASSUME \A x \in in1 \union in2 : x.largest.k < a
          PROVE  Ahead(E, f.entries)
      <4> SUFFICES ASSUME NEW y \in f.entries, NEW e \in E PROVE Before(e, y)
        BY DEF Ahead
      <4>1. PICK x \in in1 \union in2 : e \in x.entries
        BY EntriesOf
      <4>2. /\ e \in Entry /\ e.k \in Int /\ e.k <= x.largest.k
            /\ x.largest.k \in Int
        BY <3>3, <4>1, FileKeys
      <4>3. y \in Entry /\ y.k \in Int /\ a <= y.k
        BY FileKeys
      <4>4. x.largest.k < a
        BY <3>6
      <4> HIDE DEF a
      <4>5. e.k < y.k
        BY <3>1, <4>2, <4>3, <4>4
      <4> QED BY <4>2, <4>3, <4>5, BeforeOrder
    <3> QED BY <2>2, <3>4, <3>5, <3>6 DEF OneSide, Apart
  <2> QED BY <1>0, <1>2, <2>1, <2>2
<1> QED BY <1>1, <1>3, <1>4, <1>5 DEF SoundInputs, m, in1, in2

-----------------------------------------------------------------------------
(* The steps keep the order. *)

(* Freeing memtables leaves mem_, and imm_ while it is held, alone.         *)
LEMMA FreeKeeps ==
  ASSUME TypeInv, NEW its, NEW held \in BOOLEAN, held => hasImm,
         memtables' = FreeMemTables(its, held)
  PROVE  /\ mem' = mem /\ imm' = imm /\ memtables'[mem] = memtables[mem]
         /\ held => memtables'[imm] = memtables[imm]
<1>1. Len(memtables') = Len(memtables)
  BY FreeType
<1>2. mem' = mem /\ imm' = imm
  BY <1>1 DEF mem, imm
<1>3. \A i \in Referenced(its, held) \cap (1..Len(memtables)) :
        memtables'[i] = memtables[i]
  BY FreeType
<1>4. Len(memtables) \in Nat /\ Len(memtables) > 0
  BY DEF TypeInv
<1>5. mem \in 1..Len(memtables) /\ mem \in Referenced(its, held)
  BY <1>4 DEF mem, Referenced
<1>6. held => imm \in 1..Len(memtables) /\ imm \in Referenced(its, held)
  <2>1. held => Len(memtables) > 1
    BY DEF TypeInv
  <2>2. Len(memtables) > 1 => imm \in 1..Len(memtables)
    BY <1>4 DEF imm, mem
  <2>3. held => imm \in Referenced(its, held)
    BY DEF Referenced
  <2> QED BY <2>1, <2>2, <2>3
<1>7. memtables'[mem] = memtables[mem]
  BY <1>3, <1>5
<1>8. held => memtables'[imm] = memtables[imm]
  BY <1>3, <1>6
<1> QED BY <1>2, <1>7, <1>8

(* Steps that change neither the entries nor the files.                     *)
LEMMA OrderUnchanged ==
  ASSUME OrderInv,
         UNCHANGED <<version, nextFile, compaction, hasImm>>,
         lastSeq' + pending' = lastSeq + pending,
         memtables'[mem'] = memtables[mem],
         hasImm => memtables'[imm'] = memtables[imm]
  PROVE  OrderInv'
<1>1. ImmEntries' = ImmEntries
  BY DEF ImmEntries
<1>2. MemoryOK(memtables'[mem'], ImmEntries', version', lastSeq' + pending')
  BY <1>1 DEF OrderInv
<1>3. hasImm' => memtables'[imm'] # {}
  BY DEF OrderInv
<1>4. VersionOK(version', nextFile') /\ InOrder(version')
      /\ CompactionOK(version', compaction')
  BY DEF OrderInv
<1> QED BY <1>2, <1>3, <1>4 DEF OrderInv

(* Snapshots and iterators do not change the tree.                          *)
LEMMA HandlesOrder ==
  ASSUME BaseInv, OrderInv,
         \/ \E i \in Snaps : GetSnapshot(i) \/ ReleaseSnapshot(i)
         \/ \E j \in Iters : DeleteIterator(j)
         \/ \E j \in Iters : \E s : NewIterator(j, s)
         \/ UNCHANGED vars
  PROVE  OrderInv'
<1>1. CASE \/ \E i \in Snaps : GetSnapshot(i) \/ ReleaseSnapshot(i)
           \/ \E j \in Iters : \E s : NewIterator(j, s)
           \/ UNCHANGED vars
  <2>1. UNCHANGED <<lastSeq, pending, memtables, hasImm, version, nextFile,
                    compaction>>
    BY <1>1 DEF GetSnapshot, ReleaseSnapshot, NewIterator, vars, writeVars,
                memVars, fileVars
  <2>2. mem' = mem /\ imm' = imm
    BY <2>1 DEF mem, imm
  <2> QED BY <2>1, <2>2, OrderUnchanged
<1>2. ASSUME NEW j \in Iters, DeleteIterator(j) PROVE OrderInv'
  <2>1. /\ memtables' = FreeMemTables(iters', hasImm)
        /\ UNCHANGED <<lastSeq, pending, hasImm, version, nextFile, compaction>>
    BY <1>2 DEF DeleteIterator, writeVars, fileVars
  <2>2. TypeInv /\ hasImm \in BOOLEAN
    BY DEF BaseInv, TypeInv
  <2>3. /\ mem' = mem /\ imm' = imm /\ memtables'[mem] = memtables[mem]
        /\ hasImm => memtables'[imm] = memtables[imm]
    BY <2>1, <2>2, FreeKeeps
  <2> QED BY <2>1, <2>3, OrderUnchanged
<1> QED BY <1>1, <1>2

(* An inserted batch is newer than everything else.                         *)
LEMMA WriteOrder ==
  ASSUME BaseInv, OrderInv, NEW b \in Batches, WriteInsert(b)
  PROVE  OrderInv'
<1> DEFINE B == BatchEntries(b)
           M == memtables[mem]
           I == ImmEntries
           S == Stored(version)
<1>1. /\ pending = 0 /\ pending' = Len(b)
      /\ memtables' = [memtables EXCEPT ![mem] = @ \union B]
      /\ UNCHANGED <<lastSeq, hasImm, version, nextFile, compaction>>
  BY DEF WriteInsert, fileVars, BatchEntries
<1>2. /\ TypeInv /\ lastSeq \in Nat /\ memtables \in Seq(SUBSET Entry)
      /\ Len(memtables) \in Nat /\ Len(memtables) > 0
  BY DEF BaseInv, TypeInv
<1>3. /\ B \subseteq Entry /\ Len(b) \in Nat
      /\ \A e \in B : lastSeq < e.s /\ e.s <= lastSeq + Len(b)
      /\ \A e, x \in B : e.s = x.s => e = x
  BY <1>2, BatchType
<1> HIDE DEF B
<1>4. /\ Len(memtables') = Len(memtables) /\ memtables'[mem] = M \union B
      /\ \A i \in 1..Len(memtables) : i # mem => memtables'[i] = memtables[i]
  <2>1. mem \in DOMAIN memtables /\ DOMAIN memtables = 1..Len(memtables)
    BY <1>2 DEF mem
  <2> QED BY <1>1, <1>2, <2>1
<1>5. mem' = mem /\ imm' = imm
  BY <1>4 DEF mem, imm
<1>6. hasImm => memtables'[imm] = memtables[imm]
  <2>1. hasImm => Len(memtables) > 1
    BY <1>2 DEF TypeInv
  <2>2. Len(memtables) > 1 => imm \in 1..Len(memtables) /\ imm # mem
    BY <1>2 DEF imm, mem
  <2> QED BY <1>4, <2>1, <2>2
<1>7. ImmEntries' = I
  BY <1>1, <1>5, <1>6 DEF ImmEntries
<1>8. MemoryOK(M, I, version, lastSeq)
  <2>1. lastSeq + pending = lastSeq
    BY <1>1, <1>2
  <2> QED BY <2>1 DEF OrderInv
<1>9. Distinct(M \union I \union S)
  BY StoredDistinct DEF BaseInv
<1> HIDE DEF M, I, S
<1>10. MemoryOK(M \union B, I, version, lastSeq + Len(b))
  <2> DEFINE E == M \union I \union S
             D == (M \union B) \union I \union S
  <2>1. /\ M \subseteq Entry /\ I \subseteq Entry
        /\ Newer(M, I) /\ Newer(M \union I, S)
        /\ \A e \in E : e.s <= lastSeq
        /\ \A e, x \in E : e.s = x.s => e = x
    BY <1>8 DEF MemoryOK, S
  <2>2. \A e \in E : e.s \in Nat
    BY <1>9, EntryType DEF Distinct
  <2>3. \A e \in B : e.s \in Nat
    BY <1>3, EntryType
  <2> HIDE DEF E
  <2>4. \A e \in B, x \in E : e.s > x.s
    BY <1>2, <1>3, <2>1, <2>2, <2>3
  <2>5. \A e \in D : e \in B \/ e \in E
    BY DEF E
  <2>6. \A e \in D : e.s <= lastSeq + Len(b)
    BY <1>2, <1>3, <2>1, <2>2, <2>5
  <2>7. ASSUME NEW e \in D, NEW x \in D, e.s = x.s PROVE e = x
    BY <1>3, <2>1, <2>2, <2>3, <2>4, <2>5, <2>7
  <2>8. Newer(M \union B, I) /\ Newer((M \union B) \union I, S)
    BY <2>1, <2>4 DEF Newer, E
  <2> QED BY <1>3, <2>1, <2>6, <2>7, <2>8 DEF MemoryOK, S
<1>11. MemoryOK(memtables'[mem'], ImmEntries', version', lastSeq' + pending')
  BY <1>1, <1>4, <1>5, <1>7, <1>10
<1>12. hasImm' => memtables'[imm'] # {}
  BY <1>1, <1>5, <1>6 DEF OrderInv
<1> QED BY <1>1, <1>11, <1>12 DEF OrderInv

(* Publishing LastSequence() keeps OrderInv.                                *)
LEMMA PublishOrder ==
  ASSUME BaseInv, OrderInv, WritePublish
  PROVE  OrderInv'
<1>1. /\ lastSeq' = lastSeq + pending /\ pending' = 0
      /\ UNCHANGED <<memtables, hasImm, version, nextFile, compaction>>
  BY DEF WritePublish, memVars, fileVars
<1>2. lastSeq' + pending' = lastSeq + pending
  BY <1>1 DEF BaseInv, TypeInv
<1>3. mem' = mem /\ imm' = imm
  BY <1>1 DEF mem, imm
<1> QED BY <1>1, <1>2, <1>3, OrderUnchanged

(* Switching memtables keeps OrderInv.                                      *)
LEMMA SwitchOrder ==
  ASSUME BaseInv, OrderInv, SwitchMemTable
  PROVE  OrderInv'
<1> DEFINE M == memtables[mem]
<1>1. /\ hasImm = FALSE /\ hasImm' = TRUE /\ M # {}
      /\ memtables' = Append(memtables, {})
      /\ UNCHANGED <<lastSeq, pending, version, nextFile, compaction>>
  BY DEF SwitchMemTable, writeVars, fileVars, BaseInv, TypeInv
<1>2. memtables \in Seq(SUBSET Entry) /\ Len(memtables) \in Nat
      /\ Len(memtables) > 0
  BY DEF BaseInv, TypeInv
<1>3. /\ Len(memtables') = Len(memtables) + 1
      /\ memtables'[Len(memtables) + 1] = {}
      /\ memtables'[Len(memtables)] = memtables[Len(memtables)]
  BY <1>1, <1>2
<1>4. mem' = mem + 1 /\ imm' = mem /\ memtables'[mem'] = {} /\ memtables'[imm'] = M
  BY <1>2, <1>3 DEF mem, imm
<1>5. ImmEntries = {} /\ ImmEntries' = M
  BY <1>1, <1>4 DEF ImmEntries
<1>6. MemoryOK(M, {}, version, lastSeq + pending)
  BY <1>5 DEF OrderInv
<1> HIDE DEF M
<1>7. MemoryOK({}, M, version, lastSeq + pending)
  BY <1>6 DEF MemoryOK, Newer
<1>8. MemoryOK(memtables'[mem'], ImmEntries', version', lastSeq' + pending')
  BY <1>1, <1>4, <1>5, <1>7
<1>9. hasImm' => memtables'[imm'] # {}
  BY <1>1, <1>4
<1> QED BY <1>1, <1>8, <1>9 DEF OrderInv

(* CompactMemTable keeps OrderInv, also in the middle of a compaction.      *)
LEMMA FlushOrder ==
  ASSUME BaseInv, OrderInv, Flush
  PROVE  OrderInv'
<1> DEFINE I == memtables[imm]
           f == File(nextFile, I)
<1>1. /\ hasImm /\ hasImm' = FALSE /\ nextFile' = nextFile + 1
      /\ memtables' = FreeMemTables(iters, FALSE)
      /\ UNCHANGED <<lastSeq, pending, compaction>>
  BY FlushStep DEF BaseInv
<1>2. PICK l \in PickLevelForMemTableOutput(f.smallest.k, f.largest.k) :
        /\ l \in Levels
        /\ version' = [m \in Levels |->
             IF m = l THEN version[m] \union {f} ELSE version[m]]
  BY FlushStep DEF BaseInv
<1>3. l > 0 => \A i \in 0..l : \A g \in version[i] :
                 ~Overlaps(g, f.smallest.k, f.largest.k)
  BY DEF PickLevelForMemTableOutput, OverlapInLevel
<1>4. ImmEntries = I /\ I # {} /\ nextFile \in Nat
  BY <1>1 DEF ImmEntries, OrderInv, BaseInv, TypeInv
<1>5. Distinct(I)
  <2>1. Distinct(memtables[mem] \union ImmEntries \union Stored(version))
    BY StoredDistinct DEF BaseInv
  <2> QED BY <1>4, <2>1, DistinctSubset
<1>6. FileOK(f) /\ f.entries = I /\ f.num = nextFile
  BY <1>4, <1>5, FileMade
<1> HIDE DEF f, I
<1>7. Added(version, version', l, f)
  BY <1>2 DEF Added
<1>8. /\ VersionOK(version, nextFile) /\ InOrder(version)
      /\ MemoryOK(memtables[mem], I, version, lastSeq + pending)
      /\ CompactionOK(version, compaction)
  BY <1>4 DEF OrderInv
<1>9. /\ VersionOK(version', nextFile + 1) /\ InOrder(version')
      /\ MemoryOK(memtables[mem], {}, version', lastSeq + pending)
      /\ Newer(I, Stored(version))
  BY <1>2, <1>3, <1>4, <1>6, <1>7, <1>8, AddKeepsOrder
<1>10. CompactionOK(version', compaction)
  <2>1. compaction # NoCompaction => compaction.level \in 0..(NumLevels - 2)
    BY DEF BaseInv, CompactionType
  <2>2. Newer(f.entries, Stored(version))
    BY <1>6, <1>9
  <2> QED BY <1>2, <1>3, <1>6, <1>7, <1>8, <2>1, <2>2, AddKeepsInputs
<1>11. mem' = mem /\ memtables'[mem] = memtables[mem]
  BY <1>1, FreeKeeps DEF BaseInv
<1>12. ImmEntries' = {}
  BY <1>1 DEF ImmEntries
<1>13. MemoryOK(memtables'[mem'], ImmEntries', version', lastSeq' + pending')
  BY <1>1, <1>9, <1>11, <1>12
<1> QED BY <1>1, <1>9, <1>10, <1>13 DEF OrderInv

(* A compaction that starts with sound inputs keeps OrderInv.               *)
LEMMA StartOrder ==
  ASSUME BaseInv, OrderInv, NEW l \in 0..(NumLevels - 2), NEW in,
         SoundInputs(version, l, in), StartCompaction(l, in),
         UNCHANGED <<lastSeq, pending, memtables, hasImm, version, nextFile>>
  PROVE  OrderInv'
<1> DEFINE E == MergedEntries(in[1] \union in[2])
<1>1. /\ compaction'.level = l /\ compaction'.inputs = in
      /\ compaction'.outputs = {}
      /\ compaction'.todo = KeptEntries(E, SmallestSnapshot, version, l)
  BY DEF StartCompaction
<1>2. compaction'.todo \subseteq E
  BY <1>1 DEF KeptEntries
<1> HIDE DEF E
<1>3. CompactionOK(version, compaction')
  BY <1>1, <1>2 DEF CompactionOK, E
<1>4. mem' = mem /\ imm' = imm /\ ImmEntries' = ImmEntries
  BY DEF mem, imm, ImmEntries
<1> QED BY <1>3, <1>4 DEF OrderInv

(* Opening an output keeps OrderInv.                                        *)
LEMMA OpenOutputOrder ==
  ASSUME BaseInv, OrderInv, OpenOutput
  PROVE  OrderInv'
<1>1. /\ compaction # NoCompaction
      /\ compaction'.level = compaction.level
      /\ compaction'.inputs = compaction.inputs
      /\ compaction'.outputs = compaction.outputs
      /\ compaction'.todo = compaction.todo
      /\ nextFile' = nextFile + 1
      /\ UNCHANGED <<lastSeq, pending, memtables, hasImm, version>>
  BY OpenOutputStep
<1>2. CompactionOK(version, compaction')
  BY <1>1 DEF OrderInv, CompactionOK
<1>3. mem' = mem /\ imm' = imm /\ ImmEntries' = ImmEntries
  BY <1>1 DEF mem, imm, ImmEntries
<1>4. VersionOK(version, nextFile + 1)
  <2>1. nextFile \in Nat /\ VersionOK(version, nextFile)
    BY DEF BaseInv, TypeInv, OrderInv
  <2> QED BY <2>1 DEF VersionOK
<1> QED BY <1>1, <1>2, <1>3, <1>4 DEF OrderInv

(* The entries of a running compaction are distinct.                        *)
LEMMA CompactionDistinct ==
  ASSUME BaseInv, OrderInv, compaction # NoCompaction
  PROVE  /\ Distinct(MergedEntries(compaction.inputs[1]
                                     \union compaction.inputs[2]))
         /\ compaction.level \in 0..(NumLevels - 2)
<1> DEFINE l == compaction.level
           in == compaction.inputs
<1>1. l \in 0..(NumLevels - 2)
  BY DEF BaseInv, CompactionType
<1>2. in[1] \subseteq version[l] /\ in[2] \subseteq version[l + 1]
  BY DEF OrderInv, CompactionOK, SoundInputs
<1>3. Good(version[l] \union version[l + 1])
  BY <1>1, LevelsFact, StoredDistinct DEF BaseInv
<1> HIDE DEF l, in
<1>4. in[1] \union in[2] \subseteq version[l] \union version[l + 1]
  BY <1>2
<1>5. Good(in[1] \union in[2])
  BY <1>3, <1>4, GoodSubset
<1> QED BY <1>1, <1>5 DEF Good, l, in

(* Finishing an output cuts the remaining entries in two that are apart.    *)
LEMMA FinishOutputOrder ==
  ASSUME BaseInv, OrderInv, compaction # NoCompaction,
         NEW e \in compaction.todo, FinishOutput(e)
  PROVE  OrderInv'
<1> DEFINE c == compaction
           U == UpTo(e)
           o == File(c.outfile, U)
           E == MergedEntries(c.inputs[1] \union c.inputs[2])
<1>1. /\ compaction'.level = c.level /\ compaction'.inputs = c.inputs
      /\ compaction'.outputs = c.outputs \union {o}
      /\ compaction'.todo = c.todo \ U
      /\ UNCHANGED <<lastSeq, pending, memtables, hasImm, version, nextFile>>
  BY FinishOutputStep
<1>2. /\ SoundInputs(version, c.level, c.inputs) /\ c.todo \subseteq E
      /\ \A p \in c.outputs : /\ FileOK(p) /\ p.entries \subseteq E
                              /\ Ahead(p.entries, c.todo)
      /\ \A p, q \in c.outputs : p # q => Apart(p.entries, q.entries)
  BY DEF OrderInv, CompactionOK
<1>3. Distinct(E)
  BY CompactionDistinct
<1> HIDE DEF E
<1>4. U \subseteq c.todo /\ e \in U
  BY DEF UpTo
<1>5. Distinct(U) /\ U # {} /\ Distinct(c.todo) /\ c.todo \subseteq Entry
  <2>1. Distinct(c.todo)
    BY <1>2, <1>3, DistinctSubset
  <2> QED BY <1>4, <2>1, DistinctSubset DEF Distinct
<1>6. FileOK(o) /\ o.entries = U
  <2> HIDE DEF U
  <2> QED BY <1>5, FileMade
<1>7. Ahead(U, c.todo \ U)
  <2> SUFFICES ASSUME NEW x \in U, NEW y \in c.todo \ U PROVE Before(x, y)
    BY DEF Ahead
  <2>1. y # e /\ ~Before(y, e) /\ (x = e \/ Before(x, e))
    BY DEF UpTo
  <2>2. Before(e, y)
    BY <1>5, <2>1, DistinctTotal
  <2>3. x \in Entry /\ y \in Entry /\ e \in Entry
    BY <1>4, <1>5
  <2> QED BY <2>1, <2>2, <2>3, BeforeOrder
<1> HIDE DEF o, U
<1>8. \A p \in c.outputs \union {o} :
        /\ FileOK(p) /\ p.entries \subseteq E
        /\ Ahead(p.entries, c.todo \ U)
  BY <1>2, <1>4, <1>6, <1>7 DEF Ahead
<1>9. \A p \in c.outputs : Ahead(p.entries, o.entries)
  BY <1>2, <1>4, <1>6 DEF Ahead
<1>10. \A p, q \in c.outputs \union {o} : p # q => Apart(p.entries, q.entries)
  BY <1>2, <1>9 DEF Apart
<1>11. CompactionOK(version, compaction')
  BY <1>1, <1>2, <1>8, <1>10 DEF CompactionOK, E
<1>12. mem' = mem /\ imm' = imm /\ ImmEntries' = ImmEntries
  BY <1>1 DEF mem, imm, ImmEntries
<1> QED BY <1>1, <1>11, <1>12 DEF OrderInv

(* A step that replaces the inputs and leaves no compaction running.        *)
LEMMA ReplaceOrder ==
  ASSUME BaseInv, OrderInv, NEW l \in 0..(NumLevels - 2), NEW in,
         SoundInputs(version, l, in), NEW new,
         Replaced(version, version', l, in, new),
         \A o \in new : /\ FileOK(o)
                        /\ o.entries \subseteq MergedEntries(in[1] \union in[2]),
         \A o, p \in new : o # p => Apart(o.entries, p.entries),
         compaction' = NoCompaction,
         UNCHANGED <<lastSeq, pending, memtables, hasImm, nextFile>>
  PROVE  OrderInv'
<1>1. /\ VersionOK(version, nextFile) /\ InOrder(version)
      /\ MemoryOK(memtables[mem], ImmEntries, version, lastSeq + pending)
  BY DEF OrderInv
<1>2. /\ VersionOK(version', nextFile) /\ InOrder(version')
      /\ Stored(version') \subseteq Stored(version)
  BY <1>1, ReplaceKeepsOrder
<1>3. MemoryOK(memtables[mem], ImmEntries, version', lastSeq + pending)
  BY <1>1, <1>2, MemoryShrinks
<1>4. mem' = mem /\ imm' = imm /\ ImmEntries' = ImmEntries
  BY DEF mem, imm, ImmEntries
<1>5. CompactionOK(version', compaction')
  BY DEF CompactionOK
<1>6. MemoryOK(memtables'[mem'], ImmEntries', version', lastSeq' + pending')
  BY <1>3, <1>4
<1>7. hasImm' => memtables'[imm'] # {}
  BY <1>4 DEF OrderInv
<1> QED BY <1>2, <1>5, <1>6, <1>7 DEF OrderInv

(* A trivial move replaces a file by itself one level down.                 *)
LEMMA TrivialMoveOrder ==
  ASSUME BaseInv, OrderInv, NEW l \in 0..(NumLevels - 2), TrivialMove(l)
  PROVE  OrderInv'
<1>1. /\ compaction' = NoCompaction
      /\ UNCHANGED <<lastSeq, pending, memtables, hasImm, nextFile>>
  BY TrivialMoveStep
<1>2. PICK in \in PickCompaction(l) :
        /\ Cardinality(in[1]) = 1 /\ in[2] = {} /\ in[1] \subseteq version[l]
        /\ version' = [m \in Levels |->
             CASE m = l -> version[m] \ in[1]
               [] m = l + 1 -> version[m] \union in[1]
               [] OTHER -> version[m]]
  BY TrivialMoveStep
<1>3. SoundInputs(version, l, in)
  BY PickSound DEF BaseInv
<1>4. l \in Levels /\ l + 1 \in Levels /\ l # l + 1
  BY LevelsFact
<1>5. Replaced(version, version', l, in, in[1])
  BY <1>2, <1>4 DEF Replaced
<1>6. \A o \in in[1] : /\ FileOK(o)
                       /\ o.entries \subseteq MergedEntries(in[1] \union in[2])
  BY <1>2, <1>4, EntriesWithin DEF OrderInv, VersionOK
<1>7. \A o, p \in in[1] : o = p
  <2>1. IsFiniteSet(in[1])
    BY <1>2, <1>4, FS_Subset DEF BaseInv, FinitelyMany
  <2>2. PICK x : in[1] = {x}
    BY <1>2, <2>1, FS_Singleton
  <2> QED BY <2>2
<1>8. PICK new : new = in[1]
  OBVIOUS
<1>9. /\ Replaced(version, version', l, in, new)
      /\ \A o \in new : /\ FileOK(o)
                        /\ o.entries \subseteq MergedEntries(in[1] \union in[2])
      /\ \A o, p \in new : o # p => Apart(o.entries, p.entries)
  BY <1>5, <1>6, <1>7, <1>8
<1> QED BY <1>1, <1>3, <1>9, ReplaceOrder

(* Installing the outputs keeps OrderInv.                                   *)
LEMMA InstallOrder ==
  ASSUME BaseInv, OrderInv, InstallCompaction
  PROVE  OrderInv'
<1> DEFINE c == compaction
           rest == IF c.todo = {} THEN {} ELSE {File(c.outfile, c.todo)}
           new == c.outputs \union rest
           E == MergedEntries(c.inputs[1] \union c.inputs[2])
<1>1. /\ c # NoCompaction /\ c.level \in 0..(NumLevels - 2)
      /\ version' = [m \in Levels |->
           CASE m = c.level -> version[m] \ c.inputs[1]
             [] m = c.level + 1 ->
                  (version[m] \ c.inputs[2]) \union c.outputs \union rest
             [] OTHER -> version[m]]
      /\ compaction' = NoCompaction
      /\ UNCHANGED <<lastSeq, pending, memtables, hasImm, nextFile>>
  BY InstallStep
<1>2. /\ SoundInputs(version, c.level, c.inputs) /\ c.todo \subseteq E
      /\ \A p \in c.outputs : /\ FileOK(p) /\ p.entries \subseteq E
                              /\ Ahead(p.entries, c.todo)
      /\ \A p, q \in c.outputs : p # q => Apart(p.entries, q.entries)
  BY <1>1 DEF OrderInv, CompactionOK
<1>3. Distinct(c.todo)
  BY <1>1, <1>2, CompactionDistinct, DistinctSubset
<1>4. \A o \in rest : FileOK(o) /\ o.entries = c.todo /\ rest = {o}
  <2>1. CASE c.todo = {}
    BY <2>1
  <2>2. CASE c.todo # {}
    <3>1. rest = {File(c.outfile, c.todo)}
      BY <2>2
    <3>2. /\ FileOK(File(c.outfile, c.todo))
          /\ File(c.outfile, c.todo).entries = c.todo
      BY <1>3, <2>2, FileMade
    <3> HIDE DEF rest
    <3> QED BY <3>1, <3>2
  <2> QED BY <2>1, <2>2
<1> HIDE DEF rest, E
<1>5. \A o \in new : FileOK(o) /\ o.entries \subseteq E
  BY <1>2, <1>4
<1>6. \A o, p \in new : o # p => Apart(o.entries, p.entries)
  <2>1. \A p \in c.outputs, o \in rest : Ahead(p.entries, o.entries)
    BY <1>2, <1>4
  <2> QED BY <1>2, <1>4, <2>1 DEF Apart
<1>7. /\ c.level \in Levels /\ c.level + 1 \in Levels
      /\ c.level # c.level + 1
  BY <1>1, LevelsFact
<1>8. Replaced(version, version', c.level, c.inputs, new)
  BY <1>1, <1>7 DEF Replaced
<1> HIDE DEF new, c
<1> QED BY <1>1, <1>2, <1>5, <1>6, <1>8, ReplaceOrder DEF E

(* OrderInv holds at first.                                                 *)
LEMMA InitOrder == Init => OrderInv
<1> SUFFICES ASSUME Init PROVE OrderInv
  OBVIOUS
<1>1. /\ lastSeq = 0 /\ pending = 0 /\ memtables = <<{}>> /\ hasImm = FALSE
      /\ version = [l \in Levels |-> {}] /\ compaction = NoCompaction
  BY DEF Init
<1>2. memtables[mem] = {} /\ ImmEntries = {}
  BY <1>1 DEF mem, ImmEntries
<1>3. \A l \in Levels : version[l] = {}
  BY <1>1
<1>4. MergedEntries({}) = {} /\ Stored(version) = {} /\ 0 \in Levels
  BY <1>3, LevelsAssumption DEF MergedEntries, Stored, Levels
<1>5. VersionOK(version, nextFile) /\ InOrder(version)
  BY <1>3, <1>4 DEF VersionOK, InOrder, Newer
<1>6. MemoryOK({}, {}, version, lastSeq + pending)
  BY <1>4 DEF MemoryOK, Newer
<1> QED BY <1>1, <1>2, <1>5, <1>6 DEF OrderInv, CompactionOK

(* Every step keeps OrderInv, if manual ranges are narrow.                  *)
LEMMA NextOrder ==
  ASSUME NarrowRanges
  PROVE  BaseInv /\ OrderInv /\ [Next]_vars => OrderInv'
<1> SUFFICES ASSUME BaseInv, OrderInv, [Next]_vars PROVE OrderInv'
  OBVIOUS
<1>1. CASE \E b \in Batches : WriteInsert(b)
  BY <1>1, WriteOrder
<1>2. CASE WritePublish
  BY <1>2, PublishOrder
<1>3. CASE SwitchMemTable
  BY <1>3, SwitchOrder
<1>4. CASE \/ \E i \in Snaps : GetSnapshot(i) \/ ReleaseSnapshot(i)
           \/ \E j \in Iters : DeleteIterator(j)
           \/ \E j \in Iters : \E s : NewIterator(j, s)
           \/ UNCHANGED vars
  BY <1>4, HandlesOrder
<1>5. CASE Flush
  BY <1>5, FlushOrder
<1>6. ASSUME NEW l \in 0..(NumLevels - 2), AutoCompaction(l) PROVE OrderInv'
  <2>1. PICK in \in PickCompaction(l) : StartCompaction(l, in)
    BY <1>6 DEF AutoCompaction
  <2>2. UNCHANGED <<lastSeq, pending, memtables, hasImm, version, nextFile>>
    BY <1>6 DEF AutoCompaction, writeVars, memVars, fileVars
  <2>3. SoundInputs(version, l, in)
    BY PickSound DEF BaseInv
  <2> QED BY <2>1, <2>2, <2>3, StartOrder
<1>7. ASSUME NEW l \in 0..(NumLevels - 2), NEW r \in ManualRanges,
             ManualCompaction(l, r)
      PROVE  OrderInv'
  <2>1. PICK in \in CompactRange(l, r[1], r[2]) : StartCompaction(l, in)
    BY <1>7 DEF ManualCompaction
  <2>2. UNCHANGED <<lastSeq, pending, memtables, hasImm, version, nextFile>>
    BY <1>7 DEF ManualCompaction, writeVars, memVars, fileVars
  <2>3. /\ r[1] \in Keys /\ r[2] \in Keys
        /\ \A k \in Keys : ~(r[1] < k /\ k < r[2])
    BY BoundsAssumption DEF NarrowRanges
  <2>4. SoundInputs(version, l, in)
    BY <2>3, ManualSound DEF BaseInv
  <2> QED BY <2>1, <2>2, <2>4, StartOrder
<1>8. ASSUME NEW l \in 0..(NumLevels - 2), TrivialMove(l) PROVE OrderInv'
  BY <1>8, TrivialMoveOrder
<1>9. CASE OpenOutput
  BY <1>9, OpenOutputOrder
<1>10. CASE compaction # NoCompaction /\ \E e \in compaction.todo : FinishOutput(e)
  BY <1>10, FinishOutputOrder
<1>11. CASE InstallCompaction
  BY <1>11, InstallOrder
<1> QED BY <1>1, <1>2, <1>3, <1>4, <1>5, <1>6, <1>7, <1>8, <1>9, <1>10, <1>11
           DEF Next

(* OrderInv contains what LevelsOrdered says.                               *)
LEMMA OrderShown == OrderInv => LevelsOrdered
<1> SUFFICES ASSUME OrderInv PROVE LevelsDisjoint /\ NewerAbove
  BY DEF LevelsOrdered
<1>1. VersionOK(version, nextFile) /\ InOrder(version)
      /\ MemoryOK(memtables[mem], ImmEntries, version, lastSeq + pending)
  BY DEF OrderInv
<1>2. ASSUME NEW l \in Levels \ {0}, NEW f \in version[l], NEW g \in version[l],
             f # g
      PROVE  Before(f.largest, g.smallest) \/ Before(g.largest, f.smallest)
  <2>1. FileOK(f) /\ FileOK(g) /\ Apart(f.entries, g.entries)
    BY <1>1, <1>2 DEF VersionOK, InOrder
  <2> QED BY <2>1, ApartEnds DEF Apart
<1>3. Newer(memtables[mem], ImmEntries)
      /\ Newer(memtables[mem] \union ImmEntries, Stored(version))
  BY <1>1 DEF MemoryOK
<1>4. NewerAbove
  <2>1. hasImm => \A a \in memtables[mem], b \in memtables[imm] :
                    a.k = b.k => a.s > b.s
    BY <1>3 DEF ImmEntries, Newer
  <2>2. \A a \in memtables[mem] \union (IF hasImm THEN memtables[imm] ELSE {}) :
          \A b \in MergedEntries(UNION {version[l] : l \in Levels}) :
            a.k = b.k => a.s > b.s
    BY <1>3 DEF ImmEntries, Stored, Newer
  <2>3. /\ \A f, g \in version[0] : f.num > g.num =>
             \A a \in f.entries, b \in g.entries : a.k = b.k => a.s > b.s
        /\ \A l, m \in Levels : l < m =>
             \A a \in MergedEntries(version[l]), b \in MergedEntries(version[m]) :
               a.k = b.k => a.s > b.s
    BY <1>1 DEF InOrder, Newer
  <2> QED BY <2>1, <2>2, <2>3 DEF NewerAbove
<1> QED BY <1>2, <1>4 DEF LevelsDisjoint

(* Below level 0 the files of a level never overlap, and every source that  *)
(* Get asks earlier holds the newer entries of a key, provided that no key  *)
(* lies strictly inside a range given to CompactRange: whatever is written, *)
(* switched, flushed, moved or compacted meanwhile.  Without the proviso    *)
(* the code does not keep it.                                               *)
THEOREM LevelsStayOrdered ==
  ASSUME NarrowRanges
  PROVE  Spec => []LevelsOrdered
<1>1. Init => BaseInv /\ OrderInv
  BY InitBase, InitOrder
<1>2. BaseInv /\ OrderInv /\ [Next]_vars => (BaseInv /\ OrderInv)'
  BY NextBase, NextOrder
<1>3. BaseInv /\ OrderInv => LevelsOrdered
  BY OrderShown
<1> QED BY <1>1, <1>2, <1>3, PTL DEF Spec

-----------------------------------------------------------------------------
(* Searching sets of entries. *)

(* The entries of key k that a read at sequence number s may see.           *)
Candidates(E, k, s) == {e \in E : e.k = k /\ e.s <= s}

(* If there is a visible entry there is a newest one.                       *)
LEMMA SeekFinds ==
  ASSUME NEW E, E \subseteq Entry, NEW k, NEW s \in Nat
  PROVE  /\ Seek(E, k, s) \subseteq Candidates(E, k, s)
         /\ Seek(E, k, s) = {} <=> Candidates(E, k, s) = {}
<1> DEFINE C == Candidates(E, k, s)
           T == {s - e.s : e \in C}
<1>1. \A e \in C : e \in E /\ e.k = k /\ e.s \in Nat /\ e.s <= s
  BY EntryType DEF Candidates
<1>2. Seek(E, k, s) \subseteq C
  BY DEF Seek, Candidates
<1>3. ASSUME C # {} PROVE Seek(E, k, s) # {}
  <2> HIDE DEF C
  <2>1. T \subseteq Nat /\ T # {}
    BY <1>1, <1>3
  <2>2. PICK n \in T : \A m \in T : n <= m
    BY <2>1, LeastNumber
  <2>3. PICK e \in C : n = s - e.s
    BY <2>2
  <2>4. \A x \in C : s - e.s <= s - x.s
    BY <2>2, <2>3
  <2>5. \A x \in C : x.s <= e.s
    BY <1>1, <2>4
  <2>6. \A x \in E : x.k = k /\ x.s <= s => x \in C
    BY DEF C, Candidates
  <2>7. e \in Seek(E, k, s)
    BY <1>1, <2>5, <2>6 DEF Seek
  <2> QED BY <2>7
<1> QED BY <1>2, <1>3

(* An entry that is the newest visible one is the answer.                   *)
LEMMA SeekIs ==
  ASSUME NEW E, Distinct(E), NEW k, NEW s \in Nat,
         NEW e \in Candidates(E, k, s),
         \A x \in Candidates(E, k, s) : x.s <= e.s
  PROVE  Seek(E, k, s) = {e}
<1>1. E \subseteq Entry /\ \A x, y \in E : x.s = y.s => x = y
  BY DEF Distinct
<1>2. \A x \in E : x.s \in Nat
  BY <1>1, EntryType
<1>3. e \in Seek(E, k, s)
  BY DEF Seek, Candidates
<1>4. ASSUME NEW x \in Seek(E, k, s) PROVE x = e
  <2>1. x \in Candidates(E, k, s) /\ e \in E /\ x \in E
    BY <1>1, SeekFinds DEF Candidates
  <2>2. x.s <= e.s /\ e.s <= x.s
    BY <2>1 DEF Seek, Candidates
  <2> QED BY <1>1, <1>2, <2>1, <2>2
<1> QED BY <1>3, <1>4

(* The answer is unique.                                                    *)
LEMMA SeekOne ==
  ASSUME NEW E, Distinct(E), NEW k, NEW s \in Nat, NEW e \in Seek(E, k, s)
  PROVE  /\ Seek(E, k, s) = {e} /\ e \in Candidates(E, k, s)
         /\ \A x \in Candidates(E, k, s) : x.s <= e.s
<1>1. e \in Candidates(E, k, s) /\ \A x \in Candidates(E, k, s) : x.s <= e.s
  BY DEF Seek, Candidates
<1> QED BY <1>1, SeekIs

(* The value of an answer.                                                  *)
LEMMA ValueOne ==
  /\ ValueOf({}) = 0
  /\ \A e : ValueOf({e}) = IF e.t = "value" THEN e.s ELSE 0
<1>1. ASSUME NEW e PROVE ValueOf({e}) = IF e.t = "value" THEN e.s ELSE 0
  <2>1. CASE e.t = "value"
    <3>1. (CHOOSE x \in {e} : x.t = "value") = e
      BY <2>1
    <3> QED BY <2>1, <3>1 DEF ValueOf
  <2>2. CASE e.t # "value"
    BY <2>2 DEF ValueOf
  <2> QED BY <2>1, <2>2
<1> QED BY <1>1 DEF ValueOf

(* The answer depends on the visible entries only.                          *)
LEMMA SeekSame ==
  ASSUME NEW E, NEW D, NEW k, NEW s, NEW r,
         Candidates(E, k, s) = Candidates(D, k, r)
  PROVE  Seek(E, k, s) = Seek(D, k, r)
<1> DEFINE Newest(C) == {e \in C : \A x \in C : x.s <= e.s}
<1>1. Seek(E, k, s) = Newest(Candidates(E, k, s))
  BY DEF Seek, Candidates
<1>2. Seek(D, k, r) = Newest(Candidates(D, k, r))
  BY DEF Seek, Candidates
<1> QED BY <1>1, <1>2

-----------------------------------------------------------------------------
(* Version::Get and DBImpl::Get answer with the newest visible entry. *)

(* What the store holds for a read that starts now.                         *)
Held == memtables[mem] \union ImmEntries \union Stored(version)

(* The entries of a level are entries, each with its own sequence number.   *)
LEMMA LevelDistinct ==
  ASSUME BaseInv, OrderInv
  PROVE  /\ Distinct(Held)
         /\ \A l \in Levels : Distinct(MergedEntries(version[l]))
<1>1. Distinct(Held)
  BY StoredDistinct DEF BaseInv, Held
<1>2. ASSUME NEW l \in Levels PROVE Distinct(MergedEntries(version[l]))
  <2>1. MergedEntries(version[l]) \subseteq Stored(version)
    BY DEF MergedEntries, Stored
  <2>2. MergedEntries(version[l]) \subseteq Held
    BY <2>1 DEF Held
  <2> QED BY <1>1, <2>2, DistinctSubset
<1> QED BY <1>1, <1>2

(* Below level 0 FindFile ends on the file that has the answer, if any has. *)
LEMMA DeepGet ==
  ASSUME BaseInv, OrderInv, NEW l \in Levels \ {0}, NEW k \in Keys,
         NEW s \in Nat
  PROVE  LevelGet(version, l, k, s) = Seek(MergedEntries(version[l]), k, s)
<1> DEFINE V == version[l]
           E == MergedEntries(V)
           key == [k |-> k, s |-> s]
           reach == {f \in V : ~Before(f.largest, key)}
           reached == {g \in FindFile(V, k, s) : g.smallest.k <= k}
<1>1. LevelGet(version, l, k, s) = UNION {Seek(f.entries, k, s) : f \in reached}
  BY DEF LevelGet
<1>2. Distinct(E)
  BY LevelDistinct
<1>3. \A f \in V : FileOK(f)
  BY DEF OrderInv, VersionOK
<1>4. \A f, g \in V : f # g => Apart(f.entries, g.entries)
  BY DEF OrderInv, InOrder
<1>5. FindFile(V, k, s) =
        {f \in reach : \A g \in reach : g = f \/ Before(f.smallest, g.smallest)}
  BY DEF FindFile
<1>6. key.k = k /\ key.s = s /\ k \in Int
  BY KeysAssumption
<1>7. ASSUME NEW f \in reached PROVE f \in V
  BY <1>5
<1>8. \A f \in V : f.entries \subseteq E /\ Distinct(f.entries)
  <2>1. \A f \in V : f.entries \subseteq E
    BY DEF MergedEntries
  <2> QED BY <1>2, <2>1, DistinctSubset
<1> HIDE DEF key
<1>9. CASE Candidates(E, k, s) = {}
  <2>1. \A f \in V : Candidates(f.entries, k, s) = {}
    BY <1>8, <1>9 DEF Candidates
  <2>2. \A f \in V : Seek(f.entries, k, s) = {}
    BY <1>8, <2>1, SeekFinds DEF Distinct
  <2>3. Seek(E, k, s) = {}
    BY <1>2, <1>9, SeekFinds DEF Distinct
  <2> QED BY <1>1, <1>7, <2>2, <2>3
<1>10. CASE Candidates(E, k, s) # {}
  <2>1. PICK e \in Seek(E, k, s) : TRUE
    BY <1>2, <1>10, SeekFinds DEF Distinct
  <2>2. /\ Seek(E, k, s) = {e} /\ e \in Candidates(E, k, s)
        /\ \A x \in Candidates(E, k, s) : x.s <= e.s
    BY <1>2, <2>1, SeekOne
  <2>3. PICK f \in V : e \in f.entries
    BY <2>2 DEF Candidates, MergedEntries
  <2>4. e.k = k /\ e.s <= s /\ e \in Entry /\ e.s \in Nat
    BY <1>2, <2>2, EntryType DEF Candidates, Distinct
  <2>5. /\ f.largest \in Entry /\ f.largest.k \in Int /\ f.largest.s \in Nat
        /\ f.smallest.k <= k
        /\ f.largest = e \/ Before(e, f.largest)
    BY <1>3, <2>3, <2>4, FileKeys, EntryType DEF FileOK, IsLast
  <2>6. f \in reach
    <3>1. ~Before(f.largest, key)
      BY <1>6, <2>4, <2>5 DEF Before
    <3> QED BY <2>3, <3>1
  <2>7. ASSUME NEW g \in reach, g # f PROVE Before(f.smallest, g.smallest)
    <3>1. FileOK(f) /\ FileOK(g) /\ Apart(f.entries, g.entries) /\ g \in V
      BY <1>3, <1>4, <2>3, <2>7
    <3>2. /\ g.largest \in g.entries /\ g.smallest \in g.entries
          /\ f.smallest \in f.entries /\ g.largest \in Entry
      BY <3>1, FileKeys
    <3>3. CASE Ahead(f.entries, g.entries)
      BY <3>2, <3>3 DEF Ahead
    <3>4. CASE Ahead(g.entries, f.entries)
      <4>1. Before(g.largest, e) /\ ~Before(g.largest, key)
        BY <2>3, <2>7, <3>2, <3>4 DEF Ahead
      <4>2. g.largest.k \in Int /\ g.largest.s \in Nat
        BY <3>2, EntryType
      <4>3. g.largest.k = k /\ g.largest.s > e.s /\ g.largest.s <= s
        BY <1>6, <2>4, <4>1, <4>2 DEF Before
      <4>4. g.largest \in Candidates(E, k, s)
        BY <1>8, <3>1, <3>2, <4>3 DEF Candidates
      <4> QED BY <2>2, <2>4, <4>2, <4>3, <4>4
    <3> QED BY <3>1, <3>3, <3>4 DEF Apart
  <2>8. reached = {f}
    <3>1. f \in reached
      BY <1>5, <2>5, <2>6, <2>7
    <3>2. ASSUME NEW g \in reached, g # f PROVE FALSE
      <4>1. g \in reach /\ Before(g.smallest, f.smallest)
        BY <1>5, <2>6, <3>2
      <4>2. Before(f.smallest, g.smallest)
        BY <2>7, <3>2, <4>1
      <4>3. f.smallest \in Entry /\ g.smallest \in Entry
        BY <1>3, <2>3, <4>1, FileKeys
      <4> QED BY <4>1, <4>2, <4>3, BeforeOrder
    <3> QED BY <3>1, <3>2
  <2>9. Seek(f.entries, k, s) = {e}
    <3>1. e \in Candidates(f.entries, k, s)
      BY <2>3, <2>4 DEF Candidates
    <3>2. \A x \in Candidates(f.entries, k, s) : x.s <= e.s
      BY <1>8, <2>2, <2>3 DEF Candidates
    <3> QED BY <1>8, <2>3, <3>1, <3>2, SeekIs
  <2> QED BY <1>1, <2>2, <2>8, <2>9
<1> QED BY <1>9, <1>10

(* Files of level 0 have different numbers.                                 *)
NumbersDiffer == \A f, g \in version[0] : f.num = g.num => f = g

(* At level 0 the newest file that has an answer has the newest one.        *)
LEMMA TopGet ==
  ASSUME BaseInv, OrderInv, NumbersDiffer, NEW k \in Keys, NEW s \in Nat
  PROVE  LevelGet(version, 0, k, s) = Seek(MergedEntries(version[0]), k, s)
<1> DEFINE V == version[0]
           E == MergedEntries(V)
           hits == {f \in V : Overlaps(f, k, k) /\ Seek(f.entries, k, s) # {}}
           best == {g \in hits : \A h \in hits : h.num <= g.num}
<1>1. LevelGet(version, 0, k, s) = UNION {Seek(f.entries, k, s) : f \in best}
  BY DEF LevelGet
<1>2. 0 \in Levels
  BY LevelsAssumption DEF Levels
<1>3. Distinct(E) /\ k \in Int
  BY <1>2, LevelDistinct, KeysAssumption
<1>4. /\ \A f \in V : FileOK(f) /\ f.num \in Nat
      /\ \A f, g \in V : f.num > g.num => Newer(f.entries, g.entries)
      /\ \A f, g \in V : f.num = g.num => f = g
  BY <1>2 DEF OrderInv, VersionOK, InOrder, NumbersDiffer
<1>5. \A f \in V : f.entries \subseteq E /\ Distinct(f.entries)
  <2>1. \A f \in V : f.entries \subseteq E
    BY DEF MergedEntries
  <2> QED BY <1>3, <2>1, DistinctSubset
<1>6. CASE Candidates(E, k, s) = {}
  <2>1. \A f \in V : Candidates(f.entries, k, s) = {}
    BY <1>5, <1>6 DEF Candidates
  <2>2. \A f \in V : Seek(f.entries, k, s) = {}
    BY <1>5, <2>1, SeekFinds DEF Distinct
  <2>3. Seek(E, k, s) = {}
    BY <1>3, <1>6, SeekFinds DEF Distinct
  <2> QED BY <1>1, <2>2, <2>3
<1>7. CASE Candidates(E, k, s) # {}
  <2>1. PICK e \in Seek(E, k, s) : TRUE
    BY <1>3, <1>7, SeekFinds DEF Distinct
  <2>2. /\ Seek(E, k, s) = {e} /\ e \in Candidates(E, k, s)
        /\ \A x \in Candidates(E, k, s) : x.s <= e.s
    BY <1>3, <2>1, SeekOne
  <2>3. PICK f \in V : e \in f.entries
    BY <2>2 DEF Candidates, MergedEntries
  <2>4. e.k = k /\ e.s <= s /\ e.s \in Nat
    BY <1>3, <2>2, EntryType DEF Candidates, Distinct
  <2>5. Seek(f.entries, k, s) = {e}
    <3>1. e \in Candidates(f.entries, k, s)
      BY <2>3, <2>4 DEF Candidates
    <3>2. \A x \in Candidates(f.entries, k, s) : x.s <= e.s
      BY <1>5, <2>2, <2>3 DEF Candidates
    <3> QED BY <1>5, <2>3, <3>1, <3>2, SeekIs
  <2>6. f \in hits
    <3>1. f.smallest.k <= k /\ k <= f.largest.k
      BY <1>4, <2>3, <2>4, FileKeys
    <3> QED BY <2>3, <2>5, <3>1 DEF Overlaps
  <2>7. ASSUME NEW h \in hits PROVE h.num <= f.num
    <3>1. PICK x \in Seek(h.entries, k, s) : TRUE
      OBVIOUS
    <3>2. x \in h.entries /\ x.k = k /\ x.s <= s
      BY <3>1 DEF Seek
    <3>3. x \in Candidates(E, k, s) /\ x.s \in Nat
      BY <1>3, <1>5, <3>2, EntryType DEF Candidates, Distinct
    <3>4. ~(h.num > f.num)
      BY <1>4, <2>2, <2>3, <2>4, <3>2, <3>3 DEF Newer
    <3> QED BY <1>4, <2>3, <3>4
  <2>8. best = {f}
    <3>1. f \in best
      BY <2>6, <2>7
    <3>2. ASSUME NEW g \in best PROVE g = f
      <4>1. g.num <= f.num /\ f.num <= g.num /\ g \in V
        BY <2>6, <2>7, <3>2
      <4> QED BY <1>4, <2>3, <4>1
    <3> QED BY <3>1, <3>2
  <2> QED BY <1>1, <2>2, <2>5, <2>8
<1> QED BY <1>6, <1>7

(* The sources of a read, in the order in which Get asks them.              *)
Source(i) ==
  CASE i = 1 -> memtables[mem]
    [] i = 2 -> ImmEntries
    [] OTHER -> MergedEntries(version[i - 3])

(* Earlier sources have newer entries.                                      *)
LEMMA SourcesOrdered ==
  ASSUME BaseInv, OrderInv
  PROVE  /\ \A i \in 1..(NumLevels + 2) : Source(i) \subseteq Held
         /\ \A e \in Held : \E i \in 1..(NumLevels + 2) : e \in Source(i)
         /\ \A i, j \in 1..(NumLevels + 2) :
              i < j => Newer(Source(i), Source(j))
<1>1. NumLevels \in Nat /\ Levels = 0..(NumLevels - 1)
  BY LevelsAssumption DEF Levels
<1>2. \A l \in Levels : MergedEntries(version[l]) \subseteq Stored(version)
  BY DEF MergedEntries, Stored
<1>3. \A e \in Stored(version) : \E l \in Levels : e \in MergedEntries(version[l])
  BY DEF MergedEntries, Stored
<1>4. /\ Source(1) = memtables[mem] /\ Source(2) = ImmEntries
      /\ \A i \in 3..(NumLevels + 2) : /\ i - 3 \in Levels
                                       /\ Source(i) = MergedEntries(version[i - 3])
  BY <1>1 DEF Source
<1>5. \A i \in 1..(NumLevels + 2) : i = 1 \/ i = 2 \/ i \in 3..(NumLevels + 2)
  BY <1>1
<1>6. ASSUME NEW l \in Levels PROVE \E i \in 3..(NumLevels + 2) : i - 3 = l
  <2>1. l + 3 \in 3..(NumLevels + 2) /\ (l + 3) - 3 = l
    BY <1>1
  <2> QED BY <2>1
<1>7. 1 \in 1..(NumLevels + 2) /\ 2 \in 1..(NumLevels + 2)
      /\ 3..(NumLevels + 2) \subseteq 1..(NumLevels + 2)
  BY <1>1
<1>8. \A i \in 1..(NumLevels + 2) : Source(i) \subseteq Held
  BY <1>2, <1>4, <1>5 DEF Held
<1>9. ASSUME NEW e \in Held PROVE \E i \in 1..(NumLevels + 2) : e \in Source(i)
  <2>1. CASE e \in memtables[mem] \/ e \in ImmEntries
    BY <1>4, <1>7, <2>1
  <2>2. CASE e \in Stored(version)
    <3>1. PICK l \in Levels : e \in MergedEntries(version[l])
      BY <1>3, <2>2
    <3>2. PICK i \in 3..(NumLevels + 2) : i - 3 = l
      BY <1>6
    <3>3. e \in Source(i)
      BY <1>4, <3>1, <3>2
    <3> QED BY <1>7, <3>2, <3>3
  <2> QED BY <2>1, <2>2 DEF Held
<1>10. ASSUME NEW i \in 1..(NumLevels + 2), NEW j \in 1..(NumLevels + 2), i < j
       PROVE  Newer(Source(i), Source(j))
  <2>1. /\ Newer(memtables[mem], ImmEntries)
        /\ Newer(memtables[mem] \union ImmEntries, Stored(version))
    BY DEF OrderInv, MemoryOK
  <2>2. CASE i = 1 /\ j = 2
    BY <1>4, <2>1, <2>2
  <2>3. CASE (i = 1 \/ i = 2) /\ j \in 3..(NumLevels + 2)
    <3>1. Source(i) \subseteq memtables[mem] \union ImmEntries
      BY <1>4, <2>3
    <3>2. Source(j) \subseteq Stored(version)
      BY <1>2, <1>4, <2>3
    <3> QED BY <2>1, <3>1, <3>2 DEF Newer
  <2>4. CASE i \in 3..(NumLevels + 2) /\ j \in 3..(NumLevels + 2)
    <3>1. i - 3 \in Levels /\ j - 3 \in Levels /\ i - 3 < j - 3
      BY <1>1, <1>4, <1>10, <2>4
    <3> QED BY <1>4, <2>4, <3>1 DEF OrderInv, InOrder
  <2> QED BY <1>5, <1>10, <2>2, <2>3, <2>4
<1> QED BY <1>8, <1>9, <1>10

(* DBImpl::Get answers with the newest visible entry of all that is held.   *)
ReadsNewest ==
  \A k \in Keys : \A s \in Nat : Get(k, s) = ValueOf(Seek(Held, k, s))

LEMMA GetNewest == BaseInv /\ OrderInv /\ NumbersDiffer => ReadsNewest
<1> SUFFICES ASSUME BaseInv, OrderInv, NumbersDiffer, NEW k \in Keys,
                    NEW s \in Nat
             PROVE  Get(k, s) = ValueOf(Seek(Held, k, s))
  BY DEF ReadsNewest
<1> DEFINE N == NumLevels + 2
           a == Answers(version, k, s)
           hits == {i \in DOMAIN a : a[i] # {}}
<1>1. NumLevels \in Nat /\ Levels = 0..(NumLevels - 1)
  BY LevelsAssumption DEF Levels
<1>2. DOMAIN a = 1..N
  BY DEF Answers
<1>3. \A i \in 1..N : a[i] = Seek(Source(i), k, s)
  <2>1. SUFFICES ASSUME NEW i \in 1..N PROVE a[i] = Seek(Source(i), k, s)
    OBVIOUS
  <2>2. CASE i = 1
    BY <1>1, <2>2 DEF Answers, Source
  <2>3. CASE i = 2
    <3>1. a[i] = IF hasImm THEN Seek(memtables[imm], k, s) ELSE {}
      BY <1>1, <2>3 DEF Answers
    <3>2. Seek({}, k, s) = {}
      BY DEF Seek
    <3>3. Source(i) = ImmEntries
      BY <2>3 DEF Source
    <3> QED BY <3>1, <3>2, <3>3 DEF ImmEntries
  <2>4. CASE i # 1 /\ i # 2
    <3>1. a[i] = LevelGet(version, i - 3, k, s)
      BY <1>1, <2>4 DEF Answers
    <3>2. Source(i) = MergedEntries(version[i - 3])
      BY <2>4 DEF Source
    <3>3. i - 3 \in Levels
      BY <1>1, <2>4
    <3>4. CASE i - 3 = 0
      BY <3>1, <3>2, <3>4, TopGet
    <3>5. CASE i - 3 # 0
      BY <3>1, <3>2, <3>3, <3>5, DeepGet
    <3> QED BY <3>4, <3>5
  <2> QED BY <2>2, <2>3, <2>4
<1>4. Distinct(Held)
  BY LevelDistinct
<1>5. /\ \A i \in 1..N : Source(i) \subseteq Held
      /\ \A e \in Held : \E i \in 1..N : e \in Source(i)
      /\ \A i, j \in 1..N : i < j => Newer(Source(i), Source(j))
  BY SourcesOrdered
<1>6. \A i \in 1..N : Distinct(Source(i))
  BY <1>4, <1>5, DistinctSubset
<1>7. Get(k, s) = IF hits = {} THEN 0
                  ELSE ValueOf(a[CHOOSE i \in hits : \A j \in hits : i <= j])
  BY DEF Get
<1> HIDE DEF a, N
<1>8. CASE hits = {}
  <2>1. \A i \in 1..N : Candidates(Source(i), k, s) = {}
    <3>1. \A i \in 1..N : Seek(Source(i), k, s) = {}
      BY <1>2, <1>3, <1>8
    <3> QED BY <1>6, <3>1, SeekFinds DEF Distinct
  <2>2. Candidates(Held, k, s) = {}
    BY <1>5, <2>1 DEF Candidates
  <2>3. Seek(Held, k, s) = {}
    BY <1>4, <2>2, SeekFinds DEF Distinct
  <2> QED BY <1>7, <1>8, <2>3, ValueOne
<1>9. CASE hits # {}
  <2>1. hits \subseteq Nat
    BY <1>2
  <2>2. \E i \in hits : \A j \in hits : i <= j
    <3> HIDE DEF hits
    <3> QED BY <1>9, <2>1, LeastNumber
  <2> DEFINE i == CHOOSE n \in hits : \A j \in hits : n <= j
  <2>3. i \in hits /\ \A j \in hits : i <= j
    BY <2>2
  <2> HIDE DEF i
  <2>4. i \in 1..N /\ a[i] # {} /\ a[i] = Seek(Source(i), k, s)
    BY <1>2, <1>3, <2>3
  <2>5. PICK e \in Seek(Source(i), k, s) : TRUE
    BY <2>4
  <2>6. /\ Seek(Source(i), k, s) = {e} /\ e \in Candidates(Source(i), k, s)
        /\ \A x \in Candidates(Source(i), k, s) : x.s <= e.s
    BY <1>6, <2>4, <2>5, SeekOne
  <2>7. e \in Candidates(Held, k, s) /\ e.s \in Nat
    BY <1>4, <1>5, <2>4, <2>6, EntryType DEF Candidates, Distinct
  <2>8. ASSUME NEW x \in Candidates(Held, k, s) PROVE x.s <= e.s
    <3>1. PICK j \in 1..N : x \in Source(j)
      BY <1>5 DEF Candidates
    <3>2. x \in Candidates(Source(j), k, s) /\ x.k = k /\ e.k = k
      BY <2>6, <3>1 DEF Candidates
    <3>3. Seek(Source(j), k, s) # {}
      BY <1>6, <3>2, SeekFinds DEF Distinct
    <3>4. j \in hits
      BY <1>2, <1>3, <3>3
    <3>5. i <= j /\ i \in Nat /\ j \in Nat
      BY <2>1, <2>3, <3>4
    <3>6. x.s \in Nat
      BY <1>4, EntryType DEF Candidates, Distinct
    <3>7. CASE i = j
      BY <2>6, <3>2, <3>7
    <3>8. CASE i # j
      <4>1. Newer(Source(i), Source(j))
        BY <1>5, <2>4, <3>5, <3>8
      <4>2. e \in Source(i)
        BY <2>6 DEF Candidates
      <4> QED BY <2>7, <3>1, <3>2, <3>6, <4>1, <4>2 DEF Newer
    <3> QED BY <3>7, <3>8
  <2>9. Seek(Held, k, s) = {e}
    BY <1>4, <2>7, <2>8, SeekIs
  <2>10. Get(k, s) = ValueOf(a[i])
    BY <1>7, <1>9 DEF i
  <2> QED BY <2>4, <2>6, <2>9, <2>10
<1> QED BY <1>8, <1>9

-----------------------------------------------------------------------------
(* The invariant of the refinement. *)

(* No entry of key k lies below the output level.                           *)
NothingBelow(v, l, k) ==
  \A i \in Levels : i > l + 1 => \A x \in MergedEntries(v[i]) : x.k # k

(* Handles see published entries only, and their memtables exist.           *)
HandlesOK ==
  /\ snapshots = [i \in Snaps |-> snapshots[i]]
  /\ \A i \in Snaps : snapshots[i] # Closed =>
       snapshots[i] \in Nat /\ snapshots[i] <= lastSeq
  /\ \A j \in Iters : iters[j] # NoIter =>
       /\ iters[j].seq \in Nat /\ iters[j].seq <= lastSeq
       /\ iters[j].mems \subseteq 1..Len(memtables)

(* What is not published is one batch.                                      *)
PendingOK ==
  pending > 0 =>
    \E b \in Batches :
      /\ Len(b) = pending
      /\ {e \in memtables[mem] : e.s > lastSeq} = BatchEntries(b)

(* A compaction drops what is hidden at its smallest snapshot s, and        *)
(* deletions visible at s under which nothing is left; it keeps nothing     *)
(* that is hidden at s.                                                     *)
DropsAt(v, c, s) ==
  \A e \in Merged(c) :
    IF e \in Outcome(c) THEN ~HiddenAt(Merged(c), e, s)
    ELSE \/ HiddenAt(Merged(c), e, s)
         \/ e.t = "deletion" /\ e.s <= s /\ NothingBelow(v, c.level, e.k)

(* No reader is older than s, and nothing else is dropped.                  *)
NoReaderBefore(s) ==
  /\ s \in Nat /\ s <= lastSeq
  /\ \A i \in Snaps : snapshots[i] # Closed => s <= snapshots[i]

DropsOK ==
  compaction # NoCompaction =>
    /\ NoReaderBefore(compaction.smallestSnapshot)
    /\ DropsAt(version, compaction, compaction.smallestSnapshot)

ReadInv == NumbersDiffer /\ HandlesOK /\ PendingOK /\ DropsOK

(* SmallestSnapshot is not above any number a reader may use.               *)
LEMMA SmallestBounds ==
  ASSUME BaseInv, HandlesOK
  PROVE  NoReaderBefore(SmallestSnapshot)
<1> USE DEF NoReaderBefore
<1> DEFINE held == {snapshots[i] : i \in {j \in Snaps : snapshots[j] # Closed}}
<1>1. lastSeq \in Nat
  BY DEF BaseInv, TypeInv
<1>2. held \subseteq Nat /\ \A x \in held : x <= lastSeq
  BY DEF HandlesOK
<1>3. SmallestSnapshot = IF held = {} THEN lastSeq
                         ELSE CHOOSE s \in held : \A x \in held : s <= x
  BY DEF SmallestSnapshot
<1>4. \A i \in Snaps : snapshots[i] # Closed => snapshots[i] \in held
  OBVIOUS
<1> HIDE DEF held
<1>5. CASE held = {}
  BY <1>1, <1>3, <1>4, <1>5
<1>6. CASE held # {}
  <2>1. \E s \in held : \A x \in held : s <= x
    BY <1>2, <1>6, LeastNumber
  <2>2. SmallestSnapshot \in held /\ \A x \in held : SmallestSnapshot <= x
    BY <1>3, <1>6, <2>1
  <2> QED BY <1>2, <1>4, <2>2
<1> QED BY <1>5, <1>6

(* The drop rules of DoCompactionWork, on the version it starts from.       *)
LEMMA StartDrops ==
  ASSUME BaseInv, OrderInv, HandlesOK, NEW l \in 0..(NumLevels - 2), NEW in,
         StartCompaction(l, in)
  PROVE  DropsAt(version, compaction', SmallestSnapshot)
<1> DEFINE E == MergedEntries(in[1] \union in[2])
           s == SmallestSnapshot
<1>1. /\ compaction'.level = l /\ compaction'.inputs = in
      /\ compaction'.outputs = {}
      /\ compaction'.todo = KeptEntries(E, s, version, l)
  BY DEF StartCompaction
<1>2. Merged(compaction') = E
  BY <1>1 DEF Merged
<1>3. MergedEntries({}) = {}
  BY DEF MergedEntries
<1>4. Outcome(compaction') = KeptEntries(E, s, version, l)
  BY <1>1, <1>3 DEF Outcome
<1> HIDE DEF E, s
<1>5. ASSUME NEW e \in E, e \in KeptEntries(E, s, version, l)
      PROVE  ~HiddenAt(E, e, s)
  BY <1>5 DEF KeptEntries, DropsEntry, HiddenAt
<1>6. ASSUME NEW e \in E, e \notin KeptEntries(E, s, version, l)
      PROVE  \/ HiddenAt(E, e, s)
             \/ e.t = "deletion" /\ e.s <= s /\ NothingBelow(version, l, e.k)
  <2>1. DropsEntry(E, e, s, version, l)
    BY <1>6 DEF KeptEntries
  <2>2. IsBaseLevelForKey(version, l, e.k) => NothingBelow(version, l, e.k)
    <3> SUFFICES ASSUME IsBaseLevelForKey(version, l, e.k), NEW i \in Levels,
                        i > l + 1, NEW x \in MergedEntries(version[i])
                 PROVE  x.k # e.k
      BY DEF NothingBelow
    <3>1. i \in (l + 2)..(NumLevels - 1)
      BY LevelsAssumption DEF Levels
    <3>2. PICK f \in version[i] : x \in f.entries
      BY DEF MergedEntries
    <3>3. FileOK(f) /\ ~Overlaps(f, e.k, e.k)
      BY <3>1, <3>2 DEF IsBaseLevelForKey, OrderInv, VersionOK
    <3>4. f.smallest.k <= x.k /\ x.k <= f.largest.k
      BY <3>2, <3>3, FileKeys
    <3> QED BY <3>3, <3>4 DEF Overlaps
  <2> QED BY <2>1, <2>2 DEF DropsEntry, HiddenAt
<1> QED BY <1>1, <1>2, <1>4, <1>5, <1>6 DEF DropsAt, s

-----------------------------------------------------------------------------
(* What the maps of the refinement are. *)

View(E, s) == [k \in Keys |-> ValueOf(Seek(E, k, s))]

Pinned(M, it) == (UNION {M[i] : i \in it.mems}) \union Stored(it.version)

MapsShown ==
  /\ StoreMap = View(Held, lastSeq)
  /\ SnapMaps = [i \in Snaps |-> IF snapshots[i] = Closed THEN <<>>
                                 ELSE View(Held, snapshots[i])]
  /\ IterMaps = [j \in Iters |->
       IF iters[j] = NoIter THEN <<>>
       ELSE View(Pinned(memtables, iters[j]), iters[j].seq)]

(* The maps show the newest visible entries.                                *)
LEMMA MapsAreViews == BaseInv /\ OrderInv /\ ReadInv => MapsShown
<1> SUFFICES ASSUME BaseInv, OrderInv, ReadInv PROVE MapsShown
  OBVIOUS
<1>1. ReadsNewest /\ lastSeq \in Nat
  BY GetNewest DEF ReadInv, BaseInv, TypeInv
<1>2. StoreMap = View(Held, lastSeq)
  BY <1>1 DEF StoreMap, View, ReadsNewest
<1>3. ASSUME NEW i \in Snaps, snapshots[i] # Closed
      PROVE  [k \in Keys |-> Get(k, snapshots[i])] = View(Held, snapshots[i])
  <2>1. snapshots[i] \in Nat
    BY <1>3 DEF ReadInv, HandlesOK
  <2> QED BY <1>1, <2>1 DEF View, ReadsNewest
<1>4. SnapMaps = [i \in Snaps |-> IF snapshots[i] = Closed THEN <<>>
                                 ELSE View(Held, snapshots[i])]
  BY <1>3 DEF SnapMaps
<1>5. \A it : [k \in Keys |-> IterGet(it, k)] =
               View(Pinned(memtables, it), it.seq)
  BY DEF IterGet, View, Pinned, Stored
<1>6. IterMaps = [j \in Iters |->
       IF iters[j] = NoIter THEN <<>>
       ELSE View(Pinned(memtables, iters[j]), iters[j].seq)]
  BY <1>5 DEF IterMaps
<1> QED BY <1>2, <1>4, <1>6 DEF MapsShown

(* The same, of the state after a step.                                     *)
LEMMA MapsAreViewsNext == (BaseInv /\ OrderInv /\ ReadInv)' => MapsShown'
<1>1. BaseInv /\ OrderInv /\ ReadInv => MapsShown
  BY MapsAreViews
<1> QED BY <1>1, PTL

kvVars == <<lastSeq, StoreMap, SnapMaps, IterMaps>>

(* The sequence numbers reads may use.                                      *)
ReadAt(s) ==
  \/ s = lastSeq
  \/ \E i \in Snaps : snapshots[i] # Closed /\ s = snapshots[i]

(* The iterators' views stay.                                               *)
IterViewsStay ==
  \A j \in Iters : iters[j] # NoIter =>
    View(Pinned(memtables', iters[j]), iters[j].seq) =
    View(Pinned(memtables, iters[j]), iters[j].seq)

(* A step that changes no handle and no view is a stuttering step.          *)
LEMMA QuietStep ==
  ASSUME MapsShown, MapsShown', UNCHANGED <<lastSeq, snapshots, iters>>,
         \A s : ReadAt(s) => View(Held', s) = View(Held, s),
         IterViewsStay
  PROVE  UNCHANGED kvVars
<1>1. StoreMap' = StoreMap
  <2>1. View(Held', lastSeq) = View(Held, lastSeq)
    BY DEF ReadAt
  <2> QED BY <2>1 DEF MapsShown
<1>2. SnapMaps' = SnapMaps
  <2>1. \A i \in Snaps : snapshots[i] # Closed =>
          View(Held', snapshots[i]) = View(Held, snapshots[i])
    BY DEF ReadAt
  <2> QED BY <2>1 DEF MapsShown
<1>3. IterMaps' = IterMaps
  BY DEF MapsShown, IterViewsStay
<1> QED BY <1>1, <1>2, <1>3 DEF kvVars

(* Equal sets of visible entries give equal views.                          *)
LEMMA ViewSame ==
  ASSUME NEW E, NEW D, NEW s,
         \A k \in Keys : Candidates(E, k, s) = Candidates(D, k, s)
  PROVE  View(E, s) = View(D, s)
<1>1. \A k \in Keys : Seek(E, k, s) = Seek(D, k, s)
  BY SeekSame
<1> QED BY <1>1 DEF View

(* Memtables an iterator pins are kept when others are freed.               *)
LEMMA FreeKeepsViews ==
  ASSUME BaseInv, HandlesOK, NEW its, NEW held,
         memtables' = FreeMemTables(its, held),
         NEW j \in Iters, its[j] # NoIter, its[j] = iters[j]
  PROVE  Pinned(memtables', iters[j]) = Pinned(memtables, iters[j])
<1>1. iters[j].mems \subseteq 1..Len(memtables)
  BY DEF HandlesOK
<1>2. iters[j].mems \subseteq Referenced(its, held)
  BY DEF Referenced, OpenIters
<1>3. \A i \in iters[j].mems : memtables'[i] = memtables[i]
  BY <1>1, <1>2, FreeType DEF BaseInv
<1> QED BY <1>3 DEF Pinned

-----------------------------------------------------------------------------
(* Writers. *)

(* A step that leaves the tree and the compaction alone keeps what is said  *)
(* of them.                                                                 *)
LEMMA TreeKept ==
  ASSUME ReadInv, UNCHANGED <<version, compaction>>,
         BaseInv, lastSeq' \in Nat, lastSeq <= lastSeq',
         \A i \in Snaps : snapshots'[i] # Closed =>
           snapshots'[i] = snapshots[i] \/ snapshots'[i] = lastSeq
  PROVE  NumbersDiffer' /\ DropsOK'
<1>1. NumbersDiffer'
  BY DEF ReadInv, NumbersDiffer
<1>2. ASSUME compaction # NoCompaction PROVE DropsOK'
  <2> DEFINE s == compaction.smallestSnapshot
  <2>1. NoReaderBefore(s) /\ DropsAt(version, compaction, s)
    BY <1>2 DEF ReadInv, DropsOK
  <2> HIDE DEF s
  <2>2. s \in Nat /\ s <= lastSeq' /\ lastSeq \in Nat
    BY <2>1 DEF NoReaderBefore, BaseInv, TypeInv
  <2>3. \A i \in Snaps : snapshots'[i] # Closed => s <= snapshots'[i]
    BY <2>1 DEF NoReaderBefore
  <2>4. NoReaderBefore(s)' /\ DropsAt(version', compaction', s)
    BY <2>1, <2>2, <2>3 DEF NoReaderBefore, s
  <2> QED BY <2>4 DEF DropsOK, s
<1>3. compaction = NoCompaction => DropsOK'
  BY DEF DropsOK
<1> QED BY <1>1, <1>2, <1>3

(* Entries that are inserted and not published are seen by nobody.          *)
LEMMA InsertRefines ==
  ASSUME BaseInv, OrderInv, ReadInv, NEW b \in Batches, WriteInsert(b),
         MapsShown, BaseInv', OrderInv'
  PROVE  ReadInv' /\ (MapsShown' => UNCHANGED kvVars)
<1> DEFINE B == BatchEntries(b)
<1>1. /\ pending = 0 /\ pending' = Len(b)
      /\ memtables' = [memtables EXCEPT ![mem] = @ \union B]
      /\ UNCHANGED <<lastSeq, hasImm, version, compaction, snapshots, iters>>
  BY DEF WriteInsert, fileVars, readVars, BatchEntries
<1>2. /\ TypeInv /\ lastSeq \in Nat /\ memtables \in Seq(SUBSET Entry)
      /\ Len(memtables) \in Nat /\ Len(memtables) > 0
  BY DEF BaseInv, TypeInv
<1>3. \A e \in B : lastSeq < e.s
  BY <1>2, BatchType
<1>4. BatchEntries(b)' = B
  BY <1>1 DEF BatchEntries
<1>a. \A e \in B : e.s \in Nat
  BY <1>2, BatchType, EntryType
<1> HIDE DEF B
<1>5. /\ Len(memtables') = Len(memtables)
      /\ memtables'[mem] = memtables[mem] \union B
      /\ \A i \in 1..Len(memtables) : i # mem => memtables'[i] = memtables[i]
  <2>1. mem \in DOMAIN memtables /\ DOMAIN memtables = 1..Len(memtables)
    BY <1>2 DEF mem
  <2> QED BY <1>1, <1>2, <2>1
<1>6. mem' = mem /\ imm' = imm
  BY <1>5 DEF mem, imm
<1>7. hasImm => memtables'[imm] = memtables[imm]
  <2>1. hasImm => Len(memtables) > 1
    BY <1>2 DEF TypeInv
  <2>2. Len(memtables) > 1 => imm \in 1..Len(memtables) /\ imm # mem
    BY <1>2 DEF imm, mem
  <2> QED BY <1>5, <2>1, <2>2
<1>8. Held' = Held \union B
  <2>1. ImmEntries' = ImmEntries
    BY <1>1, <1>6, <1>7 DEF ImmEntries
  <2>2. Stored(version') = Stored(version)
    BY <1>1
  <2> QED BY <1>5, <1>6, <2>1, <2>2 DEF Held
<1>9. \A e \in memtables[mem] : e.s <= lastSeq /\ e.s \in Nat
  <2>1. \A e \in memtables[mem] : e.s <= lastSeq + pending
    BY DEF OrderInv, MemoryOK
  <2>2. memtables[mem] \subseteq Entry
    BY DEF OrderInv, MemoryOK
  <2> QED BY <1>1, <1>2, <2>1, <2>2, EntryType
<1>10. HandlesOK'
  <2>1. HandlesOK
    BY DEF ReadInv
  <2> QED BY <1>1, <1>5, <2>1 DEF HandlesOK
<1>11. PendingOK'
  <2>1. {e \in memtables'[mem'] : e.s > lastSeq'} = B
    BY <1>1, <1>2, <1>3, <1>5, <1>6, <1>9, <1>a
  <2> QED BY <1>1, <1>4, <2>1 DEF PendingOK
<1>12. NumbersDiffer' /\ DropsOK'
  BY <1>1, <1>2, TreeKept
<1>13. ASSUME NEW E, NEW D, E \subseteq D, D \subseteq E \union B,
              NEW s, s \in Nat, s <= lastSeq
       PROVE  View(D, s) = View(E, s)
  <2>1. \A k \in Keys : Candidates(D, k, s) = Candidates(E, k, s)
    BY <1>2, <1>3, <1>13, <1>a DEF Candidates
  <2> QED BY <2>1, ViewSame
<1>14. ASSUME MapsShown' PROVE UNCHANGED kvVars
  <2>1. \A s : ReadAt(s) => s \in Nat /\ s <= lastSeq
    BY <1>2 DEF ReadAt, ReadInv, HandlesOK
  <2>2. \A s : ReadAt(s) => View(Held', s) = View(Held, s)
    BY <1>8, <1>13, <2>1
  <2>3. ASSUME NEW j \in Iters, iters[j] # NoIter
        PROVE  View(Pinned(memtables', iters[j]), iters[j].seq) =
               View(Pinned(memtables, iters[j]), iters[j].seq)
    <3>1. /\ iters[j].seq \in Nat /\ iters[j].seq <= lastSeq
          /\ iters[j].mems \subseteq 1..Len(memtables)
      BY <2>3 DEF ReadInv, HandlesOK
    <3>2. \A i \in iters[j].mems : /\ memtables[i] \subseteq memtables'[i]
                                   /\ memtables'[i] \subseteq memtables[i] \union B
      BY <1>5, <3>1
    <3>3. /\ Pinned(memtables, iters[j]) \subseteq Pinned(memtables', iters[j])
          /\ Pinned(memtables', iters[j]) \subseteq
               Pinned(memtables, iters[j]) \union B
      BY <3>2 DEF Pinned
    <3> QED BY <1>13, <3>1, <3>3
  <2> QED BY <1>1, <1>14, <2>2, <2>3, QuietStep DEF IterViewsStay
<1> QED BY <1>10, <1>11, <1>12, <1>14 DEF ReadInv

(* Publishing LastSequence() makes the whole batch visible at once.         *)
LEMMA PublishRefines ==
  ASSUME BaseInv, OrderInv, ReadInv, WritePublish, MapsShown, BaseInv'
  PROVE  ReadInv' /\ (MapsShown' => \E b \in Batches : KV!Write(b))
<1>1. /\ pending > 0 /\ lastSeq' = lastSeq + pending /\ pending' = 0
      /\ UNCHANGED <<memtables, hasImm, version, compaction, snapshots, iters>>
  BY DEF WritePublish, memVars, fileVars, readVars
<1>2. lastSeq \in Nat /\ pending \in Nat
  BY DEF BaseInv, TypeInv
<1>3. PICK b \in Batches :
        /\ Len(b) = pending
        /\ {e \in memtables[mem] : e.s > lastSeq} = BatchEntries(b)
  BY <1>1 DEF ReadInv, PendingOK
<1>4. NumbersDiffer' /\ DropsOK'
  BY <1>1, <1>2, TreeKept
<1>5. HandlesOK'
  <2>1. HandlesOK
    BY DEF ReadInv
  <2>2. \A n \in Nat : n <= lastSeq => n <= lastSeq'
    BY <1>1, <1>2
  <2> QED BY <1>1, <2>1, <2>2 DEF HandlesOK
<1>6. PendingOK'
  BY <1>1 DEF PendingOK
<1>7. ASSUME MapsShown' PROVE KV!Write(b)
  <2> DEFINE n == Len(b)
  <2>1. mem' = mem /\ imm' = imm /\ Held' = Held
    BY <1>1 DEF mem, imm, Held, ImmEntries
  <2>2. lastSeq' = lastSeq + n /\ n \in Nat
    BY <1>1, <1>2, <1>3
  <2>3. SnapMaps' = SnapMaps /\ IterMaps' = IterMaps
    BY <1>1, <1>7, <2>1 DEF MapsShown
  <2>4. Distinct(Held)
    BY LevelDistinct
  <2>5. \A e \in Held : e.s \in Nat /\ e.s <= lastSeq + n
    <3>1. \A e \in Held : e.s <= lastSeq + pending
      BY DEF OrderInv, MemoryOK, Held
    <3> QED BY <1>3, <2>4, <3>1, EntryType DEF Distinct
  <2>6. \A e \in Held : e.s > lastSeq <=> e \in BatchEntries(b)
    <3>1. Newer(memtables[mem], ImmEntries)
      BY DEF OrderInv, MemoryOK
    <3>2. BatchEntries(b) \subseteq memtables[mem]
          /\ \A e \in BatchEntries(b) : e.s > lastSeq
      BY <1>3
    <3>3. \A e \in memtables[mem] : e.s > lastSeq => e \in BatchEntries(b)
      BY <1>3
    <3>4. ASSUME NEW e \in Held, e.s > lastSeq PROVE e \in BatchEntries(b)
      <4>1. e.s \in (lastSeq + 1)..(lastSeq + n)
        BY <1>2, <2>2, <2>5, <3>4
      <4>2. PICK i \in 1..n : e.s = lastSeq + i
        <5>1. e.s - lastSeq \in 1..n /\ e.s = lastSeq + (e.s - lastSeq)
          BY <1>2, <2>2, <2>5, <4>1
        <5> QED BY <5>1
      <4>3. b \in Seq([k : Keys, t : {"value", "deletion"}])
        BY BatchesAssumption
      <4>4. i \in DOMAIN b
        BY <4>3
      <4> DEFINE x == [k |-> b[i].k, s |-> lastSeq + i, t |-> b[i].t]
      <4>5. x \in BatchEntries(b) /\ x.s = lastSeq + i
        BY <4>4 DEF BatchEntries
      <4> HIDE DEF x
      <4>6. x \in Held
        BY <3>2, <4>5 DEF Held
      <4> QED BY <2>4, <4>2, <4>5, <4>6 DEF Distinct
    <3>5. BatchEntries(b) \subseteq Held
      BY <3>2 DEF Held
    <3> QED BY <3>2, <3>4, <3>5
  <2>7. DOMAIN b = 1..n
    BY BatchesAssumption
  <2>8. ASSUME NEW k \in Keys
        PROVE  ValueOf(Seek(Held, k, lastSeq + n)) = KV!After(b, n)[k]
    <3> DEFINE hits == {i \in 1..n : b[i].k = k}
               i == CHOOSE j \in hits : \A h \in hits : h <= j
    <3>1. KV!After(b, n)[k] = IF hits = {} THEN StoreMap[k]
                              ELSE IF b[i].t = "value" THEN lastSeq + i ELSE 0
      BY DEF KV!After, KV!Absent
    <3>2. \A e \in Held : e.s > lastSeq /\ e.k = k =>
            \E h \in hits : e = [k |-> b[h].k, s |-> lastSeq + h, t |-> b[h].t]
      BY <2>6, <2>7 DEF BatchEntries
    <3>3. CASE hits = {}
      <4>1. Candidates(Held, k, lastSeq + n) = Candidates(Held, k, lastSeq)
        BY <1>2, <2>2, <2>5, <3>2, <3>3 DEF Candidates
      <4>2. Seek(Held, k, lastSeq + n) = Seek(Held, k, lastSeq)
        BY <4>1, SeekSame
      <4>3. StoreMap[k] = ValueOf(Seek(Held, k, lastSeq))
        BY DEF MapsShown, View
      <4> QED BY <3>1, <3>3, <4>2, <4>3
    <3>4. CASE hits # {}
      <4>1. \E j \in hits : \A h \in hits : h <= j
        <5> DEFINE T == {n - h : h \in hits}
        <5>1. hits \subseteq 1..n
          OBVIOUS
        <5> HIDE DEF hits
        <5>2. T \subseteq Nat /\ T # {}
          <6>1. \A h \in hits : n - h \in Nat
            BY <2>2, <5>1
          <6> QED BY <3>4, <6>1
        <5>3. PICK m \in T : \A x \in T : m <= x
          BY <5>2, LeastNumber
        <5>4. PICK j \in hits : m = n - j
          BY <5>3
        <5>5. \A h \in hits : n - j <= n - h
          BY <5>3, <5>4
        <5>6. \A h \in hits : h <= j
          BY <2>2, <5>1, <5>5
        <5> QED BY <5>6
      <4>2. i \in hits /\ \A h \in hits : h <= i
        BY <4>1
      <4> DEFINE e == [k |-> b[i].k, s |-> lastSeq + i, t |-> b[i].t]
      <4>3. i \in 1..n /\ b[i].k = k
        BY <4>2
      <4>4. e \in BatchEntries(b)
        BY <2>7, <4>3 DEF BatchEntries
      <4>5. e.k = k /\ e.s = lastSeq + i /\ e.t = b[i].t
        BY <4>3
      <4>6. b[i].t \in {"value", "deletion"}
        <5>1. e \in Held
          BY <1>3, <4>4 DEF Held
        <5>2. e \in Entry
          BY <2>4, <5>1 DEF Distinct
        <5> QED BY <4>5, <5>2 DEF Entry
      <4> HIDE DEF i, e
      <4>7. e \in Candidates(Held, k, lastSeq + n)
        <5>1. e \in Held
          BY <1>3, <4>4 DEF Held
        <5> QED BY <2>5, <4>5, <5>1 DEF Candidates
      <4>8. ASSUME NEW x \in Candidates(Held, k, lastSeq + n) PROVE x.s <= e.s
        <5>1. x \in Held /\ x.k = k
          BY DEF Candidates
        <5>2. CASE x.s > lastSeq
          <6>1. PICK h \in hits : x = [k |-> b[h].k, s |-> lastSeq + h, t |-> b[h].t]
            BY <3>2, <5>1, <5>2
          <6>2. h <= i /\ x.s = lastSeq + h /\ h \in 1..n
            BY <4>2, <6>1
          <6> QED BY <1>2, <2>2, <4>3, <4>5, <6>2
        <5>3. CASE ~(x.s > lastSeq)
          BY <1>2, <2>2, <2>5, <4>3, <4>5, <5>1, <5>3
        <5> QED BY <5>2, <5>3
      <4>9. lastSeq + n \in Nat
        BY <1>2, <2>2
      <4>10. Seek(Held, k, lastSeq + n) = {e}
        BY <2>4, <4>7, <4>8, <4>9, SeekIs
      <4>11. ValueOf(Seek(Held, k, lastSeq + n)) =
               IF b[i].t = "value" THEN lastSeq + i ELSE 0
        BY <4>5, <4>10, ValueOne
      <4> QED BY <3>1, <3>4, <4>11 DEF i
    <3> QED BY <3>3, <3>4
  <2>9. StoreMap' = KV!After(b, n)
    <3>1. StoreMap' = [k \in Keys |-> ValueOf(Seek(Held, k, lastSeq + n))]
      BY <1>7, <2>1, <2>2 DEF MapsShown, View
    <3>2. KV!After(b, n) = [k \in Keys |-> KV!After(b, n)[k]]
      BY DEF KV!After
    <3> QED BY <2>8, <3>1, <3>2
  <2> QED BY <2>2, <2>3, <2>9 DEF KV!Write
<1> QED BY <1>4, <1>5, <1>6, <1>7 DEF ReadInv

(* Switching memtables changes no view.                                     *)
LEMMA SwitchRefines ==
  ASSUME BaseInv, OrderInv, ReadInv, SwitchMemTable, MapsShown
  PROVE  ReadInv' /\ (MapsShown' => UNCHANGED kvVars)
<1>1. /\ pending = 0 /\ hasImm = FALSE /\ hasImm' = TRUE
      /\ memtables' = Append(memtables, {})
      /\ UNCHANGED <<lastSeq, pending, version, compaction, snapshots, iters>>
  BY DEF SwitchMemTable, writeVars, fileVars, readVars, BaseInv, TypeInv
<1>2. /\ memtables \in Seq(SUBSET Entry) /\ Len(memtables) \in Nat
      /\ Len(memtables) > 0 /\ lastSeq \in Nat
  BY DEF BaseInv, TypeInv
<1>3. /\ Len(memtables') = Len(memtables) + 1
      /\ memtables'[Len(memtables) + 1] = {}
      /\ \A i \in 1..Len(memtables) : memtables'[i] = memtables[i]
  BY <1>1, <1>2
<1>4. /\ mem' = mem + 1 /\ imm' = mem /\ memtables'[mem'] = {}
      /\ memtables'[imm'] = memtables[mem]
  BY <1>2, <1>3 DEF mem, imm
<1>5. Held' = Held
  <2>1. ImmEntries = {} /\ ImmEntries' = memtables[mem]
    BY <1>1, <1>4 DEF ImmEntries
  <2>2. Stored(version') = Stored(version)
    BY <1>1
  <2> QED BY <1>4, <2>1, <2>2 DEF Held
<1>6. NumbersDiffer' /\ DropsOK'
  BY <1>1, <1>2, TreeKept
<1>7. HandlesOK'
  <2>1. HandlesOK
    BY DEF ReadInv
  <2>2. 1..Len(memtables) \subseteq 1..Len(memtables')
    BY <1>2, <1>3
  <2> QED BY <1>1, <2>1, <2>2 DEF HandlesOK
<1>8. PendingOK'
  BY <1>1 DEF PendingOK
<1>9. ASSUME NEW j \in Iters, iters[j] # NoIter
      PROVE  Pinned(memtables', iters[j]) = Pinned(memtables, iters[j])
  <2>1. iters[j].mems \subseteq 1..Len(memtables)
    BY <1>9 DEF ReadInv, HandlesOK
  <2> QED BY <1>3, <2>1 DEF Pinned
<1>10. MapsShown' => UNCHANGED kvVars
  BY <1>1, <1>5, <1>9, QuietStep DEF IterViewsStay
<1> QED BY <1>6, <1>7, <1>8, <1>10 DEF ReadInv

-----------------------------------------------------------------------------
(* Handles. *)

(* GetSnapshot freezes the map.                                             *)
LEMMA GetSnapshotRefines ==
  ASSUME BaseInv, OrderInv, ReadInv, NEW i \in Snaps, GetSnapshot(i), MapsShown
  PROVE  ReadInv' /\ (MapsShown' => KV!GetSnapshot(i))
<1>1. /\ snapshots[i] = Closed
      /\ snapshots' = [snapshots EXCEPT ![i] = lastSeq]
      /\ UNCHANGED <<lastSeq, pending, memtables, hasImm, version, compaction,
                     iters>>
  BY DEF GetSnapshot, writeVars, memVars, fileVars
<1>2. lastSeq \in Nat
  BY DEF BaseInv, TypeInv
<1>3. snapshots' = [j \in Snaps |-> IF j = i THEN lastSeq ELSE snapshots[j]]
  BY <1>1 DEF ReadInv, HandlesOK
<1>4. NumbersDiffer' /\ DropsOK'
  BY <1>1, <1>2, <1>3, TreeKept
<1>5. HandlesOK'
  <2>1. HandlesOK
    BY DEF ReadInv
  <2> QED BY <1>1, <1>2, <1>3, <2>1 DEF HandlesOK
<1>6. PendingOK'
  BY <1>1 DEF ReadInv, PendingOK, mem, BatchEntries
<1>7. ASSUME MapsShown' PROVE KV!GetSnapshot(i)
  <2>1. Held' = Held
    BY <1>1 DEF Held, ImmEntries, mem, imm
  <2>2. StoreMap' = StoreMap /\ IterMaps' = IterMaps
    BY <1>1, <1>7, <2>1 DEF MapsShown
  <2>3. lastSeq # Closed
    BY <1>2 DEF Closed
  <2>4. SnapMaps' = [SnapMaps EXCEPT ![i] = StoreMap]
    BY <1>1, <1>3, <1>7, <2>1, <2>3 DEF MapsShown
  <2>5. SnapMaps[i] = <<>>
    BY <1>1 DEF MapsShown
  <2> QED BY <1>1, <2>2, <2>4, <2>5 DEF KV!GetSnapshot, KV!Unused
<1> QED BY <1>4, <1>5, <1>6, <1>7 DEF ReadInv

(* ReleaseSnapshot closes it.                                               *)
LEMMA ReleaseSnapshotRefines ==
  ASSUME BaseInv, OrderInv, ReadInv, NEW i \in Snaps, ReleaseSnapshot(i),
         MapsShown
  PROVE  /\ ReadInv'
         /\ MapsShown' => KV!ReleaseSnapshot(i) \/ UNCHANGED kvVars
<1>1. /\ snapshots' = [snapshots EXCEPT ![i] = Closed]
      /\ UNCHANGED <<lastSeq, pending, memtables, hasImm, version, compaction,
                     iters>>
  BY DEF ReleaseSnapshot, writeVars, memVars, fileVars
<1>2. lastSeq \in Nat
  BY DEF BaseInv, TypeInv
<1>3. snapshots' = [j \in Snaps |-> IF j = i THEN Closed ELSE snapshots[j]]
  BY <1>1 DEF ReadInv, HandlesOK
<1>4. NumbersDiffer' /\ DropsOK'
  BY <1>1, <1>2, <1>3, TreeKept
<1>5. HandlesOK'
  <2>1. HandlesOK
    BY DEF ReadInv
  <2> QED BY <1>1, <1>2, <1>3, <2>1 DEF HandlesOK
<1>6. PendingOK'
  BY <1>1 DEF ReadInv, PendingOK, mem, BatchEntries
<1>7. ASSUME MapsShown' PROVE KV!ReleaseSnapshot(i) \/ UNCHANGED kvVars
  <2>1. Held' = Held
    BY <1>1 DEF Held, ImmEntries, mem, imm
  <2>2. StoreMap' = StoreMap /\ IterMaps' = IterMaps
    BY <1>1, <1>7, <2>1 DEF MapsShown
  <2>3. SnapMaps' = [SnapMaps EXCEPT ![i] = <<>>]
    BY <1>3, <1>7, <2>1 DEF MapsShown
  <2>4. SnapMaps[i] = <<>> => SnapMaps' = SnapMaps
    BY <2>3 DEF MapsShown
  <2>5. SnapMaps[i] # <<>> => KV!ReleaseSnapshot(i)
    BY <1>1, <2>2, <2>3 DEF KV!ReleaseSnapshot, KV!Unused
  <2> QED BY <1>1, <2>2, <2>4, <2>5 DEF kvVars
<1> QED BY <1>4, <1>5, <1>6, <1>7 DEF ReadInv

(* A new iterator shows what Get answers at its sequence number.            *)
LEMMA NewIteratorShows ==
  ASSUME BaseInv, OrderInv, ReadInv, NEW j \in Iters, NEW s, NewIterator(j, s),
         ReadAt(s), MapsShown
  PROVE  /\ ReadInv' /\ IterMaps[j] = <<>>
         /\ MapsShown' => /\ IterMaps' = [IterMaps EXCEPT ![j] = View(Held, s)]
                          /\ UNCHANGED <<lastSeq, StoreMap, SnapMaps>>
<1> DEFINE new == [seq |-> s, version |-> version,
                   mems |-> {mem} \union (IF hasImm THEN {imm} ELSE {})]
<1>1. /\ iters[j] = NoIter /\ iters' = [iters EXCEPT ![j] = new]
      /\ UNCHANGED <<lastSeq, pending, memtables, hasImm, version, compaction,
                     snapshots>>
  BY DEF NewIterator, writeVars, memVars, fileVars
<1>2. /\ lastSeq \in Nat /\ Len(memtables) \in Nat /\ Len(memtables) > 0
      /\ hasImm \in BOOLEAN /\ (hasImm => Len(memtables) > 1)
  BY DEF BaseInv, TypeInv
<1>3. s \in Nat /\ s <= lastSeq
  BY <1>2 DEF ReadAt, ReadInv, HandlesOK
<1>4. /\ new.seq = s /\ new.version = version
      /\ new.mems = {mem} \union (IF hasImm THEN {imm} ELSE {})
  OBVIOUS
<1> HIDE DEF new
<1>5. iters' = [i \in Iters |-> IF i = j THEN new ELSE iters[i]]
  BY <1>1 DEF BaseInv, TypeInv
<1>6. new # NoIter
  <2>1. NoIter.seq = -1
    BY DEF NoIter
  <2> QED BY <1>3, <1>4, <2>1
<1>7. NumbersDiffer' /\ DropsOK'
  BY <1>1, <1>2, TreeKept
<1>8. HandlesOK'
  <2>1. HandlesOK
    BY DEF ReadInv
  <2>2. new.mems \subseteq 1..Len(memtables)
    BY <1>2, <1>4 DEF mem, imm
  <2> QED BY <1>1, <1>3, <1>4, <1>5, <2>1, <2>2 DEF HandlesOK
<1>9. PendingOK'
  BY <1>1 DEF ReadInv, PendingOK, mem, BatchEntries
<1>10. Pinned(memtables, new) = Held
  <2>1. UNION {memtables[i] : i \in new.mems} = memtables[mem] \union ImmEntries
    BY <1>4 DEF ImmEntries
  <2> QED BY <1>4, <2>1 DEF Pinned, Held
<1>11. ASSUME MapsShown'
       PROVE  /\ IterMaps' = [IterMaps EXCEPT ![j] = View(Held, s)]
              /\ UNCHANGED <<lastSeq, StoreMap, SnapMaps>>
  <2>1. Held' = Held
    BY <1>1 DEF Held, ImmEntries, mem, imm
  <2>2. UNCHANGED <<lastSeq, StoreMap, SnapMaps>>
    BY <1>1, <1>11, <2>1 DEF MapsShown
  <2>3. IterMaps' = [i \in Iters |->
          IF iters'[i] = NoIter THEN <<>>
          ELSE View(Pinned(memtables, iters'[i]), iters'[i].seq)]
    BY <1>1, <1>11 DEF MapsShown
  <2>4. IterMaps = [i \in Iters |->
          IF iters[i] = NoIter THEN <<>>
          ELSE View(Pinned(memtables, iters[i]), iters[i].seq)]
    BY DEF MapsShown
  <2>5. IterMaps' = [IterMaps EXCEPT ![j] = View(Held, s)]
    BY <1>4, <1>5, <1>6, <1>10, <2>3, <2>4
  <2> QED BY <2>2, <2>5
<1>12. IterMaps[j] = <<>>
  BY <1>1 DEF MapsShown
<1> QED BY <1>7, <1>8, <1>9, <1>11, <1>12 DEF ReadInv

(* An iterator without a snapshot shows the map.                            *)
LEMMA NewIteratorRefines ==
  ASSUME BaseInv, OrderInv, ReadInv, NEW j \in Iters, NewIterator(j, lastSeq),
         MapsShown
  PROVE  ReadInv' /\ (MapsShown' => KV!NewIterator(j))
<1>1. ReadAt(lastSeq)
  BY DEF ReadAt
<1>2. /\ ReadInv' /\ IterMaps[j] = <<>>
      /\ MapsShown' => /\ IterMaps' = [IterMaps EXCEPT ![j] = View(Held, lastSeq)]
                       /\ UNCHANGED <<lastSeq, StoreMap, SnapMaps>>
  BY <1>1, NewIteratorShows
<1> QED BY <1>2 DEF MapsShown, KV!NewIterator, KV!Unused

(* An iterator with a snapshot shows the map of the snapshot.               *)
LEMMA NewIteratorAtRefines ==
  ASSUME BaseInv, OrderInv, ReadInv, NEW j \in Iters, NEW i \in Snaps,
         snapshots[i] # Closed, NewIterator(j, snapshots[i]), MapsShown
  PROVE  /\ ReadInv'
         /\ MapsShown' => KV!NewIteratorAt(j, i) \/ UNCHANGED kvVars
<1>1. ReadAt(snapshots[i])
  BY DEF ReadAt
<1>2. /\ ReadInv' /\ IterMaps[j] = <<>>
      /\ MapsShown' => /\ IterMaps' = [IterMaps EXCEPT ![j] =
                                         View(Held, snapshots[i])]
                       /\ UNCHANGED <<lastSeq, StoreMap, SnapMaps>>
  BY <1>1, NewIteratorShows
<1>3. SnapMaps[i] = View(Held, snapshots[i])
  BY DEF MapsShown
<1>4. IterMaps = [m \in Iters |-> IterMaps[m]]
  BY DEF MapsShown
<1>5. ASSUME MapsShown', SnapMaps[i] = <<>> PROVE UNCHANGED kvVars
  <2>1. IterMaps' = [IterMaps EXCEPT ![j] = IterMaps[j]]
    BY <1>2, <1>3, <1>5
  <2>2. IterMaps' = IterMaps
    BY <1>4, <2>1
  <2> QED BY <1>2, <1>5, <2>2 DEF kvVars
<1>6. ASSUME MapsShown', SnapMaps[i] # <<>> PROVE KV!NewIteratorAt(j, i)
  BY <1>2, <1>3, <1>6 DEF KV!NewIteratorAt, KV!Unused
<1> QED BY <1>2, <1>5, <1>6

(* Deleting an iterator frees only what no one else pins.                   *)
LEMMA DeleteIteratorRefines ==
  ASSUME BaseInv, OrderInv, ReadInv, NEW j \in Iters, DeleteIterator(j),
         MapsShown
  PROVE  /\ ReadInv'
         /\ MapsShown' => KV!DeleteIterator(j) \/ UNCHANGED kvVars
<1>1. /\ iters' = [iters EXCEPT ![j] = NoIter]
      /\ memtables' = FreeMemTables(iters', hasImm)
      /\ UNCHANGED <<lastSeq, pending, hasImm, version, compaction, snapshots>>
  BY DEF DeleteIterator, writeVars, fileVars
<1>2. TypeInv /\ lastSeq \in Nat /\ hasImm \in BOOLEAN /\ HandlesOK
  BY DEF BaseInv, TypeInv, ReadInv
<1>3. iters' = [i \in Iters |-> IF i = j THEN NoIter ELSE iters[i]]
  BY <1>1 DEF BaseInv, TypeInv
<1>4. /\ mem' = mem /\ imm' = imm /\ memtables'[mem] = memtables[mem]
      /\ hasImm => memtables'[imm] = memtables[imm]
      /\ Len(memtables') = Len(memtables)
  BY <1>1, <1>2, FreeKeeps, FreeType
<1>5. Held' = Held
  <2>1. ImmEntries' = ImmEntries
    BY <1>1, <1>4 DEF ImmEntries
  <2>2. Stored(version') = Stored(version)
    BY <1>1
  <2> QED BY <1>4, <2>1, <2>2 DEF Held
<1>6. NumbersDiffer' /\ DropsOK'
  BY <1>1, <1>2, TreeKept
<1>7. HandlesOK'
  BY <1>1, <1>2, <1>3, <1>4 DEF HandlesOK
<1>8. PendingOK'
  BY <1>1, <1>4 DEF ReadInv, PendingOK, BatchEntries
<1>9. ASSUME NEW i \in Iters, i # j, iters[i] # NoIter
      PROVE  Pinned(memtables', iters[i]) = Pinned(memtables, iters[i])
  <2>1. iters'[i] # NoIter /\ iters'[i] = iters[i]
    BY <1>3, <1>9
  <2>2. PICK its : its = iters'
    OBVIOUS
  <2>3. memtables' = FreeMemTables(its, hasImm)
    BY <1>1, <2>2
  <2> QED BY <1>2, <2>1, <2>2, <2>3, FreeKeepsViews
<1>10. ASSUME MapsShown' PROVE KV!DeleteIterator(j) \/ UNCHANGED kvVars
  <2>1. StoreMap' = StoreMap /\ SnapMaps' = SnapMaps
    BY <1>1, <1>5, <1>10 DEF MapsShown
  <2>2. IterMaps' = [i \in Iters |->
          IF iters'[i] = NoIter THEN <<>>
          ELSE View(Pinned(memtables', iters'[i]), iters'[i].seq)]
    BY <1>10 DEF MapsShown
  <2>3. IterMaps = [i \in Iters |->
          IF iters[i] = NoIter THEN <<>>
          ELSE View(Pinned(memtables, iters[i]), iters[i].seq)]
    BY DEF MapsShown
  <2>4. ASSUME NEW i \in Iters, i # j PROVE IterMaps'[i] = IterMaps[i]
    <3>1. iters'[i] = iters[i]
      BY <1>3, <2>4
    <3> QED BY <1>9, <2>2, <2>3, <2>4, <3>1
  <2>5. IterMaps'[j] = <<>>
    BY <1>3, <2>2
  <2>6. IterMaps' = [IterMaps EXCEPT ![j] = <<>>]
    BY <2>2, <2>3, <2>4, <2>5
  <2>7. IterMaps[j] = <<>> => IterMaps' = IterMaps
    BY <2>3, <2>6
  <2>8. IterMaps[j] # <<>> => KV!DeleteIterator(j)
    BY <1>1, <2>1, <2>6 DEF KV!DeleteIterator, KV!Unused
  <2> QED BY <1>1, <2>1, <2>7, <2>8 DEF kvVars
<1> QED BY <1>6, <1>7, <1>8, <1>10 DEF ReadInv

-----------------------------------------------------------------------------
(* The background thread. *)

(* The memtable that is flushed becomes a file: nothing is gained or lost.  *)
LEMMA FlushRefines ==
  ASSUME BaseInv, OrderInv, ReadInv, Flush, MapsShown, OrderInv'
  PROVE  ReadInv' /\ (MapsShown' => UNCHANGED kvVars)
<1> DEFINE I == memtables[imm]
           f == File(nextFile, I)
<1>1. /\ hasImm /\ hasImm' = FALSE
      /\ memtables' = FreeMemTables(iters, FALSE)
      /\ UNCHANGED <<lastSeq, pending, compaction, snapshots, iters>>
  BY FlushStep DEF BaseInv
<1>2. PICK l \in Levels :
        version' = [m \in Levels |-> IF m = l THEN version[m] \union {f}
                                     ELSE version[m]]
  BY FlushStep DEF BaseInv
<1>3. f.entries = I /\ f.num = nextFile /\ ImmEntries = I /\ nextFile \in Nat
  BY <1>1 DEF File, ImmEntries, BaseInv, TypeInv
<1> HIDE DEF f
<1>4. TypeInv /\ HandlesOK /\ lastSeq \in Nat
  BY DEF BaseInv, ReadInv, TypeInv
<1>5. /\ mem' = mem /\ memtables'[mem] = memtables[mem]
      /\ Len(memtables') = Len(memtables)
  BY <1>1, <1>4, FreeKeeps, FreeType
<1>6. Stored(version') = Stored(version) \union I
  BY <1>2, <1>3 DEF Stored, MergedEntries
<1>7. Held' = Held
  <2>1. ImmEntries' = {}
    BY <1>1 DEF ImmEntries
  <2> QED BY <1>3, <1>5, <1>6, <2>1 DEF Held
<1>8. NumbersDiffer'
  <2>1. 0 \in Levels /\ version'[0] \subseteq version[0] \union {f}
    BY <1>2, LevelsFact, LevelsAssumption DEF Levels
  <2>2. \A g \in version[0] : g.num \in Nat /\ g.num < nextFile
    BY <2>1 DEF OrderInv, VersionOK
  <2>3. \A g \in version[0] : g.num # nextFile
    BY <1>3, <2>2
  <2> QED BY <1>3, <2>1, <2>3 DEF ReadInv, NumbersDiffer
<1>9. HandlesOK'
  BY <1>1, <1>4, <1>5 DEF HandlesOK
<1>10. PendingOK'
  BY <1>1, <1>5 DEF ReadInv, PendingOK, BatchEntries
<1>11. ASSUME compaction # NoCompaction PROVE DropsOK'
  <2> DEFINE s == compaction.smallestSnapshot
             c == compaction
  <2>1. NoReaderBefore(s) /\ DropsAt(version, c, s)
    BY <1>11 DEF ReadInv, DropsOK
  <2>2. /\ SoundInputs(version, c.level, c.inputs)
        /\ c.level \in 0..(NumLevels - 2)
    BY <1>11 DEF OrderInv, CompactionOK, BaseInv, CompactionType
  <2>3. ASSUME NEW e \in Merged(c), NothingBelow(version, c.level, e.k)
        PROVE  NothingBelow(version', c.level, e.k)
    <3> SUFFICES ASSUME NEW i \in Levels, i > c.level + 1,
                        NEW x \in MergedEntries(version'[i]), x.k = e.k
                 PROVE  FALSE
      BY DEF NothingBelow
    <3>1. x \notin MergedEntries(version[i])
      BY <2>3 DEF NothingBelow
    <3>2. x \in I
      BY <1>2, <1>3, <3>1 DEF MergedEntries
    <3>3. /\ c.level \in Levels /\ c.level + 1 \in Levels /\ c.level \in Nat
          /\ c.level < i /\ c.level + 1 < i
      BY <2>2, LevelsFact DEF Levels
    <3>4. PICK m \in {c.level, c.level + 1} : e \in MergedEntries(version[m])
      BY <2>2 DEF SoundInputs, Merged, MergedEntries
    <3>5. m \in Levels /\ m < i /\ e \in MergedEntries(version'[m])
      BY <1>2, <3>3, <3>4 DEF MergedEntries
    <3>6. e.s > x.s
      BY <3>5 DEF OrderInv, InOrder, Newer
    <3>7. x.s > e.s
      <4>1. e \in Stored(version)
        BY <3>4, <3>5 DEF Stored, MergedEntries
      <4>2. Newer(memtables[mem] \union I, Stored(version))
        BY <1>3 DEF OrderInv, MemoryOK
      <4> QED BY <3>2, <4>1, <4>2 DEF Newer
    <3>8. e.s \in Nat /\ x.s \in Nat
      <4>1. e \in Held /\ x \in Held
        BY <1>3, <3>2, <3>4, <3>5 DEF Held, Stored, MergedEntries
      <4> QED BY <4>1, LevelDistinct, EntryType DEF Distinct
    <3> QED BY <3>6, <3>7, <3>8
  <2>4. DropsAt(version', c, s)
    BY <2>1, <2>3 DEF DropsAt
  <2>5. NoReaderBefore(s)'
    BY <1>1, <2>1 DEF NoReaderBefore
  <2> QED BY <1>1, <2>4, <2>5 DEF DropsOK
<1>12. compaction = NoCompaction => DropsOK'
  BY <1>1 DEF DropsOK
<1>13. ASSUME NEW j \in Iters, iters[j] # NoIter
       PROVE  Pinned(memtables', iters[j]) = Pinned(memtables, iters[j])
  BY <1>1, <1>4, <1>13, FreeKeepsViews
<1>14. MapsShown' => UNCHANGED kvVars
  BY <1>1, <1>7, <1>13, QuietStep DEF IterViewsStay
<1> QED BY <1>8, <1>9, <1>10, <1>11, <1>12, <1>14 DEF ReadInv

(* Steps that leave what is held and pinned as it is.                       *)
LEMMA HeldUnchanged ==
  ASSUME ReadInv, MapsShown,
         UNCHANGED <<lastSeq, pending, memtables, hasImm, snapshots, iters>>,
         Held' = Held
  PROVE  /\ HandlesOK' /\ PendingOK'
         /\ MapsShown' => UNCHANGED kvVars
<1>1. HandlesOK'
  BY DEF ReadInv, HandlesOK
<1>2. PendingOK'
  BY DEF ReadInv, PendingOK, mem, BatchEntries
<1>3. MapsShown' => UNCHANGED kvVars
  BY QuietStep DEF IterViewsStay
<1> QED BY <1>1, <1>2, <1>3

(* A compaction starts by deciding what to drop.                            *)
LEMMA StartRefines ==
  ASSUME BaseInv, OrderInv, ReadInv, NEW l \in 0..(NumLevels - 2), NEW in,
         StartCompaction(l, in), MapsShown,
         UNCHANGED <<lastSeq, pending, memtables, hasImm, version, snapshots,
                     iters>>
  PROVE  ReadInv' /\ (MapsShown' => UNCHANGED kvVars)
<1>1. Held' = Held
  BY DEF Held, ImmEntries, mem, imm
<1>2. compaction'.smallestSnapshot = SmallestSnapshot
  BY DEF StartCompaction
<1>3. HandlesOK
  BY DEF ReadInv
<1>4. DropsOK'
  <2>1. NoReaderBefore(SmallestSnapshot)
    BY <1>3, SmallestBounds
  <2>2. DropsAt(version, compaction', SmallestSnapshot)
    BY <1>3, StartDrops
  <2> DEFINE s == SmallestSnapshot
  <2> HIDE DEF s
  <2>3. NoReaderBefore(s)' <=> NoReaderBefore(s)
    <3>1. s' = s
      BY DEF s, SmallestSnapshot
    <3> QED BY <3>1 DEF NoReaderBefore
  <2> QED BY <1>2, <2>1, <2>2, <2>3 DEF DropsOK, NoReaderBefore, s
<1>5. NumbersDiffer'
  BY DEF ReadInv, NumbersDiffer
<1> QED BY <1>1, <1>4, <1>5, HeldUnchanged DEF ReadInv

(* A trivial move changes the level of a file and nothing else.             *)
LEMMA TrivialMoveRefines ==
  ASSUME BaseInv, OrderInv, ReadInv, NEW l \in 0..(NumLevels - 2),
         TrivialMove(l), MapsShown
  PROVE  ReadInv' /\ (MapsShown' => UNCHANGED kvVars)
<1>1. /\ compaction' = NoCompaction
      /\ UNCHANGED <<lastSeq, pending, memtables, hasImm, snapshots, iters>>
  BY TrivialMoveStep
<1>2. PICK in :
        /\ in[1] \subseteq version[l]
        /\ version' = [m \in Levels |->
             CASE m = l -> version[m] \ in[1]
               [] m = l + 1 -> version[m] \union in[1]
               [] OTHER -> version[m]]
  BY TrivialMoveStep
<1>3. l \in Levels /\ l + 1 \in Levels /\ l # l + 1 /\ l + 1 # 0
  BY LevelsFact
<1>4. /\ version'[l] = version[l] \ in[1]
      /\ version'[l + 1] = version[l + 1] \union in[1]
      /\ \A m \in Levels : m # l /\ m # l + 1 => version'[m] = version[m]
  BY <1>2, <1>3
<1>5. (UNION {version'[m] : m \in Levels}) = UNION {version[m] : m \in Levels}
  <2>1. \A m \in Levels : \A f \in version'[m] : \E i \in Levels : f \in version[i]
    BY <1>2, <1>3, <1>4
  <2>2. \A m \in Levels : \A f \in version[m] : \E i \in Levels : f \in version'[i]
    BY <1>2, <1>3, <1>4
  <2> QED BY <2>1, <2>2
<1>6. Held' = Held
  <2>1. Stored(version') = Stored(version)
    BY <1>5 DEF Stored
  <2> QED BY <1>1, <2>1 DEF Held, ImmEntries, mem, imm
<1>7. NumbersDiffer'
  <2>1. version'[0] \subseteq version[0]
    BY <1>3, <1>4, LevelsAssumption DEF Levels
  <2> QED BY <2>1 DEF ReadInv, NumbersDiffer
<1>8. DropsOK'
  BY <1>1 DEF DropsOK
<1> QED BY <1>1, <1>6, <1>7, <1>8, HeldUnchanged DEF ReadInv

(* Writing outputs changes neither what is held nor what they will hold.    *)
LEMMA OutputRefines ==
  ASSUME BaseInv, OrderInv, ReadInv, MapsShown, compaction # NoCompaction,
         compaction' # NoCompaction,
         compaction'.level = compaction.level,
         compaction'.inputs = compaction.inputs,
         compaction'.smallestSnapshot = compaction.smallestSnapshot,
         Outcome(compaction') = Outcome(compaction),
         UNCHANGED <<lastSeq, pending, memtables, hasImm, version, snapshots,
                     iters>>
  PROVE  ReadInv' /\ (MapsShown' => UNCHANGED kvVars)
<1> DEFINE s == compaction.smallestSnapshot
<1>1. Held' = Held
  BY DEF Held, ImmEntries, mem, imm
<1>2. NoReaderBefore(s) /\ DropsAt(version, compaction, s)
  BY DEF ReadInv, DropsOK
<1>3. Merged(compaction') = Merged(compaction)
  BY DEF Merged
<1>4. DropsAt(version, compaction', s)
  BY <1>2, <1>3 DEF DropsAt
<1> HIDE DEF s
<1>5. s \in Nat /\ s <= lastSeq
      /\ \A i \in Snaps : snapshots[i] # Closed => s <= snapshots[i]
  BY <1>2 DEF NoReaderBefore
<1>6. DropsOK'
  BY <1>4, <1>5 DEF DropsOK, NoReaderBefore, s
<1>7. NumbersDiffer'
  BY DEF ReadInv, NumbersDiffer
<1> QED BY <1>1, <1>6, <1>7, HeldUnchanged DEF ReadInv

(* Opening an output is seen by nobody.                                     *)
LEMMA OpenOutputRefines ==
  ASSUME BaseInv, OrderInv, ReadInv, OpenOutput, MapsShown
  PROVE  ReadInv' /\ (MapsShown' => UNCHANGED kvVars)
<1>1. /\ compaction # NoCompaction
      /\ compaction'.level = compaction.level
      /\ compaction'.inputs = compaction.inputs
      /\ compaction'.smallestSnapshot = compaction.smallestSnapshot
      /\ compaction'.outputs = compaction.outputs
      /\ compaction'.todo = compaction.todo
      /\ UNCHANGED <<lastSeq, pending, memtables, hasImm, version, snapshots,
                     iters>>
  BY OpenOutputStep
<1>2. compaction' # NoCompaction
  <2>1. compaction.level # -1 /\ NoCompaction.level = -1
    BY <1>1, LevelsAssumption DEF BaseInv, CompactionType, NoCompaction
  <2> QED BY <1>1, <2>1
<1>3. Outcome(compaction') = Outcome(compaction)
  BY <1>1 DEF Outcome
<1> QED BY <1>1, <1>2, <1>3, OutputRefines

(* Finishing an output is seen by nobody.                                   *)
LEMMA FinishOutputRefines ==
  ASSUME BaseInv, OrderInv, ReadInv, MapsShown, compaction # NoCompaction,
         NEW e \in compaction.todo, FinishOutput(e)
  PROVE  ReadInv' /\ (MapsShown' => UNCHANGED kvVars)
<1> DEFINE o == File(compaction.outfile, UpTo(e))
<1>1. /\ compaction'.level = compaction.level
      /\ compaction'.inputs = compaction.inputs
      /\ compaction'.smallestSnapshot = compaction.smallestSnapshot
      /\ compaction'.outputs = compaction.outputs \union {o}
      /\ compaction'.todo = compaction.todo \ UpTo(e)
      /\ UNCHANGED <<lastSeq, pending, memtables, hasImm, version, snapshots,
                     iters>>
  BY FinishOutputStep
<1>2. o.entries = UpTo(e) /\ UpTo(e) \subseteq compaction.todo
  BY DEF File, UpTo
<1> HIDE DEF o
<1>3. compaction' # NoCompaction
  <2>1. compaction.level # -1 /\ NoCompaction.level = -1
    BY LevelsAssumption DEF BaseInv, CompactionType, NoCompaction
  <2> QED BY <1>1, <2>1
<1>4. Outcome(compaction') = Outcome(compaction)
  BY <1>1, <1>2 DEF Outcome, MergedEntries
<1> QED BY <1>1, <1>3, <1>4, OutputRefines

(* What is held after the outputs are installed: everything but what was    *)
(* dropped, and of the merged entries only the outputs.                     *)
LEMMA InstallHeld ==
  ASSUME BaseInv, OrderInv, InstallCompaction
  PROVE  LET c == compaction
             l == c.level
         IN  /\ Held' \subseteq Held
             /\ Held \ Held' \subseteq Merged(c) \ Outcome(c)
             /\ \A x \in Held' \ Outcome(c) :
                  \/ x \in memtables[mem] \union ImmEntries
                  \/ \E i \in Levels : /\ x \in MergedEntries(version[i])
                                       /\ i \in {l, l + 1} => x \notin Merged(c)
<1> DEFINE c == compaction
           l == c.level
           rest == IF c.todo = {} THEN {} ELSE {File(c.outfile, c.todo)}
           E == Merged(c)
           K == Outcome(c)
<1>1. /\ c # NoCompaction /\ l \in 0..(NumLevels - 2)
      /\ version' = [m \in Levels |->
           CASE m = l -> version[m] \ c.inputs[1]
             [] m = l + 1 ->
                  (version[m] \ c.inputs[2]) \union c.outputs \union rest
             [] OTHER -> version[m]]
      /\ UNCHANGED <<memtables, hasImm>>
  BY InstallStep
<1>2. /\ SoundInputs(version, l, c.inputs) /\ c.todo \subseteq E
      /\ \A p \in c.outputs : p.entries \subseteq E
  BY <1>1 DEF OrderInv, CompactionOK, Merged
<1>3. MergedEntries(c.outputs \union rest) = K
  <2>1. MergedEntries(rest) = c.todo
    <3>1. File(c.outfile, c.todo).entries = c.todo
      BY DEF File
    <3>2. MergedEntries({File(c.outfile, c.todo)}) = c.todo /\ MergedEntries({}) = {}
      BY <3>1 DEF MergedEntries
    <3> QED BY <3>2
  <2> QED BY <2>1 DEF Outcome, MergedEntries
<1> HIDE DEF rest, c
<1>4. l \in Levels /\ l + 1 \in Levels /\ l # l + 1
  BY <1>1, LevelsFact
<1>5. /\ version'[l] = version[l] \ c.inputs[1]
      /\ version'[l + 1] = (version[l + 1] \ c.inputs[2]) \union c.outputs \union rest
      /\ \A m \in Levels : m # l /\ m # l + 1 => version'[m] = version[m]
  BY <1>1, <1>4
<1>6. /\ c.inputs[1] \subseteq version[l] /\ c.inputs[2] \subseteq version[l + 1]
      /\ \A g \in version[l + 1] \ c.inputs[2] : Apart(g.entries, E)
      /\ \A g \in version[l] \ c.inputs[1] : Newer(g.entries, E)
  BY <1>2 DEF SoundInputs, Merged
<1>7. K \subseteq E /\ E \subseteq Stored(version) /\ E \subseteq Entry
  <2>1. K \subseteq E
    BY <1>2 DEF Outcome, MergedEntries
  <2>2. E \subseteq Stored(version)
    BY <1>4, <1>6 DEF Merged, Stored, MergedEntries
  <2>3. Held \subseteq Entry
    BY LevelDistinct DEF Distinct
  <2> QED BY <2>1, <2>2, <2>3 DEF Held
<1>8. /\ \A x \in K : x \in Stored(version')
      /\ \A m \in Levels : \A g \in version[m] :
           \/ g \in version'[m]
           \/ g.entries \subseteq E
  <2>1. c.outputs \union rest \subseteq version'[l + 1]
    BY <1>5
  <2>2. \A x \in K : x \in Stored(version')
    BY <1>3, <1>4, <2>1 DEF Stored, MergedEntries
  <2>3. \A g \in c.inputs[1] \union c.inputs[2] : g.entries \subseteq E
    BY DEF Merged, MergedEntries
  <2> QED BY <1>5, <2>2, <2>3
<1>9. ASSUME NEW x \in Stored(version'), x \notin K
      PROVE  \E i \in Levels : /\ x \in MergedEntries(version[i])
                               /\ i \in {l, l + 1} => x \notin E
  <2>1. PICK i \in Levels : \E g \in version'[i] : x \in g.entries
    BY DEF Stored, MergedEntries
  <2>a. PICK g \in version'[i] : x \in g.entries
    BY <2>1
  <2>2. g \notin c.outputs \union rest
    BY <1>3, <1>9, <2>a DEF MergedEntries
  <2>3. g \in version[i]
    BY <1>5, <2>a, <2>2
  <2>4. x \in MergedEntries(version[i])
    BY <2>a, <2>3 DEF MergedEntries
  <2>5. ASSUME i = l, x \in E PROVE FALSE
    <3>1. Newer(g.entries, E)
      BY <1>5, <1>6, <2>a, <2>5
    <3>2. x.s > x.s /\ x.s \in Nat
      BY <1>7, <2>a, <2>5, <3>1, EntryType DEF Newer
    <3> QED BY <3>2
  <2>6. ASSUME i = l + 1, x \in E PROVE FALSE
    <3>1. Apart(g.entries, E)
      BY <1>5, <1>6, <2>a, <2>2, <2>6
    <3>2. Before(x, x) /\ x \in Entry
      BY <1>7, <2>a, <2>6, <3>1 DEF Apart, Ahead
    <3> QED BY <3>2, BeforeOrder
  <2> QED BY <2>4, <2>5, <2>6
<1>10. Stored(version') \subseteq Stored(version)
  <2>1. \A i \in Levels : MergedEntries(version[i]) \subseteq Stored(version)
    BY DEF Stored, MergedEntries
  <2> QED BY <1>7, <1>9, <2>1
<1>11. Stored(version) \ Stored(version') \subseteq E \ K
  <2> SUFFICES ASSUME NEW x \in Stored(version), x \notin Stored(version')
               PROVE  x \in E \ K
    OBVIOUS
  <2>1. PICK m \in Levels : \E g \in version[m] : x \in g.entries
    BY DEF Stored, MergedEntries
  <2>a. PICK g \in version[m] : x \in g.entries
    BY <2>1
  <2>2. g \notin version'[m]
    BY <2>a DEF Stored, MergedEntries
  <2> QED BY <1>8, <2>a, <2>2
<1>12. memtables'[mem'] = memtables[mem] /\ ImmEntries' = ImmEntries
  BY <1>1 DEF mem, imm, ImmEntries
<1> HIDE DEF E, K, l
<1>13. /\ Held' \subseteq Held /\ Held \ Held' \subseteq E \ K
       /\ \A x \in Held' \ K :
            \/ x \in memtables[mem] \union ImmEntries
            \/ \E i \in Levels : /\ x \in MergedEntries(version[i])
                                 /\ i \in {l, l + 1} => x \notin E
  BY <1>9, <1>10, <1>11, <1>12 DEF Held
<1> QED BY <1>13 DEF E, K, l, c

(* Installing the outputs changes no answer: what was dropped was hidden    *)
(* from every reader, or was a deletion with nothing left to hide.          *)
LEMMA InstallRefines ==
  ASSUME BaseInv, OrderInv, ReadInv, InstallCompaction, MapsShown,
         DroppedDeletionsObsolete
  PROVE  ReadInv' /\ (MapsShown' => UNCHANGED kvVars)
<1> DEFINE c == compaction
           l == c.level
           s0 == c.smallestSnapshot
           E == Merged(c)
           K == Outcome(c)
<1>1. /\ c # NoCompaction /\ l \in 0..(NumLevels - 2)
      /\ compaction' = NoCompaction
      /\ UNCHANGED <<lastSeq, pending, memtables, hasImm, snapshots, iters>>
  BY InstallStep
<1>2. /\ Held' \subseteq Held /\ Held \ Held' \subseteq E \ K
      /\ \A x \in Held' \ K :
           \/ x \in memtables[mem] \union ImmEntries
           \/ \E i \in Levels : /\ x \in MergedEntries(version[i])
                                /\ i \in {l, l + 1} => x \notin E
  BY InstallHeld
<1>3. NoReaderBefore(s0) /\ DropsAt(version, c, s0)
  BY <1>1 DEF ReadInv, DropsOK
<1>4. \A e \in E \ K : ~HiddenAt(E, e, s0) =>
        \A x \in MergedEntries(version[l] \union version[l + 1]) \ E :
          x.k = e.k => x.s > e.s
  BY <1>1 DEF DroppedDeletionsObsolete
<1>5. \A e \in E : IF e \in K THEN ~HiddenAt(E, e, s0)
                   ELSE \/ HiddenAt(E, e, s0)
                        \/ /\ e.t = "deletion" /\ e.s <= s0
                           /\ NothingBelow(version, l, e.k)
  BY <1>3 DEF DropsAt
<1>6. Distinct(Held) /\ Distinct(Held') /\ \A e \in Held : e.s \in Nat
  <2>1. Distinct(Held)
    BY LevelDistinct
  <2>2. Distinct(Held')
    BY <1>2, <2>1, DistinctSubset
  <2> QED BY <2>1, <2>2, EntryType DEF Distinct
<1>7. /\ l \in Levels /\ l + 1 \in Levels /\ l \in Nat
      /\ K \subseteq E
      /\ \A e \in E : \E m \in {l, l + 1} : e \in MergedEntries(version[m])
  <2>1. /\ SoundInputs(version, l, c.inputs) /\ c.todo \subseteq E
        /\ \A p \in c.outputs : p.entries \subseteq E
    BY <1>1 DEF OrderInv, CompactionOK, Merged
  <2>2. K \subseteq E
    BY <2>1 DEF Outcome, MergedEntries
  <2>3. \A e \in E : \E m \in {l, l + 1} : e \in MergedEntries(version[m])
    BY <2>1 DEF SoundInputs, Merged, MergedEntries
  <2> QED BY <1>1, <2>2, <2>3, LevelsFact
<1>8. E \subseteq Stored(version) /\ E \subseteq Held
  BY <1>7 DEF Stored, MergedEntries, Held
<1> HIDE DEF E, K, l, c, s0
<1>9. ASSUME NEW k \in Keys, NEW s \in Nat, s0 <= s
      PROVE  ValueOf(Seek(Held', k, s)) = ValueOf(Seek(Held, k, s))
  <2>0. s0 \in Nat
    BY <1>3 DEF NoReaderBefore
  <2>1. CASE Candidates(Held, k, s) = {}
    <3>1. Candidates(Held', k, s) = {}
      BY <1>2, <2>1 DEF Candidates
    <3>2. Seek(Held', k, s) = {} /\ Seek(Held, k, s) = {}
      BY <1>6, <2>1, <3>1, SeekFinds DEF Distinct
    <3> QED BY <3>2
  <2>2. CASE Candidates(Held, k, s) # {}
    <3>1. PICK e \in Seek(Held, k, s) : TRUE
      BY <1>6, <2>2, SeekFinds DEF Distinct
    <3>2. /\ Seek(Held, k, s) = {e} /\ e \in Candidates(Held, k, s)
          /\ \A x \in Candidates(Held, k, s) : x.s <= e.s
      BY <1>6, <3>1, SeekOne
    <3>3. e \in Held /\ e.k = k /\ e.s <= s /\ e.s \in Nat
      BY <1>6, <3>2 DEF Candidates
    <3>4. CASE e \in Held'
      <4>1. e \in Candidates(Held', k, s)
        BY <3>3, <3>4 DEF Candidates
      <4>2. \A x \in Candidates(Held', k, s) : x.s <= e.s
        BY <1>2, <3>2 DEF Candidates
      <4>3. Seek(Held', k, s) = {e}
        BY <1>6, <4>1, <4>2, SeekIs
      <4> QED BY <3>2, <4>3
    <3>5. CASE e \notin Held'
      <4>1. e \in E \ K
        BY <1>2, <3>3, <3>5
      <4>2. ~HiddenAt(E, e, s0)
        <5> SUFFICES ASSUME NEW x \in E, x.k = e.k, e.s < x.s, x.s <= s0
                     PROVE  FALSE
          BY DEF HiddenAt
        <5>1. x \in Held /\ x.s \in Nat
          BY <1>6, <1>8
        <5>2. x \in Candidates(Held, k, s)
          BY <1>9, <2>0, <3>3, <5>1 DEF Candidates
        <5> QED BY <3>2, <3>3, <5>1, <5>2
      <4>3. e.t = "deletion" /\ e.s <= s0 /\ NothingBelow(version, l, k)
        BY <1>5, <3>3, <4>1, <4>2
      <4>4. ASSUME NEW x \in Candidates(Held', k, s) PROVE FALSE
        <5>1. x \in Held' /\ x \in Held /\ x.k = k /\ x.s \in Nat
          BY <1>2, <1>6 DEF Candidates
        <5>2. x.s < e.s
          <6>1. x.s <= e.s
            BY <1>2, <3>2 DEF Candidates
          <6>2. x.s # e.s
            BY <1>6, <3>3, <3>5, <5>1 DEF Distinct
          <6> QED BY <3>3, <5>1, <6>1, <6>2
        <5>3. ASSUME x \in E PROVE HiddenAt(E, x, s0)
          BY <3>3, <4>1, <4>3, <5>1, <5>2 DEF HiddenAt
        <5>4. x \notin K
          BY <1>5, <1>7, <5>3
        <5>5. CASE x \in memtables[mem] \union ImmEntries
          <6>1. Newer(memtables[mem] \union ImmEntries, Stored(version))
            BY DEF OrderInv, MemoryOK
          <6>2. x.s > e.s
            BY <1>8, <3>3, <4>1, <5>1, <5>5, <6>1 DEF Newer
          <6> QED BY <3>3, <5>1, <5>2, <6>2
        <5>6. ASSUME NEW i \in Levels, x \in MergedEntries(version[i]),
                     i \in {l, l + 1} => x \notin E
              PROVE  FALSE
          <6>1. PICK m \in {l, l + 1} : e \in MergedEntries(version[m])
            BY <1>7, <4>1
          <6>2. i \in Nat /\ m \in Levels
            BY <1>7 DEF Levels
          <6>3. CASE i < l
            <7>1. i < m
              BY <1>7, <6>2, <6>3
            <7>2. x.s > e.s
              BY <3>3, <5>1, <5>6, <6>1, <6>2, <7>1 DEF OrderInv, InOrder, Newer
            <7> QED BY <3>3, <5>1, <5>2, <7>2
          <6>4. CASE i \in {l, l + 1}
            <7>1. x \in MergedEntries(version[l] \union version[l + 1]) \ E
              BY <5>6, <6>4 DEF MergedEntries
            <7>2. x.s > e.s
              BY <1>4, <3>3, <4>1, <4>2, <5>1, <7>1
            <7> QED BY <3>3, <5>1, <5>2, <7>2
          <6>5. CASE i > l + 1
            BY <4>3, <5>1, <5>6, <6>5 DEF NothingBelow
          <6> QED BY <1>7, <6>2, <6>3, <6>4, <6>5
        <5> QED BY <1>2, <5>1, <5>4, <5>5, <5>6
      <4>5. Seek(Held', k, s) = {}
        BY <1>6, <4>4, SeekFinds DEF Distinct
      <4>6. ValueOf(Seek(Held', k, s)) = 0
        BY <4>5, ValueOne
      <4>7. ValueOf(Seek(Held, k, s)) = 0
        BY <3>2, <4>3, ValueOne
      <4> QED BY <4>6, <4>7
    <3> QED BY <3>4, <3>5
  <2> QED BY <2>1, <2>2
<1>10. ASSUME NEW s, ReadAt(s) PROVE View(Held', s) = View(Held, s)
  <2>1. s \in Nat /\ s0 <= s
    BY <1>3, <1>10 DEF ReadAt, NoReaderBefore, ReadInv, HandlesOK, BaseInv, TypeInv
  <2> QED BY <1>9, <2>1 DEF View
<1>11. NumbersDiffer'
  <2>1. /\ 0 \in Levels /\ 0 # l + 1
        /\ version'[0] \subseteq version[0]
    <3>1. 0 \in Levels /\ 0 # l + 1
      BY <1>7, LevelsAssumption DEF Levels
    <3>2. version'[0] = CASE 0 = l -> version[0] \ c.inputs[1]
                          [] 0 = l + 1 -> version'[0]
                          [] OTHER -> version[0]
      BY <3>1, InstallStep DEF c, l
    <3> QED BY <3>1, <3>2
  <2> QED BY <2>1 DEF ReadInv, NumbersDiffer
<1>12. HandlesOK'
  BY <1>1 DEF ReadInv, HandlesOK
<1>13. PendingOK'
  BY <1>1 DEF ReadInv, PendingOK, mem, BatchEntries
<1>14. DropsOK'
  BY <1>1 DEF DropsOK
<1>15. MapsShown' => UNCHANGED kvVars
  BY <1>1, <1>10, QuietStep DEF IterViewsStay
<1> QED BY <1>11, <1>12, <1>13, <1>14, <1>15 DEF ReadInv

-----------------------------------------------------------------------------
(* The refinement. *)

(* ReadInv holds at first, and the empty tree is the empty map.             *)
LEMMA InitRead == Init => ReadInv /\ KV!Init
<1> SUFFICES ASSUME Init PROVE ReadInv /\ KV!Init
  OBVIOUS
<1>1. /\ lastSeq = 0 /\ pending = 0 /\ memtables = <<{}>> /\ hasImm = FALSE
      /\ version = [l \in Levels |-> {}] /\ compaction = NoCompaction
      /\ snapshots = [i \in Snaps |-> Closed]
      /\ iters = [j \in Iters |-> NoIter]
  BY DEF Init
<1>2. 0 \in Levels /\ version[0] = {}
  BY <1>1, LevelsAssumption DEF Levels
<1>3. NumbersDiffer /\ HandlesOK /\ PendingOK /\ DropsOK
  BY <1>1, <1>2 DEF NumbersDiffer, HandlesOK, PendingOK, DropsOK
<1>4. ReadInv
  BY <1>3 DEF ReadInv
<1>5. MapsShown
  BY <1>4, InitBase, InitOrder, MapsAreViews
<1>6. Held = {}
  <2>1. memtables[mem] = {} /\ ImmEntries = {}
    BY <1>1 DEF mem, ImmEntries
  <2>2. Stored(version) = {}
    BY <1>1 DEF Stored, MergedEntries
  <2> QED BY <2>1, <2>2 DEF Held
<1>7. StoreMap = [k \in Keys |-> 0]
  <2>1. \A k \in Keys : Seek({}, k, lastSeq) = {}
    BY DEF Seek
  <2>2. View({}, lastSeq) = [k \in Keys |-> 0]
    BY <2>1, ValueOne DEF View
  <2> QED BY <1>5, <1>6, <2>2 DEF MapsShown
<1>8. SnapMaps = [i \in Snaps |-> <<>>] /\ IterMaps = [j \in Iters |-> <<>>]
  BY <1>1, <1>5 DEF MapsShown
<1> QED BY <1>1, <1>4, <1>7, <1>8 DEF KV!Init, KV!Absent, KV!Unused

(* Every step of the store is a step of the map or changes no map.          *)
LEMMA NextRefines ==
  ASSUME NarrowRanges
  PROVE  BaseInv /\ OrderInv /\ ReadInv /\ DroppedDeletionsObsolete
           /\ [Next]_vars
         => (BaseInv /\ OrderInv /\ ReadInv)' /\ [KV!Next]_kvVars
<1> SUFFICES ASSUME BaseInv, OrderInv, ReadInv, DroppedDeletionsObsolete,
                    [Next]_vars
             PROVE  (BaseInv /\ OrderInv /\ ReadInv)'
                    /\ (KV!Next \/ UNCHANGED kvVars)
  OBVIOUS
<1>1. BaseInv' /\ OrderInv'
  BY NextBase, NextOrder
<1>2. MapsShown
  BY MapsAreViews
<1>3. SUFFICES ReadInv' /\ (MapsShown' => KV!Next \/ UNCHANGED kvVars)
  BY <1>1, MapsAreViewsNext
<1>4. ASSUME NEW b \in Batches, WriteInsert(b)
      PROVE  ReadInv' /\ (MapsShown' => UNCHANGED kvVars)
  BY <1>1, <1>2, <1>4, InsertRefines
<1>5. CASE WritePublish
  BY <1>1, <1>2, <1>5, PublishRefines DEF KV!Next
<1>6. CASE SwitchMemTable
  BY <1>2, <1>6, SwitchRefines
<1>7. ASSUME NEW i \in Snaps, GetSnapshot(i)
      PROVE  ReadInv' /\ (MapsShown' => KV!Next)
  BY <1>2, <1>7, GetSnapshotRefines DEF KV!Next
<1>8. ASSUME NEW i \in Snaps, ReleaseSnapshot(i)
      PROVE  ReadInv' /\ (MapsShown' => KV!Next \/ UNCHANGED kvVars)
  BY <1>2, <1>8, ReleaseSnapshotRefines DEF KV!Next
<1>9. ASSUME NEW j \in Iters, NewIterator(j, lastSeq)
      PROVE  ReadInv' /\ (MapsShown' => KV!Next)
  BY <1>2, <1>9, NewIteratorRefines DEF KV!Next
<1>10. ASSUME NEW j \in Iters, DeleteIterator(j)
       PROVE  ReadInv' /\ (MapsShown' => KV!Next \/ UNCHANGED kvVars)
  BY <1>2, <1>10, DeleteIteratorRefines DEF KV!Next
<1>11. ASSUME NEW j \in Iters, NEW i \in Snaps, snapshots[i] # Closed,
              NewIterator(j, snapshots[i])
       PROVE  ReadInv' /\ (MapsShown' => KV!Next \/ UNCHANGED kvVars)
  BY <1>2, <1>11, NewIteratorAtRefines DEF KV!Next
<1>12. CASE Flush
  BY <1>1, <1>2, <1>12, FlushRefines
<1>13. ASSUME NEW l \in 0..(NumLevels - 2), AutoCompaction(l)
       PROVE  ReadInv' /\ (MapsShown' => UNCHANGED kvVars)
  <2>1. PICK in \in PickCompaction(l) : StartCompaction(l, in)
    BY <1>13 DEF AutoCompaction
  <2>2. UNCHANGED <<lastSeq, pending, memtables, hasImm, version, snapshots,
                    iters>>
    BY <1>13 DEF AutoCompaction, writeVars, memVars, fileVars, readVars
  <2> QED BY <1>2, <2>1, <2>2, StartRefines
<1>14. ASSUME NEW l \in 0..(NumLevels - 2), NEW r \in ManualRanges,
              ManualCompaction(l, r)
       PROVE  ReadInv' /\ (MapsShown' => UNCHANGED kvVars)
  <2>1. PICK in \in CompactRange(l, r[1], r[2]) : StartCompaction(l, in)
    BY <1>14 DEF ManualCompaction
  <2>2. UNCHANGED <<lastSeq, pending, memtables, hasImm, version, snapshots,
                    iters>>
    BY <1>14 DEF ManualCompaction, writeVars, memVars, fileVars, readVars
  <2> QED BY <1>2, <2>1, <2>2, StartRefines
<1>15. ASSUME NEW l \in 0..(NumLevels - 2), TrivialMove(l)
       PROVE  ReadInv' /\ (MapsShown' => UNCHANGED kvVars)
  BY <1>2, <1>15, TrivialMoveRefines
<1>16. CASE OpenOutput
  BY <1>2, <1>16, OpenOutputRefines
<1>17. CASE compaction # NoCompaction /\ \E e \in compaction.todo : FinishOutput(e)
  BY <1>2, <1>17, FinishOutputRefines
<1>18. CASE InstallCompaction
  BY <1>2, <1>18, InstallRefines
<1>19. CASE UNCHANGED vars
  <2>1. UNCHANGED <<lastSeq, pending, memtables, hasImm, version, compaction,
                    snapshots, iters>>
    BY <1>19 DEF vars, writeVars, memVars, fileVars, readVars
  <2>2. Held' = Held
    BY <2>1 DEF Held, ImmEntries, mem, imm
  <2>3. NumbersDiffer' /\ DropsOK'
    BY <2>1 DEF ReadInv, NumbersDiffer, DropsOK, NoReaderBefore
  <2> QED BY <1>2, <2>1, <2>2, <2>3, HeldUnchanged DEF ReadInv
<1> QED BY <1>4, <1>5, <1>6, <1>7, <1>8, <1>9, <1>10, <1>11, <1>12, <1>13, <1>14,
           <1>15, <1>16, <1>17, <1>18, <1>19 DEF Next

(* The store implements the map of KVStore in every behaviour in which no   *)
(* compaction drops a deletion and leaves an older entry of its key behind  *)
(* in the levels it merges, provided that no key lies strictly inside a     *)
(* range given to CompactRange: whatever is written, switched, flushed,     *)
(* moved, compacted and dropped, reads, snapshots and iterators answer as   *)
(* the map does.                                                            *)
THEOREM StoreRefinesKVStore ==
  ASSUME NarrowRanges
  PROVE  Spec /\ []DroppedDeletionsObsolete => ImplementsKVStore
<1>1. Init => BaseInv /\ OrderInv /\ ReadInv /\ KV!Init
  BY InitBase, InitOrder, InitRead
<1>2. BaseInv /\ OrderInv /\ ReadInv /\ DroppedDeletionsObsolete /\ [Next]_vars
        => (BaseInv /\ OrderInv /\ ReadInv)' /\ [KV!Next]_(KV!vars)
  BY NextRefines DEF kvVars, KV!vars
<1> QED BY <1>1, <1>2, PTL DEF Spec, ImplementsKVStore, KV!Spec

-----------------------------------------------------------------------------
(* Without snapshots no user key is ever split over two files of a level    *)
(* below 0, and the deletions that are dropped are obsolete. *)

NoCommonKey(A, B) == \A a \in A, b \in B : a.k # b.k

(* No two files of a level below 0 hold the same key, what left the         *)
(* memtable is published, and a compaction takes every file of the output   *)
(* level that holds a key of its inputs, all of them visible to every       *)
(* reader.                                                                  *)
WholeInv ==
  /\ \A l \in Levels \ {0} : \A f, g \in version[l] :
       f # g => NoCommonKey(f.entries, g.entries)
  /\ \A e \in ImmEntries \union Stored(version) : e.s <= lastSeq
  /\ compaction # NoCompaction =>
       /\ \A g \in version[compaction.level + 1] \ compaction.inputs[2] :
            NoCommonKey(g.entries, Merged(compaction))
       /\ \A e \in Merged(compaction) : e.s <= compaction.smallestSnapshot

(* Then a dropped deletion leaves nothing behind.                           *)
LEMMA WholeObsolete ==
  BaseInv /\ OrderInv /\ WholeInv => DroppedDeletionsObsolete
<1> DEFINE c == compaction
           E == Merged(c)
<1> SUFFICES ASSUME BaseInv, OrderInv, WholeInv, c # NoCompaction, NEW e \in E,
                    NEW x \in MergedEntries(version[c.level]
                                              \union version[c.level + 1]) \ E,
                    x.k = e.k
             PROVE  x.s > e.s
  BY DEF DroppedDeletionsObsolete
<1>1. SoundInputs(version, c.level, c.inputs)
  BY DEF OrderInv, CompactionOK
<1>2. PICK g \in version[c.level] \union version[c.level + 1] : x \in g.entries
  BY EntriesOf
<1>3. g \notin c.inputs[1] \union c.inputs[2]
  BY <1>2 DEF Merged, MergedEntries
<1>4. CASE g \in version[c.level]
  <2>1. Newer(g.entries, E)
    BY <1>1, <1>3, <1>4 DEF SoundInputs, Merged
  <2> QED BY <1>2, <2>1 DEF Newer
<1>5. CASE g \in version[c.level + 1]
  <2>1. NoCommonKey(g.entries, E)
    BY <1>3, <1>5 DEF WholeInv
  <2> QED BY <1>2, <2>1 DEF NoCommonKey
<1> QED BY <1>2, <1>4, <1>5

(* SetupOtherInputs takes every file of the next level whose keys meet the  *)
(* range of the inputs.                                                     *)
LEMMA InputsWhole ==
  ASSUME BaseInv, OrderInv, NEW l \in 0..(NumLevels - 2), NEW in,
         in \in PickCompaction(l) \/ \E lo, hi : in \in CompactRange(l, lo, hi),
         in[1] \subseteq version[l], NEW g \in version[l + 1] \ in[2]
  PROVE  NoCommonKey(g.entries, MergedEntries(in[1]))
<1>1. PICK c : in \in SetupOtherInputs(l, c)
  BY DEF PickCompaction, CompactRange
<1>2. in[2] = Over(l + 1, in[1])
  BY <1>1 DEF SetupOtherInputs, Over
<1>3. /\ l \in Levels /\ l + 1 \in Levels /\ l + 1 > 0
      /\ Good(version[l]) /\ Good(version[l + 1])
  BY LevelsFact, StoredDistinct DEF BaseInv
<1> DEFINE r == GetRange(in[1])
<1>4. ~Overlaps(g, r[1], r[2])
  <2>1. in[2] = Hit(version[l + 1], r)
    BY <1>2, <1>3, OverBelow DEF BaseInv
  <2> QED BY <2>1 DEF Hit
<1>5. ASSUME NEW f \in in[1] PROVE NoCommonKey(g.entries, f.entries)
  <2>1. Good(in[1]) /\ FileOK(f) /\ FileOK(g) /\ in[1] # {}
    BY <1>3, <1>5, GoodSubset DEF Good
  <2>2. /\ r[1] \in Int /\ r[2] \in Int
        /\ r[1] <= f.smallest.k /\ f.largest.k <= r[2]
    BY <1>5, <2>1, RangeOf
  <2> HIDE DEF r
  <2>3. ~Overlaps(g, f.smallest.k, f.largest.k)
    BY <1>4, <2>1, <2>2, FileKeys DEF Overlaps
  <2> QED BY <2>1, <2>3, NoOverlapOrdered DEF NoCommonKey
<1> QED BY <1>5, EntriesOf DEF NoCommonKey

(* Steps that leave the files alone keep WholeInv.                          *)
LEMMA WholeUnchanged ==
  ASSUME BaseInv, WholeInv, UNCHANGED <<version, compaction>>, Held \subseteq Entry,
         lastSeq' \in Nat, lastSeq <= lastSeq', ImmEntries' = ImmEntries
  PROVE  WholeInv'
<1> DEFINE S == ImmEntries \union Stored(version)
<1>1. \A e \in S : e.s \in Nat /\ e.s <= lastSeq'
  <2>1. S \subseteq Entry /\ \A e \in S : e.s <= lastSeq
    BY DEF WholeInv, Held
  <2> HIDE DEF S
  <2>2. lastSeq \in Nat /\ \A e \in S : e.s \in Nat
    BY <2>1, EntryType DEF BaseInv, TypeInv
  <2> QED BY <2>1, <2>2
<1>2. \A e \in ImmEntries' \union Stored(version') : e.s <= lastSeq'
  BY <1>1
<1>3. \A l \in Levels \ {0} : \A f, g \in version'[l] :
        f # g => NoCommonKey(f.entries, g.entries)
  BY DEF WholeInv
<1>4. compaction' # NoCompaction =>
        /\ \A g \in version'[compaction'.level + 1] \ compaction'.inputs[2] :
             NoCommonKey(g.entries, Merged(compaction'))
        /\ \A e \in Merged(compaction') : e.s <= compaction'.smallestSnapshot
  BY DEF WholeInv
<1> QED BY <1>2, <1>3, <1>4 DEF WholeInv

(* A flush keeps WholeInv: below level 0 the new file meets no other.       *)
LEMMA FlushWhole ==
  ASSUME BaseInv, OrderInv, WholeInv, Flush
  PROVE  WholeInv'
<1> DEFINE I == memtables[imm]
           f == File(nextFile, I)
<1>1. hasImm /\ hasImm' = FALSE /\ UNCHANGED <<lastSeq, compaction>>
  BY FlushStep DEF BaseInv
<1>2. PICK l \in PickLevelForMemTableOutput(f.smallest.k, f.largest.k) :
        /\ l \in Levels
        /\ version' = [m \in Levels |->
             IF m = l THEN version[m] \union {f} ELSE version[m]]
  BY FlushStep DEF BaseInv
<1>3. l > 0 => \A i \in 0..l : \A g \in version[i] :
                 ~Overlaps(g, f.smallest.k, f.largest.k)
  BY DEF PickLevelForMemTableOutput, OverlapInLevel
<1>4. ImmEntries = I /\ I # {}
  BY <1>1 DEF ImmEntries, OrderInv
<1>5. FileOK(f) /\ f.entries = I
  <2>1. Distinct(I)
    BY <1>4, LevelDistinct, DistinctSubset DEF Held
  <2> QED BY <1>4, <2>1, FileMade
<1> HIDE DEF f, I
<1>6. ASSUME l > 0, NEW i \in 0..l, NEW g \in version[i]
      PROVE  NoCommonKey(g.entries, f.entries) /\ NoCommonKey(f.entries, g.entries)
  <2>1. i \in Levels
    <3>1. l \in 0..(NumLevels - 1) /\ NumLevels \in Nat /\ Levels = 0..(NumLevels - 1)
      BY <1>2, LevelsAssumption DEF Levels
    <3> HIDE DEF Levels
    <3>2. i \in 0..(NumLevels - 1)
      BY <3>1
    <3> QED BY <3>1, <3>2
  <2>2. FileOK(g)
    BY <2>1 DEF OrderInv, VersionOK
  <2> QED BY <1>3, <1>5, <1>6, <2>2, NoOverlapOrdered DEF NoCommonKey
<1>7. ASSUME NEW m \in Levels \ {0}, NEW g \in version'[m], NEW h \in version'[m],
             g # h
      PROVE  NoCommonKey(g.entries, h.entries)
  <2>1. CASE m # l
    BY <1>2, <1>7, <2>1 DEF WholeInv
  <2>2. CASE m = l
    <3>1. l > 0 /\ l \in 0..l
      BY <2>2 DEF Levels
    <3>2. version'[m] = version[m] \union {f}
      BY <1>2, <2>2
    <3> QED BY <1>6, <1>7, <2>2, <3>1, <3>2 DEF WholeInv
  <2> QED BY <2>1, <2>2
<1>8. \A e \in ImmEntries' \union Stored(version') : e.s <= lastSeq'
  <2>1. ImmEntries' = {} /\ Stored(version') = Stored(version) \union I
    BY <1>1, <1>2, <1>5 DEF ImmEntries, Stored, MergedEntries
  <2> QED BY <1>1, <1>4, <2>1 DEF WholeInv
<1>9. ASSUME compaction # NoCompaction,
             NEW g \in version'[compaction.level + 1] \ compaction.inputs[2]
      PROVE  NoCommonKey(g.entries, Merged(compaction))
  <2> DEFINE m == compaction.level
  <2>1. /\ SoundInputs(version, m, compaction.inputs) /\ m \in 0..(NumLevels - 2)
        /\ m \in Nat /\ m + 1 \in Levels
    BY <1>9, LevelsFact DEF OrderInv, CompactionOK, BaseInv, CompactionType
  <2>2. CASE g \in version[m + 1]
    BY <1>9, <2>2 DEF WholeInv
  <2>3. CASE g \notin version[m + 1]
    <3>1. l = m + 1 /\ g = f
      BY <1>2, <1>9, <2>1, <2>3
    <3>2. l > 0 /\ m \in 0..l /\ m + 1 \in 0..l
      BY <2>1, <3>1
    <3>3. \A h \in compaction.inputs[1] \union compaction.inputs[2] :
            NoCommonKey(f.entries, h.entries)
      BY <1>6, <2>1, <3>2 DEF SoundInputs
    <3> QED BY <3>1, <3>3, EntriesOf DEF NoCommonKey, Merged
  <2> QED BY <2>2, <2>3
<1>10. compaction' # NoCompaction =>
        /\ \A g \in version'[compaction'.level + 1] \ compaction'.inputs[2] :
             NoCommonKey(g.entries, Merged(compaction'))
        /\ \A e \in Merged(compaction') : e.s <= compaction'.smallestSnapshot
  BY <1>1, <1>9 DEF WholeInv
<1> QED BY <1>7, <1>8, <1>10 DEF WholeInv

(* A compaction starts with whole keys that everyone can see.               *)
LEMMA StartWhole ==
  ASSUME Snaps = {}, BaseInv, OrderInv, WholeInv, NEW l \in 0..(NumLevels - 2),
         NEW in, SoundInputs(version, l, in), StartCompaction(l, in),
         in \in PickCompaction(l) \/ \E lo, hi : in \in CompactRange(l, lo, hi),
         UNCHANGED <<lastSeq, memtables, hasImm, version>>
  PROVE  WholeInv'
<1>1. /\ compaction'.level = l /\ compaction'.inputs = in
      /\ compaction'.smallestSnapshot = SmallestSnapshot
  BY DEF StartCompaction
<1>2. SmallestSnapshot = lastSeq
  BY DEF SmallestSnapshot
<1>3. in[1] \subseteq version[l] /\ in[2] \subseteq version[l + 1]
  BY DEF SoundInputs
<1>4. l \in Levels /\ l + 1 \in Levels \ {0}
  BY LevelsFact
<1>5. Merged(compaction') = MergedEntries(in[1]) \union MergedEntries(in[2])
  BY <1>1, EntriesUnion DEF Merged
<1>6. \A e \in Merged(compaction') : e.s <= lastSeq
  <2>1. Merged(compaction') \subseteq Stored(version)
    BY <1>3, <1>4, <1>5 DEF Stored, MergedEntries
  <2> QED BY <2>1 DEF WholeInv
<1>7. ASSUME NEW g \in version[l + 1] \ in[2]
      PROVE  NoCommonKey(g.entries, Merged(compaction'))
  <2>1. NoCommonKey(g.entries, MergedEntries(in[1]))
    BY <1>3, InputsWhole
  <2>2. \A h \in in[2] : NoCommonKey(g.entries, h.entries)
    BY <1>3, <1>4 DEF WholeInv
  <2>3. NoCommonKey(g.entries, MergedEntries(in[2]))
    BY <2>2, EntriesOf DEF NoCommonKey
  <2> QED BY <1>5, <2>1, <2>3 DEF NoCommonKey
<1>8. ImmEntries' = ImmEntries
  BY DEF ImmEntries, imm, mem
<1>9. \A e \in ImmEntries' \union Stored(version') : e.s <= lastSeq'
  BY <1>8 DEF WholeInv
<1>10. \A m \in Levels \ {0} : \A f, g \in version'[m] :
         f # g => NoCommonKey(f.entries, g.entries)
  BY DEF WholeInv
<1>11. compaction' # NoCompaction =>
        /\ \A g \in version'[compaction'.level + 1] \ compaction'.inputs[2] :
             NoCommonKey(g.entries, Merged(compaction'))
        /\ \A e \in Merged(compaction') : e.s <= compaction'.smallestSnapshot
  BY <1>1, <1>2, <1>6, <1>7
<1> QED BY <1>9, <1>10, <1>11 DEF WholeInv

(* A trivial move keeps WholeInv: no file of the next level meets the moved *)
(* one.                                                                     *)
LEMMA TrivialMoveWhole ==
  ASSUME BaseInv, OrderInv, WholeInv, NEW l \in 0..(NumLevels - 2),
         TrivialMove(l)
  PROVE  WholeInv'
<1>1. /\ compaction' = NoCompaction /\ UNCHANGED <<lastSeq, memtables, hasImm>>
  BY TrivialMoveStep
<1>2. PICK in \in PickCompaction(l) :
        /\ Cardinality(in[1]) = 1 /\ in[2] = {} /\ in[1] \subseteq version[l]
        /\ version' = [m \in Levels |->
             CASE m = l -> version[m] \ in[1]
               [] m = l + 1 -> version[m] \union in[1]
               [] OTHER -> version[m]]
  BY TrivialMoveStep
<1>3. l \in Levels /\ l + 1 \in Levels /\ l # l + 1 /\ l + 1 # 0
  BY LevelsFact
<1>4. /\ version'[l] = version[l] \ in[1]
      /\ version'[l + 1] = version[l + 1] \union in[1]
      /\ \A m \in Levels : m # l /\ m # l + 1 => version'[m] = version[m]
  BY <1>2, <1>3
<1>5. ASSUME NEW g \in version[l + 1], NEW f \in in[1]
      PROVE  NoCommonKey(g.entries, f.entries) /\ NoCommonKey(f.entries, g.entries)
  <2>1. NoCommonKey(g.entries, MergedEntries(in[1]))
    BY <1>2, InputsWhole
  <2> QED BY <2>1 DEF NoCommonKey, MergedEntries
<1>6. \A f, g \in in[1] : f = g
  <2>1. IsFiniteSet(in[1])
    <3>1. IsFiniteSet(version[l])
      BY <1>3 DEF BaseInv, FinitelyMany
    <3> QED BY <1>2, <3>1, FS_Subset
  <2>2. \E f : in[1] = {f}
    BY <1>2, <2>1, FS_Singleton
  <2> QED BY <2>2
<1>7. ASSUME NEW m \in Levels \ {0}, NEW f \in version'[m], NEW g \in version'[m],
             f # g
      PROVE  NoCommonKey(f.entries, g.entries)
  <2>1. CASE m = l
    <3>1. f \in version[m] /\ g \in version[m]
      BY <1>4, <2>1
    <3> QED BY <1>7, <3>1 DEF WholeInv
  <2>2. CASE m = l + 1
    <3>1. /\ f \in version[l + 1] \/ f \in in[1]
          /\ g \in version[l + 1] \/ g \in in[1]
      BY <1>4, <2>2
    <3>2. CASE f \in version[l + 1] /\ g \in version[l + 1]
      BY <1>3, <1>7, <3>2 DEF WholeInv
    <3> QED BY <1>5, <1>6, <1>7, <3>1, <3>2
  <2>3. CASE m # l /\ m # l + 1
    BY <1>4, <1>7, <2>3 DEF WholeInv
  <2> QED BY <2>1, <2>2, <2>3
<1>8. Stored(version') \subseteq Stored(version)
  <2>1. \A m \in Levels : \A f \in version'[m] : \E i \in Levels : f \in version[i]
    BY <1>2, <1>3, <1>4
  <2> QED BY <2>1 DEF Stored, MergedEntries
<1>9. ImmEntries' = ImmEntries
  BY <1>1 DEF ImmEntries, imm, mem
<1>10. \A e \in ImmEntries' \union Stored(version') : e.s <= lastSeq'
  BY <1>1, <1>8, <1>9 DEF WholeInv
<1> QED BY <1>1, <1>7, <1>10 DEF WholeInv

(* Writing outputs keeps WholeInv.                                          *)
LEMMA OutputWhole ==
  ASSUME WholeInv, compaction # NoCompaction,
         compaction'.level = compaction.level,
         compaction'.inputs = compaction.inputs,
         compaction'.smallestSnapshot = compaction.smallestSnapshot,
         UNCHANGED <<lastSeq, memtables, hasImm, version>>
  PROVE  WholeInv'
<1>1. Merged(compaction') = Merged(compaction) /\ ImmEntries' = ImmEntries
  BY DEF Merged, ImmEntries, imm, mem
<1>2. \A e \in ImmEntries' \union Stored(version') : e.s <= lastSeq'
  BY <1>1 DEF WholeInv
<1>3. \A m \in Levels \ {0} : \A f, g \in version'[m] :
        f # g => NoCommonKey(f.entries, g.entries)
  BY DEF WholeInv
<1>4. /\ \A g \in version'[compaction'.level + 1] \ compaction'.inputs[2] :
           NoCommonKey(g.entries, Merged(compaction'))
      /\ \A e \in Merged(compaction') : e.s <= compaction'.smallestSnapshot
  BY <1>1 DEF WholeInv
<1> QED BY <1>2, <1>3, <1>4 DEF WholeInv

(* Of the entries of a key that everyone can see a compaction keeps one, so *)
(* its outputs share no key.                                                *)
LEMMA OutcomeOnePerKey ==
  ASSUME BaseInv, OrderInv, WholeInv, ReadInv, compaction # NoCompaction,
         NEW a \in Outcome(compaction), NEW b \in Outcome(compaction), a.k = b.k
  PROVE  a = b
<1> DEFINE E == Merged(compaction)
           s == compaction.smallestSnapshot
<1>1. DropsAt(version, compaction, s)
  BY DEF ReadInv, DropsOK
<1>2. Outcome(compaction) \subseteq E /\ Distinct(E)
  <2>1. /\ compaction.todo \subseteq E
        /\ \A p \in compaction.outputs : p.entries \subseteq E
    BY DEF OrderInv, CompactionOK, Merged
  <2>2. Distinct(E)
    BY CompactionDistinct DEF Merged
  <2> QED BY <2>1, <2>2 DEF Outcome, MergedEntries
<1>3. ~HiddenAt(E, a, s) /\ ~HiddenAt(E, b, s)
  BY <1>1, <1>2 DEF DropsAt
<1>4. a \in E /\ b \in E /\ a.s <= s /\ b.s <= s
  BY <1>2 DEF WholeInv
<1> HIDE DEF E, s
<1>5. ~(a.s < b.s) /\ ~(b.s < a.s)
  BY <1>3, <1>4 DEF HiddenAt
<1>6. a.s \in Nat /\ b.s \in Nat
  BY <1>2, <1>4, EntryType DEF Distinct
<1>7. a.s = b.s
  BY <1>5, <1>6
<1> QED BY <1>2, <1>4, <1>7 DEF Distinct

(* Installing the outputs keeps WholeInv.                                   *)
LEMMA InstallWhole ==
  ASSUME BaseInv, OrderInv, WholeInv, ReadInv, InstallCompaction
  PROVE  WholeInv'
<1> DEFINE c == compaction
           l == c.level
           rest == IF c.todo = {} THEN {} ELSE {File(c.outfile, c.todo)}
           new == c.outputs \union rest
<1>1. /\ c # NoCompaction /\ l \in 0..(NumLevels - 2)
      /\ version' = [m \in Levels |->
           CASE m = l -> version[m] \ c.inputs[1]
             [] m = l + 1 ->
                  (version[m] \ c.inputs[2]) \union c.outputs \union rest
             [] OTHER -> version[m]]
      /\ compaction' = NoCompaction
      /\ UNCHANGED <<lastSeq, memtables, hasImm>>
  BY InstallStep
<1>2. /\ c.todo \subseteq Merged(c)
      /\ \A p \in c.outputs : /\ p.entries \subseteq Merged(c)
                              /\ Ahead(p.entries, c.todo)
      /\ \A p, q \in c.outputs : p # q => Apart(p.entries, q.entries)
  BY <1>1 DEF OrderInv, CompactionOK, Merged
<1>3. \A o \in rest : o.entries = c.todo /\ rest = {o}
  <2>1. File(c.outfile, c.todo).entries = c.todo
    BY DEF File
  <2> QED BY <2>1
<1> HIDE DEF rest
<1>4. \A o \in new : o.entries \subseteq Outcome(c) /\ o.entries \subseteq Merged(c)
  BY <1>2, <1>3 DEF Outcome, MergedEntries
<1>5. \A o, p \in new : o # p => Apart(o.entries, p.entries)
  <2>1. \A p \in c.outputs, o \in rest : Ahead(p.entries, o.entries)
    BY <1>2, <1>3
  <2> QED BY <1>2, <1>3, <2>1 DEF Apart
<1>6. ASSUME NEW o \in new, NEW p \in new, o # p
      PROVE  NoCommonKey(o.entries, p.entries)
  <2> SUFFICES ASSUME NEW a \in o.entries, NEW b \in p.entries, a.k = b.k
               PROVE  FALSE
    BY DEF NoCommonKey
  <2>1. a \in Outcome(c) /\ b \in Outcome(c) /\ a \in Merged(c)
    BY <1>4
  <2>2. a = b
    BY <1>1, <2>1, OutcomeOnePerKey
  <2>3. Apart(o.entries, p.entries)
    BY <1>5, <1>6
  <2>4. Before(a, a)
    BY <2>2, <2>3 DEF Apart, Ahead
  <2>5. a \in Entry
    <3>1. Distinct(Merged(c))
      BY <1>1, CompactionDistinct DEF Merged
    <3> QED BY <2>1, <3>1 DEF Distinct
  <2> QED BY <2>4, <2>5, BeforeOrder
<1>7. ASSUME NEW o \in new, NEW g \in version[l + 1] \ c.inputs[2]
      PROVE  NoCommonKey(o.entries, g.entries) /\ NoCommonKey(g.entries, o.entries)
  <2>1. NoCommonKey(g.entries, Merged(c))
    BY <1>1 DEF WholeInv
  <2> QED BY <1>4, <2>1 DEF NoCommonKey
<1>8. l \in Levels /\ l + 1 \in Levels /\ l # l + 1 /\ l + 1 # 0
  BY <1>1, LevelsFact
<1>9. /\ version'[l] = version[l] \ c.inputs[1]
      /\ version'[l + 1] = (version[l + 1] \ c.inputs[2]) \union new
      /\ \A m \in Levels : m # l /\ m # l + 1 => version'[m] = version[m]
  BY <1>1, <1>8
<1> HIDE DEF new
<1>10. ASSUME NEW m \in Levels \ {0}, NEW f \in version'[m],
              NEW g \in version'[m], f # g
       PROVE  NoCommonKey(f.entries, g.entries)
  <2>1. CASE m = l
    <3>1. f \in version[m] /\ g \in version[m]
      BY <1>9, <2>1
    <3> QED BY <1>10, <3>1 DEF WholeInv
  <2>2. CASE m = l + 1
    <3>1. /\ f \in version[l + 1] \ c.inputs[2] \/ f \in new
          /\ g \in version[l + 1] \ c.inputs[2] \/ g \in new
      BY <1>9, <2>2
    <3>2. CASE f \in version[l + 1] /\ g \in version[l + 1]
      BY <1>8, <1>10, <3>2 DEF WholeInv
    <3> QED BY <1>6, <1>7, <1>10, <3>1, <3>2
  <2>3. CASE m # l /\ m # l + 1
    BY <1>9, <1>10, <2>3 DEF WholeInv
  <2> QED BY <2>1, <2>2, <2>3
<1>11. ImmEntries' = ImmEntries
  BY <1>1 DEF ImmEntries, imm, mem
<1>12. Stored(version') \subseteq Stored(version)
  <2>1. Merged(c) \subseteq Stored(version)
    <3>1. SoundInputs(version, l, c.inputs)
      BY <1>1 DEF OrderInv, CompactionOK
    <3> QED BY <1>8, <3>1 DEF SoundInputs, Merged, Stored, MergedEntries
  <2>2. ASSUME NEW m \in Levels, NEW f \in version'[m]
        PROVE  f \in version[m] \/ f \in new
    BY <1>9
  <2>3. ASSUME NEW x \in Stored(version') PROVE x \in Stored(version)
    <3>1. PICK m \in Levels : \E f \in version'[m] : x \in f.entries
      BY DEF Stored, MergedEntries
    <3>2. PICK f \in version'[m] : x \in f.entries
      BY <3>1
    <3>3. CASE f \in version[m]
      BY <3>2, <3>3 DEF Stored, MergedEntries
    <3>4. CASE f \in new
      BY <1>4, <2>1, <3>2, <3>4
    <3> QED BY <2>2, <3>3, <3>4
  <2> QED BY <2>3
<1>13. \A e \in ImmEntries' \union Stored(version') : e.s <= lastSeq'
  BY <1>1, <1>11, <1>12 DEF WholeInv
<1> QED BY <1>1, <1>10, <1>13 DEF WholeInv

(* A memtable is switched out when everything in it is published.           *)
LEMMA SwitchWhole ==
  ASSUME BaseInv, OrderInv, WholeInv, SwitchMemTable
  PROVE  WholeInv'
<1>1. /\ pending = 0 /\ hasImm = FALSE /\ hasImm' = TRUE
      /\ memtables' = Append(memtables, {})
      /\ UNCHANGED <<lastSeq, version, compaction>>
  BY DEF SwitchMemTable, writeVars, fileVars, BaseInv, TypeInv
<1>2. memtables \in Seq(SUBSET Entry) /\ Len(memtables) \in Nat
      /\ Len(memtables) > 0 /\ lastSeq \in Nat
  BY DEF BaseInv, TypeInv
<1>3. ImmEntries' = memtables[mem]
  <2>1. /\ Len(memtables') = Len(memtables) + 1
        /\ memtables'[Len(memtables)] = memtables[Len(memtables)]
    BY <1>1, <1>2
  <2>2. imm' = mem
    BY <1>2, <2>1 DEF mem, imm
  <2> QED BY <1>1, <2>1, <2>2 DEF ImmEntries, mem
<1>4. \A e \in memtables[mem] : e.s <= lastSeq
  <2>1. lastSeq + pending = lastSeq
    BY <1>1, <1>2
  <2> QED BY <2>1 DEF OrderInv, MemoryOK
<1>5. \A e \in ImmEntries' \union Stored(version') : e.s <= lastSeq'
  BY <1>1, <1>3, <1>4 DEF WholeInv
<1>6. \A l \in Levels \ {0} : \A f, g \in version'[l] :
        f # g => NoCommonKey(f.entries, g.entries)
  BY <1>1 DEF WholeInv
<1>7. compaction' # NoCompaction =>
        /\ \A g \in version'[compaction'.level + 1] \ compaction'.inputs[2] :
             NoCommonKey(g.entries, Merged(compaction'))
        /\ \A e \in Merged(compaction') : e.s <= compaction'.smallestSnapshot
  BY <1>1 DEF WholeInv
<1> QED BY <1>5, <1>6, <1>7 DEF WholeInv

(* Without snapshots every step keeps WholeInv.                             *)
LEMMA NextWhole ==
  ASSUME NarrowRanges, Snaps = {}
  PROVE  BaseInv /\ OrderInv /\ ReadInv /\ WholeInv /\ [Next]_vars => WholeInv'
<1> SUFFICES ASSUME BaseInv, OrderInv, ReadInv, WholeInv, [Next]_vars
             PROVE  WholeInv'
  OBVIOUS
<1>1. /\ Held \subseteq Entry /\ lastSeq \in Nat /\ pending \in Nat
      /\ hasImm \in BOOLEAN /\ TypeInv
      /\ memtables \in Seq(SUBSET Entry) /\ Len(memtables) \in Nat
      /\ hasImm => Len(memtables) > 1
  BY LevelDistinct DEF Distinct, BaseInv, TypeInv
<1>2. ASSUME NEW b \in Batches, WriteInsert(b) PROVE WholeInv'
  <2> DEFINE B == {[k |-> b[i].k, s |-> lastSeq + i, t |-> b[i].t] : i \in DOMAIN b}
  <2>1. /\ memtables' = [memtables EXCEPT ![mem] = @ \union B]
        /\ UNCHANGED <<lastSeq, hasImm, version, compaction>>
    BY <1>2 DEF WriteInsert, fileVars
  <2> HIDE DEF B
  <2>2. mem' = mem /\ imm' = imm
    BY <1>1, <2>1 DEF mem, imm
  <2>3. hasImm => memtables'[imm] = memtables[imm]
    BY <1>1, <2>1 DEF mem, imm
  <2>4. ImmEntries' = ImmEntries
    BY <2>1, <2>2, <2>3 DEF ImmEntries
  <2> QED BY <1>1, <2>1, <2>4, WholeUnchanged
<1>3. CASE WritePublish
  <2>1. /\ lastSeq' = lastSeq + pending
        /\ UNCHANGED <<memtables, hasImm, version, compaction>>
    BY <1>3 DEF WritePublish, memVars, fileVars
  <2>2. ImmEntries' = ImmEntries
    BY <2>1 DEF ImmEntries, imm, mem
  <2>3. lastSeq' \in Nat /\ lastSeq <= lastSeq'
    BY <1>1, <2>1
  <2> QED BY <1>1, <2>1, <2>2, <2>3, WholeUnchanged
<1>4. CASE SwitchMemTable
  BY <1>4, SwitchWhole
<1>5. CASE \/ \E i \in Snaps : GetSnapshot(i) \/ ReleaseSnapshot(i)
           \/ \E j \in Iters : \E s : NewIterator(j, s)
           \/ UNCHANGED vars
  <2>1. UNCHANGED <<lastSeq, memtables, hasImm, version, compaction>>
    BY <1>5 DEF GetSnapshot, ReleaseSnapshot, NewIterator, vars, writeVars,
                memVars, fileVars
  <2>2. ImmEntries' = ImmEntries
    BY <2>1 DEF ImmEntries, imm, mem
  <2> QED BY <1>1, <2>1, <2>2, WholeUnchanged
<1>6. ASSUME NEW j \in Iters, DeleteIterator(j) PROVE WholeInv'
  <2>1. /\ memtables' = FreeMemTables(iters', hasImm)
        /\ UNCHANGED <<lastSeq, hasImm, version, compaction>>
    BY <1>6 DEF DeleteIterator, writeVars, fileVars
  <2>2. /\ imm' = imm
        /\ hasImm => memtables'[imm] = memtables[imm]
    BY <1>1, <2>1, FreeKeeps
  <2>3. ImmEntries' = ImmEntries
    BY <2>1, <2>2 DEF ImmEntries
  <2> QED BY <1>1, <2>1, <2>3, WholeUnchanged
<1>7. CASE Flush
  BY <1>7, FlushWhole
<1>8. ASSUME NEW l \in 0..(NumLevels - 2), AutoCompaction(l) PROVE WholeInv'
  <2>1. PICK in \in PickCompaction(l) : StartCompaction(l, in)
    BY <1>8 DEF AutoCompaction
  <2>2. UNCHANGED <<lastSeq, memtables, hasImm, version>>
    BY <1>8 DEF AutoCompaction, writeVars, memVars, fileVars
  <2>3. SoundInputs(version, l, in)
    BY PickSound DEF BaseInv
  <2> QED BY <2>1, <2>2, <2>3, StartWhole
<1>9. ASSUME NEW l \in 0..(NumLevels - 2), NEW r \in ManualRanges,
             ManualCompaction(l, r)
      PROVE  WholeInv'
  <2>1. PICK in \in CompactRange(l, r[1], r[2]) : StartCompaction(l, in)
    BY <1>9 DEF ManualCompaction
  <2>2. UNCHANGED <<lastSeq, memtables, hasImm, version>>
    BY <1>9 DEF ManualCompaction, writeVars, memVars, fileVars
  <2>3. /\ r[1] \in Keys /\ r[2] \in Keys
        /\ \A k \in Keys : ~(r[1] < k /\ k < r[2])
    BY BoundsAssumption DEF NarrowRanges
  <2>4. SoundInputs(version, l, in)
    BY <2>3, ManualSound DEF BaseInv
  <2> QED BY <2>1, <2>2, <2>4, StartWhole
<1>10. ASSUME NEW l \in 0..(NumLevels - 2), TrivialMove(l) PROVE WholeInv'
  BY <1>10, TrivialMoveWhole
<1>11. CASE OpenOutput
  BY <1>11, OpenOutputStep, OutputWhole
<1>12. CASE compaction # NoCompaction /\ \E e \in compaction.todo : FinishOutput(e)
  BY <1>12, FinishOutputStep, OutputWhole
<1>13. CASE InstallCompaction
  BY <1>13, InstallWhole
<1> QED BY <1>2, <1>3, <1>4, <1>5, <1>6, <1>7, <1>8, <1>9, <1>10, <1>11, <1>12,
           <1>13 DEF Next

(* WholeInv holds at first.                                                 *)
LEMMA InitWhole == Init => WholeInv
<1> SUFFICES ASSUME Init PROVE WholeInv
  OBVIOUS
<1>1. /\ hasImm = FALSE /\ compaction = NoCompaction
      /\ version = [l \in Levels |-> {}]
  BY DEF Init
<1>2. ImmEntries = {} /\ Stored(version) = {} /\ \A l \in Levels : version[l] = {}
  BY <1>1 DEF ImmEntries, Stored, MergedEntries
<1> QED BY <1>1, <1>2 DEF WholeInv

(* A program that takes no snapshots never has a deletion undone: what a    *)
(* compaction leaves behind in the two levels it merges is newer than every *)
(* deletion it drops.                                                       *)
THEOREM DeletionsStayWithoutSnapshots ==
  ASSUME NarrowRanges, Snaps = {}
  PROVE  Spec => []DroppedDeletionsObsolete
<1>1. Init => BaseInv /\ OrderInv /\ ReadInv /\ WholeInv
  BY InitBase, InitOrder, InitRead, InitWhole
<1>2. BaseInv /\ OrderInv /\ ReadInv /\ WholeInv /\ [Next]_vars
        => (BaseInv /\ OrderInv /\ ReadInv /\ WholeInv)'
  BY NextRefines, NextWhole, WholeObsolete
<1>3. BaseInv /\ OrderInv /\ ReadInv /\ WholeInv => DroppedDeletionsObsolete
  BY WholeObsolete
<1> QED BY <1>1, <1>2, <1>3, PTL DEF Spec

(* So without snapshots the store implements the map of KVStore, whatever   *)
(* is written, switched, flushed, moved, compacted and dropped.             *)
THEOREM StoreRefinesKVStoreWithoutSnapshots ==
  ASSUME NarrowRanges, Snaps = {}
  PROVE  Spec => ImplementsKVStore
<1>1. Spec => []DroppedDeletionsObsolete
  BY DeletionsStayWithoutSnapshots
<1>2. Spec /\ []DroppedDeletionsObsolete => ImplementsKVStore
  BY StoreRefinesKVStore
<1> QED BY <1>1, <1>2

-----------------------------------------------------------------------------
(* File numbers, and RepairDB. *)

(* The files that some version in use, or the running compaction, knows.    *)
KnownFiles(v, c, its) ==
  UNION ({v[l] : l \in Levels}
         \union (IF c = NoCompaction THEN {}
                 ELSE {c.outputs} \union {c.version[l] : l \in Levels})
         \union {its[j].version[l] : j \in OpenIters(its), l \in Levels})

OutFile(c) == IF c = NoCompaction THEN 0 ELSE c.outfile

(* A number below n names one file of K; out, the file being written, is    *)
(* none of them.                                                            *)
Numbered(K, out, n) ==
  /\ \A f \in K : f.num \in Nat /\ f.num < n
  /\ \A f, g \in K : f.num = g.num => f = g
  /\ out # 0 => out \in Nat /\ out < n /\ \A f \in K : f.num # out

NumberInv == Numbered(KnownFiles(version, compaction, iters),
                      OutFile(compaction), nextFile)

(* What it means to be known.                                               *)
LEMMA KnownWhere ==
  ASSUME NEW v, NEW c, NEW its, NEW f
  PROVE  f \in KnownFiles(v, c, its) <=>
           \/ \E l \in Levels : f \in v[l]
           \/ /\ c # NoCompaction
              /\ f \in c.outputs \/ \E l \in Levels : f \in c.version[l]
           \/ \E j \in Iters : /\ its[j] # NoIter
                               /\ \E l \in Levels : f \in its[j].version[l]
<1>1. (\E j \in OpenIters(its), l \in Levels : f \in its[j].version[l]) <=>
        \E j \in Iters : /\ its[j] # NoIter
                         /\ \E l \in Levels : f \in its[j].version[l]
  BY DEF OpenIters
<1> QED BY <1>1 DEF KnownFiles

(* Fewer files, and a file that is no longer written.                       *)
LEMMA NumberedLess ==
  ASSUME NEW K, NEW out, NEW n, Numbered(K, out, n), NEW L, L \subseteq K,
         NEW o, o \in {0, out}
  PROVE  Numbered(L, o, n)
BY DEF Numbered

(* A file with the next number.                                             *)
LEMMA NumberedNew ==
  ASSUME NEW K, NEW out, NEW n \in Nat \ {0}, Numbered(K, out, n), NEW f,
         f.num = n
  PROVE  Numbered(K \union {f}, out, n + 1)
<1>1. \A m \in Nat : m < n => m < n + 1 /\ m # n
  OBVIOUS
<1>2. n \in Nat /\ n < n + 1
  OBVIOUS
<1> QED BY <1>1, <1>2 DEF Numbered

(* The next number goes to a file that is about to be written.              *)
LEMMA NumberedOut ==
  ASSUME NEW K, NEW out, NEW n \in Nat \ {0}, Numbered(K, out, n)
  PROVE  Numbered(K, n, n + 1)
<1>1. \A m \in Nat : m < n => m < n + 1 /\ m # n
  OBVIOUS
<1>2. n \in Nat /\ n < n + 1
  OBVIOUS
<1> QED BY <1>1, <1>2 DEF Numbered

(* The file being written is complete.                                      *)
LEMMA NumberedDone ==
  ASSUME NEW K, NEW out, NEW n, Numbered(K, out, n), out # 0,
         NEW f, f.num = out
  PROVE  Numbered(K \union {f}, 0, n)
BY DEF Numbered

(* The file numbers stay different over every step of the store.            *)
LEMMA NumbersKept ==
  ASSUME BaseInv, NumberInv, [Next]_vars
  PROVE  NumberInv'
<1> DEFINE K == KnownFiles(version, compaction, iters)
           L == KnownFiles(version', compaction', iters')
<1>n. nextFile \in Nat \ {0}
  BY DEF BaseInv, TypeInv
<1>k. Numbered(K, OutFile(compaction), nextFile)
  BY DEF NumberInv
<1> SUFFICES Numbered(L, OutFile(compaction'), nextFile')
  BY DEF NumberInv
<1> HIDE DEF K, L
<1>s. ASSUME L \subseteq K, UNCHANGED <<compaction, nextFile>>
      PROVE  Numbered(L, OutFile(compaction'), nextFile')
  BY <1>k, <1>s, NumberedLess
<1>1. CASE \/ \E b \in Batches : WriteInsert(b)
           \/ WritePublish
           \/ SwitchMemTable
           \/ \E i \in Snaps : GetSnapshot(i) \/ ReleaseSnapshot(i)
           \/ UNCHANGED vars
  <2>1. UNCHANGED <<version, compaction, nextFile, iters>>
    BY <1>1 DEF WriteInsert, WritePublish, SwitchMemTable, GetSnapshot,
       ReleaseSnapshot, vars, fileVars, readVars
  <2> QED BY <2>1, <1>s DEF K, L
<1>2. ASSUME NEW j \in Iters, DeleteIterator(j)
      PROVE  Numbered(L, OutFile(compaction'), nextFile')
  <2>1. /\ iters' = [i \in Iters |-> IF i = j THEN NoIter ELSE iters[i]]
        /\ UNCHANGED <<version, nextFile, compaction>>
    BY <1>2 DEF DeleteIterator, fileVars, BaseInv, TypeInv
  <2>2. L \subseteq K
    BY <2>1, KnownWhere DEF K, L
  <2> QED BY <2>1, <2>2, <1>s
<1>3. ASSUME NEW j \in Iters, NEW s, NewIterator(j, s)
      PROVE  Numbered(L, OutFile(compaction'), nextFile')
  <2> DEFINE new == [seq |-> s, version |-> version,
                     mems |-> {mem} \union (IF hasImm THEN {imm} ELSE {})]
  <2>1. /\ iters' = [i \in Iters |-> IF i = j THEN new ELSE iters[i]]
        /\ UNCHANGED <<version, nextFile, compaction>>
    BY <1>3 DEF NewIterator, fileVars, BaseInv, TypeInv
  <2>2. new.version = version
    OBVIOUS
  <2> HIDE DEF new
  <2>3. L \subseteq K
    BY <2>1, <2>2, KnownWhere DEF K, L
  <2> QED BY <2>1, <2>3, <1>s
<1>4. CASE Flush
  <2> DEFINE f == File(nextFile, memtables[imm])
  <2>1. PICK l \in Levels :
          version' = [m \in Levels |-> IF m = l THEN version[m] \union {f}
                                       ELSE version[m]]
    BY <1>4, FlushStep DEF BaseInv
  <2>2. nextFile' = nextFile + 1 /\ UNCHANGED <<compaction, iters>>
    BY <1>4, FlushStep DEF BaseInv
  <2>3. f.num = nextFile
    BY DEF File
  <2> HIDE DEF f
  <2>4. L \subseteq K \union {f}
    BY <2>1, <2>2, KnownWhere DEF K, L
  <2>5. Numbered(K \union {f}, OutFile(compaction), nextFile + 1)
    BY <1>k, <1>n, <2>3, NumberedNew
  <2> QED BY <2>2, <2>4, <2>5, NumberedLess
<1>5. ASSUME NEW l \in 0..(NumLevels - 2),
             AutoCompaction(l) \/ \E r \in ManualRanges : ManualCompaction(l, r)
      PROVE  Numbered(L, OutFile(compaction'), nextFile')
  <2>1. PICK in : StartCompaction(l, in)
    BY <1>5 DEF AutoCompaction, ManualCompaction
  <2>2. UNCHANGED <<version, nextFile, iters>>
    BY <1>5 DEF AutoCompaction, ManualCompaction, fileVars, readVars
  <2>3. /\ compaction'.version = version /\ compaction'.outputs = {}
        /\ compaction'.outfile = 0
    BY <2>1 DEF StartCompaction
  <2>4. L \subseteq K
    BY <2>2, <2>3, KnownWhere DEF K, L
  <2>5. OutFile(compaction') = 0
    BY <2>3 DEF OutFile
  <2> QED BY <1>k, <2>2, <2>4, <2>5, NumberedLess
<1>6. ASSUME NEW l \in 0..(NumLevels - 2), TrivialMove(l)
      PROVE  Numbered(L, OutFile(compaction'), nextFile')
  <2>1. PICK in \in PickCompaction(l) :
          /\ in[1] \subseteq version[l]
          /\ version' = [m \in Levels |->
               CASE m = l -> version[m] \ in[1]
                 [] m = l + 1 -> version[m] \union in[1]
                 [] OTHER -> version[m]]
    BY <1>6, TrivialMoveStep
  <2>2. UNCHANGED <<nextFile, compaction, iters>>
    BY <1>6, TrivialMoveStep
  <2>3. l \in Levels
    BY LevelsFact
  <2>4. \A m \in Levels : version'[m] \subseteq version[m] \union version[l]
    BY <2>1
  <2>5. L \subseteq K
    BY <2>2, <2>3, <2>4, KnownWhere DEF K, L
  <2> QED BY <2>2, <2>5, <1>s
<1>7. CASE OpenOutput
  <2>1. /\ compaction # NoCompaction
        /\ compaction'.version = compaction.version
        /\ compaction'.outputs = compaction.outputs
        /\ compaction'.outfile = nextFile
        /\ nextFile' = nextFile + 1 /\ UNCHANGED <<version, iters>>
    BY <1>7, OpenOutputStep
  <2>2. compaction' # NoCompaction
    BY <1>7, OpenOutputStep DEF NoCompaction
  <2>3. L \subseteq K
    BY <2>1, KnownWhere DEF K, L
  <2>4. OutFile(compaction') = nextFile
    BY <2>1, <2>2 DEF OutFile
  <2>5. Numbered(K, nextFile, nextFile + 1)
    BY <1>k, <1>n, NumberedOut
  <2> QED BY <2>1, <2>3, <2>4, <2>5, NumberedLess
<1>8. ASSUME compaction # NoCompaction, NEW e \in compaction.todo,
             FinishOutput(e)
      PROVE  Numbered(L, OutFile(compaction'), nextFile')
  <2> DEFINE o == File(compaction.outfile, UpTo(e))
  <2>1. /\ compaction.outfile # 0
        /\ compaction'.version = compaction.version
        /\ compaction'.outputs = compaction.outputs \union {o}
        /\ compaction'.outfile = 0
        /\ UNCHANGED <<version, nextFile, iters>>
    BY <1>8, FinishOutputStep
  <2>2. o.num = compaction.outfile
    BY DEF File
  <2> HIDE DEF o
  <2>3. L \subseteq K \union {o}
    BY <1>8, <2>1, KnownWhere DEF K, L
  <2>4. OutFile(compaction) = compaction.outfile /\ OutFile(compaction') = 0
    BY <1>8, <2>1 DEF OutFile
  <2>5. Numbered(K \union {o}, 0, nextFile)
    BY <1>k, <2>1, <2>2, <2>4, NumberedDone
  <2> QED BY <2>1, <2>3, <2>4, <2>5, NumberedLess
<1>9. CASE InstallCompaction
  <2> DEFINE c == compaction
             rest == IF c.todo = {} THEN {} ELSE {File(c.outfile, c.todo)}
             l == c.level
  <2>1. /\ c # NoCompaction
        /\ c.todo # {} => c.outfile # 0
        /\ l \in 0..(NumLevels - 2)
        /\ version' = [m \in Levels |->
             CASE m = l -> version[m] \ c.inputs[1]
               [] m = l + 1 ->
                    (version[m] \ c.inputs[2]) \union c.outputs \union rest
               [] OTHER -> version[m]]
        /\ compaction' = NoCompaction
        /\ UNCHANGED <<nextFile, iters>>
    BY <1>9, InstallStep
  <2>2. File(c.outfile, c.todo).num = c.outfile
    BY DEF File
  <2>3. rest = {} \/ (c.outfile # 0 /\ rest = {File(c.outfile, c.todo)})
    BY <2>1
  <2> HIDE DEF rest, l
  <2>4. \A m \in Levels : version'[m] \subseteq version[m] \union c.outputs
                                                  \union rest
    BY <2>1
  <2>5. L \subseteq K \union rest
    BY <2>1, <2>4, KnownWhere DEF K, L
  <2>6. OutFile(c) = c.outfile /\ OutFile(compaction') = 0
    BY <2>1 DEF OutFile
  <2>7. Numbered(K \union rest, 0, nextFile)
    <3>1. CASE rest = {}
      BY <3>1, <1>k, NumberedLess
    <3>2. CASE rest # {}
      BY <3>2, <1>k, <2>2, <2>3, <2>6, NumberedDone
    <3> QED BY <3>1, <3>2
  <2> QED BY <2>1, <2>5, <2>6, <2>7, NumberedLess
<1> QED BY <1>1, <1>2, <1>3, <1>4, <1>5, <1>6, <1>7, <1>8, <1>9 DEF Next

(* Tables in a directory: numbers below n, each of one table.               *)
DirNumbered(d, n) ==
  /\ \A t \in d : t.num \in Nat /\ t.num < n
  /\ \A t, u \in d : t.num = u.num => t = u

(* The numbers of logs too are below n.                                     *)
LogsNumbered(n) == \A l \in logs : l.num \in Nat /\ l.num < n

(* What is in lost/ or was.                                                 *)
Gone == LostEntries \union overwritten

TableFields == {"num", "entries", "sound"}

(* ConvertLogToTable at work on a log: no other table has the number of the *)
(* one it writes.                                                           *)
BuildOK ==
  /\ job.copy \in dir /\ job.copy.entries = {}
  /\ DOMAIN job.copy = TableFields

(* RepairTable at work on a table: the copy it makes is not listed yet, the *)
(* source is neither listed nor to be scanned.  Once it is to be archived,  *)
(* the source is where it was or its name is free for the copy.             *)
JobOK ==
  /\ job = [step |-> job.step, source |-> job.source, copy |-> job.copy]
  /\ DOMAIN job.copy = TableFields
  /\ job.step \in {"archiveTable", "finish", "rename"}
  /\ job.copy \in dir \ listed
  /\ job.copy.entries \subseteq job.source.entries
  /\ job.source.num \in Nat /\ job.source.num < nextNumber
  /\ job.source.num \notin toScan /\ job.source.num # job.copy.num
  /\ job.source \notin listed
  /\ job.step = "archiveTable" => job.source \in dir /\ job.copy.entries = {}
  /\ job.step = "rename" => job.copy.entries = job.source.entries
  /\ job.source \in dir \/ /\ job.source.entries \subseteq Gone
                           /\ \A t \in dir : t.num # job.source.num

(* Every table that holds something is going to be scanned.                 *)
ConvertInv ==
  /\ nextNumber \in Nat /\ DirNumbered(dir, nextNumber)
  /\ LogsNumbered(nextNumber)
  /\ listed = {} /\ \A t \in dir : t.num \in toScan \/ t.entries = {}
  /\ job = NoJob \/ job.step = "archiveLog" \/ (job.step = "buildTable" /\ BuildOK)

(* Every table is still to be scanned, or in hand, or listed, or skipped,   *)
(* or what it holds is in lost/ too.                                        *)
ScanInv ==
  /\ nextNumber \in Nat /\ DirNumbered(dir, nextNumber)
  /\ LogsNumbered(nextNumber)
  /\ listed \subseteq dir
  /\ \A t \in listed : t.num \notin toScan
  /\ \A t \in dir : \/ t.num \in toScan \/ t \in listed
                    \/ t.entries \subseteq skipped \union Gone
                    \/ job # NoJob /\ t \in {job.source, job.copy}
  /\ job = NoJob \/ JobOK

RepairInv ==
  /\ phase \in {"running", "stopped", "convert", "scan", "done", "open"}
  /\ phase = "running" => BaseInv /\ NumberInv /\ found = {}
  /\ phase = "stopped" => \E n \in Nat : DirNumbered(dir, n) /\ LogsNumbered(n)
  /\ phase = "convert" => ConvertInv
  /\ phase = "scan" => ScanInv
  /\ phase \notin {"convert", "scan"} => job = NoJob
  /\ RepairSound

(* A file that is moved to lost/ is there; what was there is or was there.  *)
LEMMA Moved ==
  ASSUME NEW type, NEW file, MoveToLost(type, file)
  PROVE  Gone' = Gone \union file.entries
<1> DEFINE replaced == {f \in lost : f.type = type /\ f.num = file.num}
           new == [type |-> type, num |-> file.num, entries |-> file.entries]
<1>1. /\ lost' = (lost \ replaced) \union {new}
      /\ overwritten' = overwritten \union UNION {f.entries : f \in replaced}
  BY DEF MoveToLost
<1>2. replaced \subseteq lost /\ new.entries = file.entries
  OBVIOUS
<1> HIDE DEF replaced, new
<1>3. \A e : (\E f \in lost' : e \in f.entries) <=>
               \/ e \in file.entries
               \/ \E f \in lost \ replaced : e \in f.entries
  BY <1>1, <1>2
<1>4. \A e : e \in overwritten' <=>
               e \in overwritten \/ \E f \in replaced : e \in f.entries
  BY <1>1
<1>5. \A e : e \in Gone <=> e \in overwritten \/ \E f \in lost : e \in f.entries
  BY DEF Gone, LostEntries
<1>6. \A e : e \in Gone' <=> e \in overwritten' \/ \E f \in lost' : e \in f.entries
  BY DEF Gone, LostEntries
<1>7. \A e : e \in Gone' <=> e \in Gone \/ e \in file.entries
  BY <1>2, <1>3, <1>4, <1>5, <1>6
<1> QED BY <1>7

(* ArchiveFile of a table: it is in lost/ or where it was.                  *)
LEMMA TableMoved ==
  ASSUME NEW t \in dir, ArchiveTableFile(t)
  PROVE  \/ dir' = dir \ {t} /\ Gone' = Gone \union t.entries
         \/ dir' = dir /\ Gone' = Gone
BY Moved DEF ArchiveTableFile, lostVars, Gone, LostEntries

(* Until the DB is opened, a step destroys nothing if nothing leaves the    *)
(* tables, the logs and lost/.                                              *)
LEMMA NothingLeaves ==
  ASSUME RepairInv, phase # "open", phase' \notin {"done", "open"},
         found' = found,
         Readable(dir) \union LogEntries \union Gone
           \subseteq Readable(dir') \union LogEntries' \union Gone'
  PROVE  RepairSound'
<1>1. found \subseteq Readable(dir) \union LogEntries \union Gone
  BY DEF RepairInv, RepairSound, NothingElseDestroyed, Survivors, Gone
<1>2. found' \subseteq Readable(dir') \union LogEntries' \union LostEntries'
                       \union overwritten'
  BY <1>1 DEF Gone
<1>3. Readable(dir)' = Readable(dir')
  BY DEF Readable
<1>4. NothingElseDestroyed'
  BY <1>2, <1>3 DEF NothingElseDestroyed, Survivors
<1>5. DescriptorSound'
  BY DEF DescriptorSound
<1> QED BY <1>4, <1>5 DEF RepairSound

(* A number more.                                                           *)
LEMMA OneMore ==
  ASSUME NEW n \in Nat
  PROVE  /\ n + 1 \in Nat /\ n < n + 1
         /\ \A m \in Nat : m < n => m < n + 1 /\ m # n
OBVIOUS

(* Numbers that are bounded have a largest one.                             *)
LEMMA LargestNumber ==
  ASSUME NEW S, S \subseteq Nat, S # {}, NEW n \in Nat, \A m \in S : m < n
  PROVE  \E x \in S : \A m \in S : m <= x
<1> DEFINE T == {u \in Nat : \A m \in S : m <= u}
<1>1. n \in T
  OBVIOUS
<1>2. PICK u \in T : \A m \in T : u <= m
  BY <1>1, LeastNumber
<1>3. u \in Nat /\ \A m \in S : m <= u
  OBVIOUS
<1>4. u \in S
  <2> SUFFICES ASSUME u \notin S PROVE FALSE
    OBVIOUS
  <2>1. \A m \in S : m \in Nat /\ m <= u - 1
    BY <1>3
  <2>2. PICK m \in S : TRUE
    OBVIOUS
  <2>3. u - 1 \in Nat
    BY <1>3, <2>1, <2>2
  <2>4. u - 1 \in T
    BY <2>1, <2>3
  <2>5. u <= u - 1
    BY <1>2, <2>4
  <2> QED BY <1>3, <2>5
<1> QED BY <1>3, <1>4

(* The tables a stopped process leaves have different numbers.              *)
LEMMA StopNumbered ==
  ASSUME BaseInv, NumberInv, Stop
  PROVE  DirNumbered(dir', nextFile)
<1> DEFINE K == KnownFiles(version, compaction, iters)
<1>1. PICK bad : dir' = Unfinished \union {Left(f, bad) : f \in FilesOnDisk}
  BY DEF Stop
<1>2. FilesOnDisk \subseteq K
  <2> SUFFICES ASSUME NEW f \in FilesOnDisk PROVE f \in K
    OBVIOUS
  <2>1. \/ \E l \in Levels : f \in version[l]
        \/ \E j \in OpenIters(iters), l \in Levels : f \in iters[j].version[l]
        \/ /\ compaction # NoCompaction
           /\ f \in compaction.outputs
              \/ \E l \in Levels : f \in compaction.version[l]
    <3> DEFINE versions ==
                 {version} \union {iters[j].version : j \in OpenIters(iters)}
                   \union (IF compaction = NoCompaction THEN {}
                           ELSE {compaction.version})
               outputs == IF compaction = NoCompaction THEN {}
                          ELSE compaction.outputs
    <3>1. f \in (UNION {v[l] : v \in versions, l \in Levels}) \union outputs
      BY DEF FilesOnDisk
    <3>2. CASE f \in outputs
      BY <3>2
    <3>3. ASSUME NEW v \in versions, NEW l \in Levels, f \in v[l]
          PROVE  \/ \E k \in Levels : f \in version[k]
                 \/ \E j \in OpenIters(iters), k \in Levels :
                      f \in iters[j].version[k]
                 \/ /\ compaction # NoCompaction
                    /\ \E k \in Levels : f \in compaction.version[k]
      <4>1. CASE v = version
        BY <3>3, <4>1
      <4>2. CASE v # version
        BY <3>3, <4>2
      <4> QED BY <4>1, <4>2
    <3>4. f \in outputs \/ \E v \in versions, l \in Levels : f \in v[l]
      <4> HIDE DEF versions, outputs
      <4> QED BY <3>1
    <3> HIDE DEF versions
    <3> QED BY <3>2, <3>3, <3>4
  <2> QED BY <2>1, KnownWhere DEF OpenIters
<1>3. Numbered(K, OutFile(compaction), nextFile)
  BY DEF NumberInv
<1>4. ASSUME NEW t \in Unfinished
      PROVE  /\ t = [num |-> OutFile(compaction), entries |-> {}, sound |-> FALSE]
             /\ t.num = OutFile(compaction) /\ OutFile(compaction) # 0
  BY DEF Unfinished, OutFile
<1>5. \A f : Left(f, bad).num = f.num
  BY DEF Left
<1> HIDE DEF K
<1>6. \A t \in dir' :
        t \in Unfinished \/ \E f \in K : t = Left(f, bad) /\ t.num = f.num
  BY <1>1, <1>2, <1>5
<1>7. \A t \in dir' : t.num \in Nat /\ t.num < nextFile
  BY <1>3, <1>4, <1>6 DEF Numbered
<1>8. ASSUME NEW t \in dir', NEW u \in dir', t.num = u.num PROVE t = u
  <2>1. CASE t \in Unfinished
    BY <1>3, <1>4, <1>6, <1>8, <2>1 DEF Numbered
  <2>2. CASE u \in Unfinished
    BY <1>3, <1>4, <1>6, <1>8, <2>2 DEF Numbered
  <2>3. CASE t \notin Unfinished /\ u \notin Unfinished
    <3>1. PICK f \in K : t = Left(f, bad) /\ t.num = f.num
      BY <1>6, <2>3
    <3>2. PICK g \in K : u = Left(g, bad) /\ u.num = g.num
      BY <1>6, <2>3
    <3>3. f = g
      BY <1>3, <1>8, <3>1, <3>2 DEF Numbered
    <3> QED BY <3>1, <3>2, <3>3
  <2> QED BY <2>1, <2>2, <2>3
<1> QED BY <1>7, <1>8 DEF DirNumbered

(* The process stops.                                                       *)
LEMMA StopKeeps ==
  ASSUME RepairInv, Stop
  PROVE  RepairInv'
<1>1. BaseInv /\ NumberInv /\ phase = "running" /\ phase' = "stopped" /\ job = NoJob
  BY DEF RepairInv, Stop
<1>2. job' = NoJob
  BY <1>1 DEF Stop, memoryVars
<1>3. nextFile \in Nat
  BY <1>1 DEF BaseInv, TypeInv
<1>4. DirNumbered(dir', nextFile + 1)
  <2>1. DirNumbered(dir', nextFile)
    BY <1>1, StopNumbered
  <2> QED BY <1>3, <2>1 DEF DirNumbered
<1>5. LogsNumbered(nextFile + 1)'
  <2>1. PICK n \in 1..nextFile : logs' = LogsLeft(n)
    BY DEF Stop
  <2>2. nextFile' = nextFile
    BY DEF Stop, vars, fileVars
  <2>3. \A l \in logs' : l.num \in {n, n - 1}
    BY <2>1 DEF LogsLeft
  <2>4. n \in Nat /\ n - 1 \in Nat /\ n < nextFile + 1 /\ n - 1 < nextFile + 1
    BY <1>3
  <2> QED BY <2>2, <2>3, <2>4 DEF LogsNumbered
<1>6. nextFile + 1 \in Nat /\ nextFile' = nextFile
  BY <1>3 DEF Stop, vars, fileVars
<1>7. found' = Readable(dir') \union UNION {l.entries : l \in logs'}
  BY DEF Stop
<1>8. NothingElseDestroyed'
  BY <1>7 DEF NothingElseDestroyed, Survivors, Readable, LogEntries
<1>9. DescriptorSound'
  BY <1>1 DEF DescriptorSound
<1> QED BY <1>1, <1>2, <1>4, <1>5, <1>6, <1>8, <1>9 DEF RepairInv, RepairSound

(* The store runs.                                                          *)
LEMMA RunKeeps ==
  ASSUME RepairInv, Run
  PROVE  RepairInv'
<1>1. /\ phase = "running" /\ BaseInv /\ NumberInv /\ found = {} /\ job = NoJob
      /\ [Next]_vars
  BY DEF RepairInv, Run
<1>2. UNCHANGED <<phase, found, job>>
  BY DEF Run, repairVars, memoryVars
<1>3. BaseInv' /\ NumberInv'
  BY <1>1, NextBase, NumbersKept
<1>4. RepairSound'
  BY <1>1, <1>2 DEF RepairSound, NothingElseDestroyed, DescriptorSound
<1> QED BY <1>1, <1>2, <1>3, <1>4 DEF RepairInv

(* RepairDB starts: the next file number is above all others.               *)
LEMMA FindFilesKeeps ==
  ASSUME RepairInv, FindFiles
  PROVE  RepairInv'
<1> DEFINE S == {t.num : t \in dir} \union {l.num : l \in logs}
<1>1. /\ phase = "stopped" /\ phase' = "convert"
      /\ toScan' = {t.num : t \in dir} /\ listed' = {} /\ job' = NoJob
      /\ nextNumber' = IF S = {} THEN 1
                       ELSE 1 + CHOOSE n \in S : \A m \in S : m <= n
      /\ UNCHANGED <<dir, logs, lost, overwritten, found>>
  BY DEF FindFiles, dirVars, lostVars
<1>2. PICK n \in Nat : DirNumbered(dir, n) /\ LogsNumbered(n)
  BY <1>1 DEF RepairInv
<1>3. S \subseteq Nat /\ \A m \in S : m < n
  BY <1>2 DEF DirNumbered, LogsNumbered
<1>4. /\ \A t \in dir : t.num \in S
      /\ \A l \in logs : l.num \in S
  OBVIOUS
<1> HIDE DEF S
<1>5. nextNumber' \in Nat /\ \A m \in S : m < nextNumber'
  <2>1. CASE S = {}
    BY <1>1, <2>1
  <2>2. CASE S # {}
    <3>1. \E x \in S : \A m \in S : m <= x
      BY <1>3, <2>2, LargestNumber
    <3> DEFINE x == CHOOSE x \in S : \A m \in S : m <= x
    <3>2. x \in S /\ \A m \in S : m <= x
      BY <3>1
    <3>3. nextNumber' = 1 + x
      BY <1>1, <2>2
    <3> HIDE DEF x
    <3>4. 1 + x \in Nat /\ \A m \in S : m < 1 + x
      BY <1>3, <3>2
    <3> QED BY <3>3, <3>4
  <2> QED BY <2>1, <2>2
<1>6. DirNumbered(dir', nextNumber') /\ LogsNumbered(nextNumber)'
  BY <1>1, <1>2, <1>4, <1>5 DEF DirNumbered, LogsNumbered
<1>7. ConvertInv'
  BY <1>1, <1>5, <1>6 DEF ConvertInv
<1>8. RepairSound'
  <2>1. LogEntries' = LogEntries /\ Gone' = Gone
    BY <1>1 DEF LogEntries, Gone, LostEntries
  <2> QED BY <1>1, <2>1, NothingLeaves
<1> QED BY <1>1, <1>7, <1>8 DEF RepairInv

(* ConvertLogToTable begins: a table with a new number, or none.            *)
LEMMA ConvertKeeps ==
  ASSUME RepairInv, NEW l \in logs, ConvertLogToTable(l)
  PROVE  RepairInv'
<1>1. /\ phase = "convert" /\ phase' = "convert"
      /\ nextNumber' \in {nextNumber, nextNumber + 1}
      /\ UNCHANGED <<logs, lost, overwritten, toScan, listed, found, skipped>>
  BY DEF ConvertLogToTable, lostVars
<1>2. ConvertInv
  BY <1>1 DEF RepairInv
<1>3. /\ nextNumber \in Nat /\ nextNumber + 1 \in Nat /\ nextNumber < nextNumber + 1
      /\ \A m \in Nat : m < nextNumber => m < nextNumber + 1 /\ m # nextNumber
  BY <1>2, OneMore DEF ConvertInv
<1>4. LogsNumbered(nextNumber)' /\ nextNumber' \in Nat
  BY <1>1, <1>2, <1>3 DEF ConvertInv, LogsNumbered
<1> DEFINE copy == [num |-> nextNumber, entries |-> {}, sound |-> FALSE]
<1>5. \/ job'.step = "archiveLog" /\ UNCHANGED dir
      \/ /\ nextNumber' = nextNumber + 1
         /\ dir' = dir \union {copy}
         /\ job' = [step |-> "buildTable", source |-> l, copy |-> copy]
  BY DEF ConvertLogToTable
<1>6. copy.num = nextNumber /\ copy.entries = {} /\ DOMAIN copy = TableFields
  BY DEF TableFields
<1> HIDE DEF copy
<1>7. ConvertInv'
  <2>1. CASE job'.step = "archiveLog" /\ UNCHANGED dir
    <3>1. DirNumbered(dir', nextNumber')
      BY <1>1, <1>2, <1>3, <2>1 DEF ConvertInv, DirNumbered
    <3> QED BY <1>1, <1>2, <1>4, <2>1, <3>1 DEF ConvertInv
  <2>2. CASE /\ nextNumber' = nextNumber + 1
             /\ dir' = dir \union {copy}
             /\ job' = [step |-> "buildTable", source |-> l, copy |-> copy]
    <3>1. DirNumbered(dir', nextNumber')
      BY <1>2, <1>3, <1>6, <2>2 DEF ConvertInv, DirNumbered
    <3>2. job'.step = "buildTable" /\ BuildOK'
      BY <1>6, <2>2 DEF BuildOK
    <3> QED BY <1>1, <1>2, <1>4, <1>6, <2>2, <3>1, <3>2 DEF ConvertInv
  <2> QED BY <1>5, <2>1, <2>2
<1>8. RepairSound'
  <2>1. LogEntries' = LogEntries /\ Gone' = Gone
    BY <1>1 DEF LogEntries, Gone, LostEntries
  <2>2. Readable(dir) \subseteq Readable(dir')
    BY <1>5 DEF Readable
  <2> QED BY <1>1, <2>1, <2>2, NothingLeaves
<1> QED BY <1>1, <1>7, <1>8 DEF RepairInv

(* What is known of a log in hand.                                          *)
LEMMA LogInHand ==
  ASSUME RepairInv, job.step \in {"archiveLog", "buildTable"}
  PROVE  phase = "convert" /\ ConvertInv
<1>1. job # NoJob
  BY DEF NoJob
<1>2. ASSUME ScanInv PROVE FALSE
  BY <1>1, <1>2 DEF ScanInv, JobOK
<1> QED BY <1>1, <1>2 DEF RepairInv

(* The table is complete and will be scanned, or is removed or left empty.  *)
LEMMA BuildTableKeeps ==
  ASSUME RepairInv, BuildTable
  PROVE  RepairInv'
<1> DEFINE full == [job.copy EXCEPT !.entries = job.source.entries,
                                    !.sound = TRUE]
<1>1. /\ job.step = "buildTable" /\ job'.step = "archiveLog"
      /\ \/ /\ dir' = (dir \ {job.copy}) \union {full}
            /\ toScan' = toScan \union {full.num}
         \/ dir' \in {dir, dir \ {job.copy}} /\ UNCHANGED toScan
      /\ UNCHANGED <<phase, logs, lost, overwritten, listed, nextNumber, found,
                     skipped>>
  BY DEF BuildTable, lostVars
<1>2. phase = "convert" /\ ConvertInv
  BY <1>1, LogInHand
<1>3. job.copy \in dir /\ job.copy.entries = {} /\ DOMAIN job.copy = TableFields
  <2>1. NoJob.step = "none"
    BY DEF NoJob
  <2> QED BY <1>1, <1>2, <2>1 DEF ConvertInv, BuildOK
<1>4. full.num = job.copy.num
  BY <1>3 DEF TableFields
<1> HIDE DEF full
<1>5. DirNumbered(dir', nextNumber')
  BY <1>1, <1>2, <1>3, <1>4 DEF ConvertInv, DirNumbered
<1>6. ConvertInv'
  BY <1>1, <1>2, <1>3, <1>4, <1>5 DEF ConvertInv, LogsNumbered
<1>7. RepairSound'
  <2>1. LogEntries' = LogEntries /\ Gone' = Gone
    BY <1>1 DEF LogEntries, Gone, LostEntries
  <2>2. Readable(dir) \subseteq Readable(dir')
    BY <1>1, <1>3 DEF Readable
  <2> QED BY <1>1, <1>2, <2>1, <2>2, NothingLeaves
<1> QED BY <1>1, <1>2, <1>6, <1>7 DEF RepairInv

(* A log goes to lost/ or stays, and the logs are done.                     *)
LEMMA ArchiveLogKeeps ==
  ASSUME RepairInv, ArchiveLog \/ ExtractMetaData
  PROVE  RepairInv'
<1>1. CASE ArchiveLog
  <2>1. /\ job.step = "archiveLog" /\ job' = NoJob
        /\ logs' \subseteq logs
        /\ UNCHANGED <<phase, dir, toScan, listed, nextNumber, found, skipped>>
    BY <1>1 DEF ArchiveLog
  <2>2. phase = "convert" /\ ConvertInv
    BY <2>1, LogInHand
  <2>3. ConvertInv'
    BY <2>1, <2>2 DEF ConvertInv, LogsNumbered
  <2>4. LogEntries \union Gone \subseteq LogEntries' \union Gone'
    <3>1. CASE logs' = logs \ {job.source} /\ MoveToLost("log", job.source)
      <4>1. Gone' = Gone \union job.source.entries
        BY <3>1, Moved
      <4>2. LogEntries \subseteq LogEntries' \union job.source.entries
        BY <3>1 DEF LogEntries
      <4> QED BY <4>1, <4>2
    <3>2. CASE UNCHANGED <<logs, lostVars>>
      BY <3>2 DEF LogEntries, Gone, LostEntries, lostVars
    <3> QED BY <1>1, <3>1, <3>2 DEF ArchiveLog
  <2>5. RepairSound'
    BY <2>1, <2>2, <2>4, NothingLeaves
  <2> QED BY <2>1, <2>2, <2>3, <2>5 DEF RepairInv
<1>2. CASE ExtractMetaData
  <2>1. /\ phase = "convert" /\ job = NoJob /\ phase' = "scan"
        /\ UNCHANGED <<dir, logs, lost, overwritten, toScan, listed, nextNumber,
                       job, found, skipped>>
    BY <1>2 DEF ExtractMetaData, dirVars, lostVars, memoryVars
  <2>2. ScanInv'
    BY <2>1 DEF RepairInv, ConvertInv, ScanInv, LogsNumbered
  <2>3. LogEntries' = LogEntries /\ Gone' = Gone
    BY <2>1 DEF LogEntries, Gone, LostEntries
  <2>4. RepairSound'
    BY <2>1, <2>3, NothingLeaves
  <2> QED BY <2>1, <2>2, <2>4 DEF RepairInv
<1> QED BY <1>1, <1>2

(* The first step of ScanTable.                                             *)
LEMMA ScanKeeps ==
  ASSUME RepairInv, NEW t \in dir, ScanTable(t) \/ DropTable(t) \/ RepairTable(t)
  PROVE  RepairInv'
<1>1. /\ phase = "scan" /\ phase' = "scan" /\ job = NoJob /\ t.num \in toScan
      /\ toScan' = toScan \ {t.num}
      /\ UNCHANGED <<logs, found>>
  BY DEF ScanTable, DropTable, RepairTable, dirVars
<1>2. ScanInv
  BY <1>1 DEF RepairInv
<1>3. LogEntries' = LogEntries
  BY <1>1 DEF LogEntries
<1>4. t \notin listed /\ t.num \in Nat /\ t.num < nextNumber
  BY <1>1, <1>2 DEF ScanInv, DirNumbered
<1>5. CASE ScanTable(t)
  <2>1. /\ listed' = listed \union {t}
        /\ UNCHANGED <<dir, lost, overwritten, nextNumber, job, skipped>>
    BY <1>5 DEF ScanTable, dirVars, lostVars
  <2>2. Gone' = Gone
    BY <2>1 DEF Gone, LostEntries
  <2>3. ScanInv'
    BY <1>1, <1>2, <2>1, <2>2 DEF ScanInv, DirNumbered, LogsNumbered
  <2>4. RepairSound'
    BY <1>1, <1>3, <2>1, <2>2, NothingLeaves
  <2> QED BY <1>1, <2>3, <2>4 DEF RepairInv
<1>6. CASE DropTable(t)
  <2>1. /\ skipped' = IF t \in dir' THEN skipped \union t.entries ELSE skipped
        /\ UNCHANGED <<listed, nextNumber, job>>
    BY <1>6 DEF DropTable
  <2>2. \/ dir' = dir \ {t} /\ Gone' = Gone \union t.entries
        \/ dir' = dir /\ Gone' = Gone
    BY <1>6, TableMoved DEF DropTable
  <2>3. DirNumbered(dir', nextNumber') /\ LogsNumbered(nextNumber)'
    BY <1>1, <1>2, <2>1, <2>2 DEF ScanInv, DirNumbered, LogsNumbered
  <2>4. \A u \in dir' : \/ u.num \in toScan' \/ u \in listed'
                        \/ u.entries \subseteq skipped' \union Gone'
    BY <1>1, <1>2, <2>1, <2>2 DEF ScanInv, DirNumbered
  <2>5. ScanInv'
    BY <1>1, <1>2, <1>4, <2>1, <2>2, <2>3, <2>4 DEF ScanInv
  <2>6. Readable(dir) \union Gone \subseteq Readable(dir') \union Gone'
    BY <2>2 DEF Readable
  <2>7. RepairSound'
    BY <1>1, <1>3, <2>6, NothingLeaves
  <2> QED BY <1>1, <2>5, <2>7 DEF RepairInv
<1>7. CASE RepairTable(t)
  <2>1. /\ nextNumber' = nextNumber + 1
        /\ UNCHANGED <<lost, overwritten, listed>>
    BY <1>7 DEF RepairTable, lostVars
  <2>2. /\ nextNumber \in Nat /\ nextNumber' \in Nat /\ nextNumber < nextNumber'
        /\ \A m \in Nat : m < nextNumber => m < nextNumber' /\ m # nextNumber
    BY <1>2, <2>1, OneMore DEF ScanInv
  <2>3. Gone' = Gone /\ LogsNumbered(nextNumber)'
    BY <1>1, <1>2, <2>1, <2>2 DEF Gone, LostEntries, LogsNumbered, ScanInv
  <2>4. CASE skipped' = skipped \union t.entries /\ UNCHANGED <<dir, job>>
    <3>1. DirNumbered(dir', nextNumber')
      BY <1>2, <2>2, <2>4 DEF ScanInv, DirNumbered
    <3>2. \A u \in dir' : \/ u.num \in toScan' \/ u \in listed'
                          \/ u.entries \subseteq skipped' \union Gone'
      BY <1>1, <1>2, <2>1, <2>3, <2>4 DEF ScanInv, DirNumbered
    <3>3. ScanInv'
      BY <1>1, <1>2, <2>1, <2>2, <2>3, <2>4, <3>1, <3>2 DEF ScanInv
    <3>4. RepairSound'
      BY <1>1, <1>3, <2>3, <2>4, NothingLeaves
    <3> QED BY <1>1, <3>3, <3>4 DEF RepairInv
  <2> DEFINE copy == [num |-> nextNumber, entries |-> {}, sound |-> FALSE]
  <2>5. CASE /\ dir' = dir \union {copy}
             /\ job' = [step |-> "archiveTable", source |-> t, copy |-> copy]
             /\ UNCHANGED skipped
    <3>1. /\ dir' = dir \union {copy}
          /\ job' = [step |-> "archiveTable", source |-> t, copy |-> copy]
          /\ UNCHANGED skipped
      BY <2>5
    <3>2. /\ copy.num = nextNumber /\ copy.entries = {}
          /\ DOMAIN copy = TableFields
      BY DEF TableFields
    <3> HIDE DEF copy
    <3>3. DirNumbered(dir', nextNumber')
      BY <1>2, <2>2, <3>1, <3>2 DEF ScanInv, DirNumbered
    <3>4. copy \notin listed
      BY <1>2, <2>2, <3>2 DEF ScanInv, DirNumbered
    <3>5. /\ job'.step = "archiveTable" /\ job'.source = t /\ job'.copy = copy
      BY <3>1
    <3>6. JobOK'
      BY <1>1, <1>4, <2>1, <2>2, <3>1, <3>2, <3>4, <3>5 DEF JobOK
    <3>7. job' # NoJob
      BY <3>5 DEF NoJob
    <3>8. \A u \in dir' : \/ u.num \in toScan' \/ u \in listed'
                          \/ u.entries \subseteq skipped' \union Gone'
                          \/ job' # NoJob /\ u \in {job'.source, job'.copy}
      BY <1>1, <1>2, <2>1, <2>3, <3>1, <3>5, <3>7 DEF ScanInv, DirNumbered
    <3>9. ScanInv'
      BY <1>1, <1>2, <2>1, <2>2, <2>3, <3>1, <3>3, <3>6, <3>8 DEF ScanInv
    <3>10. Readable(dir) \subseteq Readable(dir')
      BY <3>1 DEF Readable
    <3>11. RepairSound'
      BY <1>1, <1>3, <2>3, <3>10, NothingLeaves
    <3> QED BY <1>1, <3>9, <3>11 DEF RepairInv
  <2> QED BY <1>7, <2>4, <2>5 DEF RepairTable
<1> QED BY <1>5, <1>6, <1>7

(* What RepairTable's job says while one is in hand.                        *)
LEMMA JobInHand ==
  ASSUME RepairInv, job.step \in {"archiveTable", "finish", "rename"}
  PROVE  phase = "scan" /\ ScanInv /\ JobOK /\ job # NoJob
<1>1. NoJob.step = "none"
  BY DEF NoJob
<1>2. job # NoJob
  BY <1>1
<1>3. ASSUME ConvertInv PROVE FALSE
  BY <1>2, <1>3 DEF ConvertInv
<1> QED BY <1>2, <1>3 DEF RepairInv, ScanInv

(* ArchiveFile(src): the damaged table goes to lost/, or stays.             *)
LEMMA ArchiveTableKeeps ==
  ASSUME RepairInv, ArchiveTable
  PROVE  RepairInv'
<1>1. /\ job.step = "archiveTable" /\ ArchiveTableFile(job.source)
      /\ job' = [job EXCEPT !.step = "finish"]
      /\ UNCHANGED <<phase, logs, toScan, listed, nextNumber, found, skipped>>
  BY DEF ArchiveTable
<1>2. phase = "scan" /\ ScanInv /\ JobOK /\ job # NoJob
  BY <1>1, JobInHand
<1>3. /\ job'.step = "finish" /\ job'.source = job.source /\ job'.copy = job.copy
      /\ job' = [step |-> job'.step, source |-> job'.source, copy |-> job'.copy]
      /\ job' # NoJob
  BY <1>1, <1>2 DEF JobOK, NoJob
<1>4. job.source \in dir /\ job.source \notin listed /\ job.copy \in dir \ listed
  BY <1>1, <1>2 DEF JobOK
<1>5. \/ dir' = dir \ {job.source} /\ Gone' = Gone \union job.source.entries
      \/ dir' = dir /\ Gone' = Gone
  BY <1>1, <1>4, TableMoved
<1>6. DirNumbered(dir', nextNumber') /\ LogsNumbered(nextNumber)'
  BY <1>1, <1>2, <1>5 DEF ScanInv, DirNumbered, LogsNumbered
<1>7. \/ job.source \in dir'
      \/ /\ job.source.entries \subseteq Gone'
         /\ \A t \in dir' : t.num # job.source.num
  BY <1>2, <1>4, <1>5 DEF ScanInv, DirNumbered
<1>8. job.copy \in dir' \ listed'
  BY <1>1, <1>2, <1>4, <1>5 DEF JobOK
<1>9. JobOK'
  BY <1>1, <1>2, <1>3, <1>7, <1>8 DEF JobOK
<1>10. \A t \in dir' : \/ t.num \in toScan' \/ t \in listed'
                       \/ t.entries \subseteq skipped' \union Gone'
                       \/ job' # NoJob /\ t \in {job'.source, job'.copy}
  BY <1>1, <1>2, <1>3, <1>5 DEF ScanInv
<1>11. listed' \subseteq dir'
  BY <1>1, <1>2, <1>4, <1>5 DEF ScanInv
<1>12. ScanInv'
  BY <1>1, <1>2, <1>6, <1>9, <1>10, <1>11 DEF ScanInv
<1>13. Readable(dir) \union Gone \subseteq Readable(dir') \union Gone'
  BY <1>5 DEF Readable
<1>14. LogEntries' = LogEntries
  BY <1>1 DEF LogEntries
<1>15. RepairSound'
  BY <1>1, <1>2, <1>13, <1>14, NothingLeaves
<1> QED BY <1>1, <1>2, <1>12, <1>15 DEF RepairInv

(* The copy is complete, or left as it is when there was nothing to copy.   *)
LEMMA FinishCopyKeeps ==
  ASSUME RepairInv, FinishCopy
  PROVE  RepairInv'
<1> DEFINE full == [job.copy EXCEPT !.entries = job.source.entries,
                                    !.sound = TRUE]
<1>1. /\ job.step = "finish"
      /\ UNCHANGED <<phase, logs, lost, overwritten, toScan, listed, nextNumber,
                     found, skipped>>
  BY DEF FinishCopy, lostVars
<1>2. phase = "scan" /\ ScanInv /\ JobOK /\ job # NoJob
  BY <1>1, JobInHand
<1>3. /\ Gone' = Gone /\ LogEntries' = LogEntries
      /\ LogsNumbered(nextNumber)'
  BY <1>1, <1>2 DEF Gone, LostEntries, LogEntries, LogsNumbered, ScanInv
<1>4. CASE job.source.entries = {} /\ job' = NoJob /\ UNCHANGED dir
  <2>1. job.copy.entries = {}
    BY <1>2, <1>4 DEF JobOK
  <2>2. ScanInv'
    BY <1>1, <1>2, <1>3, <1>4, <2>1 DEF ScanInv
  <2>3. RepairSound'
    BY <1>1, <1>2, <1>3, <1>4, NothingLeaves
  <2> QED BY <1>1, <1>2, <2>2, <2>3 DEF RepairInv
<1>5. CASE /\ dir' = (dir \ {job.copy}) \union {full}
           /\ job' = [job EXCEPT !.step = "rename", !.copy = full]
  <2>1. /\ full.num = job.copy.num /\ full.entries = job.source.entries
        /\ DOMAIN full = TableFields
    BY <1>2 DEF JobOK, TableFields
  <2> HIDE DEF full
  <2>2. /\ job'.step = "rename" /\ job'.source = job.source /\ job'.copy = full
        /\ job' = [step |-> job'.step, source |-> job'.source,
                   copy |-> job'.copy]
        /\ job' # NoJob
    BY <1>2, <1>5 DEF JobOK, NoJob
  <2>3. job.copy \in dir /\ job.copy \notin listed /\ job.copy # job.source
    BY <1>1, <1>2 DEF JobOK
  <2>4. DirNumbered(dir', nextNumber')
    BY <1>1, <1>2, <1>5, <2>1, <2>3 DEF ScanInv, DirNumbered
  <2>5. full \notin listed
    BY <1>2, <2>1, <2>3 DEF ScanInv, DirNumbered
  <2>6. listed' \subseteq dir'
    BY <1>1, <1>2, <1>5, <2>3 DEF ScanInv
  <2>7. \/ job.source \in dir'
        \/ /\ job.source.entries \subseteq Gone'
           /\ \A t \in dir' : t.num # job.source.num
    BY <1>2, <1>3, <1>5, <2>1, <2>3 DEF JobOK
  <2>8. JobOK'
    <3>1. full \in dir' \ listed'
      BY <1>1, <1>5, <2>5
    <3> QED BY <1>1, <1>2, <2>1, <2>2, <2>7, <3>1 DEF JobOK
  <2>9. \A t \in dir' : \/ t.num \in toScan' \/ t \in listed'
                        \/ t.entries \subseteq skipped' \union Gone'
                        \/ job' # NoJob /\ t \in {job'.source, job'.copy}
    BY <1>1, <1>2, <1>3, <1>5, <2>2 DEF ScanInv
  <2>10. ScanInv'
    BY <1>1, <1>2, <1>3, <2>4, <2>6, <2>8, <2>9 DEF ScanInv
  <2>11. Readable(dir) \subseteq Readable(dir')
    <3>1. job.copy.entries \subseteq full.entries
      BY <1>2, <2>1 DEF JobOK
    <3> QED BY <1>5, <3>1 DEF Readable
  <2>12. RepairSound'
    BY <1>1, <1>2, <1>3, <2>11, NothingLeaves
  <2> QED BY <1>1, <1>2, <2>10, <2>12 DEF RepairInv
<1> QED BY <1>4, <1>5 DEF FinishCopy

(* The copy gets the name of the table, replaces it if it is still there,   *)
(* and is listed.                                                           *)
LEMMA RenameCopyKeeps ==
  ASSUME RepairInv, RenameCopy
  PROVE  RepairInv'
<1>1. /\ job.step = "rename" /\ dir' = DirRenamed
      /\ listed' = listed \union {Renamed} /\ job' = NoJob
      /\ UNCHANGED <<phase, logs, lost, overwritten, toScan, nextNumber, found,
                     skipped>>
  BY DEF RenameCopy, lostVars
<1>2. phase = "scan" /\ ScanInv /\ JobOK /\ job # NoJob
  BY <1>1, JobInHand
<1>3. /\ Gone' = Gone /\ LogEntries' = LogEntries
      /\ LogsNumbered(nextNumber)'
  BY <1>1, <1>2 DEF Gone, LostEntries, LogEntries, LogsNumbered, ScanInv
<1>4. Renamed.num = job.source.num /\ Renamed.entries = job.copy.entries
  BY <1>2 DEF JobOK, Renamed, TableFields
<1>5. /\ job.copy \in dir /\ job.copy \notin listed /\ job.source \notin listed
      /\ job.source.num \in Nat /\ job.source.num < nextNumber
      /\ job.source.num \notin toScan
  BY <1>1, <1>2 DEF JobOK
<1>6. \A u \in dir \ {job.source} : u.num # job.source.num
  BY <1>2 DEF JobOK, ScanInv, DirNumbered
<1>7. dir' = (dir \ {job.copy, job.source}) \union {Renamed}
  BY <1>1 DEF DirRenamed
<1>8. DirNumbered(dir', nextNumber')
  BY <1>1, <1>2, <1>4, <1>5, <1>6, <1>7 DEF ScanInv, DirNumbered
<1>9. ScanInv'
  BY <1>1, <1>2, <1>3, <1>4, <1>5, <1>7, <1>8 DEF ScanInv
<1>10. Readable(dir) \subseteq Readable(dir')
  <2>1. job.copy.entries = job.source.entries
    BY <1>1, <1>2 DEF JobOK
  <2> QED BY <1>4, <1>7, <2>1 DEF Readable
<1>11. RepairSound'
  BY <1>1, <1>2, <1>3, <1>10, NothingLeaves
<1> QED BY <1>1, <1>2, <1>9, <1>11 DEF RepairInv

(* A copy that could not be finished is not listed; its source is in lost/, *)
(* or skipped where it is.                                                  *)
LEMMA CopyFailsKeeps ==
  ASSUME RepairInv, CopyFails
  PROVE  RepairInv'
<1>1. /\ job.step \in {"finish", "rename"} /\ dir' \in {dir, dir \ {job.copy}}
      /\ skipped' = IF job.source \in dir THEN skipped \union job.source.entries
                    ELSE skipped
      /\ job' = NoJob
      /\ UNCHANGED <<phase, logs, lost, overwritten, toScan, listed, nextNumber,
                     found>>
  BY DEF CopyFails, lostVars
<1>2. phase = "scan" /\ ScanInv /\ JobOK /\ job # NoJob
  BY <1>1, JobInHand
<1>3. /\ Gone' = Gone /\ LogEntries' = LogEntries
      /\ LogsNumbered(nextNumber)'
  BY <1>1, <1>2 DEF Gone, LostEntries, LogEntries, LogsNumbered, ScanInv
<1>4. /\ job.copy \notin listed /\ job.copy # job.source
      /\ job.copy.entries \subseteq job.source.entries
      /\ job.source \in dir \/ job.source.entries \subseteq Gone
  BY <1>1, <1>2 DEF JobOK
<1>5. job.source.entries \subseteq skipped' \union Gone
  BY <1>1, <1>4
<1>6. DirNumbered(dir', nextNumber')
  BY <1>1, <1>2 DEF ScanInv, DirNumbered
<1>7. \A t \in dir' : \/ t.num \in toScan' \/ t \in listed'
                      \/ t.entries \subseteq skipped' \union Gone'
  <2> SUFFICES ASSUME NEW t \in dir', t.num \notin toScan, t \notin listed
               PROVE  t.entries \subseteq skipped' \union Gone
    BY <1>1, <1>3
  <2>1. t \in dir /\ skipped \subseteq skipped'
    BY <1>1
  <2>2. t.entries \subseteq skipped \union Gone \/ t \in {job.source, job.copy}
    BY <1>2, <2>1 DEF ScanInv
  <2> QED BY <1>4, <1>5, <2>1, <2>2
<1>8. listed' \subseteq dir'
  BY <1>1, <1>2, <1>4 DEF ScanInv
<1>9. ScanInv'
  BY <1>1, <1>2, <1>3, <1>6, <1>7, <1>8 DEF ScanInv
<1>10. Readable(dir) \subseteq Readable(dir') \union Gone'
  <2>1. \A t \in dir : t = job.copy \/ t \in dir'
    BY <1>1
  <2>2. job.source \in dir => job.source \in dir'
    BY <1>4, <2>1
  <2>3. job.copy.entries \subseteq Readable(dir') \union Gone'
    BY <1>3, <1>4, <2>2 DEF Readable
  <2> QED BY <2>1, <2>3 DEF Readable
<1>11. RepairSound'
  BY <1>1, <1>2, <1>3, <1>10, NothingLeaves
<1> QED BY <1>1, <1>2, <1>9, <1>11 DEF RepairInv

(* The repair ends or is interrupted, and the DB is opened.                 *)
LEMMA EndKeeps ==
  ASSUME RepairInv, WriteDescriptor \/ Interrupted \/ Open
  PROVE  RepairInv'
<1>1. CASE WriteDescriptor
  <2>1. /\ phase = "scan" /\ job = NoJob /\ toScan = {} /\ phase' = "done"
        /\ UNCHANGED <<dir, logs, lost, overwritten, listed, job, found, skipped>>
    BY <1>1 DEF WriteDescriptor, dirVars, lostVars, memoryVars
  <2>2. ScanInv
    BY <2>1 DEF RepairInv
  <2>3. \A t \in dir : t \in listed \/ t.entries \subseteq skipped \union Gone
    BY <2>1, <2>2 DEF ScanInv
  <2>4. found \subseteq Readable(dir) \union LogEntries \union Gone
    BY <2>1 DEF RepairInv, RepairSound, NothingElseDestroyed, Survivors, Gone
  <2>5. Readable(dir) \subseteq Readable(listed) \union skipped \union Gone
    BY <2>3 DEF Readable
  <2>6. NothingElseDestroyed'
    BY <2>1 DEF RepairInv, RepairSound, NothingElseDestroyed, Survivors,
       Readable, LogEntries, LostEntries
  <2>7. Shown' = Readable(listed) \union LogEntries
    BY <2>1 DEF Shown, LogEntries, Readable
  <2>8. DescriptorSound'
    <3>1. listed' \subseteq dir'
      BY <2>1, <2>2 DEF ScanInv
    <3>2. LostEntries' = LostEntries
      BY <2>1 DEF LostEntries
    <3> QED BY <2>1, <2>4, <2>5, <2>7, <3>1, <3>2 DEF DescriptorSound, Gone
  <2> QED BY <2>1, <2>6, <2>8 DEF RepairInv, RepairSound
<1>2. CASE Interrupted
  <2>1. /\ phase \in {"convert", "scan"} /\ phase' = "stopped" /\ job' = NoJob
        /\ UNCHANGED <<dir, logs, lost, overwritten, found>>
    BY <1>2 DEF Interrupted, dirVars, lostVars
  <2>2. LogEntries' = LogEntries /\ Gone' = Gone
    BY <2>1 DEF LogEntries, Gone, LostEntries
  <2>3. RepairSound'
    BY <2>1, <2>2, NothingLeaves
  <2>4. \E n \in Nat : DirNumbered(dir, n) /\ LogsNumbered(n)
    BY <2>1 DEF RepairInv, ConvertInv, ScanInv
  <2>5. \E n \in Nat : (DirNumbered(dir, n) /\ LogsNumbered(n))'
    BY <2>1, <2>4 DEF DirNumbered, LogsNumbered
  <2> QED BY <2>1, <2>3, <2>5 DEF RepairInv
<1>3. CASE Open
  <2> DEFINE Replayed == {[num |-> nextNumber + l.num, entries |-> l.entries,
                           sound |-> TRUE] : l \in logs}
  <2>1. /\ phase = "done" /\ phase' = "open"
        /\ dir' = {t \in dir : t.num \in {u.num : u \in listed}} \union Replayed
        /\ UNCHANGED <<lost, overwritten, listed, job, found, skipped>>
    BY <1>3 DEF Open, lostVars, memoryVars
  <2>2. ASSUME NEW l \in logs PROVE \E t \in Replayed : t.entries = l.entries
    <3> DEFINE t == [num |-> nextNumber + l.num, entries |-> l.entries,
                     sound |-> TRUE]
    <3>1. t \in Replayed /\ t.entries = l.entries
      OBVIOUS
    <3> HIDE DEF t, Replayed
    <3> QED BY <3>1
  <2> HIDE DEF Replayed
  <2>3. /\ listed \subseteq dir
        /\ found \ (overwritten \union skipped \union LostEntries)
             \subseteq Readable(listed) \union LogEntries
    BY <2>1 DEF RepairInv, RepairSound, DescriptorSound, Shown
  <2>4. listed \subseteq dir'
    BY <2>1, <2>3
  <2>5. Readable(listed) \union LogEntries \subseteq Readable(dir')
    <3>1. \A l \in logs : \E t \in dir' : t.entries = l.entries
      BY <2>1, <2>2
    <3> QED BY <2>4, <3>1 DEF Readable, LogEntries
  <2>6. LostEntries' = LostEntries
    BY <2>1 DEF LostEntries
  <2>7. Readable(dir') \subseteq Shown'
    BY <2>1 DEF Shown, Readable
  <2>8. DescriptorSound'
    BY <2>1, <2>3, <2>4, <2>5, <2>6, <2>7 DEF DescriptorSound
  <2>9. Readable(dir') \subseteq Survivors'
    BY DEF Survivors, Readable
  <2>10. LostEntries \subseteq Survivors'
    BY <2>6 DEF Survivors
  <2>11. NothingElseDestroyed'
    BY <2>1, <2>3, <2>5, <2>9, <2>10 DEF NothingElseDestroyed
  <2> QED BY <2>1, <2>8, <2>11 DEF RepairInv, RepairSound
<1> QED BY <1>1, <1>2, <1>3

(* RepairDB destroys nothing of what could be read when the process         *)
(* stopped, except files in lost/ that it replaces and tables that it can   *)
(* neither list nor archive, over failures, interruptions and repetitions   *)
(* and the Open behind it; and what it leaves can be opened and is complete *)
(* (RepairSound), after any history of the store, any damage of its tables  *)
(* and whichever calls of Env fail.                                         *)
THEOREM RepairIsSound == RepairSpec => []RepairSound
<1>1. RepairInit => RepairInv
  <2> SUFFICES ASSUME RepairInit PROVE RepairInv
    OBVIOUS
  <2>1. Init /\ phase = "running" /\ found = {} /\ job = NoJob
    BY DEF RepairInit
  <2>2. BaseInv
    BY <2>1, InitBase
  <2>3. NumberInv
    <3>1. KnownFiles(version, compaction, iters) = {}
      BY <2>1, KnownWhere DEF Init
    <3>2. OutFile(compaction) = 0
      BY <2>1 DEF Init, OutFile
    <3> QED BY <3>1, <3>2 DEF NumberInv, Numbered
  <2>4. RepairSound
    BY <2>1 DEF RepairSound, NothingElseDestroyed, DescriptorSound
  <2> QED BY <2>1, <2>2, <2>3, <2>4 DEF RepairInv
<1>2. RepairInv /\ [RepairNext]_<<vars, repairVars>> => RepairInv'
  <2> SUFFICES ASSUME RepairInv, [RepairNext]_<<vars, repairVars>>
               PROVE  RepairInv'
    OBVIOUS
  <2>1. CASE UNCHANGED <<vars, repairVars>>
    <3>1. /\ UNCHANGED <<phase, dir, logs, lost, overwritten, toScan, listed,
                         nextNumber, job, found, skipped>>
          /\ [Next]_vars
      BY <2>1 DEF repairVars, dirVars, lostVars, memoryVars
    <3>2. phase = "running" => BaseInv' /\ NumberInv'
      BY <3>1, NextBase, NumbersKept DEF RepairInv
    <3>3. ConvertInv <=> ConvertInv'
      BY <3>1 DEF ConvertInv, LogsNumbered, BuildOK
    <3>4. ScanInv <=> ScanInv'
      BY <3>1 DEF ScanInv, JobOK, Gone, LostEntries, LogsNumbered
    <3>5. RepairSound'
      BY <3>1 DEF RepairInv, RepairSound, NothingElseDestroyed, DescriptorSound,
         Survivors, Shown, Readable, LogEntries, LostEntries
    <3>6. \A n : LogsNumbered(n) <=> LogsNumbered(n)'
      BY <3>1 DEF LogsNumbered
    <3>7. phase' = "stopped" => \E n \in Nat : (DirNumbered(dir, n) /\ LogsNumbered(n))'
      BY <3>1, <3>6 DEF RepairInv, DirNumbered
    <3> QED BY <3>1, <3>2, <3>3, <3>4, <3>5, <3>7 DEF RepairInv
  <2>2. CASE Run
    BY <2>2, RunKeeps
  <2>3. CASE Stop
    BY <2>3, StopKeeps
  <2>4. CASE Repairer
    BY <2>4, FindFilesKeeps, ConvertKeeps, BuildTableKeeps, ArchiveLogKeeps,
       ScanKeeps, ArchiveTableKeeps, FinishCopyKeeps, RenameCopyKeeps, CopyFailsKeeps,
       EndKeeps DEF Repairer
  <2> QED BY <2>1, <2>2, <2>3, <2>4 DEF RepairNext
<1>3. RepairInv => RepairSound
  BY DEF RepairInv
<1> QED BY <1>1, <1>2, <1>3, PTL DEF RepairSpec
=============================================================================
