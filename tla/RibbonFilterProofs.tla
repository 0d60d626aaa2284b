------------------------- MODULE RibbonFilterProofs -------------------------
(***************************************************************************)
(* The Ribbon filter denies none of its keys, gives up a seed only when    *)
(* its equations have no solution, and keeps its pivots inside the band,   *)
(* for every set of keys, every hash function and any parameters.          *)
(***************************************************************************)
EXTENDS RibbonFilter, FilterFormatProofs, FiniteSetTheorems, TLAPS

-----------------------------------------------------------------------------
(* The invariant *)

Bits == 0..(result_bits - 1)

(* Table v, of which the bits M are looked at, satisfies the row of key i.  *)
RowHolds(v, i, M) ==
  XorOf(v, RowSlots(keys[i], seed, slot_count))
    = DeriveResult(keys[i], seed, result_bits) \cap M

(* It satisfies the row stored at p. *)
PivotHolds(v, p, M) ==
  pivots[p] # {} => XorOf(v, pivots[p]) = pivot_results[p] \cap M

PivotsHold(v, M) == \A p \in Slots : PivotHolds(v, p, M)

Done == {i \in 1..Len(keys) : i \notin todo /\ i # row}

DoneHold(v, M) == \A i \in Done : RowHolds(v, i, M)

InputInv ==
  /\ keys \in Seq(Keys) /\ bits_per_key \in BitsPerKey
  /\ result_hash \in [KeysOf(keys) \X Seeds -> ResultHashes]
  /\ coefficient_hash \in [KeysOf(keys) \X Seeds -> CoefficientHashes]
  /\ seed \in Seeds
  /\ phase \in {"start", "band", "solve", "done"}

(* The row being inserted spans at most 64 slots of the table. *)
RowInv ==
  phase \in {"band", "solve"} =>
    /\ keys # <<>> /\ slot_count # 0
    /\ todo \subseteq 1..Len(keys) /\ row \in 0..Len(keys) /\ row \notin todo
    /\ coefficients \subseteq Slots /\ result \subseteq Bits
    /\ \A p, q \in coefficients : q < p + kRibbonWidth

(* A stored row starts at its own slot. *)
PivotInv ==
  phase \in {"band", "solve"} =>
    /\ pivots \in [Slots -> SUBSET Slots]
    /\ pivot_results \in [Slots -> SUBSET Bits]
    /\ \A p \in Slots : pivots[p] # {} =>
         p \in pivots[p] /\ \A q \in pivots[p] : p <= q /\ q < p + kRibbonWidth

(* The pivots have the solutions of the rows inserted so far, and given     *)
(* them what is left of the current row says the same as the row.           *)
EquivInv ==
  phase \in {"band", "solve"} =>
    \A M \in SUBSET Bits : \A v \in [Slots -> SUBSET M] :
      /\ DoneHold(v, M) <=> PivotsHold(v, M)
      /\ \A i \in 1..Len(keys) : i = row /\ PivotsHold(v, M) =>
           (RowHolds(v, i, M) <=> XorOf(v, coefficients) = result \cap M)

(* The solution satisfies the pivots after position. *)
SolveInv ==
  phase = "solve" =>
    /\ row = 0 /\ todo = {}
    /\ position \in -1..(slot_count - 1)
    /\ solution \in [Slots -> SUBSET Bits]
    /\ \A p \in Slots : p > position => PivotHolds(solution, p, Bits)

Inv == InputInv /\ RowInv /\ PivotInv /\ EquivInv /\ SolveInv /\ NoFalseNegatives

-----------------------------------------------------------------------------
(* Types *)

(* A table has at least as many slots as a band. *)
LEMMA SlotCountType ==
  ASSUME NEW n \in Nat, RibbonSlotCount(n) # 0
  PROVE  RibbonSlotCount(n) \in Nat /\ RibbonSlotCount(n) >= kRibbonWidth
<1> DEFINE x == n * kOverheadNumerator + kOverheadDenominator - 1
           scaled == x \div kOverheadDenominator
<1>1. x \in Nat
  <2>1. n * kOverheadNumerator \in Nat
    BY RibbonAssumption
  <2> QED BY <2>1, RibbonAssumption
<1>2. scaled \in Nat
  BY <1>1, RibbonAssumption
<1> HIDE DEF x, scaled
<1>3. kRibbonWidth \in Nat
  BY RibbonAssumption
<1> QED BY <1>2, <1>3 DEF RibbonSlotCount, scaled, x

(* The same of the table being built, whose slots are finitely many. *)
LEMMA SlotsType ==
  ASSUME InputInv, slot_count # 0
  PROVE  /\ Len(keys) \in Nat
         /\ slot_count \in Nat /\ slot_count >= kRibbonWidth
         /\ Slots \in SUBSET Nat
         /\ \A S \in SUBSET Slots : IsFiniteSet(S)
<1>1. Len(keys) \in Nat
  BY DEF InputInv
<1>2. slot_count \in Nat /\ slot_count >= kRibbonWidth
  BY <1>1, SlotCountType DEF slot_count
<1>3. IsFiniteSet(Slots)
  BY <1>2, FS_Interval DEF Slots
<1>4. Slots \in SUBSET Nat
  BY <1>2 DEF Slots
<1> QED BY <1>1, <1>2, <1>3, <1>4, FS_Subset

(* A result has at least one bit. *)
LEMMA BitsType ==
  ASSUME InputInv
  PROVE  result_bits \in Nat \ {0}
<1>1. bits_per_key \in Nat
  BY RibbonAssumption DEF InputInv
<1> QED BY <1>1, ResultBitsType DEF result_bits

(* The row of a key spans at most one band, inside the table. *)
LEMMA RowType ==
  ASSUME InputInv, slot_count # 0, NEW i \in 1..Len(keys), NEW s \in Seeds
  PROVE  /\ RowSlots(keys[i], s, slot_count) \subseteq Slots
         /\ \A p, q \in RowSlots(keys[i], s, slot_count) : q < p + kRibbonWidth
         /\ DeriveResult(keys[i], s, result_bits) \subseteq Bits
<1> DEFINE k == keys[i]
           start == DeriveStart(k, s, slot_count)
<1>1. <<k, s>> \in KeysOf(keys) \X Seeds
  BY DEF KeysOf
<1>2. /\ result_hash[<<k, s>>] \in ResultHashes
      /\ coefficient_hash[<<k, s>>] \in CoefficientHashes
  BY <1>1 DEF InputInv
<1>3. slot_count \in Nat /\ slot_count >= kRibbonWidth /\ kRibbonWidth \in Nat \ {0}
  BY SlotsType, RibbonAssumption
<1>4. start \in 0..(slot_count - kRibbonWidth)
  <2>1. HighWord[result_hash[<<k, s>>]] \in 0..(WordSize - 1)
    BY <1>2, HashAssumption
  <2>2. slot_count - kRibbonWidth + 1 \in Nat \ {0}
    BY <1>3
  <2> DEFINE w == HighWord[result_hash[<<k, s>>]]
             L == slot_count - kRibbonWidth + 1
  <2>3. FastRange32(w, L) \in 0..(L - 1)
    <3> HIDE DEF w, L
    <3> QED BY <2>1, <2>2, FastRange DEF w, L
  <2>4. start = FastRange32(w, L)
    BY DEF DeriveStart
  <2>5. L - 1 = slot_count - kRibbonWidth
    BY <1>3
  <2> QED BY <2>3, <2>4, <2>5
<1>5. DeriveCoefficient(k, s) \subseteq 0..(kRibbonWidth - 1)
  <2>1. coefficient_hash[<<k, s>>] \subseteq 0..(kRibbonWidth - 1)
    BY <1>2, HashAssumption
  <2>2. 0 \in 0..(kRibbonWidth - 1)
    BY <1>3
  <2> QED BY <2>1, <2>2 DEF DeriveCoefficient
<1>6. \A p \in RowSlots(k, s, slot_count) :
        \E c \in 0..(kRibbonWidth - 1) : p = start + c
  BY <1>5 DEF RowSlots
<1> HIDE DEF start
<1>7. RowSlots(k, s, slot_count) \subseteq Slots
  BY <1>3, <1>4, <1>6 DEF Slots
<1>8. \A p, q \in RowSlots(k, s, slot_count) : q < p + kRibbonWidth
  BY <1>3, <1>4, <1>6
<1>9. DeriveResult(k, s, result_bits) \subseteq Bits
  <2>1. LowBits[result_hash[<<k, s>>]] \subseteq Nat
    BY <1>2, HashAssumption
  <2> QED BY <2>1, BitsType DEF DeriveResult, Bits
<1> QED BY <1>7, <1>8, <1>9

-----------------------------------------------------------------------------
(* Elimination *)

(* The equations depend on the arguments, the hash function and the seed.   *)
LEMMA SameRows ==
  ASSUME UNCHANGED inputVars, seed' = seed
  PROVE  /\ keys' = keys
         /\ slot_count' = slot_count /\ Slots' = Slots
         /\ result_bits' = result_bits /\ Bits' = Bits
         /\ \A v, i, M : RowHolds(v, i, M)' <=> RowHolds(v, i, M)
<1>1. /\ keys' = keys /\ bits_per_key' = bits_per_key
      /\ result_hash' = result_hash /\ coefficient_hash' = coefficient_hash
  BY DEF inputVars
<1>2. /\ slot_count' = slot_count /\ Slots' = Slots
      /\ result_bits' = result_bits /\ Bits' = Bits
  BY <1>1 DEF slot_count, Slots, result_bits, Bits
<1>3. ASSUME NEW v, NEW i, NEW M
      PROVE  RowHolds(v, i, M)' <=> RowHolds(v, i, M)
  BY <1>1, <1>2 DEF RowHolds, RowSlots, DeriveStart, DeriveCoefficient, DeriveResult
<1> QED BY <1>1, <1>2, <1>3

(* What there is to show of a step of elimination. *)
LEMMA EquivStep ==
  ASSUME UNCHANGED inputVars, seed' = seed,
         ASSUME NEW M \in SUBSET Bits, NEW v \in [Slots -> SUBSET M]
         PROVE  /\ DoneHold(v, M)' <=> PivotsHold(v, M)'
                /\ \A i \in 1..Len(keys) : i = row' /\ PivotsHold(v, M)' =>
                     (RowHolds(v, i, M) <=> XorOf(v, coefficients') = result' \cap M)
  PROVE  EquivInv'
<1>1. /\ keys' = keys /\ Slots' = Slots /\ Bits' = Bits
      /\ \A v, i, M : RowHolds(v, i, M)' <=> RowHolds(v, i, M)
  BY SameRows
<1> SUFFICES ASSUME NEW M \in SUBSET Bits, NEW v \in [Slots -> SUBSET M]
             PROVE  /\ DoneHold(v, M)' <=> PivotsHold(v, M)'
                    /\ \A i \in 1..Len(keys') : i = row' /\ PivotsHold(v, M)' =>
                         (RowHolds(v, i, M)'
                            <=> XorOf(v, coefficients') = result' \cap M)
  BY <1>1, Zenon DEF EquivInv
<1> QED BY <1>1, Zenon

(* Taking a row up: nothing of it is eliminated yet. *)
LEMMA TakeRowKeeps ==
  ASSUME Inv, NEW i \in todo, TakeRow(i)
  PROVE  RowInv' /\ EquivInv'

<1>1. /\ phase = "band" /\ row = 0 /\ phase' = phase /\ seed' = seed
      /\ row' = i /\ todo' = todo \ {i}
      /\ coefficients' = RowSlots(keys[i], seed, slot_count)
      /\ result' = DeriveResult(keys[i], seed, result_bits)
      /\ pivots' = pivots /\ pivot_results' = pivot_results
      /\ UNCHANGED inputVars
  BY DEF TakeRow, pivotVars
<1>2. /\ keys # <<>> /\ slot_count # 0 /\ todo \subseteq 1..Len(keys)
      /\ Len(keys) \in Nat /\ seed \in Seeds
  BY <1>1, SlotsType DEF Inv, RowInv, InputInv
<1>3. /\ keys' = keys /\ slot_count' = slot_count /\ Slots' = Slots /\ Bits' = Bits
      /\ \A v, j, M : RowHolds(v, j, M)' <=> RowHolds(v, j, M)
  BY <1>1, SameRows
<1>4. i \in 1..Len(keys)
  BY <1>2
<1>5. RowInv'
  <2>1. /\ coefficients' \subseteq Slots /\ result' \subseteq Bits
        /\ \A p, q \in coefficients' : q < p + kRibbonWidth
    BY <1>1, <1>2, <1>4, RowType DEF Inv
  <2>2. row' \in 0..Len(keys) /\ row' \notin todo' /\ todo' \subseteq 1..Len(keys)
    BY <1>1, <1>2, <1>4
  <2> QED BY <1>1, <1>2, <1>3, <2>1, <2>2 DEF RowInv
<1>6. Done' = Done
  BY <1>1, <1>2, <1>3 DEF Done
<1>7. ASSUME NEW M \in SUBSET Bits, NEW v \in [Slots -> SUBSET M]
      PROVE  /\ DoneHold(v, M)' <=> PivotsHold(v, M)'
             /\ \A j \in 1..Len(keys) : j = row' /\ PivotsHold(v, M)' =>
                  (RowHolds(v, j, M) <=> XorOf(v, coefficients') = result' \cap M)
  <2>1. DoneHold(v, M) <=> PivotsHold(v, M)
    BY <1>1 DEF Inv, EquivInv
  <2>2. DoneHold(v, M)' <=> DoneHold(v, M)
    BY <1>3, <1>6 DEF DoneHold
  <2>3. PivotsHold(v, M)' <=> PivotsHold(v, M)
    BY <1>1, <1>3 DEF PivotsHold, PivotHolds
  <2>4. RowHolds(v, i, M) <=> XorOf(v, coefficients') = result' \cap M
    BY <1>1 DEF RowHolds
  <2> QED BY <1>1, <2>1, <2>2, <2>3, <2>4, Zenon
<1>8. EquivInv'
  BY <1>1, <1>7, EquivStep, Zenon
<1> QED BY <1>5, <1>8

(* A row whose first slot is free becomes a pivot. *)
LEMMA PlaceKeeps ==
  ASSUME Inv, NEW p \in coefficients, Place(p)
  PROVE  RowInv' /\ PivotInv' /\ EquivInv'
<1>1. /\ phase = "band" /\ row # 0 /\ phase' = phase /\ seed' = seed
      /\ \A q \in coefficients : p <= q
      /\ pivots[p] = {}
      /\ pivots' = [pivots EXCEPT ![p] = coefficients]
      /\ pivot_results' = [pivot_results EXCEPT ![p] = result]
      /\ row' = 0 /\ coefficients' = {} /\ result' = {} /\ todo' = todo
      /\ UNCHANGED inputVars
  BY DEF Place, Leads
<1>2. /\ keys # <<>> /\ slot_count # 0 /\ todo \subseteq 1..Len(keys)
      /\ row \in 0..Len(keys) /\ row \notin todo
      /\ coefficients \subseteq Slots /\ result \subseteq Bits
      /\ \A q \in coefficients : q < p + kRibbonWidth
      /\ Len(keys) \in Nat
  BY <1>1, SlotsType DEF Inv, RowInv
<1>3. /\ keys' = keys /\ slot_count' = slot_count /\ Slots' = Slots /\ Bits' = Bits
      /\ \A v, j, M : RowHolds(v, j, M)' <=> RowHolds(v, j, M)
  BY <1>1, SameRows
<1>4. /\ pivots \in [Slots -> SUBSET Slots]
      /\ pivot_results \in [Slots -> SUBSET Bits]
      /\ \A q \in Slots : pivots[q] # {} =>
           q \in pivots[q] /\ \A r \in pivots[q] : q <= r /\ r < q + kRibbonWidth
  BY <1>1 DEF Inv, PivotInv
<1>5. /\ pivots' \in [Slots -> SUBSET Slots]
      /\ pivot_results' \in [Slots -> SUBSET Bits]
      /\ p \in Slots /\ pivots'[p] = coefficients /\ pivot_results'[p] = result
      /\ \A q \in Slots : q # p =>
           pivots'[q] = pivots[q] /\ pivot_results'[q] = pivot_results[q]
  BY <1>1, <1>2, <1>4
<1>6. RowInv'
  <2>1. row' \in 0..Len(keys) /\ row' \notin todo'
    BY <1>1, <1>2
  <2> QED BY <1>1, <1>2, <1>3, <2>1 DEF RowInv
<1>7. PivotInv'
  <2>1. ASSUME NEW q \in Slots, pivots'[q] # {}
        PROVE  q \in pivots'[q]
               /\ \A r \in pivots'[q] : q <= r /\ r < q + kRibbonWidth
    <3>1. CASE q = p
      BY <1>1, <1>2, <1>5, <3>1
    <3>2. CASE q # p
      BY <1>4, <1>5, <2>1, <3>2
    <3> QED BY <3>1, <3>2
  <2> QED BY <1>3, <1>5, <2>1 DEF PivotInv
<1>8. row \in 1..Len(keys) /\ Done' = Done \cup {row}
  <2>1. row \in 1..Len(keys)
    BY <1>1, <1>2
  <2>2. Done' = {i \in 1..Len(keys) : i \notin todo /\ i # 0}
    BY <1>1, <1>3 DEF Done
  <2> QED BY <1>2, <2>1, <2>2 DEF Done
<1>9. ASSUME NEW M \in SUBSET Bits, NEW v \in [Slots -> SUBSET M]
      PROVE  /\ DoneHold(v, M)' <=> PivotsHold(v, M)'
             /\ \A j \in 1..Len(keys) : j = row' /\ PivotsHold(v, M)' =>
                  (RowHolds(v, j, M) <=> XorOf(v, coefficients') = result' \cap M)
  <2> PICK r \in 1..Len(keys) : r = row
    BY <1>8
  <2> DEFINE left == XorOf(v, coefficients) = result \cap M
  <2>1. /\ DoneHold(v, M) <=> PivotsHold(v, M)
        /\ PivotsHold(v, M) => (RowHolds(v, r, M) <=> left)
    BY <1>1 DEF Inv, EquivInv
  <2>2. DoneHold(v, M)' <=> DoneHold(v, M) /\ RowHolds(v, r, M)
    BY <1>3, <1>8 DEF DoneHold
  <2>3. PivotsHold(v, M)' <=> PivotsHold(v, M) /\ left
    <3>1. PivotHolds(v, p, M) /\ (PivotHolds(v, p, M)' <=> left)
      BY <1>1, <1>5 DEF PivotHolds
    <3>2. \A q \in Slots : q # p => (PivotHolds(v, q, M)' <=> PivotHolds(v, q, M))
      BY <1>5 DEF PivotHolds
    <3> HIDE DEF left
    <3> QED BY <1>3, <1>5, <3>1, <3>2, Zenon DEF PivotsHold
  <2>4. \A j \in 1..Len(keys) : j # row'
    BY <1>1, <1>2
  <2> HIDE DEF left
  <2> QED BY <2>1, <2>2, <2>3, <2>4, Zenon
<1>10. EquivInv'
  BY <1>1, <1>9, EquivStep, Zenon
<1> QED BY <1>6, <1>7, <1>10

(* Adding a pivot that holds to what is left of a row changes nothing about *)
(* the tables that satisfy it.                                              *)
LEMMA EliminateEquiv ==
  ASSUME NEW v, NEW M, NEW S, NEW P, NEW res, NEW pres,
         IsFiniteSet(S), IsFiniteSet(P), XorOf(v, P) = pres \cap M
  PROVE  (XorOf(v, Xor(S, P)) = Xor(res, pres) \cap M)
           <=> (XorOf(v, S) = res \cap M)
<1>1. XorOf(v, Xor(S, P)) = Xor(XorOf(v, S), pres \cap M)
  BY XorOfXor
<1>2. Xor(res, pres) \cap M = Xor(res \cap M, pres \cap M)
  BY XorMask
<1> QED BY <1>1, <1>2, XorCancel

(* A row whose first slot is taken loses it and gains slots further on.     *)
LEMMA EliminateKeeps ==
  ASSUME Inv, NEW p \in coefficients, Eliminate(p)
  PROVE  RowInv' /\ EquivInv'
<1>1. /\ phase = "band" /\ row # 0 /\ phase' = phase /\ seed' = seed
      /\ \A q \in coefficients : p <= q
      /\ pivots[p] # {}
      /\ coefficients' = Xor(coefficients, pivots[p])
      /\ result' = Xor(result, pivot_results[p])
      /\ row' = row /\ todo' = todo
      /\ pivots' = pivots /\ pivot_results' = pivot_results
      /\ UNCHANGED inputVars
  BY DEF Eliminate, Leads, pivotVars
<1>2. /\ keys # <<>> /\ slot_count # 0 /\ todo \subseteq 1..Len(keys)
      /\ row \in 0..Len(keys) /\ row \notin todo
      /\ coefficients \subseteq Slots /\ result \subseteq Bits
      /\ \A q \in coefficients : q < p + kRibbonWidth
      /\ p \in Slots /\ Slots \in SUBSET Nat
      /\ \A S \in SUBSET Slots : IsFiniteSet(S)
  BY <1>1, SlotsType DEF Inv, RowInv
<1>3. /\ keys' = keys /\ slot_count' = slot_count /\ Slots' = Slots /\ Bits' = Bits
      /\ \A v, j, M : RowHolds(v, j, M)' <=> RowHolds(v, j, M)
  BY <1>1, SameRows
<1>4. /\ pivots[p] \subseteq Slots /\ pivot_results[p] \subseteq Bits
      /\ \A q \in pivots[p] : p <= q /\ q < p + kRibbonWidth
  BY <1>1, <1>2 DEF Inv, PivotInv
<1>5. RowInv'
  <2>1. coefficients' \subseteq Slots /\ result' \subseteq Bits
    BY <1>1, <1>2, <1>4 DEF Xor
  <2>2. \A q \in coefficients' : q \in Nat /\ p <= q /\ q < p + kRibbonWidth
    BY <1>1, <1>2, <1>4 DEF Xor
  <2>3. \A q, r \in coefficients' : r < q + kRibbonWidth
    BY <1>2, <2>2, RibbonAssumption
  <2> QED BY <1>1, <1>2, <1>3, <2>1, <2>3 DEF RowInv
<1>6. Done' = Done
  BY <1>1, <1>3 DEF Done
<1>7. ASSUME NEW M \in SUBSET Bits, NEW v \in [Slots -> SUBSET M]
      PROVE  /\ DoneHold(v, M)' <=> PivotsHold(v, M)'
             /\ \A j \in 1..Len(keys) : j = row' /\ PivotsHold(v, M)' =>
                  (RowHolds(v, j, M) <=> XorOf(v, coefficients') = result' \cap M)
  <2>1. /\ DoneHold(v, M) <=> PivotsHold(v, M)
        /\ \A j \in 1..Len(keys) : j = row /\ PivotsHold(v, M) =>
             (RowHolds(v, j, M) <=> XorOf(v, coefficients) = result \cap M)
    BY <1>1 DEF Inv, EquivInv
  <2>2. DoneHold(v, M)' <=> DoneHold(v, M)
    BY <1>3, <1>6 DEF DoneHold
  <2>3. PivotsHold(v, M)' <=> PivotsHold(v, M)
    BY <1>1, <1>3 DEF PivotsHold, PivotHolds
  <2>4. ASSUME PivotsHold(v, M)
        PROVE  XorOf(v, coefficients') = result' \cap M
                 <=> XorOf(v, coefficients) = result \cap M
    <3>1. XorOf(v, pivots[p]) = pivot_results[p] \cap M
      BY <1>1, <1>2, <2>4 DEF PivotsHold, PivotHolds
    <3>2. IsFiniteSet(coefficients) /\ IsFiniteSet(pivots[p])
      BY <1>2, <1>4
    <3> QED BY <1>1, <3>1, <3>2, EliminateEquiv
  <2> QED BY <1>1, <2>1, <2>2, <2>3, <2>4, Zenon
<1>8. EquivInv'
  BY <1>1, <1>7, EquivStep, Zenon
<1> QED BY <1>5, <1>8

(* A row of which nothing is left, result included, follows from the pivots. *)
LEMMA SkipRowKeeps ==
  ASSUME Inv, SkipRow
  PROVE  RowInv' /\ EquivInv'
<1>1. /\ phase = "band" /\ row # 0 /\ phase' = phase /\ seed' = seed
      /\ \A p \in coefficients : p >= slot_count
      /\ result = {} /\ result' = result
      /\ row' = 0 /\ coefficients' = {} /\ todo' = todo
      /\ pivots' = pivots /\ pivot_results' = pivot_results
      /\ UNCHANGED inputVars
  BY DEF SkipRow, Exhausted, pivotVars
<1>2. /\ keys # <<>> /\ slot_count # 0 /\ todo \subseteq 1..Len(keys)
      /\ row \in 0..Len(keys) /\ row \notin todo
      /\ coefficients \subseteq Slots
      /\ Len(keys) \in Nat /\ slot_count \in Nat
  BY <1>1, SlotsType DEF Inv, RowInv
<1>3. /\ keys' = keys /\ slot_count' = slot_count /\ Slots' = Slots /\ Bits' = Bits
      /\ \A v, j, M : RowHolds(v, j, M)' <=> RowHolds(v, j, M)
  BY <1>1, SameRows
<1>4. coefficients = {}
  BY <1>1, <1>2 DEF Slots
<1>5. RowInv'
  <2>1. row' \in 0..Len(keys) /\ row' \notin todo'
    BY <1>1, <1>2
  <2> QED BY <1>1, <1>2, <1>3, <2>1 DEF RowInv
<1>6. row \in 1..Len(keys) /\ Done' = Done \cup {row}
  <2>1. row \in 1..Len(keys)
    BY <1>1, <1>2
  <2>2. Done' = {i \in 1..Len(keys) : i \notin todo /\ i # 0}
    BY <1>1, <1>3 DEF Done
  <2> QED BY <1>2, <2>1, <2>2 DEF Done
<1>7. ASSUME NEW M \in SUBSET Bits, NEW v \in [Slots -> SUBSET M]
      PROVE  /\ DoneHold(v, M)' <=> PivotsHold(v, M)'
             /\ \A j \in 1..Len(keys) : j = row' /\ PivotsHold(v, M)' =>
                  (RowHolds(v, j, M) <=> XorOf(v, coefficients') = result' \cap M)
  <2> PICK r \in 1..Len(keys) : r = row
    BY <1>6
  <2>1. XorOf(v, coefficients) = result \cap M
    BY <1>1, <1>4, XorOfFew
  <2>2. /\ DoneHold(v, M) <=> PivotsHold(v, M)
        /\ PivotsHold(v, M) =>
             (RowHolds(v, r, M) <=> XorOf(v, coefficients) = result \cap M)
    BY <1>1 DEF Inv, EquivInv
  <2>3. DoneHold(v, M)' <=> DoneHold(v, M) /\ RowHolds(v, r, M)
    BY <1>3, <1>6 DEF DoneHold
  <2>4. PivotsHold(v, M)' <=> PivotsHold(v, M)
    BY <1>1, <1>3 DEF PivotsHold, PivotHolds
  <2>5. \A j \in 1..Len(keys) : j # row'
    BY <1>1, <1>2
  <2> QED BY <2>1, <2>2, <2>3, <2>4, <2>5, Zenon
<1>8. EquivInv'
  BY <1>1, <1>7, EquivStep, Zenon
<1> QED BY <1>5, <1>8

(* An attempt with a seed starts with no row inserted and no pivot. *)
LEMMA StartSeedKeeps ==
  ASSUME Inv, keys # <<>>, slot_count # 0, NEW s \in Seeds, StartSeed(s)
  PROVE  Inv'
<1>1. /\ keys' = keys /\ bits_per_key' = bits_per_key
      /\ result_hash' = result_hash /\ coefficient_hash' = coefficient_hash
      /\ seed' = s /\ todo' = 1..Len(keys) /\ row' = 0
      /\ coefficients' = {} /\ result' = {}
      /\ pivots' = [p \in Slots |-> {}] /\ pivot_results' = [p \in Slots |-> {}]
      /\ phase' = "band"
  BY DEF StartSeed, inputVars
<1>2. slot_count' = slot_count /\ Slots' = Slots /\ Bits' = Bits
  BY <1>1 DEF slot_count, Slots, Bits, result_bits
<1>3. InputInv'
  BY <1>1 DEF Inv, InputInv, KeysOf
<1>4. Len(keys) \in Nat
  BY DEF Inv, InputInv
<1>5. RowInv'
  BY <1>1, <1>2, <1>4 DEF RowInv
<1>6. PivotInv'
  BY <1>1, <1>2 DEF PivotInv
<1>7. EquivInv'
  <2>1. Done' = {} /\ \A i \in 1..Len(keys') : i # row'
    BY <1>1, <1>4 DEF Done
  <2>2. ASSUME NEW v, NEW M
        PROVE  DoneHold(v, M)' /\ PivotsHold(v, M)'
    <3>1. DoneHold(v, M)'
      BY <2>1 DEF DoneHold
    <3>2. PivotsHold(v, M)'
      BY <1>1, <1>2 DEF PivotsHold, PivotHolds
    <3> QED BY <3>1, <3>2
  <2> QED BY <2>1, <2>2, Zenon DEF EquivInv
<1>8. SolveInv' /\ NoFalseNegatives'
  BY <1>1 DEF SolveInv, NoFalseNegatives
<1> QED BY <1>3, <1>5, <1>6, <1>7, <1>8 DEF Inv

-----------------------------------------------------------------------------
(* Back substitution *)

(* Substitution starts once every row is inserted. *)
LEMMA StartSolveKeeps ==
  ASSUME Inv, StartSolve
  PROVE  RowInv' /\ PivotInv' /\ EquivInv' /\ SolveInv'
<1>1. /\ phase = "band" /\ row = 0 /\ todo = {} /\ phase' = "solve" /\ seed' = seed
      /\ position' = slot_count - 1 /\ solution' = [p \in Slots |-> {}]
      /\ todo' = todo /\ row' = row /\ coefficients' = coefficients
      /\ result' = result /\ pivots' = pivots /\ pivot_results' = pivot_results
      /\ UNCHANGED inputVars
  BY DEF StartSolve, rowVars, pivotVars
<1>2. /\ keys' = keys /\ slot_count' = slot_count /\ Slots' = Slots /\ Bits' = Bits
      /\ \A v, j, M : RowHolds(v, j, M)' <=> RowHolds(v, j, M)
  BY <1>1, SameRows
<1>3. slot_count \in Nat /\ slot_count # 0
  BY <1>1, SlotsType DEF Inv, RowInv
<1>4. RowInv' /\ PivotInv'
  BY <1>1, <1>2 DEF Inv, RowInv, PivotInv
<1>5. ASSUME NEW M \in SUBSET Bits, NEW v \in [Slots -> SUBSET M]
      PROVE  /\ DoneHold(v, M)' <=> PivotsHold(v, M)'
             /\ \A j \in 1..Len(keys) : j = row' /\ PivotsHold(v, M)' =>
                  (RowHolds(v, j, M) <=> XorOf(v, coefficients') = result' \cap M)
  <2>1. DoneHold(v, M) <=> PivotsHold(v, M)
    BY <1>1 DEF Inv, EquivInv
  <2>2. DoneHold(v, M)' <=> DoneHold(v, M)
    BY <1>1, <1>2 DEF DoneHold, Done
  <2>3. PivotsHold(v, M)' <=> PivotsHold(v, M)
    BY <1>1, <1>2 DEF PivotsHold, PivotHolds
  <2>4. \A j \in 1..Len(keys) : j # row'
    BY <1>1 DEF Inv, InputInv
  <2> QED BY <2>1, <2>2, <2>3, <2>4, Zenon
<1>6. EquivInv'
  BY <1>1, <1>5, EquivStep, Zenon
<1>7. SolveInv'
  <2>1. position' \in -1..(slot_count - 1)
    BY <1>1, <1>3
  <2>2. \A p \in Slots : ~(p > position')
    BY <1>1, <1>3 DEF Slots
  <2> QED BY <1>1, <1>2, <2>1, <2>2 DEF SolveInv
<1> QED BY <1>4, <1>6, <1>7

(* The value that makes the pivot at p hold, given the slots after p.       *)
LEMMA SolvesPivot ==
  ASSUME NEW v, NEW w, NEW p, NEW P, NEW res, IsFiniteSet(P), p \in P,
         \A q \in P : q # p => w[q] = v[q],
         w[p] = Xor(res, XorOf(v, P \ {p}))
  PROVE  XorOf(w, P) = res
<1> DEFINE O == P \ {p}
           S == {p}
<1>1. P = Xor(O, S)
  BY DEF Xor
<1>2. IsFiniteSet(O) /\ IsFiniteSet(S)
  BY FS_Subset, FS_Singleton
<1>3. XorOf(w, S) = Xor(res, XorOf(v, O))
  BY XorOfFew
<1>4. \A q \in O : w[q] = v[q]
  OBVIOUS
<1> HIDE DEF O, S
<1>5. XorOf(w, O) = XorOf(v, O)
  BY <1>4, XorOfSame
<1>6. XorOf(w, P) = Xor(XorOf(w, O), XorOf(w, S))
  BY <1>1, <1>2, XorOfXor
<1>7. \A a : Xor(a, Xor(res, a)) = res
  BY DEF Xor
<1> QED BY <1>3, <1>5, <1>6, <1>7, Zenon

(* The slot at position gets the value its pivot asks for, and the pivots   *)
(* after it do not read that slot.                                          *)
LEMMA SubstituteKeeps ==
  ASSUME Inv, Substitute
  PROVE  RowInv' /\ PivotInv' /\ EquivInv' /\ SolveInv'
<1> DEFINE p == position
           value == Xor(pivot_results[p], XorOf(solution, pivots[p] \ {p}))
<1>1. /\ phase = "solve" /\ p >= 0 /\ phase' = "solve" /\ seed' = seed
      /\ position' = p - 1
      /\ todo' = todo /\ row' = row /\ coefficients' = coefficients
      /\ result' = result /\ pivots' = pivots /\ pivot_results' = pivot_results
      /\ UNCHANGED inputVars
  BY DEF Substitute, rowVars, pivotVars
<1>2. /\ keys' = keys /\ slot_count' = slot_count /\ Slots' = Slots /\ Bits' = Bits
      /\ \A v, j, M : RowHolds(v, j, M)' <=> RowHolds(v, j, M)
  BY <1>1, SameRows
<1>3. /\ slot_count \in Nat /\ slot_count # 0 /\ Slots \in SUBSET Nat
      /\ \A S \in SUBSET Slots : IsFiniteSet(S)
  BY <1>1, SlotsType DEF Inv, RowInv
<1>4. /\ row = 0 /\ todo = {} /\ p \in -1..(slot_count - 1)
      /\ solution \in [Slots -> SUBSET Bits]
      /\ \A q \in Slots : q > p /\ pivots[q] # {} =>
           XorOf(solution, pivots[q]) = pivot_results[q] \cap Bits
  BY <1>1 DEF Inv, SolveInv, PivotHolds
<1>5. /\ pivots \in [Slots -> SUBSET Slots]
      /\ pivot_results \in [Slots -> SUBSET Bits]
      /\ \A q \in Slots : pivots[q] # {} =>
           q \in pivots[q] /\ \A r \in pivots[q] : q <= r
  BY <1>1 DEF Inv, PivotInv
<1>6. p \in Slots
  BY <1>1, <1>3, <1>4 DEF Slots
<1>7. RowInv' /\ PivotInv'
  BY <1>1, <1>2 DEF Inv, RowInv, PivotInv
<1>8. EquivInv'
  <2>1. ASSUME NEW M \in SUBSET Bits, NEW v \in [Slots -> SUBSET M]
        PROVE  /\ DoneHold(v, M)' <=> PivotsHold(v, M)'
               /\ \A j \in 1..Len(keys) : j = row' /\ PivotsHold(v, M)' =>
                    (RowHolds(v, j, M) <=> XorOf(v, coefficients') = result' \cap M)
    <3>1. DoneHold(v, M) <=> PivotsHold(v, M)
      BY <1>1 DEF Inv, EquivInv
    <3>2. DoneHold(v, M)' <=> DoneHold(v, M)
      BY <1>1, <1>2 DEF DoneHold, Done
    <3>3. PivotsHold(v, M)' <=> PivotsHold(v, M)
      BY <1>1, <1>2 DEF PivotsHold, PivotHolds
    <3>4. \A j \in 1..Len(keys) : j # row'
      BY <1>1, <1>4 DEF Inv, InputInv
    <3> QED BY <3>1, <3>2, <3>3, <3>4, Zenon
  <2> QED BY <1>1, <2>1, EquivStep, Zenon
<1>9. /\ solution' \in [Slots -> SUBSET Bits]
      /\ \A q \in Slots : q # p => solution'[q] = solution[q]
      /\ pivots[p] # {} => solution'[p] = value
  <2>1. CASE pivots[p] = {}
    BY <1>4, <2>1 DEF Substitute
  <2>2. CASE pivots[p] # {}
    <3>1. Others = pivots[p] \ {p}
      <4>1. \A q \in pivots[p] : q \in Nat /\ q < slot_count /\ p <= q
        BY <1>3, <1>5, <1>6, <2>2 DEF Slots
      <4> QED BY <1>3, <1>6, <4>1 DEF Others
    <3>2. XorOf(solution, pivots[p] \ {p}) \subseteq Bits
      BY <1>4, <1>5, <1>6, XorOfBits
    <3>3. value \subseteq Bits
      BY <1>5, <1>6, <3>2 DEF Xor
    <3>4. {b \in value : b < result_bits} = value
      <4>1. \A b \in Bits : b < result_bits
        BY BitsType DEF Bits, Inv
      <4> HIDE DEF value
      <4> QED BY <3>3, <4>1
    <3>5. solution' = [solution EXCEPT ![p] = value]
      BY <2>2, <3>1, <3>4 DEF Substitute
    <3> HIDE DEF value
    <3> QED BY <1>4, <1>6, <3>3, <3>5
  <2> QED BY <2>1, <2>2
<1>10. ASSUME NEW q \in Slots, q > position', pivots[q] # {}
       PROVE  XorOf(solution', pivots[q]) = pivot_results[q] \cap Bits
  <2>1. IsFiniteSet(pivots[q]) /\ pivots[q] \subseteq Slots
        /\ pivot_results[q] \cap Bits = pivot_results[q]
    BY <1>3, <1>5
  <2>2. CASE q = p
    <3>1. \A r \in pivots[q] : r # q => solution'[r] = solution[r]
      BY <1>9, <2>1, <2>2
    <3>2. solution'[q] = Xor(pivot_results[q], XorOf(solution, pivots[q] \ {q}))
      BY <1>9, <1>10, <2>2
    <3>3. q \in pivots[q]
      BY <1>5, <1>10
    <3>4. XorOf(solution', pivots[q]) = pivot_results[q]
      <4> DEFINE v == solution
                 w == solution'
                 P == pivots[q]
                 res == pivot_results[q]
      <4>1. IsFiniteSet(P) /\ q \in P /\ w[q] = Xor(res, XorOf(v, P \ {q}))
            /\ \A r \in P : r # q => w[r] = v[r]
        BY <2>1, <3>1, <3>2, <3>3
      <4> HIDE DEF v, w, P, res
      <4>2. XorOf(w, P) = res
        BY <4>1, SolvesPivot
      <4> QED BY <4>2 DEF v, w, P, res
    <3> QED BY <2>1, <3>4
  <2>3. CASE q # p
    <3>1. q > p
      BY <1>1, <1>3, <1>4, <1>10, <2>3
    <3>2. \A r \in pivots[q] : r # p
      BY <1>3, <1>4, <1>5, <1>10, <2>1, <3>1
    <3>3. \A r \in pivots[q] : solution'[r] = solution[r]
      BY <1>9, <2>1, <3>2
    <3>4. XorOf(solution', pivots[q]) = XorOf(solution, pivots[q])
      BY <3>3, XorOfSame
    <3> QED BY <1>4, <1>10, <3>1, <3>4
  <2> QED BY <2>2, <2>3
<1>11. SolveInv'
  <2>1. position' \in -1..(slot_count - 1)
    BY <1>1, <1>3, <1>4
  <2> QED BY <1>1, <1>2, <1>4, <1>9, <1>10, <2>1 DEF SolveInv, PivotHolds
<1> QED BY <1>7, <1>8, <1>11

-----------------------------------------------------------------------------
(* The filter *)

(* Once CreateFilter has returned, the invariant is what the filter says.   *)
LEMMA DoneKeeps ==
  ASSUME Inv, phase' = "done", UNCHANGED <<inputVars, seed>>,
         \A i \in 1..Len(keys) : KeyMayMatch(keys[i], filter)'
  PROVE  Inv'
<1>1. /\ keys' = keys /\ bits_per_key' = bits_per_key /\ seed' = seed
      /\ result_hash' = result_hash /\ coefficient_hash' = coefficient_hash
  BY DEF inputVars
<1>2. InputInv'
  BY <1>1 DEF Inv, InputInv, KeysOf
<1>3. RowInv' /\ PivotInv' /\ EquivInv' /\ SolveInv'
  BY DEF RowInv, PivotInv, EquivInv, SolveInv
<1>4. NoFalseNegatives'
  BY <1>1 DEF NoFalseNegatives
<1> QED BY <1>2, <1>3, <1>4 DEF Inv

(* The Bloom form accepts every key. *)
LEMMA BloomKeeps ==
  ASSUME Inv, phase' = "done", UNCHANGED <<inputVars, seed>>,
         filter' = BuildBloomEncoding
  PROVE  Inv'
<1> DEFINE words == {BloomWord[k] : k \in KeysOf(keys)}
<1>1. keys' = keys
  BY DEF inputVars
<1>2. ASSUME NEW i \in 1..Len(keys)
      PROVE  KeyMayMatch(keys[i], filter)'
  <2>1. BloomWord[keys[i]] \in words
    BY DEF KeysOf
  <2> HIDE DEF words
  <2>2. \/ filter'.type = "always"
        \/ filter'.type = "bloom" /\ BloomAccepts(BloomWord[keys[i]], filter')
    <3> DEFINE n == Len(keys)
               w == BloomWord[keys[i]]
               f == filter'
    <3>1. f = BloomEncoding(0, n, bits_per_key, words) /\ w \in words
      BY <2>1 DEF BuildBloomEncoding, words
    <3> HIDE DEF n, w, f
    <3>2. f.type = "always" \/ (f.type = "bloom" /\ BloomAccepts(w, f))
      BY <3>1, BloomComplete
    <3> QED BY <3>2 DEF w, f
  <2> QED BY <1>1, <2>2 DEF KeyMayMatch
<1> QED BY <1>2, DoneKeeps

(* The Ribbon form accepts every key: the solution satisfies the pivots,    *)
(* hence the rows, and reading the payload gives back the solution.         *)
LEMMA EncodeKeeps ==
  ASSUME Inv, Encode
  PROVE  Inv'
<1>1. /\ phase = "solve" /\ position < 0 /\ phase' = "done"
      /\ filter'.type = "ribbon" /\ filter'.seed = seed
      /\ filter'.length = slot_count /\ filter'.aux = result_bits
      /\ filter'.payload = Packed(solution, result_bits)
      /\ UNCHANGED <<inputVars, seed>>
      /\ keys' = keys /\ result_hash' = result_hash
      /\ coefficient_hash' = coefficient_hash
  BY DEF Encode, Encoded, inputVars
<1>2. /\ row = 0 /\ todo = {} /\ solution \in [Slots -> SUBSET Bits]
      /\ position \in -1..(slot_count - 1)
      /\ \A p \in Slots : p > position => PivotHolds(solution, p, Bits)
  BY <1>1 DEF Inv, SolveInv
<1>3. /\ slot_count # 0 /\ slot_count \in Nat /\ Slots \in SUBSET Nat
      /\ Len(keys) \in Nat /\ result_bits \in Nat \ {0} /\ seed \in Seeds
  BY <1>1, SlotsType, BitsType DEF Inv, RowInv, InputInv
<1>4. PivotsHold(solution, Bits)
  <2>1. \A p \in Slots : p > position
    BY <1>1, <1>2, <1>3
  <2> QED BY <1>2, <2>1 DEF PivotsHold
<1>5. DoneHold(solution, Bits)
  <2>1. Bits \in SUBSET Bits /\ solution \in [Slots -> SUBSET Bits]
    BY <1>2
  <2>2. \A M \in SUBSET Bits : \A v \in [Slots -> SUBSET M] :
          DoneHold(v, M) <=> PivotsHold(v, M)
    BY <1>1 DEF Inv, EquivInv
  <2> QED BY <1>4, <2>1, <2>2, Zenon
<1>6. ASSUME NEW i \in 1..Len(keys)
      PROVE  KeyMayMatch(keys[i], filter)'
  <2> DEFINE k == keys[i]
             slots == RowSlots(k, seed, slot_count)
             Value == [p \in slots |-> ReadPackedValue(filter', p, result_bits)]
  <2>1. slots \subseteq Slots /\ DeriveResult(k, seed, result_bits) \subseteq Bits
    BY <1>3, RowType DEF Inv
  <2>2. XorOf(solution, slots) = DeriveResult(k, seed, result_bits)
    <3>1. i \in Done
      BY <1>2 DEF Done
    <3>2. XorOf(solution, slots) = DeriveResult(k, seed, result_bits) \cap Bits
      BY <1>5, <3>1 DEF DoneHold, RowHolds
    <3> QED BY <2>1, <3>2
  <2> HIDE DEF slots
  <2>3. ASSUME NEW p \in slots
        PROVE  Value[p] = solution[p]
    <3>1. p \in Slots
      BY <2>1
    <3>2. ReadPackedValue(filter', p, result_bits) = solution[p]
      BY <1>1, <1>2, <1>3, <3>1, ReadBack DEF Bits
    <3> QED BY <3>2
  <2>4. XorOf(Value, slots) = DeriveResult(k, seed, result_bits)
    <3> HIDE DEF Value
    <3> QED BY <2>2, <2>3, XorOfSame
  <2>5. /\ RowSlots(k, seed, slot_count)' = slots
        /\ DeriveResult(k, seed, result_bits)' = DeriveResult(k, seed, result_bits)
        /\ slot_count' = slot_count /\ result_bits' = result_bits
    BY <1>1 DEF slots, RowSlots, DeriveStart, DeriveCoefficient, DeriveResult,
                slot_count, result_bits, inputVars
  <2>6. RibbonMayMatch(keys[i], filter)'
    BY <1>1, <2>4, <2>5 DEF RibbonMayMatch, RowSlots, DeriveStart, DeriveCoefficient,
                            DeriveResult, slots
  <2> QED BY <1>1, <2>6 DEF KeyMayMatch
<1> QED BY <1>1, <1>6, DoneKeeps

-----------------------------------------------------------------------------
(* The theorems *)

(* CreateFilter keeps the invariant from its first step to its return. *)
THEOREM Invariance == Spec => []Inv
<1>1. Init => Inv
  <2> SUFFICES ASSUME Init PROVE Inv
    OBVIOUS
  <2>1. 0 \in Seeds
    BY RibbonAssumption DEF Seeds
  <2>2. keys \in Seq(Keys)
    <3>1. PICK n \in 0..MaxKeys : keys \in [1..n -> Keys]
      BY DEF Init
    <3>2. n \in Nat
      BY RibbonAssumption
    <3> QED BY <3>1, <3>2
  <2>3. InputInv
    BY <2>1, <2>2 DEF Init, InputInv
  <2>4. phase = "start"
    BY DEF Init
  <2> QED BY <2>3, <2>4 DEF Inv, RowInv, PivotInv, EquivInv, SolveInv,
                            NoFalseNegatives
<1>2. Inv /\ [Next]_vars => Inv'
  <2> SUFFICES ASSUME Inv, [Next]_vars PROVE Inv'
    OBVIOUS
  <2>1. seed \in Seeds /\ 0 \in Seeds /\ (seed + 1 < kMaxSeedTries => seed + 1 \in Seeds)
    BY RibbonAssumption DEF Inv, InputInv, Seeds
  <2>2. CASE CreateEmpty
    <3>1. phase' = "done" /\ UNCHANGED <<inputVars, seed>> /\ Len(keys) = 0
      BY <2>2 DEF CreateEmpty
    <3> QED BY <3>1, DoneKeeps
  <2>3. CASE CreateBloom
    BY <2>3, BloomKeeps DEF CreateBloom
  <2>4. CASE CreateRibbon
    BY <2>1, <2>4, StartSeedKeeps DEF CreateRibbon, RibbonPays
  <2>5. ASSUME phase = "band", phase' = phase, seed' = seed, UNCHANGED inputVars
        PROVE  InputInv' /\ SolveInv' /\ NoFalseNegatives'
    <3>1. InputInv'
      BY <2>5 DEF Inv, InputInv, inputVars, KeysOf
    <3>2. SolveInv' /\ NoFalseNegatives'
      BY <2>5 DEF SolveInv, NoFalseNegatives
    <3> QED BY <3>1, <3>2
  <2>6. ASSUME phase \in {"band", "solve"}, phase' \in {"band", "solve"},
               seed' = seed, UNCHANGED <<inputVars, pivotVars>>
        PROVE  PivotInv'
    <3>1. Slots' = Slots /\ Bits' = Bits
      BY <2>6, SameRows
    <3> QED BY <2>6, <3>1 DEF Inv, PivotInv, pivotVars
  <2>7. ASSUME NEW i \in todo, TakeRow(i)
        PROVE  Inv'
    BY <2>5, <2>6, <2>7, TakeRowKeeps DEF TakeRow, Inv
  <2>8. ASSUME NEW p \in coefficients, Place(p)
        PROVE  Inv'
    BY <2>5, <2>8, PlaceKeeps DEF Place, Inv
  <2>9. ASSUME NEW p \in coefficients, Eliminate(p)
        PROVE  Inv'
    BY <2>5, <2>6, <2>9, EliminateKeeps DEF Eliminate, Inv
  <2>10. CASE SkipRow
    BY <2>5, <2>6, <2>10, SkipRowKeeps DEF SkipRow, Inv
  <2>11. CASE Retry
    <3>1. keys # <<>> /\ slot_count # 0
      BY <2>11 DEF Retry, Conflict, Inv, RowInv
    <3> QED BY <2>1, <2>11, <3>1, StartSeedKeeps DEF Retry
  <2>12. CASE GiveUp
    BY <2>12, BloomKeeps DEF GiveUp
  <2>13. ASSUME StartSolve \/ Substitute
         PROVE  Inv'
    <3>1. RowInv' /\ PivotInv' /\ EquivInv' /\ SolveInv'
      BY <2>13, StartSolveKeeps, SubstituteKeeps
    <3>2. phase' = "solve" /\ seed' = seed /\ UNCHANGED inputVars
      BY <2>13 DEF StartSolve, Substitute
    <3>3. InputInv'
      BY <3>2 DEF Inv, InputInv, inputVars, KeysOf
    <3>4. NoFalseNegatives'
      BY <3>2 DEF NoFalseNegatives
    <3> QED BY <3>1, <3>3, <3>4 DEF Inv
  <2>14. CASE Encode
    BY <2>14, EncodeKeeps
  <2>15. CASE UNCHANGED vars
    <3>1. /\ UNCHANGED inputVars
          /\ phase' = phase /\ seed' = seed /\ todo' = todo /\ row' = row
          /\ coefficients' = coefficients /\ result' = result
          /\ pivots' = pivots /\ pivot_results' = pivot_results
          /\ position' = position /\ solution' = solution /\ filter' = filter
      BY <2>15 DEF vars, rowVars, pivotVars, solveVars
    <3>2. /\ keys' = keys /\ slot_count' = slot_count /\ Slots' = Slots
          /\ Bits' = Bits
          /\ \A v, i, M : RowHolds(v, i, M)' <=> RowHolds(v, i, M)
      BY <3>1, SameRows
    <3>3. InputInv'
      BY <3>1 DEF Inv, InputInv, inputVars, KeysOf
    <3>4. RowInv'
      BY <3>1, <3>2 DEF Inv, RowInv
    <3>5. PivotInv'
      BY <3>1, <3>2 DEF Inv, PivotInv
    <3>6. SolveInv'
      BY <3>1, <3>2 DEF Inv, SolveInv, PivotHolds
    <3>7. EquivInv'
      <4>1. CASE phase \in {"band", "solve"}
        <5>1. ASSUME NEW M \in SUBSET Bits, NEW v \in [Slots -> SUBSET M]
              PROVE  /\ DoneHold(v, M)' <=> PivotsHold(v, M)'
                     /\ \A i \in 1..Len(keys) : i = row' /\ PivotsHold(v, M)' =>
                          (RowHolds(v, i, M)
                             <=> XorOf(v, coefficients') = result' \cap M)
          <6>1. /\ DoneHold(v, M) <=> PivotsHold(v, M)
                /\ \A i \in 1..Len(keys) : i = row /\ PivotsHold(v, M) =>
                     (RowHolds(v, i, M) <=> XorOf(v, coefficients) = result \cap M)
            BY <4>1 DEF Inv, EquivInv
          <6>2. DoneHold(v, M)' <=> DoneHold(v, M)
            BY <3>1, <3>2 DEF DoneHold, Done
          <6>3. PivotsHold(v, M)' <=> PivotsHold(v, M)
            BY <3>1, <3>2 DEF PivotsHold, PivotHolds
          <6> QED BY <3>1, <6>1, <6>2, <6>3, Zenon
        <5> QED BY <3>1, <5>1, EquivStep, Zenon
      <4>2. CASE phase \notin {"band", "solve"}
        BY <3>1, <4>2, Zenon DEF EquivInv
      <4> QED BY <4>1, <4>2
    <3>8. NoFalseNegatives'
      <4>1. ASSUME NEW k, NEW f
            PROVE  RibbonMayMatch(k, f)' <=> RibbonMayMatch(k, f)
        BY <3>1 DEF RibbonMayMatch, RowSlots, DeriveStart, DeriveCoefficient,
                    DeriveResult, inputVars
      <4>2. ASSUME NEW k, NEW f
            PROVE  KeyMayMatch(k, f)' <=> KeyMayMatch(k, f)
        BY <4>1 DEF KeyMayMatch
      <4>3. ASSUME phase = "done", NEW i \in 1..Len(keys),
                   NEW k, k = keys[i], NEW f, f = filter
            PROVE  KeyMayMatch(keys[i], filter)'
        <5>1. KeyMayMatch(k, f)
          BY <4>3 DEF Inv, NoFalseNegatives
        <5>2. KeyMayMatch(k, f)'
          BY <4>2, <5>1
        <5>3. k = keys'[i] /\ f = filter'
          BY <3>1, <3>2, <4>3
        <5> QED BY <5>2, <5>3 DEF KeyMayMatch, RibbonMayMatch, RowSlots, DeriveStart,
                                 DeriveCoefficient, DeriveResult
      <4> QED BY <3>1, <3>2, <4>3 DEF NoFalseNegatives
    <3> QED BY <3>3, <3>4, <3>5, <3>6, <3>7, <3>8 DEF Inv
  <2> QED BY <2>2, <2>3, <2>4, <2>7, <2>8, <2>9, <2>10, <2>11, <2>12, <2>13, <2>14,
             <2>15 DEF Next, Step, Terminated
<1> QED BY <1>1, <1>2, PTL DEF Spec

(* The Ribbon filter never denies a key it was built from.  The argument:   *)
(* at every step of the elimination the pivots have exactly the solutions   *)
(* of the rows inserted so far; back substitution satisfies the pivots; and *)
(* packing loses nothing.                                                   *)
THEOREM FilterComplete == Spec => []NoFalseNegatives
<1>1. Inv => NoFalseNegatives
  BY DEF Inv
<1> QED BY <1>1, Invariance, PTL

(* TryBuildRibbon reports a conflict only when the equations of the keys    *)
(* have no solution under the seed: for a bit that is left in the result,   *)
(* a table that yields that bit for every key would satisfy the pivots and  *)
(* so the row, of which nothing but that bit is left.                       *)
THEOREM FailureUnavoidable == Spec => []FailsOnlyIfUnsolvable
<1>1. Inv => FailsOnlyIfUnsolvable
  <2> SUFFICES ASSUME Inv, Conflict
               PROVE  \E b \in Bits : ~\E values \in [Slots -> SUBSET {b}] :
                                         SolvesBit(b, values)
    BY DEF FailsOnlyIfUnsolvable, Bits
  <2>1. /\ phase = "band" /\ row # 0 /\ result # {}
        /\ \A p \in coefficients : p >= slot_count
    BY DEF Conflict, Exhausted
  <2>2. /\ coefficients \subseteq Slots /\ result \subseteq Bits
        /\ row \in 0..Len(keys) /\ slot_count \in Nat /\ Len(keys) \in Nat
    BY <2>1, SlotsType DEF Inv, RowInv
  <2>3. coefficients = {}
    BY <2>1, <2>2 DEF Slots
  <2>4. PICK b \in Bits : b \in result
    BY <2>1, <2>2
  <2>5. PICK r \in 1..Len(keys) : r = row
    BY <2>1, <2>2
  <2>6. ASSUME NEW v \in [Slots -> SUBSET {b}], SolvesBit(b, v)
        PROVE  FALSE
    <3>1. \A i \in 1..Len(keys) : RowHolds(v, i, {b})
      BY <2>6 DEF SolvesBit, RowHolds
    <3>2. DoneHold(v, {b})
      BY <3>1 DEF DoneHold, Done
    <3>3. {b} \in SUBSET Bits
      BY <2>4
    <3>4. /\ DoneHold(v, {b}) <=> PivotsHold(v, {b})
          /\ \A i \in 1..Len(keys) : i = row /\ PivotsHold(v, {b}) =>
               (RowHolds(v, i, {b}) <=> XorOf(v, coefficients) = result \cap {b})
      BY <2>1, <2>6, <3>3 DEF Inv, EquivInv
    <3>5. XorOf(v, coefficients) = result \cap {b}
      BY <2>5, <3>1, <3>2, <3>4, Zenon
    <3> QED BY <2>3, <2>4, <3>5, XorOfFew
  <2> QED BY <2>6
<1> QED BY <1>1, Invariance, PTL

(* Every pivot lies in the 64 slots from its own on and inside the table,   *)
(* for every number of keys and every overhead.                             *)
THEOREM PivotsInBand == Spec => []BandFits
<1>1. Inv => BandFits
  <2> SUFFICES ASSUME Inv, phase \in {"band", "solve"}, NEW p \in Slots
               PROVE  pivots[p] \subseteq p..(p + kRibbonWidth - 1) \cap Slots
    BY DEF BandFits
  <2>1. pivots[p] \subseteq Slots /\ Slots \in SUBSET Nat
        /\ \A q \in pivots[p] : p <= q /\ q < p + kRibbonWidth
    BY SlotsType DEF Inv, PivotInv, RowInv
  <2> QED BY <2>1, RibbonAssumption
<1> QED BY <1>1, Invariance, PTL

-----------------------------------------------------------------------------
(* CreateFilter returns *)

(* A lexicographic step down, on quadruples of natural numbers.             *)
LEMMA QuadrupleDescends ==
  ASSUME NEW a \in Nat, NEW b \in Nat, NEW c \in Nat, NEW d \in Nat,
         NEW w \in Nat, NEW x \in Nat, NEW y \in Nat, NEW z \in Nat,
         \/ a < w
         \/ a = w /\ b < x
         \/ a = w /\ b = x /\ c < y
         \/ a = w /\ b = x /\ c = y /\ d < z
  PROVE  Descends(<<a, b, c, d>>, <<w, x, y, z>>)
<1> DEFINE s == <<a, b, c, d>>
           t == <<w, x, y, z>>
<1>1. DOMAIN s = 1..4 /\ s[1] = a /\ s[2] = b /\ s[3] = c /\ s[4] = d
      /\ t[1] = w /\ t[2] = x /\ t[3] = y /\ t[4] = z
  OBVIOUS
<1>2. \A i \in 1..4 : i = 1 \/ i = 2 \/ i = 3 \/ i = 4
  OBVIOUS
<1>3. /\ 1..(1 - 1) = {} /\ 1..(2 - 1) = {1} /\ 1..(3 - 1) = {1, 2}
      /\ 1..(4 - 1) = {1, 2, 3}
  OBVIOUS
<1> HIDE DEF s, t
<1>4. \A i \in DOMAIN s : s[i] >= 0
  BY <1>1, <1>2
<1>5. \E i \in DOMAIN s : s[i] < t[i] /\ \A j \in 1..(i - 1) : s[j] = t[j]
  <2>1. CASE a < w
    <3>1. 1 \in DOMAIN s
      BY <1>1
    <3> QED BY <1>1, <1>3, <2>1, <3>1
  <2>2. CASE a = w /\ b < x
    <3>1. 2 \in DOMAIN s
      BY <1>1
    <3> QED BY <1>1, <1>3, <2>2, <3>1
  <2>3. CASE a = w /\ b = x /\ c < y
    <3>1. 3 \in DOMAIN s
      BY <1>1
    <3> QED BY <1>1, <1>3, <2>3, <3>1
  <2>4. CASE a = w /\ b = x /\ c = y /\ d < z
    <3>1. 4 \in DOMAIN s
      BY <1>1
    <3> QED BY <1>1, <1>3, <2>4, <3>1
  <2> QED BY <2>1, <2>2, <2>3, <2>4
<1>6. Descends(s, t)
  BY <1>4, <1>5 DEF Descends
<1> QED BY <1>6 DEF s, t

(* Before the first attempt the seed is the first one.                      *)
StartInv == phase = "start" => seed = 0

(* What is left to do is counted in natural numbers.                        *)
WorkInv ==
  /\ seed \in Nat /\ kMaxSeedTries - seed \in Nat
  /\ phase = "band" => /\ IsFiniteSet(todo) /\ Cardinality(todo) \in Nat
                       /\ RowLeft \in Nat
  /\ phase = "solve" => position + 1 \in Nat

(* The slots from the first coefficient of a row on.                        *)
From(row_slots) == {q \in Slots : \E p \in row_slots : p <= q}

(* That follows from the invariant.                                         *)
LEMMA WorkType ==
  ASSUME Inv
  PROVE  WorkInv
<1>1. seed \in Nat /\ kMaxSeedTries - seed \in Nat
  BY RibbonAssumption DEF Inv, InputInv, Seeds
<1>2. ASSUME phase = "band"
      PROVE  /\ IsFiniteSet(todo) /\ Cardinality(todo) \in Nat
             /\ RowLeft \in Nat
  <2>1. /\ Len(keys) \in Nat /\ todo \in SUBSET (1..Len(keys)) /\ slot_count # 0
        /\ \A S \in SUBSET Slots : IsFiniteSet(S)
    BY <1>2, SlotsType DEF Inv, RowInv
  <2>2. IsFiniteSet(1..Len(keys))
    BY <2>1, FS_Interval
  <2>3. IsFiniteSet(todo)
    BY <2>1, <2>2, FS_Subset
  <2>4. IsFiniteSet(From(coefficients))
    BY <2>1 DEF From
  <2>5. Cardinality(From(coefficients)) \in Nat
    BY <2>4, FS_CardinalityType
  <2>6. RowLeft = IF row = 0 THEN 0 ELSE 1 + Cardinality(From(coefficients))
    BY DEF RowLeft, From
  <2> QED BY <2>3, <2>5, <2>6, FS_CardinalityType
<1>3. ASSUME phase = "solve"
      PROVE  position + 1 \in Nat
  <2>1. position \in -1..(slot_count - 1) /\ slot_count \in Nat
    BY <1>3, SlotsType DEF Inv, SolveInv, RowInv
  <2> QED BY <2>1
<1> QED BY <1>1, <1>2, <1>3 DEF WorkInv

(* Eliminating with a pivot moves the first coefficient of the row up: both *)
(* have it at the same slot, and it cancels.                                *)
LEMMA EliminateShrinks ==
  ASSUME Inv, NEW p \in coefficients, Eliminate(p)
  PROVE  RowLeft' < RowLeft
<1>1. /\ phase = "band" /\ row # 0 /\ row' = row /\ p \in coefficients
      /\ \A q \in coefficients : p <= q
      /\ coefficients' = Xor(coefficients, pivots[p])
      /\ pivots[p] # {} /\ UNCHANGED inputVars /\ seed' = seed
  BY DEF Eliminate, Leads
<1>2. /\ Slots' = Slots /\ Slots \in SUBSET Nat
      /\ coefficients \subseteq Slots /\ p \in Slots
      /\ pivots[p] \subseteq Slots /\ p \in pivots[p]
      /\ \A q \in pivots[p] : p <= q
      /\ \A S \in SUBSET Slots : IsFiniteSet(S)
  BY <1>1, SameRows, SlotsType DEF Inv, RowInv, PivotInv
<1>3. \A q \in coefficients' : q \in Slots /\ p < q
  BY <1>1, <1>2 DEF Xor
<1> DEFINE A == From(coefficients)
           B == {q \in Slots : \E x \in coefficients' : x <= q}
<1>4. B \subseteq A /\ p \in A /\ p \notin B
  <2>1. p \in A
    BY <1>1, <1>2 DEF From
  <2>2. p \notin B
    <3> SUFFICES ASSUME p \in B PROVE FALSE
      OBVIOUS
    <3>1. PICK x \in coefficients' : x <= p
      OBVIOUS
    <3>2. x \in Nat /\ p \in Nat /\ p < x
      BY <1>2, <1>3, <3>1
    <3> QED BY <3>1, <3>2
  <2>3. ASSUME NEW q \in B
        PROVE  q \in A
    <3>1. PICK x \in coefficients' : x <= q
      BY <2>3
    <3>2. x \in Nat /\ q \in Nat /\ p \in Nat /\ p < x
      BY <1>2, <1>3, <2>3, <3>1
    <3> QED BY <1>1, <1>2, <2>3, <3>1, <3>2 DEF From
  <2> QED BY <2>1, <2>2, <2>3
<1>5. IsFiniteSet(A) /\ IsFiniteSet(B)
  BY <1>2 DEF From
<1>6. /\ RowLeft = 1 + Cardinality(A)
      /\ RowLeft' = 1 + Cardinality(B)
  BY <1>1, <1>2 DEF RowLeft, From
<1> HIDE DEF A, B
<1>7. Cardinality(B) < Cardinality(A) /\ Cardinality(A) \in Nat /\ Cardinality(B) \in Nat
  BY <1>4, <1>5, FS_Subset, FS_CardinalityType
<1> QED BY <1>6, <1>7

(* Every step of CreateFilter leaves less to do.                            *)
LEMMA StepShrinks ==
  ASSUME Inv, WorkInv', StartInv, Next
  PROVE  Descends(Work', Work) \/ UNCHANGED vars
<1> DEFINE s == kMaxSeedTries - seed
           n == Cardinality(todo)
<1>0. s \in Nat /\ s' \in Nat /\ seed \in Nat
  BY WorkType DEF WorkInv
<1>a. kMaxSeedTries \in Nat
  BY RibbonAssumption
<1>b. phase = "band" => n \in Nat /\ RowLeft \in Nat
  BY WorkType DEF WorkInv
<1>c. phase' = "band" => n' \in Nat /\ RowLeft' \in Nat
  BY DEF WorkInv
<1>d. phase = "solve" => position + 1 \in Nat
  BY WorkType DEF WorkInv
<1>e. phase' = "solve" => position' + 1 \in Nat
  BY DEF WorkInv
<1>f. /\ phase = "start" => Work = <<s, 3, 0, 0>>
      /\ phase = "band" => Work = <<s, 2, n, RowLeft>>
      /\ phase = "solve" => Work = <<s, 1, position + 1, 0>>
      /\ phase = "done" => Work = <<s, 0, 0, 0>>
  BY DEF Work
<1>g. /\ phase' = "band" => Work' = <<s', 2, n', RowLeft'>>
      /\ phase' = "solve" => Work' = <<s', 1, position' + 1, 0>>
      /\ phase' = "done" => Work' = <<s', 0, 0, 0>>
  BY DEF Work
<1>h. row' = 0 => RowLeft' = 0
  BY DEF RowLeft
<1> HIDE DEF s
<1>1. CASE CreateEmpty \/ CreateBloom
  <2>1. phase = "start" /\ phase' = "done" /\ s' = s
    BY <1>1 DEF CreateEmpty, CreateBloom, s
  <2> QED BY <1>0, <1>f, <1>g, <2>1, QuadrupleDescends
<1>2. CASE CreateRibbon
  <2>1. phase = "start" /\ phase' = "band" /\ s' = s
    BY <1>2 DEF CreateRibbon, StartSeed, StartInv, s
  <2> HIDE DEF n
  <2> QED BY <1>0, <1>c, <1>f, <1>g, <2>1, QuadrupleDescends
<1>3. ASSUME NEW i \in todo, TakeRow(i)
      PROVE  Descends(Work', Work)
  <2>1. phase = "band" /\ phase' = "band" /\ s' = s /\ todo' = todo \ {i}
    BY <1>3 DEF TakeRow, s
  <2>2. IsFiniteSet(todo)
    BY <2>1, WorkType DEF WorkInv
  <2>3. n' < n
    BY <1>b, <1>c, <2>1, <2>2, FS_RemoveElement
  <2> HIDE DEF n
  <2> QED BY <1>0, <1>b, <1>c, <1>f, <1>g, <2>1, <2>3, QuadrupleDescends
<1>4. ASSUME NEW p \in coefficients, Place(p)
      PROVE  Descends(Work', Work)
  <2>1. phase = "band" /\ phase' = "band" /\ s' = s /\ n' = n /\ row # 0 /\ row' = 0
    BY <1>4 DEF Place, s
  <2>2. RowLeft # 0
    <3>1. IsFiniteSet(From(coefficients))
      BY <2>1, SlotsType DEF From, Inv, RowInv
    <3>2. Cardinality(From(coefficients)) \in Nat
      BY <3>1, FS_CardinalityType
    <3> QED BY <2>1, <3>2 DEF RowLeft, From
  <2> HIDE DEF n
  <2> QED BY <1>0, <1>b, <1>c, <1>f, <1>g, <1>h, <2>1, <2>2, QuadrupleDescends
<1>5. ASSUME NEW p \in coefficients, Eliminate(p)
      PROVE  Descends(Work', Work)
  <2>1. phase = "band" /\ phase' = "band" /\ s' = s /\ n' = n
    BY <1>5 DEF Eliminate, s
  <2>2. RowLeft' < RowLeft
    BY <1>5, EliminateShrinks
  <2> HIDE DEF n
  <2> QED BY <1>0, <1>b, <1>c, <1>f, <1>g, <2>1, <2>2, QuadrupleDescends
<1>6. CASE SkipRow
  <2>1. phase = "band" /\ phase' = "band" /\ s' = s /\ n' = n /\ row # 0 /\ row' = 0
    BY <1>6 DEF SkipRow, Exhausted, s
  <2>2. RowLeft # 0
    <3>1. IsFiniteSet(From(coefficients))
      BY <2>1, SlotsType DEF From, Inv, RowInv
    <3>2. Cardinality(From(coefficients)) \in Nat
      BY <3>1, FS_CardinalityType
    <3> QED BY <2>1, <3>2 DEF RowLeft, From
  <2> HIDE DEF n
  <2> QED BY <1>0, <1>b, <1>c, <1>f, <1>g, <1>h, <2>1, <2>2, QuadrupleDescends
<1>7. CASE Retry
  <2>1. phase = "band" /\ phase' = "band" /\ seed' = seed + 1
    BY <1>7 DEF Retry, Conflict, StartSeed
  <2>2. s' < s
    BY <1>0, <1>a, <2>1 DEF s
  <2> HIDE DEF n
  <2>3. /\ Work = <<s, 2, n, RowLeft>> /\ Work' = <<s', 2, n', RowLeft'>>
        /\ n \in Nat /\ RowLeft \in Nat /\ n' \in Nat /\ RowLeft' \in Nat
    BY <1>b, <1>c, <1>f, <1>g, <2>1
  <2>4. Descends(<<s', 2, n', RowLeft'>>, <<s, 2, n, RowLeft>>)
    BY <1>0, <2>2, <2>3, QuadrupleDescends
  <2> QED BY <2>3, <2>4
<1>8. CASE GiveUp
  <2>1. phase = "band" /\ phase' = "done" /\ s' = s
    BY <1>8 DEF GiveUp, Conflict, s
  <2> HIDE DEF n
  <2> QED BY <1>0, <1>b, <1>f, <1>g, <2>1, QuadrupleDescends
<1>9. CASE StartSolve
  <2>1. phase = "band" /\ phase' = "solve" /\ s' = s
    BY <1>9 DEF StartSolve, s
  <2> HIDE DEF n
  <2> QED BY <1>0, <1>b, <1>e, <1>f, <1>g, <2>1, QuadrupleDescends
<1>10. CASE Substitute
  <2>1. /\ phase = "solve" /\ phase' = "solve" /\ s' = s
        /\ position' = position - 1
    BY <1>10 DEF Substitute, s
  <2>2. position \in Int
    <3>1. position \in -1..(slot_count - 1) /\ slot_count \in Nat
      BY <2>1, SlotsType DEF Inv, SolveInv, RowInv
    <3> QED BY <3>1
  <2>3. position' + 1 < position + 1
    BY <2>1, <2>2
  <2> QED BY <1>0, <1>d, <1>e, <1>f, <1>g, <2>1, <2>3, QuadrupleDescends
<1>11. CASE Encode
  <2>1. phase = "solve" /\ phase' = "done" /\ s' = s
    BY <1>11 DEF Encode, s
  <2> QED BY <1>0, <1>d, <1>f, <1>g, <2>1, QuadrupleDescends
<1> QED BY <1>1, <1>2, <1>3, <1>4, <1>5, <1>6, <1>7, <1>8, <1>9, <1>10, <1>11
        DEF Next, Step, Terminated

(* CreateFilter returns for every list of keys and every hash function: the *)
(* seeds, the phases of an attempt, the rows and the slots ahead of the row *)
(* in hand go down, in that order.                                          *)
THEOREM CreateFilterReturns == Spec => WorkShrinks
<1>1. Init => StartInv
  BY DEF Init, StartInv
<1>2. StartInv /\ [Next]_vars => StartInv'
  BY DEF StartInv, Next, Step, Terminated, vars, CreateEmpty, CreateBloom,
         CreateRibbon, StartSeed, TakeRow, Place, Eliminate, SkipRow, Retry,
         GiveUp, StartSolve, Substitute, Encode
<1>3. Inv => WorkInv
  BY WorkType
<1>4. Inv /\ WorkInv' /\ StartInv /\ [Next]_vars => [Descends(Work', Work)]_vars
  BY StepShrinks
<1> QED BY <1>1, <1>2, <1>3, <1>4, Invariance, PTL DEF Spec, WorkShrinks

=============================================================================
