---------------------------- MODULE RibbonFilter ----------------------------
(***************************************************************************)
(* The packed Ribbon filter added to LevelDB (util/ribbon_filter.cc):      *)
(* CreateFilter, which turns every key into a linear equation over a band  *)
(* of slots, eliminates (TryBuildRibbon), substitutes back and packs the   *)
(* solution, retries with other seeds and falls back to a Bloom filter;    *)
(* and KeyMayMatch.                                                        *)
(*                                                                         *)
(* The 64 coefficients of a row, which the code shifts so that bit 0 is    *)
(* the slot at position, are the set of the slots they stand for.  A       *)
(* result is the set of its 1 bits.  Hash is left open: any function.      *)
(***************************************************************************)
EXTENDS FilterFormat, Sequences

CONSTANTS
  Keys,               \* user keys
  MaxKeys,            \* bound on the keys of one filter
  ResultHashes,       \* values of RibbonHash64 for the start and the result
  HighWord, LowBits,  \* their upper word, and the bits of the lower one
  CoefficientHashes,  \* values of RibbonHash64 for the coefficients, as bits
  BloomWord,          \* BloomWord[k]: hash and delta of the fallback
  BitsPerKey,         \* precisions NewRibbonFilterPolicy accepts
  kRibbonWidth, kOverheadNumerator, kOverheadDenominator, kMaxSeedTries

ASSUME HashAssumption ==
  /\ HighWord \in [ResultHashes -> 0..(WordSize - 1)]
  /\ LowBits \in [ResultHashes -> SUBSET Nat]
  /\ CoefficientHashes \subseteq SUBSET (0..(kRibbonWidth - 1))
ASSUME RibbonAssumption ==
  /\ MaxKeys \in Nat
  /\ BitsPerKey \subseteq Nat \ {0}
  /\ kRibbonWidth \in Nat \ {0}
  /\ kOverheadNumerator \in Nat /\ kOverheadDenominator \in Nat \ {0}
  /\ kMaxSeedTries \in Nat \ {0}

VARIABLES
  (* arguments, and the hash function they meet *)
  keys, bits_per_key, result_hash, coefficient_hash,
  (* CreateFilter and TryBuildRibbon *)
  phase, seed,
  todo,                  \* rows not inserted yet
  row,                   \* the row being inserted, 0 if none
  coefficients, result,  \* what elimination has left of it
  pivots, pivot_results,
  position, solution,
  (* the encoded filter *)
  filter

inputVars == <<keys, bits_per_key, result_hash, coefficient_hash>>
rowVars == <<todo, row, coefficients, result>>
pivotVars == <<pivots, pivot_results>>
solveVars == <<position, solution>>
vars == <<inputVars, phase, seed, rowVars, pivotVars, solveVars, filter>>

Seeds == 0..(kMaxSeedTries - 1)

-----------------------------------------------------------------------------
(* Sizes *)

result_bits == ComputeFingerprintBits(bits_per_key)

(* 0 when the number of slots does not fit a word. *)
RibbonSlotCount(n) ==
  LET count == IF n < kRibbonWidth THEN kRibbonWidth + n
               ELSE (n * kOverheadNumerator + kOverheadDenominator - 1)
                      \div kOverheadDenominator
      slots == IF count < kRibbonWidth THEN kRibbonWidth ELSE count
  IN IF n = 0 \/ slots > WordSize - 1 THEN 0 ELSE slots

(* TryBuildRibbon casts slot_count to int: it fits one up to about          *)
(* 2 * 10^9 keys, more than the model has.                                  *)
ASSUME SlotsFitInt ==
  \A n \in 0..MaxKeys : RibbonSlotCount(n) < WordSize \div 2

slot_count == RibbonSlotCount(Len(keys))

Slots == 0..(slot_count - 1)

-----------------------------------------------------------------------------
(* The equation of a key: the slots whose values yield its result.          *)

DeriveStart(k, s, slots) ==
  FastRange32(HighWord[result_hash[<<k, s>>]], slots - kRibbonWidth + 1)

(* Bit 0 is always a coefficient. *)
DeriveCoefficient(k, s) == coefficient_hash[<<k, s>>] \cup {0}

RowSlots(k, s, slots) ==
  {DeriveStart(k, s, slots) + c : c \in DeriveCoefficient(k, s)}

DeriveResult(k, s, bits) == {b \in LowBits[result_hash[<<k, s>>]] : b < bits}

-----------------------------------------------------------------------------
(* The encoded filter *)

KeysOf(ks) == {ks[i] : i \in 1..Len(ks)}

BuildBloomEncoding ==
  BloomEncoding(0, Len(keys), bits_per_key, {BloomWord[k] : k \in KeysOf(keys)})

RibbonMayMatch(k, f) ==
  LET slots == RowSlots(k, f.seed, f.length)
      Value == [p \in slots |-> ReadPackedValue(f, p, f.aux)]
  IN \/ f.aux < 1 \/ f.aux > 16 \/ f.length < kRibbonWidth
     \/ f.size # PackedByteSize(f.length, f.aux)
     \/ \E p \in slots : p >= f.length \/ ~Readable(f, p, f.aux)
     \/ XorOf(Value, slots) = DeriveResult(k, f.seed, f.aux)

KeyMayMatch(k, f) ==
  \/ f.type = "empty" /\ f.size # 0
  \/ f.type \notin {"empty", "bloom", "ribbon"}
  \/ f.type = "bloom" /\ BloomAccepts(BloomWord[k], f)
  \/ f.type = "ribbon" /\ RibbonMayMatch(k, f)

-----------------------------------------------------------------------------
(* CreateFilter *)

CreateEmpty ==
  /\ phase = "start" /\ keys = <<>>
  /\ filter' = EmptyFilter
  /\ phase' = "done"
  /\ UNCHANGED <<inputVars, seed, rowVars, pivotVars, solveVars>>

RibbonPays ==
  /\ slot_count # 0
  /\ SmallerThanBloom(PackedByteSize(slot_count, result_bits), Len(keys),
                      bits_per_key)

CreateBloom ==
  /\ phase = "start" /\ keys # <<>> /\ ~RibbonPays
  /\ filter' = BuildBloomEncoding
  /\ phase' = "done"
  /\ UNCHANGED <<inputVars, seed, rowVars, pivotVars, solveVars>>

(* TryBuildRibbon up to the loop over the rows. *)
StartSeed(s) ==
  /\ seed' = s
  /\ todo' = 1..Len(keys) /\ row' = 0 /\ coefficients' = {} /\ result' = {}
  /\ pivots' = [p \in Slots |-> {}] /\ pivot_results' = [p \in Slots |-> {}]
  /\ phase' = "band"
  /\ UNCHANGED <<inputVars, solveVars, filter>>

CreateRibbon == phase = "start" /\ keys # <<>> /\ RibbonPays /\ StartSeed(0)

-----------------------------------------------------------------------------
(* TryBuildRibbon: elimination, row by row in the order of their starts.    *)
(* The order of rows with the same start is left open, as std::sort does.   *)

TakeRow(i) ==
  /\ phase = "band" /\ row = 0 /\ i \in todo
  /\ \A j \in todo : DeriveStart(keys[i], seed, slot_count)
                       <= DeriveStart(keys[j], seed, slot_count)
  /\ row' = i /\ todo' = todo \ {i}
  /\ coefficients' = RowSlots(keys[i], seed, slot_count)
  /\ result' = DeriveResult(keys[i], seed, result_bits)
  /\ UNCHANGED <<inputVars, phase, seed, pivotVars, solveVars, filter>>

(* The first slot of what is left of the row. *)
Leads(p) == p \in coefficients /\ \A q \in coefficients : p <= q

Place(p) ==
  /\ phase = "band" /\ row # 0 /\ Leads(p)
  /\ p < slot_count /\ pivots[p] = {}
  /\ pivots' = [pivots EXCEPT ![p] = coefficients]
  /\ pivot_results' = [pivot_results EXCEPT ![p] = result]
  /\ row' = 0 /\ coefficients' = {} /\ result' = {}
  /\ UNCHANGED <<inputVars, phase, seed, todo, solveVars, filter>>

(* Mutant: the result of the row is left as it was. *)
EliminateCoefficients(p) ==
  /\ phase = "band" /\ row # 0 /\ Leads(p)
  /\ p < slot_count /\ pivots[p] # {}
  /\ coefficients' = Xor(coefficients, pivots[p])
  /\ UNCHANGED <<inputVars, phase, seed, todo, row, result, pivotVars, solveVars,
                 filter>>

Eliminate(p) ==
  /\ phase = "band" /\ row # 0 /\ Leads(p)
  /\ p < slot_count /\ pivots[p] # {}
  /\ coefficients' = Xor(coefficients, pivots[p])
  /\ result' = Xor(result, pivot_results[p])
  /\ UNCHANGED <<inputVars, phase, seed, todo, row, pivotVars, solveVars, filter>>

(* No coefficient is left, or only some beyond the last slot. *)
Exhausted == row # 0 /\ \A p \in coefficients : p >= slot_count

SkipRow ==
  /\ phase = "band" /\ Exhausted /\ result = {}
  /\ row' = 0 /\ coefficients' = {}
  /\ UNCHANGED <<inputVars, phase, seed, todo, result, pivotVars, solveVars,
                 filter>>

(* Mutant: a redundant row, such as that of a repeated key, is a conflict.  *)
ConflictIfRedundant == phase = "band" /\ Exhausted

Conflict == phase = "band" /\ Exhausted /\ result # {}

(* Mutant: the seed is not advanced. *)
RetrySameSeed == Conflict /\ seed + 1 < kMaxSeedTries /\ StartSeed(seed)

Retry == Conflict /\ seed + 1 < kMaxSeedTries /\ StartSeed(seed + 1)

GiveUp ==
  /\ Conflict /\ seed + 1 >= kMaxSeedTries
  /\ filter' = BuildBloomEncoding
  /\ phase' = "done"
  /\ UNCHANGED <<inputVars, seed, rowVars, pivotVars, solveVars>>

-----------------------------------------------------------------------------
(* TryBuildRibbon: back substitution, from the last slot to the first.      *)

StartSolve ==
  /\ phase = "band" /\ row = 0 /\ todo = {}
  /\ position' = slot_count - 1
  /\ solution' = [p \in Slots |-> {}]
  /\ phase' = "solve"
  /\ UNCHANGED <<inputVars, seed, rowVars, pivotVars, filter>>

(* The slots that determine the one at position, with its pivot. *)
Others == {q \in pivots[position] : q > position /\ q < slot_count}

Substitute ==
  /\ phase = "solve" /\ position >= 0
  /\ solution' =
       IF pivots[position] = {} THEN solution
       ELSE [solution EXCEPT ![position] =
               {b \in Xor(pivot_results[position], XorOf(solution, Others)) :
                  b < result_bits}]
  /\ position' = position - 1
  /\ UNCHANGED <<inputVars, phase, seed, rowVars, pivotVars, filter>>

Encode ==
  /\ phase = "solve" /\ position < 0
  /\ filter' = Encoded("ribbon", seed, slot_count, result_bits,
                       Packed(solution, result_bits),
                       PackedByteSize(slot_count, result_bits))
  /\ phase' = "done"
  /\ UNCHANGED <<inputVars, seed, rowVars, pivotVars, solveVars>>

-----------------------------------------------------------------------------
Init ==
  /\ keys \in UNION {[1..n -> Keys] : n \in 0..MaxKeys}
  /\ bits_per_key \in BitsPerKey
  /\ result_hash \in [KeysOf(keys) \X Seeds -> ResultHashes]
  /\ coefficient_hash \in [KeysOf(keys) \X Seeds -> CoefficientHashes]
  /\ phase = "start" /\ seed = 0
  /\ todo = {} /\ row = 0 /\ coefficients = {} /\ result = {}
  /\ pivots = <<>> /\ pivot_results = <<>>
  /\ position = 0 /\ solution = <<>>
  /\ filter = NoFilter

Step ==
  \/ CreateEmpty \/ CreateBloom \/ CreateRibbon
  \/ \E i \in todo : TakeRow(i)
  \/ \E p \in coefficients : Place(p) \/ Eliminate(p)
  \/ SkipRow \/ Retry \/ GiveUp
  \/ StartSolve \/ Substitute \/ Encode

Terminated == phase = "done" /\ UNCHANGED vars

Next == Step \/ Terminated

Spec == Init /\ [][Next]_vars

-----------------------------------------------------------------------------
(* Properties *)

(* A table of one-bit values yields bit b of every key's result. *)
SolvesBit(b, values) ==
  \A i \in 1..Len(keys) :
    XorOf(values, RowSlots(keys[i], seed, slot_count))
      = DeriveResult(keys[i], seed, result_bits) \cap {b}

(* A filter never denies a key it was built from, whichever encoding        *)
(* CreateFilter chose and whatever seed it ended with.                      *)
NoFalseNegatives ==
  phase = "done" => \A i \in 1..Len(keys) : KeyMayMatch(keys[i], filter)

(* TryBuildRibbon fails only if it must: for some bit, no table at all      *)
(* yields the results of all keys under this seed.                          *)
FailsOnlyIfUnsolvable ==
  Conflict => \E b \in 0..(result_bits - 1) :
                ~\E values \in [Slots -> SUBSET {b}] : SolvesBit(b, values)

(* A pivot lies within the 64 slots its word can name and within the table, *)
(* so the tests "position >= slot_count" never succeed.                     *)
BandFits ==
  phase \in {"band", "solve"} =>
    \A p \in Slots : pivots[p] \subseteq p..(p + kRibbonWidth - 1) \cap Slots

(* The slots from the first one of the row in hand on, and the row itself.  *)
RowLeft ==
  IF row = 0 THEN 0
  ELSE 1 + Cardinality({q \in Slots : \E p \in coefficients : p <= q})

(* What CreateFilter has left to do: seeds, phases of the attempt, and      *)
(* iterations of the loops it is in.                                        *)
Work ==
  CASE phase = "start" -> <<kMaxSeedTries - seed, 3, 0, 0>>
    [] phase = "band" -> <<kMaxSeedTries - seed, 2, Cardinality(todo), RowLeft>>
    [] phase = "solve" -> <<kMaxSeedTries - seed, 1, position + 1, 0>>
    [] OTHER -> <<kMaxSeedTries - seed, 0, 0, 0>>

(* Every step leaves less to do, so CreateFilter returns whatever the       *)
(* hashes are: eliminating with a pivot moves the first coefficient of the  *)
(* row up, and no seed is tried twice.                                      *)
WorkShrinks == [][Descends(Work', Work)]_vars

=============================================================================
