--------------------------- MODULE MCRibbonFilter ---------------------------
(* Rows of a band of three slots.  With these coefficients and starts, two  *)
(* rows may be equal and three may depend on each other.                    *)
EXTENDS RibbonFilter, TLC

Low == "low"
LowOdd == "lowodd"
High == "high"
ResultHashValues == {Low, LowOdd, High}
HighWordOf == (Low :> 0) @@ (LowOdd :> 10) @@ (High :> 64)
LowBitsOf == (Low :> {1}) @@ (LowOdd :> {0, 2, 20}) @@ (High :> {0})
CoefficientHashValues == {{1}, {2}}
BloomWordOf == [k \in Keys |-> <<5, 17>>]
Symmetry == Permutations(Keys)

=============================================================================
