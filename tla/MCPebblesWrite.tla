--------------------------- MODULE MCPebblesWrite ---------------------------
(* A small instance of PebblesWrite for TLC. *)
EXTENDS PebblesWrite, TLC

\* Threads differ in nothing but their names.
ThreadSymmetry == Permutations(Threads)

\* Batches of one entry.
OneKey == {<<1>>}
=============================================================================
