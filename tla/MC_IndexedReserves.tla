-------------------------- MODULE MC_IndexedReserves --------------------------
(* Instances of IndexedReserves for TLC. *)
EXTENDS IndexedReserves, TLC

Symmetry == Permutations(Accounts)
\* A first funding at odds of one to two.
Skewed == {[o \in Outcomes |-> o + 1]}
=============================================================================
