------------------------------ MODULE MC_Indexer ------------------------------
(* Instances of Indexer for TLC. *)
EXTENDS Indexer, TLC

\* Event 1 funds the pool in block 1, a trade follows in block 2.
TwoBlocks == <<1, 2>>
FirstFunds == {1}
=============================================================================
