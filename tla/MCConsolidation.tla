-------------------------- MODULE MCConsolidation --------------------------
(* Consolidation for a few interchangeable ids of every kind.              *)
EXTENDS Consolidation, TLC

Interchangeable ==
    Permutations(Similar) \cup Permutations(Episode \ Similar) \cup Permutations(Memory) \cup
    Permutations(Run) \cup Permutations(Undoer)
=============================================================================
