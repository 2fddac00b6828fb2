--------------------------- MODULE MCHookOutcome ---------------------------
(* HookOutcome for a few deliveries, which are interchangeable.            *)
EXTENDS HookOutcome, TLC

Interchangeable == Permutations(Hook)
=============================================================================
