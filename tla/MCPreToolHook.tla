--------------------------- MODULE MCPreToolHook ---------------------------
(* PreToolHook for a few tool uses, which are interchangeable.             *)
EXTENDS PreToolHook, TLC

Interchangeable == Permutations(Proc)
=============================================================================
