------------------------------ MODULE MCGuard ------------------------------
(* Guard on small instances: the processes and actions are interchangeable. *)
EXTENDS Guard, TLC

Interchangeable == Permutations(Proc) \cup Permutations(Action)
=============================================================================
