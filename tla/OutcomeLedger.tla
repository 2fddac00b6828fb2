---------------------------- MODULE OutcomeLedger ----------------------------
(***************************************************************************)
(* What the post-tool hook promises of a tool use whose check left a       *)
(* receipt: its outcome is recorded at most once, and a failure memory is  *)
(* only formed of a failure that has been recorded.                        *)
(***************************************************************************)
EXTENDS Naturals

VARIABLES failed,    \* the tool failed
          outcomes,  \* outcomes recorded for the receipt
          memory     \* the failure memory is there

vars == <<failed, outcomes, memory>>

Init ==
    /\ failed \in BOOLEAN
    /\ outcomes = 0
    /\ memory = FALSE

Record ==
    /\ outcomes = 0
    /\ outcomes' = 1
    /\ UNCHANGED <<failed, memory>>

Learn ==
    /\ failed /\ outcomes = 1
    /\ memory' = TRUE
    /\ UNCHANGED <<failed, outcomes>>

Next == Record \/ Learn

Spec == Init /\ [][Next]_vars
=============================================================================
