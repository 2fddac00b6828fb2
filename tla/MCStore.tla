------------------------------ MODULE MCStore -------------------------------
(* Store on a small instance.                                                *)
EXTENDS Store
=============================================================================
