---------------------------- MODULE MCInjection ----------------------------
(* Injection on a small instance.                                          *)
EXTENDS Injection, TLC
=============================================================================
