----------------------------- MODULE MCBreaker -----------------------------
(* Instances of Breaker for TLC.  Liveness is checked, so the goroutines   *)
(* are not declared symmetric.                                             *)
EXTENDS Breaker
=============================================================================
