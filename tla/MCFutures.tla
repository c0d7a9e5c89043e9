----------------------------- MODULE MCFutures ------------------------------
(* Instances of Futures for TLC. *)
EXTENDS Futures
=============================================================================
