-------------------------- MODULE MCResourceTables --------------------------
(* Instances of ResourceTables for TLC. *)
EXTENDS ResourceTables

CONSTANTS A, B, o1, o2
=============================================================================
