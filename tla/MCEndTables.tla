---------------------------- MODULE MCEndTables -----------------------------
(* Instances of EndTables for TLC: components, error contexts and their local *)
(* objects are interchangeable.                                              *)
EXTENDS EndTables, TLC

Symmetric == Permutations(Comp) \cup Permutations(Ctx) \cup Permutations(Local)
=============================================================================
