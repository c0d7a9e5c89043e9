----------------------------- MODULE MCSubtasks -----------------------------
(* Instances of Subtasks for TLC. *)
EXTENDS Subtasks
=============================================================================
