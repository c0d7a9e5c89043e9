---------------------------- MODULE MCHandleTable ---------------------------
(* An instance of HandleTableUse for TLC. *)
EXTENDS HandleTableUse
=============================================================================
