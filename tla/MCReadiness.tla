----------------------------- MODULE MCReadiness -----------------------------
(* Readiness needs no definitions of its own to be model-checked. *)
EXTENDS Readiness
=============================================================================
