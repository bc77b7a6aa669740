----------------------------- MODULE MCMaintain -----------------------------
(* Maintain on small instances. *)
EXTENDS Maintain
=============================================================================
