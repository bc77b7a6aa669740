----------------------------- MODULE MCGitApply -----------------------------
(* GitApply on a plan of three steps. *)
EXTENDS GitApply
=============================================================================
