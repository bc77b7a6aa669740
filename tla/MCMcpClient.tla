----------------------------- MODULE MCMcpClient -----------------------------
(* Instances of McpClient for TLC. *)
EXTENDS McpClient, TLC
Symmetry == Permutations(Servers)
==============================================================================
