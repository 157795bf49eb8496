----------------------------- MODULE MCMcpManager -----------------------------
(* McpManager for model checking. *)
EXTENDS McpManager, TLC

CONSTANTS k1, k2, m1, m2, m3

ProcSymmetry == Permutations({k1, k2}) \cup Permutations({m1, m2, m3})
=============================================================================
