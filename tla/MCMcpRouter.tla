----------------------------- MODULE MCMcpRouter -----------------------------
(* Two session ids of which one begins with the other, as in "s-1", "s-10". *)
EXTENDS McpRouter, TLC

CONSTANTS s1, s10, c1, c2, c3

TenStartsWithOne == {<<s1, s1>>, <<s10, s10>>, <<s10, s1>>}

ClientSymmetry == Permutations({c1, c2, c3})
=============================================================================
