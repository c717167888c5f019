---------------------------- MODULE MCPolicyAdmin ----------------------------
(* Constants for PolicyAdmin. *)
EXTENDS PolicyAdmin, TLC

CONSTANTS p, s, u, v

MCRuleLists == {<<s>>, <<u, s>>}
MCLayerLists == {<<>>, <<u>>, <<v, u>>}

Symmetry == Permutations(Request)
=============================================================================
