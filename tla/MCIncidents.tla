----------------------------- MODULE MCIncidents ----------------------------
(***************************************************************************)
(* Constants for Incidents.                                                *)
(***************************************************************************)
EXTENDS Incidents, TLC

Symmetry == Permutations(Sessions) \cup Permutations(Workers)
MCResolvable == {0}
=============================================================================
