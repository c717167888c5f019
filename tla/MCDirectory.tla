---------------------------- MODULE MCDirectory -----------------------------
(***************************************************************************)
(* Users, teams and requests are alike.                                    *)
(***************************************************************************)
EXTENDS Directory, TLC

Symmetry == Permutations(Users) \cup Permutations(Teams) \cup Permutations(Requests)
=============================================================================
