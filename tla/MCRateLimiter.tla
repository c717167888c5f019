---------------------------- MODULE MCRateLimiter ---------------------------
(***************************************************************************)
(* The clients are alike.                                                  *)
(***************************************************************************)
EXTENDS RateLimiter, TLC

Symmetry == Permutations(Clients)
=============================================================================
