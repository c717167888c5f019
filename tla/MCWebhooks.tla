----------------------------- MODULE MCWebhooks -----------------------------
(***************************************************************************)
(* A trigger and an acknowledge of an incident of one service, with two    *)
(* subscriptions of that service and one of another.                       *)
(***************************************************************************)
EXTENDS Webhooks, TLC

MCSubscribedTo == [s1 |-> {"triggered", "acknowledged"}, s2 |-> {"acknowledged"},
                   s3 |-> {"triggered", "acknowledged"}]
MCEventOf == [c1 |-> "triggered", c2 |-> "acknowledged"]
MCServiceOf == [c1 |-> "web", c2 |-> "web", s1 |-> "web", s2 |-> "web", s3 |-> "db"]
Symmetry == Permutations(Deletes)
=============================================================================
