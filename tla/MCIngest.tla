------------------------------ MODULE MCIngest ------------------------------
(***************************************************************************)
(* r1 and r2 are one request sent over two connections, r3 carries another *)
(* event of the same alert, r4 is a call of the test endpoint.             *)
(***************************************************************************)
EXTENDS Ingest

MCRequests == {"r1", "r2", "r3", "r4"}
MCKeys == {"k1", "k3", "k4"}
MCDedups == {"cpu", "test"}
MCGrafanaDedups == {"cpu"}
MCIntegrations == {"i1", "i2"}
MCTestRequests == {"r4"}

AllKeyOf == [r1 |-> "k1", r2 |-> "k1", r3 |-> "k3", r4 |-> "k4"]
AllIntegrationOf == [r1 |-> "i1", r2 |-> "i1", r3 |-> "i2", r4 |-> "i2"]

MCKeyOf == [r \in Requests |-> AllKeyOf[r]]
MCDedupOf == [r \in Requests |-> IF r \in MCTestRequests THEN "test" ELSE "cpu"]
MCIntegrationOf == [r \in Requests |-> AllIntegrationOf[r]]
=============================================================================
