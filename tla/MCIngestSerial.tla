--------------------------- MODULE MCIngestSerial ---------------------------
(***************************************************************************)
(* The requests of MCIngest, without overlap.                              *)
(***************************************************************************)
EXTENDS IngestSerial

MCRequests == {"r1", "r2", "r3", "r4", "r5"}
MCKeys == {"k1", "k3", "k4", "k5"}
MCDedups == {"cpu", "test"}
MCGrafanaDedups == {"cpu"}
MCIntegrations == {"i1"}
MCTestRequests == {"r4"}
MCKeyOf == [r1 |-> "k1", r2 |-> "k1", r3 |-> "k3", r4 |-> "k4", r5 |-> "k5"]
MCDedupOf == [r \in Requests |-> IF r \in MCTestRequests THEN "test" ELSE "cpu"]
MCIntegrationOf == [r \in Requests |-> "i1"]
=============================================================================
