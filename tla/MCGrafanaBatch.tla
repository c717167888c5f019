--------------------------- MODULE MCGrafanaBatch ---------------------------
(***************************************************************************)
(* Three calls of one contact point: c1 resolves the alert c2 opens and    *)
(* goes on with the next firing of it, which c3 carries too.               *)
(***************************************************************************)
EXTENDS GrafanaBatch, TLC

Alert(status, fingerprint, startsAt, label) ==
    [status |-> status, fingerprint |-> fingerprint, startsAt |-> startsAt, label |-> label]

MCCalls == {"c1", "c2", "c3"}
MCItems ==
    [c1 |-> <<Alert("firing", "b", 1, "db"), Alert("resolved", "a", 1, "web"),
              Alert("firing", "a", 2, "web")>>,
     c2 |-> <<Alert("firing", "a", 1, "web")>>,
     c3 |-> <<Alert("firing", "a", 2, "web")>>]
MCIntegrationOf == [c \in MCCalls |-> "grafana"]
MCDefaultService == "grafana" :> "ops"
=============================================================================
