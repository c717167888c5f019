---------------------------- MODULE IngestSerial ----------------------------
(***************************************************************************)
(* Ingestion with one request at a time: the same handler, in a deployment *)
(* or a test where no two transactions overlap.  It implements             *)
(* IngestContract, which the concurrent handler does not.                  *)
(***************************************************************************)
EXTENDS Ingest

\* No other request is between its first query and its answer.
Alone(r) == \A s \in Requests \ {r} : ~InFlight(s)

SerialNext ==
    \/ \E r \in Requests : Alone(r) /\ (Send(r) \/ Step(r) \/ Cut(r))
    \/ /\ \A r \in Requests : ~InFlight(r)
       /\ \E n \in Numbers : CloseAlert(n)

SerialSpec == Init /\ [][SerialNext]_vars

Contract == INSTANCE IngestContract
              WITH Keys <- Keys, Dedups <- Dedups, events <- events, alerts <- alerts

\* One request after the other, ingestion is atomic: exact counts, one open
\* alert per dedup key, each event once, whatever is sent again or cut off.
SerialIsAtomic == Contract!Spec
=============================================================================
