--------------------------- MODULE IngestContract ---------------------------
(***************************************************************************)
(* What ingestion promises, as one atomic operation: an event is recorded  *)
(* once; when its service has an open alert with its dedup key it is       *)
(* counted in that alert, otherwise it opens an alert with the next        *)
(* incident number.  Nothing here knows about requests, statements, locks  *)
(* or retries.                                                             *)
(***************************************************************************)
EXTENDS Naturals

CONSTANTS Keys, Dedups

VARIABLES events, alerts

Add(f, x, v) == [y \in DOMAIN f \cup {x} |-> IF y = x THEN v ELSE f[y]]

Opened(d) == {n \in DOMAIN alerts : alerts[n].dedup = d /\ alerts[n].open}

NextFree(n) == DOMAIN alerts = 1 .. n - 1

Init == events = <<>> /\ alerts = <<>>

\* The first event of an alert.
Open(k, d, n) ==
    /\ k \notin DOMAIN events
    /\ Opened(d) = {}
    /\ NextFree(n)
    /\ alerts' = Add(alerts, n, [dedup |-> d, open |-> TRUE, count |-> 1, first |-> k])
    /\ events' = Add(events, k, [dedup |-> d, alert |-> n])

\* A further event of an open alert.
Absorb(k, d, n) ==
    /\ k \notin DOMAIN events
    /\ n \in Opened(d)
    /\ alerts' = [alerts EXCEPT ![n].count = alerts[n].count + 1]
    /\ events' = Add(events, k, [dedup |-> d, alert |-> n])

\* The alert's source reports that it is over.
Close(n) ==
    /\ alerts[n].open
    /\ alerts' = [alerts EXCEPT ![n].open = FALSE]
    /\ UNCHANGED events

Next ==
    \/ \E k \in Keys, d \in Dedups :
         \/ \E n \in DOMAIN alerts' : Open(k, d, n)
         \/ \E n \in DOMAIN alerts : Absorb(k, d, n)
    \/ \E n \in DOMAIN alerts : Close(n)

Spec == Init /\ [][Next]_<<events, alerts>>
=============================================================================
