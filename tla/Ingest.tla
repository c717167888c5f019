------------------------------- MODULE Ingest -------------------------------
(***************************************************************************)
(* Event ingestion: POST /events (and the integration test endpoint) from  *)
(* the first query of the request to its single COMMIT.                    *)
(*                                                                         *)
(* A request is a process.  Between its statements other requests run, and *)
(* under PostgreSQL's READ COMMITTED every statement sees what has been    *)
(* committed when it starts.  One action is one statement; the ORM session *)
(* has autoflush=False, so what a request changed in memory reaches the    *)
(* database at its next flush only.  Two requests meet in three places: the*)
(* unique index on events.idempotency_key, the unique index on             *)
(* incidents.incident_number, and the row of their integration, whose      *)
(* last_event_at every request updates.                                    *)
(*                                                                         *)
(* An alert is opened with its incident in one transaction and belongs to  *)
(* it for ever, so the two are one row here, named by incident_number.     *)
(***************************************************************************)
EXTENDS Naturals, FiniteSets

CONSTANTS
    Requests,        \* the HTTP requests
    Keys,            \* idempotency keys
    Dedups,          \* (service, dedup_key) pairs
    Integrations,    \* integrations
    KeyOf,           \* the idempotency key a request carries
    DedupOf,         \* the service and dedup_key a request resolves to
    IntegrationOf,   \* the integration whose integration_key it carries
    TestRequests,    \* requests to .../integrations/{id}/test
    GrafanaDedups,   \* the dedup keys of the form grafana-{fingerprint}
    MaxFaults        \* bound on lost connections and killed API processes

ASSUME IngestAssumption ==
    /\ KeyOf \in [Requests -> Keys]
    /\ DedupOf \in [Requests -> Dedups]
    /\ IntegrationOf \in [Requests -> Integrations]
    /\ TestRequests \subseteq Requests
    /\ GrafanaDedups \subseteq Dedups
    /\ MaxFaults \in Nat

VARIABLES
    events,   \* committed event rows by idempotency key; .alert is a history
              \* variable, the alert the event was counted in or opened
    alerts,   \* committed alert rows by the number of their incident
    pc,       \* where each request is
    view,     \* what each request has read: the alert it found, that alert's
              \* event_count, and the largest incident_number
    faults    \* how many requests were cut off

vars == <<events, alerts, pc, view, faults>>

NoView == [alert |-> 0, count |-> 0, max |-> 0]

Numbers == DOMAIN alerts

EventRow == [dedup : Dedups, alert : Nat]
AlertRow == [dedup : Dedups, open : BOOLEAN, count : Nat, first : Keys]

Steps == {"idle", "checkKey", "insertEvent", "readAlert", "bump", "readMax",
          "insertIncident", "commit", "done", "failed"}

\* The steps at which the request has an uncommitted row in events.
HasEvent == {"readAlert", "bump", "readMax", "insertIncident", "commit"}

InFlight(r) == pc[r] \in HasEvent \cup {"checkKey", "insertEvent"}

Put(f, x, v) == [y \in DOMAIN f \cup {x} |-> IF y = x THEN v ELSE f[y]]

OpenAlerts(d) == {n \in Numbers : alerts[n].dedup = d /\ alerts[n].open}

Greatest(S) == CHOOSE n \in S \cup {0} : \A m \in S : m <= n

\* ORDER BY incident_number DESC LIMIT 1, or 0 when there is no incident.
MaxNumber == Greatest(Numbers)

NextNumberFromZero(r) == IF view[r].max = 0 THEN 0 ELSE view[r].max + 1

\* max_number[0] + 1 if max_number else 1
NextNumber(r) == view[r].max + 1

Goto(r, step) == pc' = [pc EXCEPT ![r] = step]

-----------------------------------------------------------------------------
Init ==
    /\ events = <<>>
    /\ alerts = <<>>
    /\ pc = [r \in Requests |-> "idle"]
    /\ view = [r \in Requests |-> NoView]
    /\ faults = 0

(***************************************************************************)
(* A client sends its request, and may send it again: after a 500, or      *)
(* because it never saw the answer to a request that succeeded.  The test  *)
(* endpoint makes a fresh key each time and does not look it up, so a      *)
(* second call of it is another request.                                   *)
(***************************************************************************)
Send(r) ==
    /\ \/ pc[r] = "idle"
       \/ pc[r] \in {"done", "failed"} /\ r \notin TestRequests
    /\ Goto(r, IF r \in TestRequests THEN "insertEvent" ELSE "checkKey")
    /\ view' = [view EXCEPT ![r] = NoView]
    /\ UNCHANGED <<events, alerts, faults>>

KeyBusyNever(r) == FALSE

\* The unique index on idempotency_key: an insert waits while another
\* transaction holds the key, and fails once the key is committed.
KeyBusy(r) ==
    \E s \in Requests \ {r} : pc[s] \in HasEvent /\ KeyOf[s] = KeyOf[r]

KeyTakenNever(r) == FALSE

KeyTaken(r) == KeyOf[r] \in DOMAIN events

CheckKeyEarly(r) ==
    /\ pc[r] = "checkKey"
    /\ Goto(r, IF KeyTaken(r) \/ KeyBusy(r) THEN "done" ELSE "insertEvent")
    /\ UNCHANGED <<events, alerts, view, faults>>

\* The idempotency check: a committed event with this key is the answer.
CheckKey(r) ==
    /\ pc[r] = "checkKey"
    /\ Goto(r, IF KeyTaken(r) THEN "done" ELSE "insertEvent")
    /\ UNCHANGED <<events, alerts, view, faults>>

\* The flush that inserts the event.
InsertEvent(r) ==
    /\ pc[r] = "insertEvent"
    /\ ~KeyBusy(r)
    /\ Goto(r, IF KeyTaken(r) THEN "failed" ELSE "readAlert")
    /\ UNCHANGED <<events, alerts, view, faults>>

-----------------------------------------------------------------------------
(***************************************************************************)
(* process_event.                                                          *)
(***************************************************************************)

\* The open alerts of the event's service and dedup key.
Matches(r) == OpenAlerts(DedupOf[r])

\* first() without ORDER BY: any of them may be the one found.
ReadAlert(r) ==
    /\ pc[r] = "readAlert"
    /\ \/ \E n \in Matches(r) :
            /\ Goto(r, "bump")
            /\ view' = [view EXCEPT ![r].alert = n,
                                    ![r].count = alerts[n].count]
       \/ /\ Matches(r) = {}
          /\ Goto(r, "readMax")
          /\ UNCHANGED view
    /\ UNCHANGED <<events, alerts, faults>>

IntegrationFreeUnlessFailed(r) ==
    \A s \in Requests \ {r} :
        pc[s] \in {"commit", "failed"} => IntegrationOf[s] # IntegrationOf[r]

\* A request past its incident flush holds the row of its integration.
IntegrationFree(r) ==
    \A s \in Requests \ {r} :
        pc[s] = "commit" => IntegrationOf[s] # IntegrationOf[r]

\* event_count += 1 is computed from the count that was read; the flush inside
\* COMMIT writes that number, whatever is there by now.
CountAfter(r) == view[r].count + 1

Bump(r) ==
    /\ pc[r] = "bump"
    /\ IntegrationFree(r)
    /\ alerts' = [alerts EXCEPT ![view[r].alert].count = CountAfter(r)]
    /\ events' = Put(events, KeyOf[r],
                     [dedup |-> DedupOf[r], alert |-> view[r].alert])
    /\ Goto(r, "done")
    /\ UNCHANGED <<view, faults>>

ReadMax(r) ==
    /\ pc[r] = "readMax"
    /\ view' = [view EXCEPT ![r].max = MaxNumber]
    /\ Goto(r, "insertIncident")
    /\ UNCHANGED <<events, alerts, faults>>

NumberBusyNever(r) == FALSE

\* The unique index on incident_number, as above.
NumberBusy(r) ==
    \E s \in Requests \ {r} : pc[s] = "commit" /\ NextNumber(s) = NextNumber(r)

NumberTaken(r) == NextNumber(r) \in Numbers

\* The flush that inserts the incident and updates the integration.
InsertIncident(r) ==
    /\ pc[r] = "insertIncident"
    /\ IntegrationFree(r)
    /\ ~NumberBusy(r)
    /\ Goto(r, IF NumberTaken(r) THEN "failed" ELSE "commit")
    /\ UNCHANGED <<events, alerts, view, faults>>

\* The new alert; the model's default gives event_count 1.
NewAlert(r) ==
    [dedup |-> DedupOf[r], open |-> TRUE, count |-> 1, first |-> KeyOf[r]]

\* The alert row, the audit entry and the notifications are written by the
\* flush of this COMMIT, which makes the whole request visible.
Commit(r) ==
    /\ pc[r] = "commit"
    /\ alerts' = Put(alerts, NextNumber(r), NewAlert(r))
    /\ events' = Put(events, KeyOf[r],
                     [dedup |-> DedupOf[r], alert |-> NextNumber(r)])
    /\ Goto(r, "done")
    /\ UNCHANGED <<view, faults>>

-----------------------------------------------------------------------------
\* The connection breaks or the API process dies: the transaction is rolled
\* back and the client sees an error.
Cut(r) ==
    /\ InFlight(r)
    /\ faults < MaxFaults
    /\ faults' = faults + 1
    /\ Goto(r, "failed")
    /\ UNCHANGED <<events, alerts, view>>

\* The Grafana webhook closes an alert (the last COMMIT of _handle_resolved).
\* Nothing else in the code writes alerts.status.
CloseAlert(n) ==
    /\ alerts[n].open
    /\ alerts[n].dedup \in GrafanaDedups
    /\ alerts' = [alerts EXCEPT ![n].open = FALSE]
    /\ UNCHANGED <<events, pc, view, faults>>

Step(r) ==
    \/ CheckKey(r)
    \/ InsertEvent(r)
    \/ ReadAlert(r)
    \/ Bump(r)
    \/ ReadMax(r)
    \/ InsertIncident(r)
    \/ Commit(r)

Next ==
    \/ \E r \in Requests : Send(r) \/ Step(r) \/ Cut(r)
    \/ \E n \in Numbers : CloseAlert(n)

Spec == Init /\ [][Next]_vars

\* The server finishes the requests it has started.
ServerFairness == \A r \in Requests : WF_vars(Step(r))

FairSpec == Spec /\ ServerFairness

\* A client that retries what failed (Grafana's webhook contact point does,
\* and so does an API client that follows the Idempotency-Key convention).
RetryingSpec ==
    FairSpec /\ \A r \in Requests : WF_vars(pc[r] \in {"idle", "failed"} /\ Send(r))

-----------------------------------------------------------------------------
(***************************************************************************)
(* Properties.                                                             *)
(***************************************************************************)

\* Every variable keeps its type.
TypeOK ==
    /\ DOMAIN events \subseteq Keys
    /\ \A k \in DOMAIN events : events[k] \in EventRow
    /\ Numbers \subseteq Nat
    /\ \A n \in Numbers : alerts[n] \in AlertRow
    /\ events = [k \in DOMAIN events |-> events[k]]
    /\ alerts = [n \in Numbers |-> alerts[n]]
    /\ pc \in [Requests -> Steps]
    /\ view \in [Requests -> [alert : Nat, count : Nat, max : Nat]]
    /\ faults \in Nat

\* Incident numbers run 1, 2, 3, ... without a gap and without a repetition,
\* although nothing but MAX + 1 and a unique index hands them out, requests
\* race for them and roll back.
NumbersDense == \E n \in Numbers \cup {0} : Numbers = 1 .. n

\* Every accepted event is in exactly one alert, an alert of its own service
\* and dedup key, and every alert was opened by an event that is recorded.
EventsAccounted ==
    /\ \A k \in DOMAIN events :
         /\ events[k].alert \in Numbers
         /\ alerts[events[k].alert].dedup = events[k].dedup
    /\ \A n \in Numbers :
         /\ alerts[n].first \in DOMAIN events
         /\ events[alerts[n].first].alert = n

\* What a request that succeeded may rely on: its event is recorded.
AnsweredIsRecorded ==
    \A r \in Requests : pc[r] = "done" => KeyOf[r] \in DOMAIN events

\* Answers, events and alerts tell one story: what was answered 200 is recorded,
\* what is recorded is in one alert, and what alerts is there for an event.
NothingLostOrStray == EventsAccounted /\ AnsweredIsRecorded

\* event_count is never more than the events the alert took in.  It may be less:
\* two events that read the same count write the same count.
CountNeverInflated ==
    \A n \in Numbers :
        alerts[n].count \in 1 .. Cardinality({k \in DOMAIN events : events[k].alert = n})

\* A step never counts an event twice: a recorded event stays with the alert it
\* went to, however often its request is sent again and whoever sends it.
Idempotent ==
    [][\A k \in DOMAIN events : k \in DOMAIN events' /\ events'[k] = events[k]]_vars

\* The event of a client that retries is recorded in the end.
RetriedEventRecorded ==
    \A r \in Requests \ TestRequests : <>(KeyOf[r] \in DOMAIN events)

\* README.md: events with the same dedup_key on a service are grouped into a
\* single alert.
SingleOpenAlert == \A d \in Dedups : Cardinality(OpenAlerts(d)) <= 1

=============================================================================
