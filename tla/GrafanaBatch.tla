---------------------------- MODULE GrafanaBatch ----------------------------
(***************************************************************************)
(* One call of POST /webhooks/grafana carries several alerts, firing and   *)
(* resolved, and handles them one after the other in one ORM session with  *)
(* one COMMIT at the end - but resolve_incident commits on its own, in the *)
(* middle, and with it everything the items before it did.                 *)
(*                                                                         *)
(* The session collects locks: the unique index entries of its events and  *)
(* incidents, the row of its integration, and the rows of the alerts it    *)
(* changes.  A flush takes those it needs in a fixed order (the ORM sorts  *)
(* by mapper: alerts, events, incidents, integrations), but the next item  *)
(* starts again from the top, so calls can wait for each other in a circle,*)
(* which PostgreSQL breaks by aborting one of them.  Grafana sends a call  *)
(* again when it fails.                                                    *)
(*                                                                         *)
(* The single-alert steps are those of Ingest; event_count is left out.    *)
(* An incident and its alert are one row, as there.                        *)
(***************************************************************************)
EXTENDS Naturals, Sequences, FiniteSetsExt, Functions

CONSTANTS
    Calls,          \* the calls of the webhook
    Items,          \* their alerts: Items[c] is a sequence of records
    IntegrationOf,  \* whose integration_key a call carries
    RoutesByLabel,  \* integrations with a route_by_label
    DefaultService, \* the service of an integration
    Slugs,          \* slugs of the existing services
    MaxFaults       \* bound on lost connections and killed API processes

ASSUME GrafanaBatchAssumption ==
    /\ \A c \in Calls : Items[c] \in Seq(Range(Items[c]))
    /\ \A c \in Calls : \A i \in DOMAIN Items[c] :
         /\ Items[c][i].status \in {"firing", "resolved"}
         /\ {"fingerprint", "startsAt", "label"} \subseteq DOMAIN Items[c][i]
    /\ Calls \subseteq DOMAIN IntegrationOf
    /\ \A c \in Calls : IntegrationOf[c] \in DOMAIN DefaultService
    /\ MaxFaults \in Nat

VARIABLES
    events,   \* committed events: idempotency key -> alert they are counted in
    alerts,   \* committed alerts by incident number
    call,     \* the calls and their sessions
    lost,     \* history: alerts whose closing was rolled back
    faults

vars == <<events, alerts, call, lost, faults>>

EmptyTable == [n \in {} |-> n]

\* The table with one row, and table f written over table g.
Only(n, row) == [m \in {n} |-> row]
Over(f, g) == [n \in DOMAIN f \cup DOMAIN g |-> IF n \in DOMAIN f THEN f[n] ELSE g[n]]

\* A session before its first statement: no locks held, none wanted, nothing
\* changed in memory (dirty) and nothing written: .events and .written are its
\* own uncommitted rows, .unflushed the alerts only its memory has so far.
NewSession(step) ==
    [pc |-> step, pos |-> 0, held |-> {}, wanted |-> {}, dirty |-> {}, found |-> 0,
     events |-> EmptyTable, written |-> EmptyTable, unflushed |-> EmptyTable]

Init ==
    /\ events = EmptyTable
    /\ alerts = EmptyTable
    /\ call = [c \in Calls |-> NewSession("idle")]
    /\ lost = {}
    /\ faults = 0

-----------------------------------------------------------------------------
Item(c) == Items[c][call[c].pos]

KeyOf(item) == <<item.fingerprint, item.startsAt>>

\* _resolve_service: the service the label names, else the integration's.
ServiceFor(c, item) ==
    IF IntegrationOf[c] \in RoutesByLabel /\ item.label \in Slugs
    THEN item.label ELSE DefaultService[IntegrationOf[c]]

KeyLock(key) == <<"event", key>>
NumberLock(n) == <<"number", n>>
AlertLock(n) == <<"alert", n>>
IncidentLock(n) == <<"incident", n>>
IntegrationLock(c) == <<"integration", IntegrationOf[c]>>

\* The order of the unit of work: by mapper, rows of one table by their key.
\* SELECT ... FOR UPDATE of an incident comes before the flush of its COMMIT.
Mapper == [incident |-> 0, alert |-> 1, event |-> 2, number |-> 3, integration |-> 4]

FlushedBefore(a, b) ==
    \/ Mapper[a[1]] < Mapper[b[1]]
    \/ Mapper[a[1]] = Mapper[b[1]] /\ a[2] < b[2]

\* The locks a flush of session s still has to take.
FlushLocks(s, locks) == locks \ s.held

\* On to the next alert of the call, or to its COMMIT.
NextItem(c, s) ==
    LET i == s.pos + 1 IN
    IF i > Len(Items[c])
    THEN [s EXCEPT !.pos = i, !.pc = "commit", !.wanted = FlushLocks(s, s.dirty)]
    ELSE [s EXCEPT !.pos = i, !.pc = IF Items[c][i].status = "firing"
                                     THEN "checkKey" ELSE "findAlert"]

SetCall(c, s) == call' = [call EXCEPT ![c] = s]

Keep == UNCHANGED <<events, alerts, lost, faults>>

\* A statement runs once its session waits for nothing.
At(c, step) == call[c].pc = step /\ call[c].wanted = {}

\* What the queries of a session see: committed rows and its own flushed ones.
Visible(c) == Over(call[c].written, alerts)

OpenVisible(c) == {n \in DOMAIN Visible(c) :
                     /\ Visible(c)[n].open
                     /\ Visible(c)[n].fingerprint = Item(c).fingerprint}

-----------------------------------------------------------------------------
Holder(lock) == {d \in Calls : lock \in call[d].held}

\* The lock a session waits for: the first of those it wants.
First(d) == {lock \in call[d].wanted :
               \A other \in call[d].wanted \ {lock} : FlushedBefore(lock, other)}

\* d waits for a lock that is free again.
Woken(d) == \E lock \in First(d) : Holder(lock) = {}

\* Grafana posts a group of alerts, again when the call failed, and now and
\* then although it succeeded (repeat_interval).  By the time it repeats a
\* failed call, those who waited for it have been woken.
Post(c) ==
    /\ call[c].pc \in {"idle", "done", "failed"}
    /\ call[c].pc = "failed" => (\A d \in Calls \ {c} : ~Woken(d))
    /\ SetCall(c, NextItem(c, NewSession("idle")))
    /\ Keep

\* The exception leaves the handler and get_db closes the session: ROLLBACK.
Fail(c) ==
    /\ SetCall(c, NewSession("failed"))
    /\ lost' = lost \cup (DOMAIN alerts \cap (DOMAIN call[c].written \cup DOMAIN call[c].unflushed))
    /\ UNCHANGED <<events, alerts>>

NeverTaken(lock) == FALSE

\* A unique index entry that is committed is never given.
Taken(lock) ==
    \/ lock[1] = "event" /\ lock[2] \in DOMAIN events
    \/ lock[1] = "number" /\ lock[2] \in DOMAIN alerts

\* One row or index entry a statement needs: it waits for the holder, and a
\* duplicate key is an IntegrityError.
Take(c, lock) ==
    /\ Holder(lock) = {}
    /\ \/ /\ Taken(lock)
          /\ Fail(c)
          /\ UNCHANGED faults
       \/ /\ ~Taken(lock)
          /\ SetCall(c, [call[c] EXCEPT !.held = @ \cup {lock}, !.wanted = @ \ {lock}])
          /\ Keep

AcquireInAnyOrder(c) == \E lock \in call[c].wanted : Take(c, lock)

Acquire(c) == \E lock \in First(c) : Take(c, lock)

-----------------------------------------------------------------------------
(***************************************************************************)
(* _handle_firing.                                                         *)
(***************************************************************************)
CheckKeyNever(c) ==
    LET s == call[c] IN
    /\ At(c, "checkKey")
    /\ SetCall(c, [s EXCEPT !.pc = "insertEvent",
                            !.wanted = FlushLocks(s, s.dirty \cup {KeyLock(KeyOf(Item(c)))})])
    /\ Keep

CheckKey(c) ==
    LET s == call[c]
        key == KeyOf(Item(c)) IN
    /\ At(c, "checkKey")
    /\ SetCall(c, IF key \in DOMAIN events \cup DOMAIN s.events
                  THEN NextItem(c, s)
                  ELSE [s EXCEPT !.pc = "insertEvent",
                                 !.wanted = FlushLocks(s, s.dirty \cup {KeyLock(key)})])
    /\ Keep

\* The flush that inserts the event writes what the items before it left in
\* memory.
InsertEvent(c) ==
    /\ At(c, "insertEvent")
    /\ SetCall(c, [call[c] EXCEPT !.pc = "readAlert", !.dirty = {}, !.unflushed = EmptyTable,
                                  !.written = Over(call[c].unflushed, @)])
    /\ Keep

Joins(c, n) == [call[c] EXCEPT !.events = Over(Only(KeyOf(Item(c)), n), @)]

\* process_event: the first open alert of the service and fingerprint, whose
\* event_count changes in memory; last_event_at always does.
ReadAlert(c) ==
    LET matches == {n \in OpenVisible(c) : Visible(c)[n].service = ServiceFor(c, Item(c))} IN
    /\ At(c, "readAlert")
    /\ \/ \E n \in matches :
            LET s == [Joins(c, n) EXCEPT !.dirty = @ \cup {AlertLock(n), IntegrationLock(c)}]
            IN  SetCall(c, NextItem(c, s))
       \/ matches = {} /\ SetCall(c, [call[c] EXCEPT !.pc = "readMax"])
    /\ Keep

ReadMax(c) ==
    LET s == call[c]
        n == Max({0} \cup DOMAIN Visible(c) \cup DOMAIN s.unflushed) + 1 IN
    /\ At(c, "readMax")
    /\ SetCall(c, [s EXCEPT !.pc = "insertIncident", !.found = n,
                            !.wanted = FlushLocks(s, {NumberLock(n), IntegrationLock(c)})])
    /\ Keep

\* The flush that inserts the incident; its alert stays in memory until the
\* next one.
InsertIncident(c) ==
    LET n == call[c].found
        new == [fingerprint |-> Item(c).fingerprint, service |-> ServiceFor(c, Item(c)),
                open |-> TRUE, resolvedBy |-> "nobody"] IN
    /\ At(c, "insertIncident")
    /\ SetCall(c, NextItem(c, [Joins(c, n) EXCEPT !.unflushed = Only(n, new)]))
    /\ Keep

(***************************************************************************)
(* _handle_resolved.                                                       *)
(***************************************************************************)

\* The open alert of the fingerprint, of whatever service, and its incident.
\* The two queries are one step: an alert is closed only after its incident is
\* resolved, so an incident found unresolved had its alert still open.
FindAlert(c) ==
    LET s == call[c] IN
    /\ At(c, "findAlert")
    /\ \/ \E n \in OpenVisible(c) :
            SetCall(c, IF Visible(c)[n].resolvedBy # "nobody"
                       THEN NextItem(c, s)
                       ELSE [s EXCEPT !.pc = "resolve", !.found = n,
                                      !.wanted = {IncidentLock(n)} \cup FlushLocks(s, s.dirty)])
       \/ OpenVisible(c) = {} /\ SetCall(c, NextItem(c, s))
    /\ Keep

LeftOpen(n, row) == EmptyTable

\* open_alert.status = "resolved", in memory.
Closed(n, row) == Only(n, [row EXCEPT !.open = FALSE])

\* resolve_incident: SELECT ... FOR UPDATE, then COMMIT of the whole session.
\* The alert is closed in memory afterwards.
Resolve(c) ==
    LET s == call[c]
        all == Over(s.unflushed, Over(s.written, alerts))
        n == s.found
        row == [all[n] EXCEPT !.resolvedBy = IF @ = "nobody" THEN "grafana" ELSE @] IN
    /\ At(c, "resolve")
    /\ events' = Over(s.events, events)
    /\ alerts' = [all EXCEPT ![n] = row]
    /\ SetCall(c, NextItem(c, [NewSession("resolve") EXCEPT
                                 !.pos = s.pos, !.dirty = {AlertLock(n)},
                                 !.unflushed = Closed(n, row)]))
    /\ UNCHANGED <<lost, faults>>

Commit(c) ==
    LET s == call[c] IN
    /\ At(c, "commit")
    /\ events' = Over(s.events, events)
    /\ alerts' = Over(s.unflushed, Over(s.written, alerts))
    /\ SetCall(c, NewSession("done"))
    /\ UNCHANGED <<lost, faults>>

-----------------------------------------------------------------------------
\* An operator resolves the incident; its alert stays open.
OperatorResolves(n) ==
    /\ alerts[n].resolvedBy = "nobody"
    /\ Holder(IncidentLock(n)) = {}
    /\ alerts' = [alerts EXCEPT ![n].resolvedBy = "operator"]
    /\ UNCHANGED <<events, call, lost, faults>>

\* Whom a call waits for.
Blockers(c) == UNION {Holder(lock) : lock \in First(c)} \ {c}

\* Calls that wait for each other in circles.
Deadlocked(S) ==
    /\ S # {}
    /\ \A c \in S : Blockers(c) # {}
    /\ S = UNION {Blockers(c) : c \in S}

\* The deadlock detector aborts a member of a circle.
AbortVictim(c) ==
    /\ \E S \in SUBSET Calls : c \in S /\ Deadlocked(S)
    /\ Fail(c)
    /\ UNCHANGED faults

Cut(c) ==
    /\ call[c].pc \notin {"idle", "done", "failed"}
    /\ faults < MaxFaults
    /\ faults' = faults + 1
    /\ Fail(c)

Step(c) ==
    \/ Acquire(c)
    \/ CheckKey(c)
    \/ InsertEvent(c)
    \/ ReadAlert(c)
    \/ ReadMax(c)
    \/ InsertIncident(c)
    \/ FindAlert(c)
    \/ Resolve(c)
    \/ Commit(c)

Next ==
    \/ \E c \in Calls : Post(c) \/ Step(c) \/ AbortVictim(c) \/ Cut(c)
    \/ \E n \in DOMAIN alerts : OperatorResolves(n)

Spec == Init /\ [][Next]_vars

\* Started calls go on, PostgreSQL detects circles, Grafana repeats a call that
\* failed.
FairSpec ==
    /\ Spec
    /\ \A c \in Calls : /\ WF_vars(Step(c))
                        /\ WF_vars(call[c].pc = "failed" /\ Post(c))
    /\ WF_vars(\E c \in Calls : AbortVictim(c))

-----------------------------------------------------------------------------
(***************************************************************************)
(* Properties.                                                             *)
(***************************************************************************)

\* Whatever a call commits half-way, whatever is sent again, aborted or cut
\* off: a call that was answered 200 has each of its firing alerts recorded; a
\* recorded event is in an alert of its own fingerprint; an alert was opened by
\* a recorded event; and incident numbers have no gap.
BatchAccounted ==
    /\ \A c \in Calls : call[c].pc = "done" =>
         \A item \in Range(Items[c]) :
            item.status = "firing" => KeyOf(item) \in DOMAIN events
    /\ \A key \in DOMAIN events : /\ events[key] \in DOMAIN alerts
                                  /\ alerts[events[key]].fingerprint = key[1]
    /\ Range(events) = DOMAIN alerts
    /\ DOMAIN alerts = 1 .. Cardinality(DOMAIN alerts)

\* An alert that stays open although Grafana resolved its incident - it absorbs
\* the next firing events, and nobody is told - is one whose call is still at
\* work, or failed after resolve_incident had committed.  A call that succeeds
\* leaves none behind.
SilentOnlyByFailure ==
    \A n \in DOMAIN alerts :
        alerts[n].open /\ alerts[n].resolvedBy = "grafana" =>
            \/ n \in lost
            \/ \E c \in Calls : n \in DOMAIN call[c].written \cup DOMAIN call[c].unflushed

\* Calls with one alert each never wait for each other in a circle: within one
\* alert the locks are taken in one order.  A deadlock takes a call with
\* several alerts (but a call with one may be its victim).
DeadlockNeedsBatch ==
    \A S \in SUBSET Calls : Deadlocked(S) => \E c \in S : Len(Items[c]) > 1

\* Grafana's calls get through in the end: lost numbers, duplicate keys and
\* deadlocks cost repetitions, but no call is kept out for ever.
CallsAnswered == \A c \in Calls : call[c].pc # "idle" ~> call[c].pc = "done"
=============================================================================
