# TLA+ models of Incy

Incy is a small incident-management service: events come in over HTTP, open or
join alerts and incidents, people acknowledge and resolve them, a worker
escalates what nobody handles and delivers e-mails and webhooks. The code is a
FastAPI application (`src/apps/api`), a worker process (`src/worker/main.py`)
and a Next.js front end (`src/apps/web`) around one PostgreSQL database. All
concurrency of the system is concurrency of database transactions: API
processes and workers share nothing else.

This directory holds TLA+ models of that core, TLC configurations that check
them, and proofs about them for the TLA+ proof system. `PROJECT.json` maps
every definition to the lines it models.

    tlc -config ingest.cfg MCIngest.tla
    tlapm IngestProofs.tla

## 1. Inventory

| Component | State | Operations | Hard part | Correct when |
|---|---|---|---|---|
| Event ingestion: `routes/events.py`, `services/event_processor.py`, the test endpoint in `routes/services.py`, firing Grafana alerts | `events`, `alerts`, `incidents`, `integrations.last_event_at` | idempotency check, insert event, find open alert, number and insert incident, commit | interleaved statements, unique indexes, client retries, rollback | each event recorded and counted once; numbers unique and dense; one open alert per key |
| Incident life cycle: `services/incident_manager.py`, `routes/incidents.py`, `routes/agent_tasks.py` | `incidents`, `audit_logs`, `notification_attempts` | acknowledge, resolve, edit, note, agent update | row locks against ORM copies loaded before the lock | status only moves forward; row and timeline agree; a handled incident is quiet |
| Grafana webhook: `routes/grafana_webhooks.py` | the same tables | firing = ingestion, resolved = resolve and close the alert, several per call | a commit in the middle of a handler; several alerts in one transaction | no half-done call hides an open incident |
| Escalation passes: `worker/main.py` `check_escalations` | escalation columns of `incidents` | snapshot pass, legacy pass | several workers, acknowledge racing a page, loop arithmetic | every rule once per loop, then exhausted; nobody paged once handled |
| Notification queue: `worker/main.py` `claim_and_process_notifications` | `notification_attempts` | claim a batch, send, mark, audit, retry, dead-letter | crash between commits, lost answers, two workers | no row sent by two workers, attempts bounded, everything ends sent or dead |
| Outbound webhooks: `services/webhook_dispatcher.py`, `routes/webhooks.py` | `webhook_subscriptions` | enqueue per event, create, delete | delete while deliveries refer to it | a life-cycle commit never fails because of a subscription |
| Escalation policies, schedules: `routes/escalation_policies.py`, `routes/schedules.py` | policies, rules, layers, overrides | replace rules or layers, delete | check-then-act under READ COMMITTED | one rule set per policy; no rule points to a deleted schedule |
| On-call resolution: `services/oncall_resolver.py` | none (reads) | who is on call at a time | handoff boundaries, precedence | one user, every turn of equal length |
| Rate limiter: `middleware/rate_limiter.py` | timestamps per client | admit or 429 | the limit, the edge of the window | at most the limit in any window |
| Services, integrations, teams, users: `routes/services.py`, `teams.py`, `users.py` | their rows, memberships | create, update, add and remove members, rotate a key | membership checked long before the commit; two updates of one row; an event whose key is rotated meanwhile | decisions rest on facts that held; updates do not undo each other |
| Seed data: `seed.py` | rows of all tables | one transaction into an empty database | incidents of another shape than ingestion's | they live and escalate like the others |
| Error handler, migrations, front end, chaos demo | - | - | - | - |

How they interact: ingestion, acknowledge, resolve and the escalation passes
all *insert* notification rows in their own transactions; the queue *takes*
them. Ingestion reads policies, schedules and services once and freezes them
into `escalation_policy_snapshot`, which is all the worker reads later. The
Grafana webhook calls both ingestion and `resolve_incident`, several times in one
session. Every life-cycle transaction reads the webhook subscriptions and leaves
rows that refer to them. Nothing calls back.

## 2. Modules

| Module | Models | Runs |
|---|---|---|
| `Ingest` | one request per process, one action per SQL statement | `ingest`, and the violation `ingest_single_alert` |
| `IngestContract` | what ingestion promises, as one atomic operation | refined by `IngestSerial` |
| `IngestSerial` | `Ingest` without overlapping transactions | `ingest_serial` |
| `IngestProofs` | proofs about `Ingest` and `IngestSerial` | tlapm |
| `Incidents` | incident row, alert, timeline, API sessions, Grafana resolve, both escalation passes | `incidents_safety`, `incidents_escalation` |
| `IncidentsProofs` | proofs about `Incidents` | tlapm |
| `IncidentContract` | what an incident promises, every operation atomic | refined by `Incidents` in both its runs |
| `GrafanaBatch` | calls of the Grafana webhook with several alerts: one session, its locks, the commit in the middle, deadlocks, repeats | `grafana_batch` |
| `GrafanaBatchProofs` | proofs about `GrafanaBatch` | tlapm |
| `NotificationQueue` | the queue and the delivery loop of the workers | `queue` |
| `NotificationQueueProofs` | proofs about `NotificationQueue` | tlapm |
| `Webhooks` | subscriptions created and deleted against the transactions that enqueue for them | `webhooks` |
| `WebhooksProofs` | proofs about `Webhooks` | tlapm |
| `PolicyAdmin` | policies with rules, schedules with layers, the service's policy, and the snapshot ingestion reads, one action per statement | `policy_admin` |
| `PolicyAdminProofs` | proofs about `PolicyAdmin` | tlapm |
| `OnCall` | override precedence, layer priority, rotation arithmetic | `oncall` |
| `Directory` | users, teams, memberships, services and their on-call users, integration keys | `directory` |
| `DirectoryProofs` | proofs about `Directory` | tlapm |
| `RateLimiter` | the sliding window of an API process | `rate_limiter` |
| `ClockProofs` | proofs about `RateLimiter` and `OnCall`, the two modules that reckon with time | tlapm |
| `MC*` | constants and symmetry sets for TLC | |

How they fit together: the modules meet at tables, and each takes the others'
writes as actions of its own where they matter. `Ingest` ends where `Trigger` of
`Incidents` begins (one COMMIT); what `Incidents` counts in `outbox` are the rows
`NotificationQueue` starts from; the subscriptions that its
`incident....` counters stand for are those of `Webhooks`; `GrafanaBatch`
repeats the statements of `Ingest` for a session that goes on after them;
`PolicyAdmin` gives ingestion the snapshot, in which a layer stands for the user
`OnCall` computes; `Directory` gives it the service and the integration.

Some operators stand beside another with the same parameters (`KeyBusyNever`
beside `KeyBusy`). They are plausible mistakes: putting one in place of its
neighbour must break the property `PROJECT.json` pairs it with, which shows
that the property depends on that line of the code.

### What is assumed of PostgreSQL and SQLAlchemy

- READ COMMITTED: a statement sees what was committed when it starts.
- An insert into a unique index waits while another open transaction has
  inserted the same value, and fails once that one has committed.
- `SELECT ... FOR UPDATE` and `UPDATE` wait for the holder of a row lock;
  `SKIP LOCKED` does not. Inserting a row that refers to an incident waits for
  a `FOR UPDATE` holder of it.
- The session (`database.py`) has `autoflush=False`. A flush writes the columns
  that differ from the copy that was loaded. A query that returns an object
  already in the session does not refresh it, with `FOR UPDATE` or without.
- A JSONB column given `None` stores the JSON value `null`, which is not SQL
  NULL.

### Ingest

`pc[r]` is the statement request `r` is about to run: `checkKey` (events.py:31),
`insertEvent` (the first flush), `readAlert`, `readMax`, `insertIncident` (the
second flush), `commit` or, when an open alert was found, `bump`. `view[r]`
holds the values the handler keeps in Python variables between statements. The
tables show committed rows only; the uncommitted event of a request is
`pc[r] \in HasEvent`, and what other requests see of it is the unique index
(`KeyBusy`). The flushes are atomic here: within one flush the ORM orders rows
by table, the integration's UPDATE comes in every flush of that kind, and no
two requests take the number index and the integration row in opposite order,
so a finer grain adds waiting but no new outcome. An alert and its incident are
inserted together and never separated, and are one record. Alerts are closed by
Grafana only, for dedup keys of the form `grafana-...` (`GrafanaDedups`).

### Incidents

A session holds `loaded`, the ORM's copy; `Write` is the column-wise UPDATE.
`LockRow` is `with_for_update()` and the checks after it, `Commit...` the flush
and commit. For a Grafana session `Held` is the earlier, unlocked load, because
the locked query returns the object already in the session. This also means the
branch of `_handle_resolved` that skips an incident somebody resolved in the
meantime cannot be taken, and it has no action. A worker's pass is two actions,
the SELECT (with `batch`, the rows it returned) and the COMMIT; the loop between
them only touches rows it has locked, except that an unlocked *reader* may be
looking, and readers see committed rows only. `Seeded` rows are those of
`seed.py`, one of each status, with the timeline it writes. Time is abstracted to `timer`
(not set, pending, due) and `aged`. Sessions are used once: a client that sends
two requests is two sessions. That is why these runs do not check for deadlock
in TLC's sense - the clients may all have finished - and `SessionsEnd` states
instead that nobody waits for ever.

`Contract` maps a row to `IncidentContract`: the columns that count rules and loops
become the number of steps taken (`StepsTaken`), the timer becomes `armed`, the
pages queued are counted, and sessions, workers, locks and stale copies
disappear. Each action of `Incidents` maps to one operation of the contract or to
a stutter, and a worker's pass to one step of each row in its batch. What used to
be separate properties - status only moves forward, a handled incident has no
timer and pages nobody - is part of the contract. An incident without a policy
has the plan "legacy", whether its row holds SQL NULL or JSON `null`: the contract
lets it be escalated once, as README.md:307 and the docstring at
`worker/main.py:356` say. It does not promise that this happens - the legacy pass
never finds a JSON `null` (section 4) - and code that did find it would implement
the contract as well. A policy without rules ("empty") has nobody to escalate to.

### GrafanaBatch

`call[c]` is a call and its ORM session: `pos` is the alert of the payload it is
at, `held` and `wanted` the locks it has and the ones its next statement still
needs, `dirty` the rows changed in memory, `events` and `written` its
uncommitted rows, `unflushed` an alert that only memory knows. With
`autoflush=False` an alert added by `process_event` is written by the *next*
flush, so a later item of the call does not find it if none came between.
A statement takes the locks it wants one after the other, in the order of the
unit of work (`First`, `FlushedBefore`). Tables are functions from keys to rows,
and `Over(f, g)` is table f written over table g. `Resolve` is
`resolve_incident` with its COMMIT, which also commits the items before; the
alert is closed in memory after it (`Closed`) and reaches the database with the
next flush or the last COMMIT. `Fail` is the rollback of `get_db`. `ServiceFor`
routes by label, so one fingerprint may have open alerts of two services.
`Post` sends a call, again after a failure, and again after a success
(`repeat_interval`). The payload is assumed to be a sequence
(`GrafanaBatchAssumption` says so in the form TLC can evaluate). `event_count`,
timelines and notifications are those of
`Ingest` and `Incidents` and left out.

### NotificationQueue

`claim[w]` is the list `notifications` in a worker's memory, with the
`attempt_number` the claim returned; `cur` and `pc` say where in
`process_single_notification` it is. Each COMMIT of the code is one action
(`Claim`, `MarkSent`, `Audit`, `Fail`); `Send` is the SMTP or HTTP exchange,
which may succeed, fail, or succeed and be reported as failed. `Crash` is a
killed process, and also a statement or a COMMIT that raises: the session
refuses every statement until a rollback, so `handle_failure`, which makes none,
raises too, and the exception leaves the loop over the batch. A COMMIT that
raises after it took effect is its action followed by `Crash`. So handled errors
are those of the SMTP or HTTP exchange. `delivered` and `late` record what
recipients saw. The queue may end with nothing to do, so deadlock is not
checked.

### PolicyAdmin

A policy owns rules as a schedule owns layers, and the handlers of both do the
same, so one set of actions serves both; `Parent` is either. `children` are the
committed rows, `ses[r].gone` those a request has deleted and not committed:
they are still visible to others and locked. A DELETE statement is two actions:
`StartDelete` fixes the rows it looks for (the snapshot of the statement),
`FinishDelete` waits for the locks and skips rows that went away meanwhile. Rules
are deleted by one statement, layers by two (users first), and the second one
looks again; that is why two updates of a policy can leave both rule lists, and
two updates of a schedule only if it had no layers. `Write` is the flush (it
needs the parent row), `Cascade` is the foreign keys at work and the commit.
`AbortVictim` is PostgreSQL's deadlock detector. The reading side is
`build_escalation_snapshot`: `readPolicy`, `readRules`, and for a rule that targets
a schedule `NextRule` (the layers) and `ReadUsers` (the users of one layer). A layer
stands for the user it puts on call at the time asked about; how that user is
computed is `OnCall`. The columns of the parent row and of the rules' delays are
not told apart; an update is taken to write some column of the parent. `overlap`
is a history variable: which requests were open at the same time. Requests to
missing ids change nothing and have no action. Users and teams cannot be deleted.

### Webhooks

`change[c]` is a life-cycle transaction that reads the matching subscriptions
(`Enqueue`), inserts a row for each (`Flush`), and commits; `request[d]` is a
DELETE. What keeps them apart is the foreign key: an insert locks the
subscription until its transaction ends and waits for an uncommitted DELETE.
`known` is a history variable: the subscriptions a change found when it began.
Nothing in the code sets `active` to FALSE, so the worker's branch for an inactive
subscription could only be taken if one were gone; `Deliver` keeps it, and
`DeliveriesKeepTheirSubscription` says that it is not taken.

### Directory

Requests of one check and one write are one step: unique columns stop whoever
comes second, and nothing is deleted but memberships. Creating and updating a
service are several: `Begin...` loads the row, `Validate` looks up one of the two
on-call users, `Commit...` writes. `Write` is the column-wise UPDATE, so that an
update which names the user it loaded writes nothing. `LookUpKey` and `Record` are
the ends of an event request; `seen` is a history variable with the facts that
held at some time since a request began. The other columns (names, phone numbers,
descriptions) behave as the two on-call columns do and are left out.

### RateLimiter

`requests` is `self._requests`, the times each client has in the memory of one
process: a set of stamps, as nothing depends on the order of the list, in which
the life of the process and the number of the request tell equal times apart. The middleware awaits nothing between reading and recording, so a
request is one step, `Admit` or `Refuse`. `Restart` loses the counts. `admitted`
is a history variable with the stamps of all requests let through; the window is
bounded for each life of the process.

### OnCall

`ResolveOncall(at)` is `resolve_oncall`: the last of the active overrides in order
of creation, else the first layer that has begun, at its turn; `Nobody` if there is
neither. `AsDocumented` compares it with the walk that README.md:165 describes, a
recursive function over the answers in order of precedence. Time is in ticks;
the division of seconds by the turn length is exact in the code, too (whole
microseconds, floored). Requests are atomic here. A layer without users cannot be
created; it is seen only in the race that `PolicyAdmin` models.

## 3. Runs

All runs together take about six minutes on two cores; none of the bounds below
is in the models, they are constants.

| Run | Question | Bounds, and why they are enough |
|---|---|---|
| `ingest` | Do numbering, accounting and idempotency survive races, resends and faults? Is every request answered, and every retried event recorded? | 4 requests, 3 keys, 2 integrations, 1 fault. r1 and r2 carry one key, so there is a duplicate in flight; r3 shares its alert but not its integration; r4 is the test endpoint, for another alert. Two requests race for a number while a third waits or rolls back, and there is a waiter at each of the three places where requests wait. |
| `ingest_serial` | Is the handler atomic when transactions do not overlap? | 5 requests, 2 faults, one after the other in every order |
| `ingest_single_alert` | The finding | no fault is needed; 4 requests |
| `incidents_safety` | Do row, alert and timeline stay consistent, and does the incident keep its contract? | 1 incident, 3 sessions of any kind (a stale edit, a Grafana call and an operator at once), 1 worker, 1 fault. Incidents share nothing but a worker's pass. |
| `incidents_escalation` | Is the escalation arithmetic right with two workers, does it do only what the contract allows, does it reach its end, is the request answered? | an incident with a policy or without, and a seeded one of any status for the legacy pass; 2 workers, 1 session, 2 rules x 3 loops (a first, a middle and a last loop), 1 fault |
| `queue` | Is delivery exclusive, bounded and honestly reported, and is everything sent, dead-lettered or stranded by a crash? | an e-mail and a webhook, 2 workers, batches of up to 2 (one worker takes both, or each takes one), 3 attempts (a first, a middle and a last one), 2 faults (one per worker, or two on one row) |
| `policy_admin` | What can concurrent edits of policies and schedules break, and can they block each other? | one policy, one schedule, one service, 3 requests of any kind (two editors and a reader, two editors and a delete), 1 fault; lists of 0 to 2 entries, so that one can be cut short; existing or yet to be created |
| `oncall` | Does the resolver do what README.md:165 says, at every instant? | 2 layers, 2 overrides that may overlap in every way, 3 users, rotations of 1 to 3 entries (one user twice), turns of 1 and 3 ticks, 8 instants |
| `grafana_batch` | What do calls with several alerts do to each other and to the database when they are cut, aborted or repeated? | 3 calls: one with three alerts (fires b, resolves a, fires a again), one that opens a, one that carries the same second firing of a; 1 fault. So there is a duplicate between calls, a commit in the middle with work before and after it, and a circle of two and of three calls. Labels name an existing service or none. |
| `webhooks` | Can a deletion race with an enqueue so that a delivery or a subscriber is lost, or both wait? | two changes with different events, two subscriptions of their service and one of another, 2 deletes |
| `directory` | Do decisions about people and keys rest on facts, and do updates compose? | 2 users, 1 team, 1 service, 2 requests, 2 keys. The team of a service never changes and no request compares two teams, so a second team would only be another place for the same race. |
| `rate_limiter` | Is the limit kept in every window, and is nobody refused below it? | limit 2, window 2 and 4 instants (windows overlap and entries expire), 2 clients, 1 restart |

The properties, each stated in words above its definition: `NumbersDense`,
`CountNeverInflated`, `NothingLostOrStray`, `Idempotent`, `RetriedEventRecorded`,
`SerialIsAtomic` (ingestion); `TimelineExplainsRow`, `OpenAlertExplained`,
`EscalationAccount`, `ImplementsContract`, `SessionsEnd`, `EscalatesToTheEnd`
(incidents); `BatchAccounted`, `SilentOnlyByFailure`, `DeadlockNeedsBatch`,
`CallsAnswered` (Grafana); `ClaimExclusive`, `AttemptsBounded`, `OutcomeEarned`,
`AtMostOneLateMail`, `OrphansBounded`, `AuditIsHonest`, `DeliveriesAreTold`,
`SettledOrStranded` (queue); `DeliveriesKeepTheirSubscription`,
`SubscribersAreTold`, `SomebodyMoves` (webhooks); `ListsWhole`,
`OneListUnlessRaced`, `ReferencesExist`, `SomebodyMoves`, `NobodyUnlessRaced`
(policies and schedules); `AsDocumented`, `EqualTurns`, `OverridesAreLocal` (on
call); `DecidedOnTheTruth`, `UpdatesCompose` (directory); `WindowBound`,
`RefusedOnlyWhenFull` (rate limiter). The `...UnlessRaced` properties say what
goes wrong, and that it takes two requests open at the same time. Type invariants
are in no run: they are proved, as theorems or, for `Webhooks`, as a part of the
invariant (section 5).

### Fairness

- `ServerFairness` (Ingest) and fairness of `SessionStep` (Incidents): a request
  that can run its next statement does. A request that waits is woken when the
  transaction it waits for ends; PostgreSQL queues the waiters. Weak fairness
  is enough because a transaction that blocks others ends after finitely many
  of its own steps.
- `RetryingSpec`: clients send, and send again after an error. Needed for
  `RetriedEventRecorded` only; an attempt can fail because it lost a number.
- `WorkerStep` (Incidents, NotificationQueue): the worker's main loop polls for
  ever and catches the exceptions of both jobs. The API gives no fairness to
  acknowledging or resolving: nobody has to react.
- Timers elapse because time passes.
- `GrafanaBatch`: a call that can run its next statement does; PostgreSQL aborts
  a member of a circle (`deadlock_timeout`); Grafana repeats a call that failed,
  and by the time it does those who waited for that call's locks have been woken -
  a repeat comes seconds later, a wake-up at once. Without that last guard a call
  could lose the same lock to the same repeat for ever. First posts, repeats of
  successful calls and operators get no fairness.
- `PolicyAdmin` and `Webhooks` need no fairness: every step of a request is
  progress, so that `SomebodyMoves` (an invariant) says that requests end. It is
  stated with the guards of the steps, `CanStep`, `CanChange` and `CanDelete`; TLC's
  deadlock check stays on in these runs (`Rest` lets the server stop only when no
  request is under way), so that a guard that promised too much would be found.
  Symmetry is used there and in the other runs without liveness.
- `Directory` and `RateLimiter` have no waiting and no liveness property.

## 4. Findings

`ingest_single_alert` (README.md:12, "Events with the same `dedup_key` on a
service are grouped into a single alert"): two events of one key that arrive
together open two alerts. The lookup at `event_processor.py:33` takes no lock and
no index forbids it.

Other places where the code differs from what is said of it are not runs of their
own. The passing properties state exactly what remains true, and so show them:

- Two events deduplicated together may add one to `event_count`
  (`event_processor.py:41`, a read and a write): `CountNeverInflated` is only an
  upper bound.
- `resolve_incident`'s check after `FOR UPDATE` looks at the copy the Grafana handler
  loaded at `grafana_webhooks.py:165`: an incident an operator has just resolved is
  resolved again, with a second timeline entry and a second round of webhooks.
  `TimelineExplainsRow` allows a Grafana resolve after another one.
- Incidents created without a policy hold JSON `null` (`event_processor.py:77`), and
  the legacy pass asks for SQL NULL (`worker/main.py:368`), so only rows of `seed.py`
  are ever escalated by it, against README.md:307. No property catches this:
  `EscalatesToTheEnd` promises level 2 to the seeded incidents only, and
  `ImplementsContract` allows the step without promising it. Promise level 2 to
  every incident that has no policy, and TLC answers with one created by
  `process_event` that stays at level 1 for ever; let the pass select JSON `null`,
  too, and this stronger property and all the others of both runs hold.
- A crash strands a worker's batch in `sending` for ever (`worker/main.py:48`; PLAN.md:51
  has every notification retried and then dead-lettered): `OrphansBounded` says how much one crash can strand,
  `SettledOrStranded` that everything else is settled.
- The resolved half of the webhook takes the open alert of a fingerprint in
  whatever service (`grafana_webhooks.py:155`). README.md:169 calls fingerprints
  globally unique, so this finds "the correct alert" - but after a change of
  routing, or the race above, there are two.
- A call cut off between `resolve_incident`'s COMMIT and the last one leaves the
  alert open on a resolved incident. Repeating the call does not heal it: the
  incident is skipped before its alert is closed. `SilentOnlyByFailure` and
  `OpenAlertExplained` say that this is the only way (besides an operator).
- A call with one alert may be aborted as a deadlock's victim although such calls
  alone never make one (`DeadlockNeedsBatch`).
- A subscription that has ever had a delivery cannot be deleted (500, the foreign
  key at `notification_attempt.py:17`), and `active` is never set to FALSE.
- "Replace all rules" (escalation_policies.py:83) and "Replace all layers"
  (schedules.py:95) can leave both lists, and "Reject if referenced by escalation
  rules" (schedules.py:134) can let a rule keep a deleted schedule, when requests
  overlap (`OneListUnlessRaced`, `ReferencesExist`).
- README.md:65, "the old key stops working immediately", holds for requests that
  come later; an event whose key was looked up before is still recorded
  (`DecidedOnTheTruth`). Who is removed from a team stays on call for its services. A
  PUT that names the user it loaded is answered 200 and writes nothing, although
  somebody else may have replaced that user (`UpdatesCompose`).
- The rate limit is per process and lost with it, all clients behind a proxy are
  one, and the entries of clients that never return are never removed.
- Schedules have a `time_zone` that README.md:37 calls timezone-aware, but
  `resolve_oncall` never reads it, so handoffs move by an hour with daylight saving.
- `update_incident` edits resolved incidents, though README.md:27 speaks of open ones;
  `INCY_MAX_NOTIFICATION_ATTEMPTS` is read nowhere, rows carry their own
  `max_attempts` of 5; a delivery and its timeline entry are two transactions, so
  a crash can leave a delivery out of the timeline (`DeliveriesAreTold` bounds how
  many).

## 5. Proofs

All theorems hold for every value of the constants that satisfies the
assumption of the module (`...Assumption`, evaluated by TLC in every run of it):
any number of requests, calls, workers, rows, rules and faults. Most assumptions
only say what the constants are; that the notifications are a finite set is the
one that a bound needs (`QueueAssumption`: the table has finitely many rows).

Every property of the runs is stated by a theorem, except those listed at the end
of this section. In each module they follow from one or two inductive invariants.

| Module | Theorems |
|---|---|
| `IngestProofs` | `TypeCorrect`, `NumbersAreDense`, `NothingIsLostOrStray`, `IngestIsIdempotent`, `CountsAreNeverInflated`, `SerialImplementsTheContract` |
| `NotificationQueueProofs` | `TypeCorrect`, `ClaimsAreExclusive`, `AttemptsAreBounded`, `OutcomesAreEarned`, `OneLateMail`, `AuditWasHonest`, `OrphansAreBounded`, `DeliveriesWereTold` |
| `IncidentsProofs` | `TypeCorrect`, `TimelinesExplain`, `OpenAlertsHaveAReason`, `EscalationsAdd`, `ImplementsTheContract` |
| `GrafanaBatchProofs` | `TypeCorrect`, `BatchIsAccounted`, `SilenceIsExplained`, `DeadlocksNeedBatches` |
| `PolicyAdminProofs` | `TypeCorrect`, `ListsAreWhole`, `ListsAreReplaced`, `ReferencesAreKept`, `NobodyIsRaced`, `NobodyStandsStill`, `StepsAreProgress` |
| `WebhooksProofs` | `DeliveriesAreKept`, `SubscribersHear`, `NobodyStandsStill` |
| `DirectoryProofs` | `TypeCorrect`, `DecisionsAreTrue`, `UpdatesDoCompose` |
| `ClockProofs` | `TypeCorrect`, `WindowIsBounded`, `RefusalsAreJust`, `PlansAreTyped`, `TurnsAreEqual`, `OverridesStayLocal`, `ResolvesAsDocumented` |

**Ingest.** `NumbersDense` is not inductive: it has to be known that the number a
request is about to commit is still the next one. `HolderInv` says so: at most one
request is between its incident flush and its commit (any two would have computed
the same number, and the unique index holds the second back), and while it is,
nobody else commits a number, so its maximum is still the maximum. `NumberInv`
is `TypeOK`, `NumbersDense` and `HolderInv`. On top of it `AccountInv` adds
`KeyInv` (an uncommitted event is the only one with its key, and the key is not
committed yet) and `TargetInv` (the alert a request is about to count into
exists and has its dedup key); together they give `NothingLostOrStray` and the
action property `Idempotent`. `CountInv` carries `CountNeverInflated` through the
lost update of `event_count`: the count a request has *read* is never more than
the events its alert holds now, so what it writes, one more, is not more than the
events with its own.

`SerialSpec => Contract!Spec` (`SerialIsAtomic`) is a refinement: only one request
is in flight (`OneInFlight`), so what it has read is still true when it writes
(`ReadIsTrue`). Each commit is then one operation of the contract and each other
step a stutter.

**NotificationQueue.** The row does not name its owner, so exclusiveness has to
come from what a claim in memory still means: `HeldRow` says that a claimed row is
`sending` (or was just marked sent by its worker), that its attempt number is the
one claimed, and that it has been delivered less often than attempted until its
worker sends it; `InHand` ties the worker's place in the handler to the history of
the row in its hand; `Row` relates the columns of a row. `StepInHand` is the main
lemma: a worker that touches only the row in its hand preserves the invariant for
all others, because nobody else holds that row. `LossInv` adds that a worker never
holds more than a batch, so that a crash leaves at most `BatchLimit` more rows in
`sending` without a worker, and at most one more delivery out of the timeline.

**Incidents.** What the flush of a session writes depends on the copy it loaded, so
the invariant says how far that copy may lie behind the row (`CopyOK`): under the
row lock status and actor are still those loaded, and only a timer may have elapsed
meanwhile; a Grafana call, which loads before it locks, may hold an older status but
has never loaded a resolved row; an edit, which takes no lock, may hold any copy, as
it writes only the title. A worker's copies are exact
(`BatchOK`), because all other writers of its rows wait for its locks. Of every row
`RowOK` relates the columns, `TimelineOK` and `AccountOK` relate it to the entries
of its timeline, `AlertOK` to its alert. The refinement
`ImplementsTheContract` uses the same invariant. For each action a lemma says what
it does to the row, the timeline and the outbox (`EditEffect`, `AckEffect`,
`ResolveEffect` and so on, which the invariance proof shares); the contract sees
either one of its operations for that incident or nothing, and a worker's pass is
one contract step for each row of its batch.

**GrafanaBatch.** A session is described by the rows it has changed (`Own`), the
table it would leave behind if it committed now (`All`) and the incident numbers it
holds (`HeldNumbers`). `BatchAccounted` says that committed numbers have no gap; to
be inductive it has to say so of *committed and held* numbers, for every session by
itself (`NumbersOK`): two sessions cannot both hold new ones, as they would have to
hold the same next number (`OneNumberer`). `RowsOK` says that a session keeps the
fingerprints of the rows it overwrites and never leaves one both open and
resolved by Grafana, `AnswerOK` that the firing alerts behind it are recorded by it
or by somebody, `LocksOK` that it holds the index entry of each event it has added,
so that nobody else records that key. COMMIT is proved once for both handlers
(`WriteStep`), with two halves: what the others still know (`OthersKeep`) and what
the tables are now (`CommitsIs`). `SilentOnlyByFailure` follows because the only
writer that leaves an alert open behind its resolution is a `Resolve` whose session
still has the alert in memory, and only `Fail` drops it.

`DeadlockNeedsBatch` has its own invariant, `OrderInv`: a call with one alert has
taken locks of lower rank than those it waits for, the rank being 1 for the event
key and the locked incident, 2 for the alert row and the incident number, 3 for the
integration. In a circle the ranks would grow for ever, and there are only three.
No bound on the number of calls is needed.

**PolicyAdmin.** A request reads in one statement and writes in a later one.
Whatever it has read stays true except for what a request that was open at the
same time has committed, and the invariant says so of each thing read: the rows a
DELETE found (`ReplacesOK`), the schedules a rule names and the rules looked up
before a schedule is deleted (`TargetsOK`), the layers an ingestion has read
(`ViewOK`). Any two open requests overlap (`Met`), so what one missed is always the
work of an overlapping one. `DeletesOK` is why lists stay whole: a DELETE finds all
rows of a request or none. The foreign keys come in through `RowOK`: a row's parent
exists, because a parent is deleted only together with its rows.

`NobodyStandsStill` (`SomebodyMoves`) needs a second invariant, `LocksOK`. Of two
requests that replace the rows of one parent at most one has deleted any: what two
statements have found and what is still there are comparable sets, because the later
statement has found all rows there were, and rows that are gone do not come back
(`Comparable`); and nobody deletes what another one has deleted. So a DELETE
waits for a request that does not wait for a DELETE, and only a delete of the parent
is left to close a circle: `CascadeCan` finds the update that waits for it, and the
database aborts one of the two. That requests end follows with
`StepsAreProgress`: each step goes to a later statement, answers one more rule or
tries one layer less. (`Nearer`; that these are finitely many is said in words, it
would be an induction over data.)

**Webhooks.** Two locks decide: from its flush to its COMMIT a transaction holds the
subscriptions it refers to, and a DELETE holds its subscription from its flush to
its COMMIT - never both at once (`Protected`). After the COMMIT of the transaction
its deliveries are there for the foreign key to find. `Enqueued` says that whoever
subscribed before a transaction began was there when it looked. `NobodyStandsStill`
needs no invariant but the types: whoever is about to commit can, and while nobody
is, nothing is locked.

**Directory.** `SeenInv` says that no fact which holds at present escapes the
history variable, so that what a lookup finds has been seen; `Decided` says that the
facts a request has passed were. `UpdatesCompose` is an action property and follows
from the column-wise UPDATE and the type of the copy.

**RateLimiter.** The limiter counts what it remembers, the bound is about what it let
through; `Remembered` connects the two within the window before now. A window that
ends at some t then survives an admission, because those of its requests that were
there before are among the ones just counted.

**OnCall.** The properties are about what is computed from any plan, so that the type
of the plan is all the invariant there is. `EqualTurns`: the moments of a rotation
and the pairs of a place and a moment within its turn match one to one (`SameInstant`,
`InstantFor`), whence a user has one turn's length for each place that lists them. `OverridesAreLocal`: adding or removing an override leaves the indices of
all others in order, so that the newest active one before and after differ only if
the one added or removed is active. `AsDocumented` compares with a recursive
function, and an induction theorem would take an operator: that the function exists
is shown by naming it (the last answer among the first i), and that it is the
walk's by a least counterexample (`LeastExists`, from the well-foundedness of <).

Only model-checked:

- the liveness properties (`RetriedEventRecorded`, `SettledOrStranded`,
  `SessionsEnd`, `EscalatesToTheEnd`, `CallsAnswered`), which are out of the
  prover's reach;
- that the guards in `SomebodyMoves` promise no more than the steps keep: ENABLED is
  out of its reach as well, and TLC's deadlock check looks for it;
- `SingleOpenAlert`, because it is false (section 4);
- that the numbers in a `.cfg` are large enough.

## 6. Not modelled

- Read-only endpoints, the front end (React pages over the REST API), message
  texts, HMAC signatures, logging, configuration parsing, migrations, deployment
  and the chaos demo: no state of their own beyond the schema the models use.
- The error handler: it turns exceptions into answers. Its effect - a 409 or 500
  ends the session, and the transaction is rolled back - is in every model.
- The rhythm of the worker's main loop (escalation every sixth cycle) and its
  graceful stop: both jobs are independent fair actions, which allows more
  interleavings than the loop does.
- That seeding is one transaction, skipped when a user exists.
- A clock that steps back (`RateLimiter`).
- Deadlocks between a Grafana call and something else than another call: they
  look like a cut request. One webhook subscription stands for all of them in
  `Incidents`.
- One model of everything: the product of the modules is out of TLC's reach at
  bounds where the cases above happen. The seams are the tables named in section 2.

## 7. Plan

Done: all modules of section 2, and theorems for all properties of the passing
runs that are not liveness. What could be proved next:

1. `GrafanaBatch`: that a call which commits has its events in alerts of the service
   its label names at the time (`ServiceFor`), for a route that never changes.
2. The seams: that `Ingest` with one alert per call is what `GrafanaBatch` does with
   calls of one firing alert.
3. The safety half of the liveness properties: as in `PolicyAdmin`, that in `Ingest`
   and `Incidents` somebody can always go on, and that each step is progress.
