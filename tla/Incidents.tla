----------------------------- MODULE Incidents ------------------------------
(***************************************************************************)
(* The life of an incident row: it is created by event ingestion, changed  *)
(* by API requests (acknowledge, resolve, edit, notes), by the resolved    *)
(* half of the Grafana webhook, and by the worker's escalation passes.     *)
(*                                                                         *)
(* Each API request is a session of the ORM: it loads the row into memory, *)
(* changes the copy, and its flush writes the columns whose value differs  *)
(* from the one loaded, whatever the row holds by then.  Acknowledge and   *)
(* resolve load the row with SELECT ... FOR UPDATE; the edit and the       *)
(* Grafana handler load it without a lock.  The Grafana handler then calls *)
(* resolve_incident in the same session: its SELECT ... FOR UPDATE locks   *)
(* the row, but the object already in the session's identity map keeps the *)
(* values of the first load.                                               *)
(***************************************************************************)
EXTENDS Naturals, FiniteSets, Sequences

CONSTANTS
    Incidents,      \* incident rows
    Seeded,         \* those written by seed.py, whose snapshot is SQL NULL
    SeedUser,       \* who handled the handled ones of them
    Sessions,       \* API requests, one session each
    Workers,        \* worker processes
    Titles,         \* values of the columns PATCH may change
    NumRules,       \* rules of the service's escalation policy
    NumLoops,       \* its num_loops
    Resolvable,     \* the rules (from 0) whose target resolves to a user
    HasPrimary,     \* the service has a primary on-call user
    HasSecondary,   \* and a secondary one
    None,           \* NULL, and "nobody"
    MaxFaults       \* bound on lost connections and killed processes

VARIABLES
    rows,       \* the committed incident rows
    alertOpen,  \* is the incident's alert open?
    trail,      \* the incident's audit_logs, in order of commit
    outbox,     \* notification_attempts queued for it, by kind
    lock,       \* who holds the row FOR UPDATE
    aged,       \* created_at is older than escalation_timeout_seconds
    session,    \* the API requests
    batch,      \* the rows a worker has selected in its open transaction, as read
    pass,       \* the worker's pass: "idle", "snapshot" or "legacy"
    faults

vars == <<rows, alertOpen, trail, outbox, lock, aged, session, batch, pass, faults>>
db == <<rows, alertOpen, trail, outbox>>

Statuses == {"triggered", "acknowledged", "resolved"}

Rank(status) ==
    CASE status = "triggered" -> 1 [] status = "acknowledged" -> 2 [] OTHER -> 3

\* escalation_policy_snapshot: a snapshot with rules, one without, the JSON
\* value null that the ORM stores for None, and SQL NULL.
Snapshots == {"policy", "empty", "json_null", "sql_null"}

\* next_escalation_at: NULL, in the future, or reached.
Timers == {"none", "pending", "due"}

Users == Sessions \cup {SeedUser}

Row == [status : Statuses, timer : Timers, rule : Nat, loops : Nat, level : Nat,
        snapshot : Snapshots, title : Titles,
        ackBy : Users \cup {None}, resolvedBy : Users \cup {None}]

ASSUME IncidentsAssumption ==
    /\ Seeded \subseteq Incidents
    /\ NumRules \in Nat \ {0} /\ NumLoops \in Nat \ {0}
    /\ Resolvable \subseteq 0 .. NumRules - 1
    /\ HasPrimary \in BOOLEAN /\ HasSecondary \in BOOLEAN
    /\ Titles # {} /\ MaxFaults \in Nat
    /\ Sessions \cap Workers = {}
    /\ None \notin Sessions \cup Workers \cup {SeedUser} \cup Row

Operations == {"ack", "resolve", "edit", "note", "agent", "grafana"}

SessionState ==
    [pc : {"idle", "findAlert", "load", "lock", "commit", "close", "done", "failed"},
     op : Operations, on : Incidents \cup {None},
     loaded : Row \cup {None}, title : Titles \cup {None}]

Mails == {"page", "incident.triggered", "incident.acknowledged", "incident.resolved"}

Actions == {"triggered", "acknowledged", "resolved", "updated", "note_added", "agent_update",
            "escalated", "escalation_exhausted"}

Entry(action, by) == [action |-> action, by |-> by]

Exists(i) == rows[i] # None

Log(i, entry) == trail' = [trail EXCEPT ![i] = Append(@, entry)]

Free(i) == lock[i] = None

-----------------------------------------------------------------------------
NewRow(snapshot) ==
    [status |-> "triggered",
     timer |-> IF snapshot = "policy" THEN "pending" ELSE "none",
     rule |-> 0, loops |-> 0, level |-> 1, snapshot |-> snapshot,
     title |-> CHOOSE t \in Titles : TRUE, ackBy |-> None, resolvedBy |-> None]

NoMail == [m \in Mails |-> 0]

NoSession == [pc |-> "idle", op |-> "note", on |-> None, loaded |-> None, title |-> None]

\* seed.py writes one incident of each status.
SeedRow(status) ==
    [NewRow("sql_null") EXCEPT
        !.status = status,
        !.ackBy = IF status = "triggered" THEN None ELSE SeedUser,
        !.resolvedBy = IF status = "resolved" THEN SeedUser ELSE None]

SeedTrail(status) ==
    SubSeq(<<Entry("triggered", None), Entry("acknowledged", SeedUser),
             Entry("resolved", SeedUser)>>, 1, Rank(status))

Init ==
    /\ \E status \in [Seeded -> Statuses] :
         /\ rows = [i \in Incidents |-> IF i \in Seeded THEN SeedRow(status[i]) ELSE None]
         /\ alertOpen = [i \in Incidents |-> i \in Seeded /\ status[i] # "resolved"]
         /\ trail = [i \in Incidents |-> IF i \in Seeded THEN SeedTrail(status[i]) ELSE <<>>]
    /\ outbox = [i \in Incidents |-> NoMail]
    /\ lock = [i \in Incidents |-> None]
    /\ aged = [i \in Incidents |-> FALSE]
    /\ session = [s \in Sessions |-> NoSession]
    /\ batch = [w \in Workers |-> <<>>]
    /\ pass = [w \in Workers |-> "idle"]
    /\ faults = 0

(***************************************************************************)
(* The COMMIT of process_event for a new alert: incident, alert, audit     *)
(* entry, e-mail to the assigned user (the first rule's target, else the   *)
(* service's primary on-call) and webhooks appear together.                *)
(***************************************************************************)
Assigned(snapshot) == HasPrimary \/ (snapshot = "policy" /\ 0 \in Resolvable)

Trigger(i) ==
    /\ ~Exists(i)
    /\ \E snapshot \in Snapshots \ {"sql_null"} :
         /\ rows' = [rows EXCEPT ![i] = NewRow(snapshot)]
         /\ outbox' = [outbox EXCEPT ![i]["page"] = IF Assigned(snapshot) THEN 1 ELSE 0,
                                     ![i]["incident.triggered"] = 1]
    /\ alertOpen' = [alertOpen EXCEPT ![i] = TRUE]
    /\ Log(i, Entry("triggered", None))
    /\ UNCHANGED <<lock, aged, session, batch, pass, faults>>

-----------------------------------------------------------------------------
(***************************************************************************)
(* API sessions.                                                           *)
(***************************************************************************)
Goto(s, step) == session' = [session EXCEPT ![s].pc = step]

FirstStep(op) ==
    CASE op \in {"ack", "resolve"} -> "lock"
      [] op = "grafana" -> "findAlert"
      [] OTHER -> "load"

Request(s, i, op) ==
    /\ session[s].pc = "idle"
    /\ Exists(i)
    /\ session' = [session EXCEPT ![s].pc = FirstStep(op), ![s].op = op, ![s].on = i]
    /\ UNCHANGED <<db, lock, aged, batch, pass, faults>>

\* _handle_resolved looks for an open alert with the fingerprint's dedup key.
FindAlert(s) ==
    /\ session[s].pc = "findAlert"
    /\ Goto(s, IF alertOpen[session[s].on] THEN "load" ELSE "done")
    /\ UNCHANGED <<db, lock, aged, batch, pass, faults>>

\* The unlocked load of the Grafana handler: a resolved incident is skipped.
LoadForGrafana(s) ==
    LET i == session[s].on IN
    /\ session[s].pc = "load" /\ session[s].op = "grafana"
    /\ session' = [session EXCEPT ![s].loaded = rows[i],
                                  ![s].pc = IF rows[i].status = "resolved"
                                            THEN "done" ELSE "lock"]
    /\ UNCHANGED <<db, lock, aged, batch, pass, faults>>

\* The unlocked load of PATCH: nothing to write when nothing differs.
LoadForEdit(s) ==
    LET i == session[s].on IN
    /\ session[s].pc = "load" /\ session[s].op = "edit"
    /\ \E t \in Titles :
         session' = [session EXCEPT ![s].loaded = rows[i], ![s].title = t,
                                    ![s].pc = IF t = rows[i].title THEN "done" ELSE "commit"]
    /\ UNCHANGED <<db, lock, aged, batch, pass, faults>>

\* One insert into the timeline, whose foreign key check waits for a holder of
\* the incident's row.
Record(s, op, entry) ==
    LET i == session[s].on IN
    /\ session[s].pc = "load" /\ session[s].op = op
    /\ Free(i)
    /\ Log(i, entry)
    /\ Goto(s, "done")
    /\ UNCHANGED <<rows, alertOpen, outbox, lock, aged, batch, pass, faults>>

AddNote(s) == Record(s, "note", Entry("note_added", s))

\* An agent reports its progress; it has no user.
RecordAgentUpdate(s) == Record(s, "agent", Entry("agent_update", None))

\* What the session has in memory once it has the row lock.
Held(s) == IF session[s].op = "grafana" THEN session[s].loaded ELSE rows[session[s].on]

Refused(op, row) ==
    \/ row.status = "resolved"
    \/ op = "ack" /\ row.status = "acknowledged"

LockNotTaken(s, refused) == None

\* On refusal (409) the session is closed and the lock released.
HolderAfter(s, refused) == IF refused THEN None ELSE s

\* SELECT ... FOR UPDATE, and the checks on the row in memory.
LockRow(s) ==
    LET i == session[s].on
        refused == Refused(session[s].op, Held(s)) IN
    /\ session[s].pc = "lock"
    /\ Free(i)
    /\ lock' = [lock EXCEPT ![i] = HolderAfter(s, refused)]
    /\ session' = [session EXCEPT ![s].loaded = Held(s),
                                  ![s].pc = IF refused THEN "done" ELSE "commit"]
    /\ UNCHANGED <<db, aged, batch, pass, faults>>

\* The UPDATE of a flush: the columns that differ from the loaded copy.
Write(row, loaded, new) ==
    [c \in DOMAIN row |-> IF new[c] = loaded[c] THEN row[c] ELSE new[c]]

AcknowledgedButArmed(row, s) == [row EXCEPT !.status = "acknowledged", !.ackBy = s]

Acknowledged(row, s) ==
    [row EXCEPT !.status = "acknowledged", !.ackBy = s, !.timer = "none"]

Resolved(row, user) ==
    [row EXCEPT !.status = "resolved", !.resolvedBy = user, !.timer = "none"]

CommitAck(s) ==
    LET i == session[s].on
        loaded == session[s].loaded IN
    /\ session[s].pc = "commit" /\ session[s].op = "ack"
    /\ rows' = [rows EXCEPT ![i] = Write(@, loaded, Acknowledged(loaded, s))]
    /\ Log(i, Entry("acknowledged", s))
    /\ outbox' = [outbox EXCEPT ![i]["incident.acknowledged"] = @ + 1]
    /\ lock' = [lock EXCEPT ![i] = None]
    /\ Goto(s, "done")
    /\ UNCHANGED <<alertOpen, aged, batch, pass, faults>>

AfterResolveDone(s) == "done"

AfterResolve(s) == IF session[s].op = "grafana" THEN "close" ELSE "done"

\* resolve_incident commits by itself; the Grafana handler, which passes no
\* user, has its alert still to close.
CommitResolve(s) ==
    LET i == session[s].on
        loaded == session[s].loaded
        user == IF session[s].op = "grafana" THEN None ELSE s IN
    /\ session[s].pc = "commit" /\ session[s].op \in {"resolve", "grafana"}
    /\ rows' = [rows EXCEPT ![i] = Write(@, loaded, Resolved(loaded, user))]
    /\ Log(i, Entry("resolved", user))
    /\ outbox' = [outbox EXCEPT ![i]["incident.resolved"] = @ + 1]
    /\ lock' = [lock EXCEPT ![i] = None]
    /\ Goto(s, AfterResolve(s))
    /\ UNCHANGED <<alertOpen, aged, batch, pass, faults>>

\* The handler's own COMMIT, which closes the alert.
CloseAlert(s) ==
    /\ session[s].pc = "close"
    /\ alertOpen' = [alertOpen EXCEPT ![session[s].on] = FALSE]
    /\ Goto(s, "done")
    /\ UNCHANGED <<rows, trail, outbox, lock, aged, batch, pass, faults>>

\* PATCH: the UPDATE waits for a holder of the row, then writes.
CommitEdit(s) ==
    LET i == session[s].on
        loaded == session[s].loaded IN
    /\ session[s].pc = "commit" /\ session[s].op = "edit"
    /\ Free(i)
    /\ rows' = [rows EXCEPT ![i] = Write(@, loaded, [loaded EXCEPT !.title = session[s].title])]
    /\ Log(i, Entry("updated", s))
    /\ Goto(s, "done")
    /\ UNCHANGED <<alertOpen, outbox, lock, aged, batch, pass, faults>>

\* The connection breaks, or the API process dies: the open transaction is
\* rolled back and its locks are gone.
CutSession(s) ==
    /\ session[s].pc \notin {"idle", "done", "failed"}
    /\ faults < MaxFaults
    /\ faults' = faults + 1
    /\ Goto(s, "failed")
    /\ lock' = [i \in Incidents |-> IF lock[i] = s THEN None ELSE lock[i]]
    /\ UNCHANGED <<db, aged, batch, pass>>

-----------------------------------------------------------------------------
(***************************************************************************)
(* The worker's escalation passes.  Each is one transaction: SELECT the due*)
(* rows FOR UPDATE SKIP LOCKED, change them all, COMMIT.                   *)
(***************************************************************************)
Due(i) ==
    /\ Exists(i)
    /\ rows[i].status = "triggered"
    /\ rows[i].timer = "due"
    /\ rows[i].snapshot # "sql_null"

LegacyDueJsonNull(i) ==
    /\ Exists(i)
    /\ rows[i].status = "triggered"
    /\ rows[i].level = 1
    /\ aged[i]
    /\ rows[i].snapshot = "json_null"
    /\ HasSecondary

LegacyDue(i) ==
    /\ Exists(i)
    /\ rows[i].status = "triggered"
    /\ rows[i].level = 1
    /\ aged[i]
    /\ rows[i].snapshot = "sql_null"
    /\ HasSecondary

NotHeld(w, selected) == lock

HeldBy(w, selected) == [i \in Incidents |-> IF i \in selected THEN w ELSE lock[i]]

Select(w, kind, selected) ==
    /\ pass[w] = "idle"
    /\ selected # {}
    /\ batch' = [batch EXCEPT ![w] = [i \in selected |-> rows[i]]]
    /\ lock' = HeldBy(w, selected)
    /\ pass' = [pass EXCEPT ![w] = kind]
    /\ UNCHANGED <<db, aged, session, faults>>

SelectDue(w) == Select(w, "snapshot", {i \in Incidents : Due(i) /\ Free(i)})

SelectLegacy(w) == Select(w, "legacy", {i \in Incidents : LegacyDue(i) /\ Free(i)})

\* The next rule, computed from the row as the SELECT returned it.
LastRule(read) == read.rule + 1 >= NumRules

ExhaustedLate(read) == LastRule(read) /\ read.loops + 1 > NumLoops

Exhausted(read) == LastRule(read) /\ read.loops + 1 >= NumLoops

NextRule(read) == IF LastRule(read) THEN 0 ELSE read.rule + 1

LoopsAfter(read) == IF LastRule(read) THEN read.loops + 1 ELSE read.loops

TimerStopped(read) == "none"

TimerAfter(read) == IF Exhausted(read) THEN "none" ELSE "pending"

\* The columns the pass updates.
Escalated(row, read) ==
    IF Exhausted(read)
    THEN [row EXCEPT !.timer = TimerAfter(read), !.loops = LoopsAfter(read)]
    ELSE [row EXCEPT !.timer = TimerAfter(read), !.loops = LoopsAfter(read),
                     !.rule = NextRule(read), !.level = NextRule(read) + 1]

EscalationEntry(read) ==
    Entry(IF Exhausted(read) THEN "escalation_exhausted" ELSE "escalated", None)

Pages(read) == IF ~Exhausted(read) /\ NextRule(read) \in Resolvable THEN 1 ELSE 0

EndPassOpen(w) ==
    /\ batch' = [batch EXCEPT ![w] = <<>>]
    /\ pass' = [pass EXCEPT ![w] = "idle"]
    /\ UNCHANGED lock

\* The transaction ends, by COMMIT or ROLLBACK, and its row locks with it.
EndPass(w) ==
    /\ lock' = [i \in Incidents |-> IF lock[i] = w THEN None ELSE lock[i]]
    /\ batch' = [batch EXCEPT ![w] = <<>>]
    /\ pass' = [pass EXCEPT ![w] = "idle"]

Selected(w) == DOMAIN batch[w]

Escalate(w) ==
    /\ pass[w] = "snapshot"
    /\ rows' = [i \in Incidents |->
                  IF i \in Selected(w) THEN Escalated(rows[i], batch[w][i]) ELSE rows[i]]
    /\ trail' = [i \in Incidents |->
                   IF i \in Selected(w) THEN Append(trail[i], EscalationEntry(batch[w][i]))
                   ELSE trail[i]]
    /\ outbox' = [i \in Incidents |->
                    IF i \in Selected(w)
                    THEN [outbox[i] EXCEPT !["page"] = @ + Pages(batch[w][i])]
                    ELSE outbox[i]]
    /\ EndPass(w)
    /\ UNCHANGED <<alertOpen, aged, session, faults>>

EscalateLegacy(w) ==
    /\ pass[w] = "legacy"
    /\ rows' = [i \in Incidents |->
                  IF i \in Selected(w) THEN [rows[i] EXCEPT !.level = 2] ELSE rows[i]]
    /\ trail' = [i \in Incidents |->
                   IF i \in Selected(w) THEN Append(trail[i], Entry("escalated", None))
                   ELSE trail[i]]
    /\ outbox' = [i \in Incidents |->
                    IF i \in Selected(w) THEN [outbox[i] EXCEPT !["page"] = @ + 1]
                    ELSE outbox[i]]
    /\ EndPass(w)
    /\ UNCHANGED <<alertOpen, aged, session, faults>>

\* The pass fails or the worker dies before COMMIT: nothing of it is left.
CutPass(w) ==
    /\ pass[w] # "idle"
    /\ faults < MaxFaults
    /\ faults' = faults + 1
    /\ EndPass(w)
    /\ UNCHANGED <<db, aged, session>>

-----------------------------------------------------------------------------
\* Time passes.
TimerElapses(i) ==
    /\ Exists(i)
    /\ rows[i].timer = "pending"
    /\ rows' = [rows EXCEPT ![i].timer = "due"]
    /\ UNCHANGED <<alertOpen, trail, outbox, lock, aged, session, batch, pass, faults>>

\* (Nothing reads the age of an incident that has a snapshot.)
Age(i) ==
    /\ Exists(i) /\ rows[i].snapshot = "sql_null" /\ ~aged[i]
    /\ aged' = [aged EXCEPT ![i] = TRUE]
    /\ UNCHANGED <<db, lock, session, batch, pass, faults>>

SessionStep(s) ==
    \/ FindAlert(s)
    \/ LoadForGrafana(s)
    \/ LoadForEdit(s)
    \/ AddNote(s)
    \/ RecordAgentUpdate(s)
    \/ LockRow(s)
    \/ CommitAck(s)
    \/ CommitResolve(s)
    \/ CloseAlert(s)
    \/ CommitEdit(s)

WorkerStep(w) ==
    \/ SelectDue(w)
    \/ SelectLegacy(w)
    \/ Escalate(w)
    \/ EscalateLegacy(w)

Next ==
    \/ \E i \in Incidents : Trigger(i) \/ TimerElapses(i) \/ Age(i)
    \/ \E s \in Sessions, i \in Incidents, op \in Operations : Request(s, i, op)
    \/ \E s \in Sessions : SessionStep(s) \/ CutSession(s)
    \/ \E w \in Workers : WorkerStep(w) \/ CutPass(w)

Spec == Init /\ [][Next]_vars

\* Started requests run to their end, the worker polls, and time passes.
FairSpec ==
    /\ Spec
    /\ \A s \in Sessions : WF_vars(SessionStep(s))
    /\ \A w \in Workers : WF_vars(WorkerStep(w))
    /\ \A i \in Incidents : WF_vars(TimerElapses(i)) /\ WF_vars(Age(i))

-----------------------------------------------------------------------------
(***************************************************************************)
(* Properties.                                                             *)
(***************************************************************************)

Count(i, action) == Cardinality({n \in DOMAIN trail[i] : trail[i][n].action = action})

\* Every variable keeps its type.
TypeOK ==
    /\ rows \in [Incidents -> Row \cup {None}]
    /\ alertOpen \in [Incidents -> BOOLEAN]
    /\ trail \in [Incidents -> Seq([action : Actions, by : Users \cup {None}])]
    /\ outbox \in [Incidents -> [Mails -> Nat]]
    /\ lock \in [Incidents -> Sessions \cup Workers \cup {None}]
    /\ aged \in [Incidents -> BOOLEAN]
    /\ session \in [Sessions -> SessionState]
    /\ DOMAIN batch = Workers
    /\ \A w \in Workers : /\ Selected(w) \subseteq Incidents
                          /\ \A i \in Selected(w) : batch[w][i] \in Row
    /\ pass \in [Workers -> {"idle", "snapshot", "legacy"}]
    /\ faults \in 0 .. MaxFaults

\* The escalation state on the row is exactly what the timeline tells: the
\* worker's passes never skip a rule, never take one twice, and end after
\* num_loops rounds of the policy's rules with one escalation_exhausted entry.
EscalationAccount ==
    \A i \in Incidents :
        Exists(i) /\ rows[i].snapshot = "policy" =>
            LET row == rows[i]
                taken == Count(i, "escalated")
                ended == Count(i, "escalation_exhausted") IN
            /\ ended <= 1
            /\ taken = (row.loops - ended) * NumRules + row.rule
            /\ taken < NumLoops * NumRules
            /\ ended = 1 => taken = NumLoops * NumRules - 1 /\ row.timer = "none"

\* The row's status and actors are the ones the timeline gives: acknowledged at
\* most once and before any resolve; resolved_by is the operator's whenever an
\* operator resolved it, who then was the first to; a Grafana resolve that had
\* loaded the row before may follow, and changes nothing.
TimelineExplainsRow ==
    \A i \in Incidents : Exists(i) =>
        LET row == rows[i]
            acks == {n \in DOMAIN trail[i] : trail[i][n].action = "acknowledged"}
            resolves == {n \in DOMAIN trail[i] : trail[i][n].action = "resolved"} IN
        /\ row.status = IF resolves # {} THEN "resolved"
                        ELSE IF acks # {} THEN "acknowledged" ELSE "triggered"
        /\ Cardinality(acks) <= 1
        /\ \A n \in acks : row.ackBy = trail[i][n].by /\ \A m \in resolves : n < m
        /\ \A n \in resolves : trail[i][n].by # None =>
              row.resolvedBy = trail[i][n].by /\ \A m \in resolves : n <= m

\* A resolved incident whose alert is still open, which goes on absorbing the
\* events of its dedup key without anybody being told, was resolved by an
\* operator, or by a Grafana call that has not yet, or never, reached its
\* second COMMIT.
OpenAlertExplained ==
    \A i \in Incidents :
        Exists(i) /\ rows[i].status = "resolved" /\ alertOpen[i] =>
            \/ \E n \in DOMAIN trail[i] :
                 trail[i][n].action = "resolved" /\ trail[i][n].by # None
            \/ \E s \in Sessions : /\ session[s].op = "grafana" /\ session[s].on = i
                                   /\ session[s].pc \in {"close", "failed"}

Handled(i) == Exists(i) /\ rows[i].status # "triggered"

\* A request that was accepted is answered: no session waits for ever for a row.
SessionsEnd ==
    \A s \in Sessions : session[s].pc \notin {"idle", "done", "failed"}
                            ~> session[s].pc \in {"done", "failed"}

\* An incident with a policy is handled in the end, or every rule was tried; a
\* seeded one, whose snapshot is SQL NULL, is handled or reaches level 2.
EscalatesToTheEnd ==
    \A i \in Incidents :
        /\ Exists(i) /\ rows[i].status = "triggered" /\ rows[i].snapshot = "policy"
               ~> Handled(i) \/ Count(i, "escalation_exhausted") = 1
        /\ i \in Seeded => <>(Handled(i) \/ (Exists(i) /\ rows[i].level = 2))

-----------------------------------------------------------------------------
\* The escalation steps a row has behind it.
StepsTaken(row) ==
    CASE row.snapshot # "policy" -> row.level - 1
      [] row.snapshot = "policy" /\ row.loops = NumLoops -> NumRules * NumLoops
      [] OTHER -> row.loops * NumRules + row.rule

\* An incident without a policy has the legacy plan, in whichever of the two
\* ways its row says that there is no snapshot.
PlanOf(row) == IF row.snapshot \in {"policy", "empty"} THEN row.snapshot ELSE "legacy"

AsPromised(i) ==
    IF ~Exists(i) THEN None
    ELSE [status |-> rows[i].status, plan |-> PlanOf(rows[i]),
          armed |-> rows[i].timer # "none", steps |-> StepsTaken(rows[i]),
          pages |-> outbox[i]["page"],
          acknowledgedBy |-> rows[i].ackBy, resolvedBy |-> rows[i].resolvedBy]

Promise == [status : Statuses, plan : {"policy", "empty", "legacy"}, armed : BOOLEAN, steps : Nat,
            pages : Nat, acknowledgedBy : Users \cup {None}, resolvedBy : Users \cup {None}]

ASSUME PromiseAssumption == None \notin Promise

Contract == INSTANCE IncidentContract
              WITH incident <- [i \in Incidents |-> AsPromised(i)], People <- Users

\* Whatever stale copies the sessions write back and however the passes of
\* several workers interleave with them, an incident only does what its
\* contract allows: its status never goes back, a handled one has no timer and
\* pages nobody, a triggered one takes each escalation step once.
ImplementsContract == Contract!Spec
=============================================================================
