------------------------------ MODULE PolicyAdmin ------------------------------
(***************************************************************************)
(* Escalation policies with their rules, schedules with their layers, and  *)
(* the service that refers to a policy, edited by concurrent requests and  *)
(* read by ingestion when it takes the snapshot of an incident.            *)
(*                                                                         *)
(* Policies and schedules are handled alike: a parent row owns child rows  *)
(* (rules, layers), which an update replaces and a delete cascades to.  A  *)
(* request is one transaction; the tables show committed rows.             *)
(***************************************************************************)
EXTENDS Integers, Sequences, FiniteSets

CONSTANTS
    Request,      \* requests, each used once
    Policy,       \* ids of escalation policies
    Schedule,     \* ids of schedules
    User,         \* users; there is no endpoint that deletes one
    RuleLists,    \* the rule lists a request may carry: sequences of targets
    LayerLists,   \* the layer lists a request may carry, as who they put on call
    MaxFaults,    \* how many requests may be cut
    None,         \* no policy, no user, rows nobody replaced yet
    Keep          \* an update that carries no list

Parent == Policy \union Schedule

ASSUME AdminAssumption ==
    /\ Policy \intersect Schedule = {}
    /\ Parent \intersect User = {}
    /\ None \notin Request \union Parent \union User
    /\ Keep \notin RuleLists \union LayerLists
    /\ RuleLists \subseteq Seq(User \union Schedule)
    /\ LayerLists \subseteq Seq(User)
    /\ MaxFaults \in Nat

VARIABLES
    exists,    \* the policies and schedules that are committed
    used,      \* the ids that were ever given out
    children,  \* the committed rules and layers
    service,   \* services.escalation_policy_id of the service
    ses,       \* what each request is doing
    view,      \* the snapshot an ingestion has built so far
    overlap,   \* the pairs of requests that were open at the same time
    faults     \* requests cut so far

vars == <<exists, used, children, service, ses, view, overlap, faults>>
tables == <<exists, used, children, service>>

Lists(p) == IF p \in Policy THEN RuleLists ELSE LayerLists

\* A policy is created with one rule at least.
CreateLists(p) == IF p \in Policy THEN RuleLists \ {<<>>} ELSE LayerLists

\* The rows of a list: one per entry, numbered by their place in it.
Rows(p, r, list) ==
    {[of |-> p, by |-> r, pos |-> i, target |-> list[i]] : i \in DOMAIN list}

ChildrenOf(p) == {c \in children : c.of = p}

Idle == [pc |-> "idle", op |-> "none", on |-> None, list |-> <<>>,
         aim |-> {}, gone |-> {}]

NoView == [rules |-> {}, rule |-> None, layers |-> {}, paged |-> {}]

Open(r) == ses[r].pc \notin {"idle", "done", "failed"}

Overlapped(q, r) == {q, r} \in overlap

-----------------------------------------------------------------------------
(* Row locks.                                                              *)

\* Somebody else has deleted the parent and not committed yet.
ParentTaken(r, p) ==
    \E q \in Request \ {r} : ses[q].pc = "cascade" /\ ses[q].on = p

\* A mistake: an update asks for the lock it will need, then for a stronger one.
ParentSharedEarly(r, p) ==
    \E q \in Request \ {r} :
        ses[q].pc \in {"write", "commit"} /\ ses[q].on = p /\ ses[q].op = "update"

\* Somebody else has inserted a row that refers to the parent.
ParentShared(r, p) ==
    \E q \in Request \ {r} :
        ses[q].pc = "commit" /\ ses[q].on = p /\ ses[q].op = "update"

\* Somebody else has deleted one of these child rows and not committed yet.
RowsTaken(r, rows) ==
    \E q \in Request \ {r} : Open(q) /\ ses[q].gone \intersect rows # {}

-----------------------------------------------------------------------------
(* Starting and ending a request.                                          *)

Begin(r, op, p, list, pc) ==
    /\ ses[r].pc = "idle"
    /\ ses' = [ses EXCEPT ![r] = [Idle EXCEPT !.pc = pc, !.op = op, !.on = p,
                                              !.list = list]]
    /\ overlap' = overlap \union {{q, r} : q \in {q \in Request : Open(q)}}
    /\ UNCHANGED <<view, faults>>

Goto(r, pc) == ses' = [ses EXCEPT ![r].pc = pc]

Reading == UNCHANGED <<tables, view, overlap, faults>>

\* The session is closed; what it has not committed is undone.
End(r, pc) == ses' = [ses EXCEPT ![r].pc = pc, ![r].aim = {}, ![r].gone = {}]

Fail(r) == End(r, "failed") /\ Reading

-----------------------------------------------------------------------------
(* create_policy, create_schedule: the new parent is flushed but nobody    *)
(* can see it before the commit.                                           *)

BeginCreate(r) ==
    \E p \in Parent \ used : \E list \in CreateLists(p) :
        /\ Begin(r, "create", p, list,
                 IF p \in Policy THEN "validate" ELSE "commit")
        /\ used' = used \union {p}
        /\ UNCHANGED <<exists, children, service>>

(* update_policy, update_schedule.  An update writes the columns of the    *)
(* parent in any case; whether it replaces the children depends on the     *)
(* body.                                                                   *)

BeginUpdate(r) ==
    \E p \in exists : \E list \in Lists(p) \union {Keep} :
        /\ Begin(r, "update", p, list, IF list = Keep THEN "write" ELSE "delete")
        /\ UNCHANGED tables

\* Mistakes: a filter on the wrong id; only the rows the new list has no place for.
ReplacedNone(r) == {}
ReplacedSurplus(r) == {c \in ChildrenOf(ses[r].on) : c.pos > Len(ses[r].list)}
\* The rows an update replaces: all of the parent.
Replaced(r) == ChildrenOf(ses[r].on)

\* A DELETE statement looks for the rows that are committed when it starts.
\* Rules take one statement; layers take two, first for their users.
StartDelete(r) ==
    /\ ses[r].pc \in {"delete", "deleteLayers"}
    /\ ses' = [ses EXCEPT ![r].aim = Replaced(r),
                          ![r].pc = IF @ = "delete" THEN "deleting"
                                                    ELSE "deletingLayers"]
    /\ Reading

AfterDelete(r) ==
    IF ses[r].on \in Policy THEN "validate"
    ELSE IF ses[r].pc = "deleting" THEN "deleteLayers" ELSE "write"

\* It waits for those that another transaction has deleted, and skips them if
\* that one commits.  Rows committed while it waited are not looked for again.
FinishDelete(r) ==
    /\ ses[r].pc \in {"deleting", "deletingLayers"}
    /\ ~RowsTaken(r, ses[r].aim)
    /\ ses' = [ses EXCEPT ![r].gone = @ \union (ses[r].aim \intersect children),
                          ![r].aim = {},
                          ![r].pc = AfterDelete(r)]
    /\ Reading

\* _validate_target: a plain read, so the answer holds only while it is given.
ScheduleTargets(list) == {list[i] : i \in DOMAIN list} \intersect Schedule

ValidTargets(list) == ScheduleTargets(list) \subseteq exists

Validate(r) ==
    /\ ses[r].pc = "validate"
    /\ IF ValidTargets(ses[r].list)
       THEN Goto(r, IF ses[r].op = "create" THEN "commit" ELSE "write")
       ELSE End(r, "failed")
    /\ Reading

\* UPDATE of the parent and INSERT of the children: both need the parent row.
Write(r) ==
    /\ ses[r].pc = "write"
    /\ ~ParentTaken(r, ses[r].on)
    /\ ~ParentShared(r, ses[r].on)
    /\ IF ses[r].on \in exists THEN Goto(r, "commit") ELSE End(r, "failed")
    /\ Reading

NewRows(r) ==
    IF ses[r].list = Keep THEN {} ELSE Rows(ses[r].on, r, ses[r].list)

Commit(r) ==
    /\ ses[r].pc = "commit"
    /\ exists' = exists \union {ses[r].on}
    /\ children' = (children \ ses[r].gone) \union NewRows(r)
    /\ End(r, "done")
    /\ UNCHANGED <<used, service, view, overlap, faults>>

-----------------------------------------------------------------------------
(* delete_policy, delete_schedule.                                         *)

BeginRemove(r) ==
    \E p \in exists : Begin(r, "remove", p, <<>>, "check") /\ UNCHANGED tables

\* A mistake: only services are asked.
InUseByService(p) == service = p

\* A policy is kept while a service uses it, a schedule while a rule does.
InUse(p) ==
    IF p \in Policy THEN service = p
    ELSE \E c \in children : c.of \in Policy /\ c.target = p

CheckUse(r) ==
    /\ ses[r].pc = "check"
    /\ Goto(r, IF InUse(ses[r].on) THEN "failed" ELSE "remove")
    /\ Reading

\* DELETE of the parent row; deleting no row is only a warning to the ORM.
Remove(r) ==
    /\ ses[r].pc = "remove"
    /\ ~ParentTaken(r, ses[r].on)
    /\ ~ParentShared(r, ses[r].on)
    /\ Goto(r, IF ses[r].on \in exists THEN "cascade" ELSE "done")
    /\ Reading

\* A mistake: the check before the DELETE is all there is.
ForeignKeyMissing(p) == TRUE
\* services.escalation_policy_id has a foreign key, rules.target_id has none.
ForeignKeyHolds(p) == service # p

\* ON DELETE CASCADE, then the commit.
Cascade(r) ==
    /\ ses[r].pc = "cascade"
    /\ ~RowsTaken(r, ChildrenOf(ses[r].on))
    /\ IF ForeignKeyHolds(ses[r].on)
       THEN /\ exists' = exists \ {ses[r].on}
            /\ children' = children \ ChildrenOf(ses[r].on)
            /\ Goto(r, "done")
            /\ UNCHANGED <<used, service, view, overlap, faults>>
       ELSE Fail(r)

-----------------------------------------------------------------------------
(* update_service, create_service: the service starts or stops using a     *)
(* policy.                                                                 *)

BeginAssign(r) ==
    \E p \in exists \intersect Policy :
        Begin(r, "assign", p, <<>>, "assign") /\ UNCHANGED tables

\* The foreign key looks at the policy once more.
Assign(r) ==
    /\ ses[r].pc = "assign"
    /\ ~ParentTaken(r, ses[r].on)
    /\ IF ses[r].on \in exists
       THEN /\ service' = ses[r].on
            /\ Goto(r, "done")
            /\ UNCHANGED <<exists, used, children, view, overlap, faults>>
       ELSE Fail(r)

Unassign(r) ==
    /\ service # None
    /\ Begin(r, "unassign", None, <<>>, "done")
    /\ service' = None
    /\ UNCHANGED <<exists, used, children>>

-----------------------------------------------------------------------------
(* build_escalation_snapshot, called by ingestion: one read per statement. *)

BeginSnapshot(r) ==
    /\ service # None
    /\ Begin(r, "snapshot", service, <<>>, "readPolicy")
    /\ UNCHANGED tables

\* Without the policy there is no snapshot.
ReadPolicy(r) ==
    /\ ses[r].pc = "readPolicy"
    /\ Goto(r, IF ses[r].on \in exists THEN "readRules" ELSE "failed")
    /\ Reading

ReadRules(r) ==
    /\ ses[r].pc = "readRules"
    /\ view' = [view EXCEPT ![r].rules = ChildrenOf(ses[r].on)]
    /\ Goto(r, "nextRule")
    /\ UNCHANGED <<tables, overlap, faults>>

First(rows) == {c \in rows : \A d \in rows : c.pos <= d.pos}

Unanswered(r) == {c \in view[r].rules : \A a \in view[r].paged : a.rule # c}

Answer(r, rule, user) ==
    view' = [view EXCEPT ![r].paged = @ \union {[rule |-> rule, user |-> user]},
                         ![r].rule = None, ![r].layers = {}]

\* A user is taken as is; for a schedule, resolve_oncall reads the layers.
NextRule(r) ==
    /\ ses[r].pc = "nextRule"
    /\ \E c \in First(Unanswered(r)) :
        IF c.target \in User
        THEN Answer(r, c, c.target) /\ UNCHANGED ses
        ELSE /\ view' = [view EXCEPT ![r].rule = c,
                                     ![r].layers = ChildrenOf(c.target)]
             /\ Goto(r, "readUsers")
    /\ UNCHANGED <<tables, overlap, faults>>

SnapshotTaken(r) ==
    /\ ses[r].pc = "nextRule"
    /\ Unanswered(r) = {}
    /\ view' = [view EXCEPT ![r] = NoView]
    /\ End(r, "done")
    /\ UNCHANGED <<tables, overlap, faults>>

\* The users of a layer are read by a statement of its own: they are gone if
\* the layer has been replaced meanwhile, and the next layer is tried.
ReadUsers(r) ==
    /\ ses[r].pc = "readUsers"
    /\ \E l \in First(view[r].layers) :
        IF l \in children
        THEN Answer(r, view[r].rule, l.target) /\ Goto(r, "nextRule")
        ELSE /\ view' = [view EXCEPT ![r].layers = @ \ {l}]
             /\ UNCHANGED ses
    /\ UNCHANGED <<tables, overlap, faults>>

\* A mistake: the last layer is never looked at.
NoLayerLeftShort(r) == Cardinality(view[r].layers) <= 1
NoLayerLeft(r) == view[r].layers = {}

NobodyOnCall(r) ==
    /\ ses[r].pc = "readUsers"
    /\ NoLayerLeft(r)
    /\ Answer(r, view[r].rule, None)
    /\ Goto(r, "nextRule")
    /\ UNCHANGED <<tables, overlap, faults>>

-----------------------------------------------------------------------------
(* PostgreSQL.                                                             *)

\* An update holds child rows and waits for the parent, a delete holds the
\* parent and waits for the child rows: one of the two is aborted.
Deadlocked(q, r) ==
    /\ ses[q].pc = "write" /\ ses[r].pc = "cascade"
    /\ ses[q].on = ses[r].on
    /\ ses[q].gone \intersect ChildrenOf(ses[r].on) # {}

AbortVictim(r) ==
    /\ \E q \in Request : Deadlocked(q, r) \/ Deadlocked(r, q)
    /\ Fail(r)

\* The connection or the process dies: everything is rolled back.
Fault(r) ==
    /\ Open(r)
    /\ faults < MaxFaults
    /\ faults' = faults + 1
    /\ view' = [view EXCEPT ![r] = NoView]
    /\ End(r, "failed")
    /\ UNCHANGED <<tables, overlap>>

-----------------------------------------------------------------------------

\* Whatever requests or seed.py (a schedule with one layer, a policy with a rule
\* for it and one for a user, a service with that policy) have left behind.
Init ==
    /\ used \in SUBSET Parent
    /\ exists = used
    /\ children \in
         {UNION {Rows(p, None, lists[p]) : p \in exists} :
             lists \in {f \in [exists -> RuleLists \union LayerLists] :
                           \A p \in exists : f[p] \in Lists(p) /\ ValidTargets(f[p])}}
    /\ service \in (exists \intersect Policy) \union {None}
    /\ ses = [r \in Request |-> Idle]
    /\ view = [r \in Request |-> NoView]
    /\ overlap = {}
    /\ faults = 0

BeginSome(r) ==
    \/ BeginCreate(r) \/ BeginUpdate(r) \/ BeginRemove(r)
    \/ BeginAssign(r) \/ BeginSnapshot(r) \/ Unassign(r)

Step(r) ==
    \/ StartDelete(r) \/ FinishDelete(r) \/ Validate(r) \/ Write(r) \/ Commit(r)
    \/ CheckUse(r) \/ Remove(r) \/ Cascade(r)
    \/ Assign(r)
    \/ ReadPolicy(r) \/ ReadRules(r) \/ NextRule(r) \/ ReadUsers(r)
    \/ NobodyOnCall(r) \/ SnapshotTaken(r)
    \/ AbortVictim(r)

\* The server may stop only when no request is under way.
Rest == (\A r \in Request : ~Open(r)) /\ UNCHANGED vars

Next == (\E r \in Request : BeginSome(r) \/ Step(r) \/ Fault(r)) \/ Rest

Spec == Init /\ [][Next]_vars

-----------------------------------------------------------------------------
(* Properties.                                                             *)

Child == [of : Parent, by : Request \union {None}, pos : Nat, target : User \union Schedule]

\* Every variable holds what its table or the request's memory can hold; in
\* particular a snapshot answers a rule with a user or with nobody.
TypeOK ==
    /\ exists \subseteq used /\ used \subseteq Parent
    /\ children \subseteq Child
    /\ service \in Policy \union {None}
    /\ \A r \in Request :
        /\ ses[r].on \in Parent \union {None}
        /\ ses[r].aim \union ses[r].gone \subseteq Child
        /\ view[r].rules \union view[r].layers \subseteq Child
        /\ \A a \in view[r].paged : a.rule \in Child /\ a.user \in User \union {None}
    /\ faults \in 0..MaxFaults

\* Updates that replace the rules of a policy (or the layers of a schedule) and
\* race with each other and with deletes never leave a part of a list behind:
\* of every request all rows are there, or none.
ListsWhole ==
    \A c \in children : c.by # None => Rows(c.of, c.by, ses[c.by].list) \subseteq children

\* "Replace all rules", "Replace all layers": rows of two requests stand side by
\* side only if these two overlapped (then they can: a DELETE that waits does not
\* see what the other request inserts, and two that find nothing do not wait).  The rows of an update never join those
\* that were committed before it began.
OneListUnlessRaced ==
    \A c, d \in children :
        c.of = d.of /\ c.by # d.by => Overlapped(c.by, d.by)

\* "Reject if referenced": a service never refers to a policy that is gone and a
\* row never to a parent that is gone, whatever assigns, updates and deletes race.
\* A rule's target is no foreign key: it names a schedule that is gone only if
\* the request that deleted the schedule overlapped the one that wrote the rule,
\* each of them reading before the other has committed.
ReferencesExist ==
    /\ service \in exists \union {None}
    /\ \A c \in children :
         /\ c.of \in exists
         /\ c.of \in Policy /\ c.target \in Schedule \ exists =>
              \E q \in Request : /\ ses[q].op = "remove" /\ ses[q].on = c.target
                                 /\ Overlapped(q, c.by)

\* resolve_oncall finds nobody for a schedule that has layers only if an update
\* or a delete of that schedule overlapped the ingestion that asks: layers and
\* their users are read by two statements, and the layers may have been replaced
\* between them.
NobodyUnlessRaced ==
    [][\A r \in Request :
        ses[r].pc = "readUsers" /\ ses'[r].pc = "nextRule" =>
            \A a \in view'[r].paged \ view[r].paged :
                a.user = None /\ ChildrenOf(a.rule.target) # {} =>
                    \E q \in Request : /\ ses[q].on = a.rule.target
                                       /\ Overlapped(q, r)]_vars

\* The guard of Step(r): the request waits for no lock, or is the victim of a
\* deadlock.
CanStep(r) ==
    \/ ses[r].pc \in {"validate", "commit", "delete", "deleteLayers", "check",
                      "readPolicy", "readRules"}
    \/ ses[r].pc \in {"deleting", "deletingLayers"} /\ ~RowsTaken(r, ses[r].aim)
    \/ /\ ses[r].pc \in {"write", "remove"}
       /\ ~ParentTaken(r, ses[r].on) /\ ~ParentShared(r, ses[r].on)
    \/ ses[r].pc = "cascade" /\ ~RowsTaken(r, ChildrenOf(ses[r].on))
    \/ ses[r].pc = "assign" /\ ~ParentTaken(r, ses[r].on)
    \/ ses[r].pc = "nextRule" /\ (Unanswered(r) = {} \/ First(Unanswered(r)) # {})
    \/ ses[r].pc = "readUsers" /\ (NoLayerLeft(r) \/ First(view[r].layers) # {})
    \/ \E q \in Request : Deadlocked(q, r) \/ Deadlocked(r, q)

\* Requests never all wait for each other.  An update that has deleted the rules
\* waits for the policy while a delete of the policy waits for the rules; the
\* database aborts one of them and there is no other cycle.  As every step takes
\* its request nearer to the end, every request is answered.
SomebodyMoves == (\E r \in Request : Open(r)) => \E r \in Request : CanStep(r)

=============================================================================
