------------------------------ MODULE Directory -----------------------------
(***************************************************************************)
(* Teams, users, memberships, services with their two on-call users, and   *)
(* the keys of their integrations.                                         *)
(*                                                                         *)
(* Most requests are one check and one write, with a unique column to stop *)
(* whoever comes second: they are one step here.  Two kinds are not.  A    *)
(* request that creates or updates a service looks its on-call users up in *)
(* the team one after the other and commits later; an update writes the    *)
(* columns that differ from the row it loaded at first.  And an event is   *)
(* let in by its integration key long before it is recorded.               *)
(***************************************************************************)
EXTENDS Naturals

CONSTANTS
    Users,     \* users, named by their unique e-mail
    Teams,     \* teams, by slug
    Services,  \* services, by slug
    Requests,  \* requests that take several steps
    None,      \* NULL
    MaxKey     \* bound on the keys an integration is given

VARIABLES
    users, teams,  \* the rows there are
    members,       \* memberships: <<user, team>>
    service,       \* the services: None, or team and on-call users
    key,           \* the current key of a service's integration, 0 before it has one
    request,       \* requests under way
    seen           \* history: of the facts a request decides on (that a user it
                   \* names is in its team, that its key is valid) those that
                   \* were true at some time since it began

vars == <<users, teams, members, service, key, request, seen>>

Roles == {"primary", "secondary"}

Assignments == [Roles -> Users \cup {None}]

ServiceRow == [team : Teams, oncall : Assignments]

ASSUME DirectoryAssumption ==
    /\ None \notin Users \cup Teams \cup ServiceRow
    /\ MaxKey \in Nat \ {0}

Idle == [pc |-> "idle", on |-> None, team |-> None, given |-> None, loaded |-> None, key |-> 0]

Init ==
    /\ users \in SUBSET Users /\ teams \in SUBSET Teams
    /\ members \in SUBSET (users \X teams)
    /\ service \in [Services -> {None} \cup
                                {[team |-> t, oncall |-> [role \in Roles |-> None]] : t \in teams}]
    /\ key = [s \in Services |-> 0]
    /\ request = [r \in Requests |-> Idle]
    /\ seen = [r \in Requests |-> {}]

-----------------------------------------------------------------------------
(***************************************************************************)
(* Requests of one step.  Users, teams and services are never deleted.     *)
(***************************************************************************)
CreateUser(u) ==
    /\ u \notin users
    /\ users' = users \cup {u}
    /\ UNCHANGED <<teams, members, service, key, request, seen>>

CreateTeam(t) ==
    /\ t \notin teams
    /\ teams' = teams \cup {t}
    /\ UNCHANGED <<users, members, service, key, request, seen>>

Facts(q) ==
    IF q.pc = "record" THEN {<<q.on, q.key>>}
    ELSE {<<q.given[role], q.team>> : role \in Roles}

\* What becomes true is seen by the requests under way.
See(fact) ==
    seen' = [r \in Requests |->
               IF request[r].pc # "idle" /\ fact \in Facts(request[r])
               THEN seen[r] \cup {fact} ELSE seen[r]]

AddMember(u, t) ==
    /\ u \in users /\ t \in teams
    /\ <<u, t>> \notin members
    /\ members' = members \cup {<<u, t>>}
    /\ See(<<u, t>>)
    /\ UNCHANGED <<users, teams, service, key, request>>

\* Whether the user is on call for a service of the team is not asked.
RemoveMember(u, t) ==
    /\ <<u, t>> \in members
    /\ members' = members \ {<<u, t>>}
    /\ UNCHANGED <<users, teams, service, key, request, seen>>

\* Creating the integration gives it its first key.
CreateIntegration(s) ==
    /\ service[s] # None /\ key[s] = 0
    /\ key' = [key EXCEPT ![s] = 1]
    /\ See(<<s, 1>>)
    /\ UNCHANGED <<users, teams, members, service, request>>

RotateKey(s) ==
    /\ key[s] \in 1 .. MaxKey - 1
    /\ key' = [key EXCEPT ![s] = @ + 1]
    /\ See(<<s, key[s] + 1>>)
    /\ UNCHANGED <<users, teams, members, service, request>>

-----------------------------------------------------------------------------
(***************************************************************************)
(* Creating and updating a service.                                        *)
(***************************************************************************)
BeginAs(r, new) ==
    /\ request[r].pc = "idle"
    /\ request' = [request EXCEPT ![r] = new]
    /\ seen' = [seen EXCEPT ![r] = Facts(new) \cap (members \cup {<<new.on, key[new.on]>>})]
    /\ UNCHANGED <<users, teams, members, service, key>>

BeginCreate(r) ==
    \E s \in Services, t \in teams, given \in Assignments :
        /\ service[s] = None
        /\ BeginAs(r, [Idle EXCEPT !.pc = "primary", !.on = s, !.team = t, !.given = given])

BeginUpdate(r) ==
    \E s \in Services, given \in Assignments :
        /\ service[s] # None
        /\ BeginAs(r, [Idle EXCEPT !.pc = "primary", !.on = s, !.team = service[s].team,
                                   !.given = given, !.loaded = service[s].oncall])

Goto(r, step) == request' = [request EXCEPT ![r].pc = step]

End(r) ==
    /\ request' = [request EXCEPT ![r] = Idle]
    /\ seen' = [seen EXCEPT ![r] = {}]

UserExists(u, team) == u \in users

MemberOf(u, team) == <<u, team>> \in members

\* _validate_oncall_users: 400 for who is not in the team of the service.
Validate(r, role, next) ==
    LET u == request[r].given[role] IN
    /\ request[r].pc = role
    /\ IF u = None \/ MemberOf(u, request[r].team)
       THEN Goto(r, next) /\ UNCHANGED seen
       ELSE End(r)
    /\ UNCHANGED <<users, teams, members, service, key>>

NamedOrNull(loaded, given) == given

\* The attributes after the assignments of update_service.
Named(loaded, given) ==
    [role \in Roles |-> IF given[role] = None THEN loaded[role] ELSE given[role]]

\* The UPDATE of a flush: the columns that differ from the loaded row.
Write(row, loaded, new) ==
    [c \in DOMAIN row |-> IF new[c] = loaded[c] THEN row[c] ELSE new[c]]

\* The service with this slug may be there by now: IntegrityError.
CommitCreate(r) ==
    LET s == request[r].on
        new == [team |-> request[r].team, oncall |-> request[r].given] IN
    /\ request[r].pc = "commit" /\ request[r].loaded = None
    /\ service' = [service EXCEPT ![s] = IF @ = None THEN new ELSE @]
    /\ End(r)
    /\ UNCHANGED <<users, teams, members, key>>

CommitUpdate(r) ==
    LET q == request[r] IN
    /\ q.pc = "commit" /\ q.loaded # None
    /\ service' = [service EXCEPT ![q.on].oncall = Write(@, q.loaded, Named(q.loaded, q.given))]
    /\ End(r)
    /\ UNCHANGED <<users, teams, members, key>>

-----------------------------------------------------------------------------
(***************************************************************************)
(* An event: the lookup of its key, and its COMMIT.  What comes between is *)
(* Ingest; of the integration row it writes last_event_at only.            *)
(***************************************************************************)
AnyKey(s, k) == k \in 1 .. key[s]

KeyMatches(s, k) == k = key[s]

LookUpKey(r) ==
    \E s \in Services : \E k \in 1 .. key[s] :
        /\ KeyMatches(s, k)
        /\ BeginAs(r, [Idle EXCEPT !.pc = "record", !.on = s, !.key = k])

Record(r) ==
    /\ request[r].pc = "record"
    /\ End(r)
    /\ UNCHANGED <<users, teams, members, service, key>>

Next ==
    \/ \E u \in Users : CreateUser(u) \/ \E t \in Teams : AddMember(u, t) \/ RemoveMember(u, t)
    \/ \E t \in Teams : CreateTeam(t)
    \/ \E s \in Services : CreateIntegration(s) \/ RotateKey(s)
    \/ \E r \in Requests :
         \/ BeginCreate(r) \/ BeginUpdate(r)
         \/ Validate(r, "primary", "secondary") \/ Validate(r, "secondary", "commit")
         \/ CommitCreate(r) \/ CommitUpdate(r)
         \/ LookUpKey(r) \/ Record(r)

Spec == Init /\ [][Next]_vars

-----------------------------------------------------------------------------
(***************************************************************************)
(* Properties.                                                             *)
(***************************************************************************)

\* Every variable keeps its type, and rows refer to rows that are there.
TypeOK ==
    /\ users \subseteq Users /\ teams \subseteq Teams
    /\ members \subseteq users \X teams
    /\ service \in [Services -> ServiceRow \cup {None}]
    /\ \A s \in Services : service[s] # None =>
         /\ service[s].team \in teams
         /\ \A role \in Roles : service[s].oncall[role] \in users \cup {None}
    /\ key \in [Services -> 0 .. MaxKey]

\* Nobody is put on call who was in the service's team at no time while the
\* request ran (who leaves the team later stays on call), and no event is
\* recorded under a key that was valid at no time while its request ran: "the
\* old key stops working immediately" for every request that comes later.
DecidedOnTheTruth ==
    [][\A r \in Requests :
         LET q == request[r] IN
         /\ q.pc = "commit" /\ service'[q.on] # service[q.on] =>
              \A role \in Roles : q.given[role] # None => <<q.given[role], q.team>> \in seen[r]
         /\ q.pc = "record" /\ request'[r].pc = "idle" => <<q.on, q.key>> \in seen[r]]_vars

\* Two updates of a service do not undo each other: one that does not name a
\* role keeps who was put there meanwhile, and one that does gets its user in -
\* unless that user was there already when it loaded the row and has been
\* replaced since: then it writes nothing, and answers 200 all the same.
UpdatesCompose ==
    [][\A r \in Requests :
         LET q == request[r] IN
         q.pc = "commit" /\ q.loaded # None /\ request'[r].pc = "idle" =>
            \A role \in Roles :
              LET before == service[q.on].oncall[role]
                  after == service'[q.on].oncall[role] IN
              IF q.given[role] = None THEN after = before
              ELSE after = q.given[role] \/ (after = before /\ q.given[role] = q.loaded[role])]_vars
=============================================================================
