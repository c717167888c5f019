--------------------------- MODULE DirectoryProofs --------------------------
(***************************************************************************)
(* Proofs about Directory, for any number of users, teams, services,       *)
(* requests and keys.                                                      *)
(*                                                                         *)
(* A request decides on facts it has looked up one after the other, and    *)
(* writes when some of them may no longer hold.  SeenInv says that nothing *)
(* which holds at present escapes the history variable seen, so that what  *)
(* a lookup finds true has been seen; Decided says that the facts a        *)
(* request has already passed were seen.                                   *)
(***************************************************************************)
EXTENDS Directory, TLAPS

Deciding == {"primary", "secondary", "commit"}

RequestRow ==
    [pc : {"idle", "record"} \cup Deciding, on : Services \cup {None},
     team : Teams \cup {None}, given : Assignments \cup {None},
     loaded : Assignments \cup {None}, key : Nat]

RequestsOK ==
    /\ request \in [Requests -> RequestRow]
    /\ seen = [r \in Requests |-> seen[r]]
    /\ \A r \in Requests : request[r].pc \in Deciding =>
         LET q == request[r] IN
         /\ q.on \in Services /\ q.team \in teams /\ q.given \in Assignments
         /\ q.loaded # None => service[q.on] # None /\ q.loaded \in Assignments

\* A fact a request depends on that holds now has been seen.
SeenInv ==
    \A r \in Requests : request[r].pc # "idle" =>
        LET q == request[r] IN
        Facts(q) \cap (members \cup {<<q.on, key[q.on]>>}) \subseteq seen[r]

\* The lookups a request has behind it at each of its steps.
Validated(step) ==
    CASE step = "secondary" -> {"primary"} [] step = "commit" -> Roles [] OTHER -> {}

Decided ==
    \A r \in Requests :
        LET q == request[r] IN
        /\ \A role \in Validated(q.pc) : q.given[role] # None =>
             q.given[role] \in users /\ <<q.given[role], q.team>> \in seen[r]
        /\ q.pc = "record" => <<q.on, q.key>> \in seen[r]

Inv == TypeOK /\ RequestsOK /\ SeenInv /\ Decided

-----------------------------------------------------------------------------
LEMMA InitInv == Init => Inv
<1> SUFFICES ASSUME Init PROVE Inv
  OBVIOUS
<1>1. TypeOK
  <2>1. ASSUME NEW s \in Services, service[s] # None
        PROVE  /\ service[s] \in ServiceRow
               /\ service[s].team \in teams
               /\ \A role \in Roles : service[s].oncall[role] \in users \cup {None}
    <3>1. PICK t \in teams : service[s] = [team |-> t, oncall |-> [role \in Roles |-> None]]
      BY <2>1 DEF Init
    <3>. QED  BY <3>1 DEF Init, ServiceRow, Assignments
  <2>. QED  BY <2>1, DirectoryAssumption DEF Init, TypeOK
<1>2. RequestsOK
  BY DEF Init, RequestsOK, RequestRow, Idle, Deciding
<1>3. SeenInv /\ Decided
  BY DEF Init, SeenInv, Decided, Validated, Idle
<1>. QED  BY <1>1, <1>2, <1>3 DEF Inv

\* Whatever fact becomes true, a request that depends on it sees it, and
\* forgets nothing.
LEMMA SeeKeeps ==
    ASSUME Inv, NEW fact, See(fact), UNCHANGED <<request, users>>
    PROVE  /\ seen' = [r \in Requests |-> seen'[r]]
           /\ \A r \in Requests : seen[r] \subseteq seen'[r]
           /\ \A r \in Requests : request[r].pc # "idle" /\ fact \in Facts(request[r])
                                     => fact \in seen'[r]
           /\ Decided'
<1>1. /\ seen' = [r \in Requests |-> seen'[r]]
      /\ \A r \in Requests : seen[r] \subseteq seen'[r]
      /\ \A r \in Requests : request[r].pc # "idle" /\ fact \in Facts(request[r])
                                => fact \in seen'[r]
  BY DEF See, Inv, RequestsOK
<1>2. Decided'
  BY <1>1 DEF Inv, Decided
<1>. QED  BY <1>1, <1>2

LEMMA CreateUserInv ==
    ASSUME Inv, NEW u \in Users, CreateUser(u)
    PROVE  Inv'
<1>1. TypeOK'
  BY DEF Inv, TypeOK, CreateUser
<1>2. RequestsOK'
  BY DEF Inv, RequestsOK, CreateUser
<1>3. SeenInv' /\ Decided'
  BY DEF Inv, SeenInv, Decided, CreateUser
<1>. QED  BY <1>1, <1>2, <1>3 DEF Inv

LEMMA CreateTeamInv ==
    ASSUME Inv, NEW t \in Teams, CreateTeam(t)
    PROVE  Inv'
<1>1. TypeOK'
  BY DEF Inv, TypeOK, CreateTeam
<1>2. RequestsOK'
  BY DEF Inv, RequestsOK, CreateTeam
<1>3. SeenInv' /\ Decided'
  BY DEF Inv, SeenInv, Decided, CreateTeam
<1>. QED  BY <1>1, <1>2, <1>3 DEF Inv

LEMMA AddMemberInv ==
    ASSUME Inv, NEW u \in Users, NEW t \in Teams, AddMember(u, t)
    PROVE  Inv'
<1>1. TypeOK'
  BY DEF Inv, TypeOK, AddMember
<1>2. RequestsOK'
  BY SeeKeeps DEF Inv, RequestsOK, AddMember
<1>3. SeenInv' /\ Decided'
  BY SeeKeeps DEF Inv, SeenInv, AddMember
<1>. QED  BY <1>1, <1>2, <1>3 DEF Inv

LEMMA RemoveMemberInv ==
    ASSUME Inv, NEW u \in Users, NEW t \in Teams, RemoveMember(u, t)
    PROVE  Inv'
<1>1. TypeOK'
  BY DEF Inv, TypeOK, RemoveMember
<1>2. RequestsOK'
  BY DEF Inv, RequestsOK, RemoveMember
<1>3. SeenInv' /\ Decided'
  BY DEF Inv, SeenInv, Decided, RemoveMember
<1>. QED  BY <1>1, <1>2, <1>3 DEF Inv

LEMMA CreateIntegrationInv ==
    ASSUME Inv, NEW s \in Services, CreateIntegration(s)
    PROVE  Inv'
<1>1. TypeOK'
  BY DirectoryAssumption DEF Inv, TypeOK, CreateIntegration
<1>2. RequestsOK'
  BY SeeKeeps DEF Inv, RequestsOK, CreateIntegration
<1>3. SeenInv' /\ Decided'
  BY SeeKeeps DEF Inv, TypeOK, SeenInv, CreateIntegration
<1>. QED  BY <1>1, <1>2, <1>3 DEF Inv

LEMMA RotateKeyInv ==
    ASSUME Inv, NEW s \in Services, RotateKey(s)
    PROVE  Inv'
<1>1. TypeOK'
  BY DirectoryAssumption DEF Inv, TypeOK, RotateKey
<1>2. RequestsOK'
  BY SeeKeeps DEF Inv, RequestsOK, RotateKey
<1>3. SeenInv' /\ Decided'
  BY SeeKeeps DEF Inv, TypeOK, SeenInv, RotateKey
<1>. QED  BY <1>1, <1>2, <1>3 DEF Inv

-----------------------------------------------------------------------------
\* A request that begins has its lookups before it; an event has just had its
\* only one.
LEMMA BeginInv ==
    ASSUME Inv, NEW r \in Requests, NEW new \in RequestRow, BeginAs(r, new),
           new.pc \in {"primary", "record"},
           new.pc = "primary" =>
              /\ new.on \in Services /\ new.team \in teams /\ new.given \in Assignments
              /\ new.loaded # None => service[new.on] # None /\ new.loaded \in Assignments,
           new.pc = "record" => new.key = key[new.on]
    PROVE  Inv'
<1>. USE DEF BeginAs
<1>1. /\ request'[r] = new
      /\ seen'[r] = Facts(new) \cap (members \cup {<<new.on, key[new.on]>>})
      /\ \A x \in Requests \ {r} : request'[x] = request[x] /\ seen'[x] = seen[x]
      /\ request' \in [Requests -> RequestRow] /\ seen' = [x \in Requests |-> seen'[x]]
  BY DEF Inv, RequestsOK
<1>2. TypeOK'
  BY DEF Inv, TypeOK
<1>3. RequestsOK'
  BY <1>1 DEF Inv, RequestsOK, Deciding
<1>4. SeenInv'
  BY <1>1 DEF Inv, SeenInv
<1>5. Decided'
  BY <1>1 DEF Inv, Decided, Validated, Facts
<1>. QED  BY <1>2, <1>3, <1>4, <1>5 DEF Inv

LEMMA BeginCreateInv ==
    ASSUME Inv, NEW r \in Requests, BeginCreate(r)
    PROVE  Inv'
<1>1. PICK s \in Services, t \in teams, given \in Assignments :
         BeginAs(r, [Idle EXCEPT !.pc = "primary", !.on = s, !.team = t, !.given = given])
  BY DEF BeginCreate
<1> DEFINE new == [Idle EXCEPT !.pc = "primary", !.on = s, !.team = t, !.given = given]
<1>2. t \in Teams
  BY DEF Inv, TypeOK
<1>3. /\ new \in RequestRow /\ new.pc = "primary" /\ new.on = s /\ new.team = t
      /\ new.given = given /\ new.loaded = None
  BY <1>2 DEF Idle, RequestRow, Deciding
<1>4. BeginAs(r, new)
  BY <1>1
<1>. HIDE DEF new
<1>. QED  BY <1>3, <1>4, BeginInv

LEMMA BeginUpdateInv ==
    ASSUME Inv, NEW r \in Requests, BeginUpdate(r)
    PROVE  Inv'
<1>1. PICK s \in Services, given \in Assignments :
         /\ service[s] # None
         /\ BeginAs(r, [Idle EXCEPT !.pc = "primary", !.on = s, !.team = service[s].team,
                                    !.given = given, !.loaded = service[s].oncall])
  BY DEF BeginUpdate
<1> DEFINE new == [Idle EXCEPT !.pc = "primary", !.on = s, !.team = service[s].team,
                               !.given = given, !.loaded = service[s].oncall]
<1>2. service[s].team \in teams /\ service[s].team \in Teams /\ service[s].oncall \in Assignments
  BY <1>1 DEF Inv, TypeOK, ServiceRow
<1>3. /\ new \in RequestRow /\ new.pc = "primary" /\ new.on = s /\ new.team = service[s].team
      /\ new.given = given /\ new.loaded = service[s].oncall
  BY <1>2 DEF Idle, RequestRow, Deciding
<1>4. BeginAs(r, new)
  BY <1>1
<1>. HIDE DEF new
<1>. QED  BY <1>1, <1>2, <1>3, <1>4, BeginInv

LEMMA LookUpKeyInv ==
    ASSUME Inv, NEW r \in Requests, LookUpKey(r)
    PROVE  Inv'
<1>1. PICK s \in Services : \E k \in 1 .. key[s] :
         KeyMatches(s, k) /\ BeginAs(r, [Idle EXCEPT !.pc = "record", !.on = s, !.key = k])
  BY DEF LookUpKey
<1>2. PICK k \in 1 .. key[s] :
         KeyMatches(s, k) /\ BeginAs(r, [Idle EXCEPT !.pc = "record", !.on = s, !.key = k])
  BY <1>1
<1> DEFINE new == [Idle EXCEPT !.pc = "record", !.on = s, !.key = k]
<1>3. k \in Nat /\ k = key[s]
  BY <1>2 DEF KeyMatches
<1>4. new \in RequestRow /\ new.pc = "record" /\ new.on = s /\ new.key = k
  BY <1>3 DEF Idle, RequestRow
<1>5. BeginAs(r, new)
  BY <1>2
<1>. HIDE DEF new
<1>. QED  BY <1>3, <1>4, <1>5, BeginInv

-----------------------------------------------------------------------------
\* A request that ends leaves nothing behind it to be explained.
LEMMA EndInv ==
    ASSUME Inv, NEW r \in Requests, End(r), TypeOK', UNCHANGED <<users, teams, members, key>>,
           \A s \in Services : service[s] # None => service'[s] # None
    PROVE  Inv'
<1>. USE DEF End
<1>1. /\ request'[r] = Idle
      /\ \A x \in Requests \ {r} : request'[x] = request[x] /\ seen'[x] = seen[x]
      /\ request' \in [Requests -> RequestRow] /\ seen' = [x \in Requests |-> seen'[x]]
  BY DEF Inv, RequestsOK, Idle, RequestRow
<1>2. RequestsOK'
  BY <1>1 DEF Inv, RequestsOK, Deciding, Idle
<1>3. SeenInv'
  BY <1>1 DEF Inv, SeenInv, Idle
<1>4. Decided'
  BY <1>1 DEF Inv, Decided, Validated, Idle
<1>. QED  BY <1>2, <1>3, <1>4 DEF Inv

LEMMA ValidateInv ==
    ASSUME Inv, NEW r \in Requests,
           NEW role \in Roles, NEW next \in {"secondary", "commit"}, Validate(r, role, next),
           role = "primary" => next = "secondary", role = "secondary" => next = "commit"
    PROVE  Inv'
<1>1. TypeOK'
  BY DEF Inv, TypeOK, Validate
<1>2. CASE End(r)
  BY <1>1, <1>2, EndInv DEF Validate
<1>3. CASE ~End(r)
  <2>1. /\ request[r].pc = role
        /\ request[r].given[role] = None \/ <<request[r].given[role], request[r].team>> \in members
        /\ Goto(r, next) /\ UNCHANGED <<seen, users, teams, members, service, key>>
    BY <1>3 DEF Validate, MemberOf
  <2>2. /\ request'[r].pc = next /\ request'[r].on = request[r].on
        /\ request'[r].team = request[r].team /\ request'[r].given = request[r].given
        /\ request'[r].loaded = request[r].loaded /\ request'[r].key = request[r].key
        /\ \A x \in Requests \ {r} : request'[x] = request[x]
        /\ request' \in [Requests -> RequestRow]
    BY <2>1 DEF Inv, RequestsOK, Goto, RequestRow, Deciding
  <2>3. request[r].pc \in Deciding /\ next \in Deciding
    BY <2>1 DEF Roles, Deciding
  <2>4. RequestsOK'
    BY <2>1, <2>2, <2>3 DEF Inv, RequestsOK
  <2>5. Facts(request[r])' = Facts(request[r])
    BY <2>2, <2>3 DEF Facts, Deciding
  <2>6. SeenInv'
    BY <2>1, <2>2, <2>3, <2>5 DEF Inv, SeenInv, Deciding
  <2>7. request[r].given[role] # None =>
           /\ request[r].given[role] \in users
           /\ <<request[r].given[role], request[r].team>> \in seen[r]
    BY <2>1, <2>3 DEF Inv, TypeOK, SeenInv, Facts, Deciding
  <2>8. Decided'
    BY <2>1, <2>2, <2>7 DEF Inv, Decided, Validated, Roles
  <2>. QED  BY <1>1, <2>4, <2>6, <2>8 DEF Inv
<1>. QED  BY <1>2, <1>3

LEMMA CommitCreateInv ==
    ASSUME Inv, NEW r \in Requests, CommitCreate(r)
    PROVE  Inv'
<1> DEFINE q == request[r]
           new == [team |-> q.team, oncall |-> q.given]
<1>1. q.on \in Services /\ q.team \in teams /\ q.given \in Assignments /\ new \in ServiceRow
  BY DEF Inv, TypeOK, RequestsOK, CommitCreate, Deciding, ServiceRow
<1>2. \A role \in Roles : q.given[role] \in users \cup {None}
  BY DEF Inv, Decided, Validated, CommitCreate
<1>3. TypeOK'
  BY <1>1, <1>2 DEF Inv, TypeOK, CommitCreate
<1>4. End(r) /\ UNCHANGED <<users, teams, members, key>>
  BY DEF CommitCreate
<1>5. \A s \in Services : service[s] # None => service'[s] # None
  BY DEF Inv, TypeOK, CommitCreate
<1>. QED  BY <1>3, <1>4, <1>5, EndInv

LEMMA CommitUpdateInv ==
    ASSUME Inv, NEW r \in Requests, CommitUpdate(r)
    PROVE  Inv'
<1> DEFINE q == request[r]
           row == service[q.on]
<1>1. /\ q.on \in Services /\ q.given \in Assignments /\ q.loaded \in Assignments
      /\ row \in ServiceRow /\ row # None /\ row.team \in teams
      /\ \A role \in Roles : row.oncall[role] \in users \cup {None}
  BY DEF Inv, TypeOK, RequestsOK, CommitUpdate, Deciding
<1>2. \A role \in Roles : q.given[role] \in users \cup {None}
  BY DEF Inv, Decided, Validated, CommitUpdate
<1> DEFINE oncall == Write(row.oncall, q.loaded, Named(q.loaded, q.given))
<1>3. /\ oncall \in Assignments
      /\ \A role \in Roles : oncall[role] \in users \cup {None}
  BY <1>1, <1>2 DEF Write, Named, ServiceRow, Assignments
<1>4. service' = [service EXCEPT ![q.on].oncall = oncall]
  BY DEF CommitUpdate
<1>. HIDE DEF oncall
<1>5. /\ service'[q.on] = [row EXCEPT !.oncall = oncall]
      /\ \A s \in Services \ {q.on} : service'[s] = service[s]
  BY <1>1, <1>4 DEF Inv, TypeOK
<1>6. service'[q.on] \in ServiceRow /\ service'[q.on].team = row.team /\ service'[q.on].oncall = oncall
  BY <1>1, <1>3, <1>5 DEF ServiceRow
<1>7. End(r) /\ UNCHANGED <<users, teams, members, key>>
  BY DEF CommitUpdate
<1>8. TypeOK'
  <2>1. service' \in [Services -> ServiceRow \cup {None}]
    BY <1>1, <1>4, <1>5, <1>6 DEF Inv, TypeOK
  <2>2. ASSUME NEW s \in Services, service'[s] # None
        PROVE  /\ service'[s].team \in teams
               /\ \A role \in Roles : service'[s].oncall[role] \in users \cup {None}
    <3>1. CASE s = q.on
      BY <1>1, <1>3, <1>6, <3>1
    <3>2. CASE s # q.on
      BY <1>5, <2>2, <3>2 DEF Inv, TypeOK
    <3>. QED  BY <3>1, <3>2
  <2>. QED  BY <1>7, <2>1, <2>2 DEF Inv, TypeOK
<1>9. \A s \in Services : service[s] # None => service'[s] # None
  BY <1>5, <1>6, DirectoryAssumption
<1>. QED  BY <1>7, <1>8, <1>9, EndInv

LEMMA RecordInv ==
    ASSUME Inv, NEW r \in Requests, Record(r)
    PROVE  Inv'
<1>1. TypeOK'
  BY DEF Inv, TypeOK, Record
<1>. QED  BY <1>1, EndInv DEF Record

LEMMA NextInv == Inv /\ [Next]_vars => Inv'
<1> SUFFICES ASSUME Inv, [Next]_vars PROVE Inv'
  OBVIOUS
<1>1. ASSUME NEW r \in Requests,
             Validate(r, "primary", "secondary") \/ Validate(r, "secondary", "commit")
      PROVE  Inv'
  BY <1>1, ValidateInv DEF Roles
<1>2. ASSUME NEW r \in Requests,
             \/ BeginCreate(r) \/ BeginUpdate(r) \/ CommitCreate(r) \/ CommitUpdate(r)
             \/ LookUpKey(r) \/ Record(r)
      PROVE  Inv'
  BY <1>2, BeginCreateInv, BeginUpdateInv, CommitCreateInv, CommitUpdateInv, LookUpKeyInv, RecordInv
<1>3. CASE UNCHANGED vars
  BY <1>3 DEF vars, Inv, TypeOK, RequestsOK, SeenInv, Decided
<1>. QED
  BY <1>1, <1>2, <1>3, CreateUserInv, CreateTeamInv, AddMemberInv, RemoveMemberInv,
     CreateIntegrationInv, RotateKeyInv DEF Next

LEMMA Invariance == Spec => []Inv
BY InitInv, NextInv, PTL DEF Spec

-----------------------------------------------------------------------------
\* Every variable keeps its type; whoever is on call for a service is a user,
\* and its team is a team.
THEOREM TypeCorrect == Spec => []TypeOK
<1>1. Inv => TypeOK
  BY DEF Inv
<1>. QED  BY <1>1, Invariance, PTL

\* Nobody is put on call who was at no time of the request in the team of the
\* service, and no event is recorded under a key that was at no time valid.
THEOREM DecisionsAreTrue == Spec => DecidedOnTheTruth
<1>1. ASSUME Inv, NEW r \in Requests
      PROVE  LET q == request[r] IN
             /\ q.pc = "commit" /\ service'[q.on] # service[q.on] =>
                  \A role \in Roles : q.given[role] # None => <<q.given[role], q.team>> \in seen[r]
             /\ q.pc = "record" /\ request'[r].pc = "idle" => <<q.on, q.key>> \in seen[r]
  BY <1>1 DEF Inv, Decided, Validated
<1>2. Inv => [\A r \in Requests :
                LET q == request[r] IN
                /\ q.pc = "commit" /\ service'[q.on] # service[q.on] =>
                     \A role \in Roles : q.given[role] # None => <<q.given[role], q.team>> \in seen[r]
                /\ q.pc = "record" /\ request'[r].pc = "idle" => <<q.on, q.key>> \in seen[r]]_vars
  BY <1>1
<1>. QED  BY <1>2, Invariance, PTL DEF DecidedOnTheTruth

\* A request that is about to commit ends by its own COMMIT only.
LEMMA OnlyCommitEnds ==
    ASSUME Inv, [Next]_vars, NEW r \in Requests, request[r].pc = "commit",
           request[r].loaded # None, request'[r].pc = "idle"
    PROVE  CommitUpdate(r)
<1>1. ASSUME NEW x \in Requests, x # r, \E new : request' = [request EXCEPT ![x] = new]
      PROVE  request'[r] = request[r]
  BY <1>1
<1>2. ASSUME UNCHANGED request PROVE FALSE
  BY <1>2
<1>3. ASSUME NEW x \in Requests, NEW new, BeginAs(x, new) PROVE FALSE
  <2>1. x # r
    BY <1>3 DEF BeginAs
  <2>. QED  BY <1>1, <1>3, <2>1 DEF BeginAs
<1>4. ASSUME NEW x \in Requests, BeginCreate(x) \/ BeginUpdate(x) \/ LookUpKey(x) PROVE FALSE
  BY <1>3, <1>4 DEF BeginCreate, BeginUpdate, LookUpKey
<1>5. ASSUME NEW x \in Requests, NEW role \in Roles, NEW next, Validate(x, role, next) PROVE FALSE
  <2>1. x # r
    BY <1>5 DEF Validate, Roles
  <2>2. \E new : request' = [request EXCEPT ![x] = new]
    BY <1>5 DEF Validate, Goto, End
  <2>. QED  BY <1>1, <2>1, <2>2
<1>6. ASSUME NEW x \in Requests, CommitCreate(x) \/ Record(x) PROVE FALSE
  <2>1. x # r
    BY <1>6 DEF CommitCreate, Record
  <2>2. \E new : request' = [request EXCEPT ![x] = new]
    BY <1>6 DEF CommitCreate, Record, End
  <2>. QED  BY <1>1, <2>1, <2>2
<1>7. ASSUME NEW x \in Requests, CommitUpdate(x), x # r PROVE FALSE
  BY <1>7 DEF CommitUpdate, End
<1>. QED
  BY <1>2, <1>4, <1>5, <1>6, <1>7
     DEF Next, vars, Roles, CreateUser, CreateTeam, AddMember, RemoveMember, CreateIntegration, RotateKey

\* An update of a service puts in whom it names and leaves the other roles
\* alone; it is without effect only where it names whom it had loaded.
THEOREM UpdatesDoCompose == Spec => UpdatesCompose
<1> DEFINE Composes(r) ==
      LET q == request[r] IN
      q.pc = "commit" /\ q.loaded # None /\ request'[r].pc = "idle" =>
         \A role \in Roles :
           LET before == service[q.on].oncall[role]
               after == service'[q.on].oncall[role] IN
           IF q.given[role] = None THEN after = before
           ELSE after = q.given[role] \/ (after = before /\ q.given[role] = q.loaded[role])
<1>1. ASSUME Inv, [Next]_vars, NEW r \in Requests
      PROVE  Composes(r)
  <2> DEFINE q == request[r]
  <2>. SUFFICES ASSUME q.pc = "commit", q.loaded # None, request'[r].pc = "idle",
                       NEW role \in Roles
                PROVE  LET before == service[q.on].oncall[role]
                           after == service'[q.on].oncall[role] IN
                       IF q.given[role] = None THEN after = before
                       ELSE after = q.given[role] \/ (after = before /\ q.given[role] = q.loaded[role])
    OBVIOUS
  <2>1. CommitUpdate(r)
    BY <1>1, OnlyCommitEnds
  <2>2. q.on \in Services /\ q.given \in Assignments /\ q.loaded \in Assignments
        /\ service[q.on] \in ServiceRow
    BY <1>1 DEF Inv, TypeOK, RequestsOK, Deciding
  <2>3. service'[q.on].oncall = Write(service[q.on].oncall, q.loaded, Named(q.loaded, q.given))
    BY <1>1, <2>1, <2>2 DEF CommitUpdate, Inv, TypeOK, ServiceRow
  <2>. QED  BY <2>2, <2>3 DEF Write, Named, ServiceRow, Assignments
<1>2. Inv /\ [Next]_vars => \A r \in Requests : Composes(r)
  BY <1>1
<1>. QED  BY <1>2, Invariance, PTL DEF Spec, UpdatesCompose
=============================================================================
