-------------------------- MODULE PolicyAdminProofs --------------------------
(***************************************************************************)
(* Proofs about PolicyAdmin, for any number of requests, policies,         *)
(* schedules and users and any lists of rules and layers.                  *)
(*                                                                         *)
(* A request reads in one statement and writes in a later one.  Whatever   *)
(* it has read stays true except for what a request that was open at the   *)
(* same time has committed; the inductive invariant says so of each read:  *)
(* of the rows a DELETE found, of the schedules a rule names, of the rules *)
(* that were looked up before a schedule is deleted, and of the layers an  *)
(* ingestion has read.  As any two open requests overlap (Met), what one   *)
(* of them missed is always the work of an overlapping request.            *)
(***************************************************************************)
EXTENDS PolicyAdmin, WellFoundedInduction, TLAPS

Phase == {"idle", "validate", "commit", "write", "delete", "deleting", "deleteLayers",
          "deletingLayers", "check", "remove", "cascade", "assign", "readPolicy",
          "readRules", "nextRule", "readUsers", "done", "failed"}

Operation == {"create", "update", "remove", "assign", "unassign", "snapshot", "none"}

List == Seq(User \cup Schedule) \cup {Keep}

Session == [pc : Phase, op : Operation, on : Parent \cup {None}, list : List,
            aim : SUBSET Child, gone : SUBSET Child]

View == [rules : SUBSET Child, rule : Child \cup {None}, layers : SUBSET Child,
         paged : SUBSET [rule : Child, user : User \cup {None}]]

Typed ==
    /\ exists \subseteq used /\ used \subseteq Parent
    /\ children \subseteq Child
    /\ service \in Policy \cup {None}
    /\ ses \in [Request -> Session]
    /\ view \in [Request -> View]
    /\ overlap \subseteq SUBSET Request
    /\ faults \in 0 .. MaxFaults

\* Where a request of each kind can be.
PhaseOK(r) ==
    LET q == ses[r] IN
    /\ q.pc = "idle" => q.op = "none" /\ q.on = None
    /\ Open(r) => q.on \in used
    /\ q.on \in used \cup {None}
    /\ q.pc = "validate" => q.op \in {"create", "update"} /\ q.on \in Policy
    /\ q.pc = "commit" => q.op \in {"create", "update"}
    /\ q.pc \in {"write", "delete", "deleting", "deleteLayers", "deletingLayers"} => q.op = "update"
    /\ q.pc \in {"deleteLayers", "deletingLayers"} => q.on \in Schedule
    /\ q.pc \in {"validate", "delete", "deleting", "deleteLayers", "deletingLayers"} => q.list # Keep
    /\ q.op \in {"create", "update"} => q.list \in Lists(q.on) \cup {Keep}
    /\ q.op = "create" => q.list # Keep
    /\ q.pc \in {"check", "remove", "cascade"} => q.op = "remove"
    /\ q.pc = "assign" => q.op = "assign" /\ q.on \in Policy
    /\ q.pc \in {"readPolicy", "readRules", "nextRule", "readUsers"} => q.op = "snapshot"

\* The request that wrote a row has committed.
Committed(b) == b = None \/ ses[b].pc = "done"

\* With a row, all rows its request wrote for the parent.
Whole(rows) == \A c \in rows, d \in children : c.of = d.of /\ c.by = d.by => d \in rows

\* What the DELETE statements of a request found.
DeletesOK(r) ==
    /\ \A c \in ses[r].aim \cup ses[r].gone : Committed(c.by)
    /\ Whole(ses[r].aim) /\ Whole(ses[r].gone)

\* The rows of the parent that an update does not replace are those of requests
\* that overlapped it.
ReplacesOK(r) ==
    ses[r].op = "update" /\ ses[r].list # Keep =>
        /\ ses[r].pc \in {"deleting", "deletingLayers"} =>
             \A d \in ChildrenOf(ses[r].on) :
                d \in ses[r].aim \cup ses[r].gone \/ Overlapped(d.by, r)
        /\ ses[r].pc \in {"deleteLayers", "validate", "write", "commit"} =>
             \A d \in ChildrenOf(ses[r].on) : d \in ses[r].gone \/ Overlapped(d.by, r)

\* The schedule was deleted by a request that overlapped b.
RemovedBeside(s, b) ==
    \E q \in Request : ses[q].op = "remove" /\ ses[q].on = s /\ Overlapped(q, b)

\* What was true of targets when it was checked may have changed beside.
TargetsOK(r) ==
    LET q == ses[r] IN
    /\ q.pc \in {"write", "commit"} /\ q.on \in Policy /\ q.list # Keep =>
         \A s \in ScheduleTargets(q.list) \ exists : RemovedBeside(s, r)
    /\ q.pc \in {"remove", "cascade"} /\ q.on \in Schedule =>
         \A c \in children : c.of \in Policy /\ c.target = q.on => Overlapped(r, c.by)

ChangedBeside(s, r) == \E q \in Request : ses[q].on = s /\ Overlapped(q, r)

\* The layers an ingestion has read and not yet tried.
ViewOK(r) ==
    ses[r].pc = "readUsers" =>
        LET rule == view[r].rule IN
        /\ rule \in Child /\ rule.target \in Schedule
        /\ view[r].layers \subseteq {l \in Child : l.of = rule.target /\ l.target \in User}
        /\ \A l \in ChildrenOf(rule.target) :
              l \in view[r].layers \/ ChangedBeside(rule.target, r)

SessionOK(r) ==
    PhaseOK(r) /\ DeletesOK(r) /\ ReplacesOK(r) /\ TargetsOK(r) /\ ViewOK(r)

RowOK(c) ==
    /\ c.of \in exists
    /\ c.of \in Schedule => c.target \in User
    /\ Committed(c.by)
    /\ c.by # None => Rows(c.of, c.by, ses[c.by].list) \subseteq children
    /\ \A d \in children : c.of = d.of /\ c.by # d.by => Overlapped(c.by, d.by)
    /\ c.of \in Policy /\ c.target \in Schedule \ exists => RemovedBeside(c.target, c.by)

\* Open requests overlap, and a parent is created by one of them.
Met ==
    \A q, r \in Request : q # r =>
        /\ Open(q) /\ Open(r) => Overlapped(q, r)
        /\ ses[q].op = "create" /\ ses[r].op = "create" => ses[q].on # ses[r].on
        /\ ses[q].pc = "cascade" /\ ses[r].pc = "commit" /\ ses[r].op = "update" =>
              ses[q].on # ses[r].on

\* A new parent is there with its commit; the lock of an update keeps its parent.
ParentsOK(r) ==
    /\ Open(r) /\ ses[r].op = "create" => ses[r].on \notin exists
    /\ ses[r].pc = "commit" /\ ses[r].op = "update" => ses[r].on \in exists

Inv ==
    /\ Typed
    /\ \A r \in Request : SessionOK(r) /\ ParentsOK(r)
    /\ \A c \in children : RowOK(c)
    /\ Met
    /\ service \in exists \cup {None}

\* One request moves; its neighbours keep what they know.
Progress(r) ==
    /\ \A x \in Request \ {r} : ses'[x] = ses[x] /\ view'[x] = view[x]
    /\ overlap \subseteq overlap' /\ used \subseteq used'
    /\ ses[r].pc # "done"
    /\ ses[r].pc # "idle" => /\ ses'[r].op = ses[r].op /\ ses'[r].on = ses[r].on
                             /\ ses'[r].list = ses[r].list

Quiet(r) == Progress(r) /\ exists' = exists /\ children' = children

-----------------------------------------------------------------------------
(***************************************************************************)
(* What stays true while somebody else moves.                              *)
(***************************************************************************)
LEMMA InitInv == Init => Inv
<1> SUFFICES ASSUME Init PROVE Inv
  OBVIOUS
<1>1. /\ used \subseteq Parent /\ exists = used /\ service \in (exists \cap Policy) \cup {None}
      /\ ses = [r \in Request |-> Idle] /\ view = [r \in Request |-> NoView]
      /\ overlap = {} /\ faults = 0
  BY DEF Init
<1>2. PICK lists \in [exists -> RuleLists \cup LayerLists] :
         /\ \A p \in exists : lists[p] \in Lists(p) /\ ValidTargets(lists[p])
         /\ children = UNION {Rows(p, None, lists[p]) : p \in exists}
  BY DEF Init
<1>3. \A c \in children : \E p \in exists : \E i \in DOMAIN lists[p] :
         c = [of |-> p, by |-> None, pos |-> i, target |-> lists[p][i]]
  BY <1>2 DEF Rows
<1>4. ASSUME NEW c \in children
      PROVE  c \in Child /\ RowOK(c)
  <2>1. PICK p \in exists : \E i \in DOMAIN lists[p] :
           c = [of |-> p, by |-> None, pos |-> i, target |-> lists[p][i]]
    BY <1>3
  <2>2. PICK i \in DOMAIN lists[p] :
           c = [of |-> p, by |-> None, pos |-> i, target |-> lists[p][i]]
    BY <2>1
  <2>3. lists[p] \in Seq(User \cup Schedule) /\ (p \in Schedule => lists[p] \in Seq(User))
    BY <1>1, <1>2, AdminAssumption DEF Lists, Parent
  <2>4. i \in Nat /\ lists[p][i] \in User \cup Schedule /\ (p \in Schedule => lists[p][i] \in User)
    BY <2>3
  <2>5. c.of = p /\ c.by = None /\ c.target = lists[p][i]
    BY <2>2
  <2>6. c \in Child
    BY <1>1, <2>2, <2>4 DEF Child
  <2>7. \A d \in children : d.by = None
    BY <1>3
  <2>8. c.target \in Schedule => c.target \in exists
    BY <1>2, <2>2, <2>5 DEF ValidTargets, ScheduleTargets
  <2>. QED  BY <2>4, <2>5, <2>6, <2>7, <2>8 DEF RowOK, Committed
<1>5. Idle \in Session /\ NoView \in View
  BY DEF Idle, Session, Phase, Operation, List, NoView, View
<1>6. Typed
  BY <1>1, <1>4, <1>5, AdminAssumption DEF Typed
<1>7. \A r \in Request : /\ ses[r].pc = "idle" /\ ses[r].op = "none" /\ ses[r].on = None
                         /\ ses[r].aim = {} /\ ses[r].gone = {}
  BY <1>1 DEF Idle
<1>8. \A r \in Request : SessionOK(r) /\ ParentsOK(r)
  BY <1>7 DEF SessionOK, PhaseOK, DeletesOK, Whole, ReplacesOK, TargetsOK, ViewOK, ParentsOK, Open
<1>9. Met
  BY <1>7 DEF Met, Open
<1>. QED  BY <1>1, <1>4, <1>6, <1>8, <1>9 DEF Inv

LEMMA StaysCommitted ==
    ASSUME Typed, NEW r \in Request, Progress(r), NEW b \in Request \cup {None}, Committed(b)
    PROVE  Committed(b)'
BY DEF Committed, Progress

LEMMA StaysOverlapped ==
    ASSUME NEW r \in Request, Progress(r), NEW a, NEW b, Overlapped(a, b)
    PROVE  Overlapped(a, b)'
BY DEF Overlapped, Progress

LEMMA StaysRemoved ==
    ASSUME NEW r \in Request, Progress(r), PhaseOK(r), NEW s, NEW b, RemovedBeside(s, b)
    PROVE  RemovedBeside(s, b)'
<1>1. PICK q \in Request : ses[q].op = "remove" /\ ses[q].on = s /\ Overlapped(q, b)
  BY DEF RemovedBeside
<1>2. ses'[q].op = "remove" /\ ses'[q].on = s
  BY <1>1 DEF Progress, PhaseOK
<1>3. Overlapped(q, b)'
  BY <1>1, StaysOverlapped
<1>. QED  BY <1>2, <1>3 DEF RemovedBeside

LEMMA StaysChanged ==
    ASSUME NEW r \in Request, Progress(r), PhaseOK(r), NEW s, s # None, NEW b, ChangedBeside(s, b)
    PROVE  ChangedBeside(s, b)'
<1>1. PICK q \in Request : ses[q].on = s /\ Overlapped(q, b)
  BY DEF ChangedBeside
<1>2. ses'[q].on = s
  BY <1>1 DEF Progress, PhaseOK
<1>3. Overlapped(q, b)'
  BY <1>1, StaysOverlapped
<1>. QED  BY <1>2, <1>3 DEF ChangedBeside

LEMMA QuietOthers ==
    ASSUME Typed, NEW r \in Request, Quiet(r), PhaseOK(r), NEW x \in Request \ {r}, SessionOK(x), ParentsOK(x)
    PROVE  SessionOK(x)' /\ ParentsOK(x)'
<1>0. /\ ses'[x] = ses[x] /\ view'[x] = view[x] /\ exists' = exists /\ children' = children
      /\ used \subseteq used' /\ Progress(r) /\ x \in Request
      /\ ses[x] \in Session /\ view[x] \in View
  BY DEF Quiet, Progress, Typed
<1>1. PhaseOK(x)' /\ ParentsOK(x)'
  BY <1>0 DEF SessionOK, PhaseOK, ParentsOK, Open
<1>2. DeletesOK(x)'
  <2>1. \A c \in ses[x].aim \cup ses[x].gone : c.by \in Request \cup {None}
    BY <1>0 DEF Session, Child
  <2>2. \A c \in ses[x].aim \cup ses[x].gone : Committed(c.by)'
    BY <1>0, <2>1, StaysCommitted DEF SessionOK, DeletesOK
  <2>3. Whole(ses[x].aim)' /\ Whole(ses[x].gone)'
    BY <1>0 DEF SessionOK, DeletesOK, Whole
  <2>. QED  BY <1>0, <2>2, <2>3 DEF DeletesOK
<1>3. ReplacesOK(x)'
  BY <1>0, StaysOverlapped DEF SessionOK, ReplacesOK, ChildrenOf
<1>4. TargetsOK(x)'
  BY <1>0, StaysOverlapped, StaysRemoved DEF SessionOK, TargetsOK, ScheduleTargets
<1>5. ViewOK(x)'
  BY <1>0, StaysChanged, AdminAssumption DEF SessionOK, ViewOK, ChildrenOf, Parent
<1>. QED  BY <1>1, <1>2, <1>3, <1>4, <1>5 DEF SessionOK

LEMMA QuietRows ==
    ASSUME Inv, NEW r \in Request, Quiet(r), NEW c \in children
    PROVE  RowOK(c)'
<1>0. /\ exists' = exists /\ children' = children /\ Progress(r) /\ Typed /\ PhaseOK(r)
      /\ c.by \in Request \cup {None} /\ RowOK(c)
  BY DEF Inv, Quiet, Typed, Child, SessionOK
<1>1. Committed(c.by)'
  BY <1>0, StaysCommitted DEF RowOK
<1>2. c.by # None => ses'[c.by].list = ses[c.by].list
  BY <1>0 DEF RowOK, Committed, Progress
<1>3. c.by # None => Rows(c.of, c.by, ses'[c.by].list) \subseteq children'
  BY <1>0, <1>2 DEF RowOK
<1>4. \A d \in children : c.of = d.of /\ c.by # d.by => Overlapped(c.by, d.by)'
  BY <1>0, StaysOverlapped DEF RowOK
<1>5. c.of \in Policy /\ c.target \in Schedule \ exists => RemovedBeside(c.target, c.by)'
  BY <1>0, StaysRemoved DEF RowOK
<1>6. c.of \in exists /\ (c.of \in Schedule => c.target \in User)
  BY <1>0 DEF RowOK
<1>. QED  BY <1>0, <1>1, <1>3, <1>4, <1>5, <1>6 DEF RowOK

LEMMA StillMet ==
    ASSUME Inv, NEW r \in Request, Open(r), Progress(r),
           ses'[r].pc # "cascade", ses'[r].pc = "commit" => ses[r].op # "update"
    PROVE  Met'
<1> SUFFICES ASSUME NEW x \in Request, NEW y \in Request, x # y
             PROVE  /\ Open(x)' /\ Open(y)' => Overlapped(x, y)'
                    /\ ses'[x].op = "create" /\ ses'[y].op = "create" => ses'[x].on # ses'[y].on
                    /\ ses'[x].pc = "cascade" /\ ses'[y].pc = "commit" /\ ses'[y].op = "update" =>
                          ses'[x].on # ses'[y].on
  BY DEF Met
<1>1. /\ ses'[x].op = ses[x].op /\ ses'[x].on = ses[x].on
      /\ ses'[y].op = ses[y].op /\ ses'[y].on = ses[y].on
      /\ Open(x)' => Open(x)
      /\ Open(y)' => Open(y)
      /\ ses'[x].pc = "cascade" => ses[x].pc = "cascade"
      /\ ses'[y].pc = "commit" /\ ses[y].op = "update" => ses[y].pc = "commit"
  BY DEF Progress, Open
<1>2. Open(x) /\ Open(y) => Overlapped(x, y)'
  BY StaysOverlapped DEF Inv, Met
<1>. QED  BY <1>1, <1>2 DEF Inv, Met

\* A step that commits nothing preserves the invariant if its own request is right.
LEMMA QuietInv ==
    ASSUME Inv, NEW r \in Request, Quiet(r), Typed', Met', SessionOK(r)', ParentsOK(r)',
           service' \in exists \cup {None}
    PROVE  Inv'
<1>1. \A x \in Request : SessionOK(x)' /\ ParentsOK(x)'
  BY QuietOthers DEF Inv, SessionOK
<1>2. \A c \in children' : RowOK(c)'
  BY QuietRows DEF Quiet
<1>. QED  BY <1>1, <1>2 DEF Inv, Quiet

-----------------------------------------------------------------------------
(***************************************************************************)
(* The steps that commit nothing, one lemma each.                          *)
(***************************************************************************)
\* A request that ends, or fails, knows nothing any more.
LEMMA EndInv ==
    ASSUME Inv, NEW r \in Request, Open(r), NEW pc \in {"done", "failed"}, End(r, pc),
           view' = view \/ view' = [view EXCEPT ![r] = NoView],
           UNCHANGED <<tables, overlap>>, faults' \in 0 .. MaxFaults
    PROVE  Inv'
<1>0. /\ Typed /\ SessionOK(r) /\ ses[r] \in Session
      /\ ses' = [ses EXCEPT ![r].pc = pc, ![r].aim = {}, ![r].gone = {}]
  BY DEF Inv, Typed, End
<1>1. /\ ses'[r].pc = pc /\ ses'[r].aim = {} /\ ses'[r].gone = {}
      /\ ses'[r].op = ses[r].op /\ ses'[r].on = ses[r].on /\ ses'[r].list = ses[r].list
      /\ ses' \in [Request -> Session]
      /\ \A x \in Request \ {r} : ses'[x] = ses[x]
  BY <1>0 DEF Typed, Session, Phase
<1>2. NoView \in View
  BY DEF NoView, View
<1>3. view' \in [Request -> View] /\ \A x \in Request \ {r} : view'[x] = view[x]
  BY <1>0, <1>2 DEF Typed
<1>4. Typed'
  BY <1>0, <1>1, <1>3 DEF Typed, tables
<1>5. Quiet(r)
  BY <1>1, <1>3 DEF Quiet, Progress, tables, Open
<1>6. Met'
  BY <1>1, <1>5, StillMet DEF Quiet
<1>7. SessionOK(r)' /\ ParentsOK(r)'
  <2>1. PhaseOK(r)' /\ ParentsOK(r)'
    BY <1>0, <1>1 DEF SessionOK, PhaseOK, ParentsOK, Open, tables
  <2>2. DeletesOK(r)' /\ ReplacesOK(r)' /\ TargetsOK(r)' /\ ViewOK(r)'
    BY <1>1 DEF DeletesOK, Whole, ReplacesOK, TargetsOK, ViewOK
  <2>. QED  BY <2>1, <2>2 DEF SessionOK
<1>. QED  BY <1>4, <1>5, <1>6, <1>7, QuietInv DEF Inv, tables

LEMMA FailInv ==
    ASSUME Inv, NEW r \in Request, Open(r), Fail(r)
    PROVE  Inv'
BY EndInv DEF Fail, Reading, Inv, Typed

\* A request goes on to another statement, with what it has to know there.
LEMMA GotoInv ==
    ASSUME Inv, NEW r \in Request, Open(r), NEW pc \in Phase, Goto(r, pc), Reading,
           Met', SessionOK(r)', ParentsOK(r)'
    PROVE  Inv'
<1>1. Typed'
  BY DEF Inv, Typed, Goto, Session, Reading, tables
<1>2. Quiet(r)
  BY DEF Inv, Typed, Goto, Session, Reading, tables, Quiet, Progress, Open
<1>. QED  BY <1>1, <1>2, QuietInv DEF Inv, Reading, tables

\* A request begins: it overlaps all that are open.
LEMMA BeginInv ==
    ASSUME Inv, NEW r \in Request, NEW op \in Operation, NEW p \in Parent \cup {None},
           NEW list \in List,
           NEW pc \in {"validate", "commit", "write", "delete", "check", "assign", "readPolicy", "done"},
           Begin(r, op, p, list, pc),
           exists' = exists, children' = children, used \subseteq used', used' \subseteq Parent,
           service' \in Policy \cup {None}, service' \in exists \cup {None},
           PhaseOK(r)', op = "create" => p \in Parent \ used,
           pc = "write" => list = Keep, pc = "validate" => op = "create",
           pc = "commit" => op = "create" /\ p \in Schedule
    PROVE  Inv'
<1>0. /\ Typed /\ PhaseOK(r) /\ ses[r] \in Session /\ ses[r].pc = "idle"
      /\ ses' = [ses EXCEPT ![r] = [Idle EXCEPT !.pc = pc, !.op = op, !.on = p, !.list = list]]
      /\ overlap' = overlap \cup {{q, r} : q \in {q \in Request : Open(q)}}
      /\ view' = view /\ faults' = faults
  BY DEF Inv, Typed, SessionOK, Begin
<1>1. /\ ses'[r].pc = pc /\ ses'[r].op = op /\ ses'[r].on = p /\ ses'[r].list = list
      /\ ses'[r].aim = {} /\ ses'[r].gone = {}
      /\ ses' \in [Request -> Session]
      /\ \A x \in Request \ {r} : ses'[x] = ses[x]
  BY <1>0 DEF Typed, Session, Phase, Idle
<1>2. overlap' \subseteq SUBSET Request /\ overlap \subseteq overlap'
  BY <1>0 DEF Typed
<1>3. Typed'
  BY <1>0, <1>1, <1>2 DEF Typed
<1>4. Quiet(r)
  BY <1>0, <1>1, <1>2 DEF Quiet, Progress
<1>5. Met'
  <2> SUFFICES ASSUME NEW x \in Request, NEW y \in Request, x # y
               PROVE  /\ Open(x)' /\ Open(y)' => Overlapped(x, y)'
                      /\ ses'[x].op = "create" /\ ses'[y].op = "create" => ses'[x].on # ses'[y].on
                      /\ ses'[x].pc = "cascade" /\ ses'[y].pc = "commit" /\ ses'[y].op = "update" =>
                            ses'[x].on # ses'[y].on
    BY DEF Met
  <2>0. \A q \in Request \ {r} : /\ Open(q)' <=> Open(q)
                                 /\ ses[q].on \in used \cup {None}
    BY <1>1 DEF Open, Inv, SessionOK, PhaseOK
  <2>1. CASE x # r /\ y # r
    BY <1>1, <1>4, <2>0, <2>1, StaysOverlapped DEF Inv, Met, Quiet
  <2>2. CASE x = r
    <3>1. Open(y)' => Overlapped(x, y)'
      <4>1. Overlapped(x, y)' <=> {x, y} \in overlap'
        BY DEF Overlapped
      <4>2. {x, y} = {y, r}
        BY <2>2
      <4>. QED  BY <1>0, <2>0, <2>2, <4>1, <4>2
    <3>. QED  BY <1>1, <2>0, <2>2, <3>1, AdminAssumption
  <2>3. CASE y = r
    <3>1. Open(x)' => Overlapped(x, y)'
      <4>1. Overlapped(x, y)' <=> {x, y} \in overlap'
        BY DEF Overlapped
      <4>. QED  BY <1>0, <2>0, <2>3, <4>1
    <3>. QED  BY <1>1, <2>0, <2>3, <3>1, AdminAssumption
  <2>. QED  BY <2>1, <2>2, <2>3
<1>6. ParentsOK(r)'
  BY <1>0, <1>1 DEF ParentsOK, Typed
<1>7. DeletesOK(r)' /\ ReplacesOK(r)' /\ TargetsOK(r)' /\ ViewOK(r)'
  <2>1. DeletesOK(r)' /\ ReplacesOK(r)' /\ ViewOK(r)'
    BY <1>1 DEF DeletesOK, Whole, ReplacesOK, ViewOK
  <2>2. TargetsOK(r)'
    BY <1>1, AdminAssumption DEF TargetsOK
  <2>. QED  BY <2>1, <2>2
<1>. QED  BY <1>3, <1>4, <1>5, <1>6, <1>7, QuietInv DEF SessionOK

LEMMA BeginSomeInv ==
    ASSUME Inv, NEW r \in Request, BeginSome(r)
    PROVE  Inv'
<1>0. /\ Typed /\ ses \in [Request -> Session] /\ service \in exists \cup {None}
      /\ service \in Policy \cup {None} /\ exists \subseteq used /\ used \subseteq Parent
  BY DEF Inv, Typed
<1>1. \A p \in Parent : Lists(p) \subseteq List
  BY AdminAssumption DEF Lists, List
<1>2. ASSUME NEW op \in Operation, NEW p \in Parent \cup {None}, NEW list \in List, NEW pc \in Phase,
             Begin(r, op, p, list, pc)
      PROVE  ses'[r].pc = pc /\ ses'[r].op = op /\ ses'[r].on = p /\ ses'[r].list = list
  BY <1>0, <1>2 DEF Begin, Idle
<1>3. CASE BeginCreate(r)
  <2>0. PICK p \in Parent \ used : \E list \in CreateLists(p) :
           /\ Begin(r, "create", p, list, IF p \in Policy THEN "validate" ELSE "commit")
           /\ used' = used \cup {p} /\ UNCHANGED <<exists, children, service>>
    BY <1>3 DEF BeginCreate
  <2>1. PICK list \in CreateLists(p) :
           /\ Begin(r, "create", p, list, IF p \in Policy THEN "validate" ELSE "commit")
           /\ used' = used \cup {p} /\ UNCHANGED <<exists, children, service>>
    BY <2>0
  <2>2. list \in Lists(p) /\ list # Keep /\ list \in List
    BY <1>1, <2>1, AdminAssumption DEF CreateLists, Lists
  <2> DEFINE pc == IF p \in Policy THEN "validate" ELSE "commit"
  <2>3. ses'[r].pc = pc /\ ses'[r].op = "create" /\ ses'[r].on = p /\ ses'[r].list = list
    <3>1. "create" \in Operation /\ pc \in Phase /\ p \in Parent \cup {None}
      BY DEF Operation, Phase
    <3>. QED  BY <1>2, <2>1, <2>2, <3>1
  <2>4. PhaseOK(r)'
    BY <2>1, <2>2, <2>3 DEF PhaseOK
  <2>5. "create" \in Operation /\ "update" # "create" /\ pc # "write" /\ (pc = "commit" => p \in Schedule)
        /\ pc \in {"validate", "commit"}
    BY DEF Operation, Parent
  <2>. HIDE DEF pc
  <2>. QED  BY <1>0, <2>1, <2>2, <2>4, <2>5, BeginInv DEF pc
<1>4. CASE BeginUpdate(r)
  <2>0. PICK p \in exists : \E list \in Lists(p) \cup {Keep} :
           /\ Begin(r, "update", p, list, IF list = Keep THEN "write" ELSE "delete")
           /\ UNCHANGED tables
    BY <1>4 DEF BeginUpdate
  <2>1. PICK list \in Lists(p) \cup {Keep} :
           /\ Begin(r, "update", p, list, IF list = Keep THEN "write" ELSE "delete")
           /\ UNCHANGED tables
    BY <2>0
  <2>2. list \in List /\ p \in Parent /\ p \in used
    BY <1>0, <1>1, <2>1 DEF List
  <2> DEFINE pc == IF list = Keep THEN "write" ELSE "delete"
  <2>3. ses'[r].pc = pc /\ ses'[r].op = "update" /\ ses'[r].on = p /\ ses'[r].list = list
    <3>1. "update" \in Operation /\ pc \in Phase /\ p \in Parent \cup {None}
      BY <2>2 DEF Operation, Phase
    <3>. QED  BY <1>2, <2>1, <2>2, <3>1
  <2>4. PhaseOK(r)'
    BY <2>1, <2>2, <2>3 DEF PhaseOK, tables
  <2>5. "update" \in Operation /\ "update" # "create" /\ pc # "commit" /\ (pc = "write" => list = Keep)
        /\ pc \in {"write", "delete"}
    BY DEF Operation
  <2>. HIDE DEF pc
  <2>. QED  BY <1>0, <2>1, <2>2, <2>4, <2>5, BeginInv DEF pc, tables
<1>5. ASSUME NEW p \in exists, NEW op \in {"remove", "assign", "snapshot"},
             NEW pc \in {"check", "assign", "readPolicy"},
             op = "remove" <=> pc = "check", op = "assign" <=> pc = "assign",
             op = "assign" => p \in Policy,
             Begin(r, op, p, <<>>, pc), UNCHANGED tables
      PROVE  Inv'
  <2>1. <<>> \in List /\ p \in Parent /\ p \in used /\ op \in Operation
    BY <1>0 DEF List, Operation
  <2>2. ses'[r].pc = pc /\ ses'[r].op = op /\ ses'[r].on = p
    <3>1. pc \in Phase
      BY DEF Phase
    <3>. QED  BY <1>2, <1>5, <2>1, <3>1
  <2>3. PhaseOK(r)'
    BY <1>5, <2>1, <2>2 DEF PhaseOK, tables
  <2>. QED  BY <1>0, <1>5, <2>1, <2>3, BeginInv DEF tables
<1>6. CASE BeginRemove(r)
  BY <1>5, <1>6 DEF BeginRemove
<1>7. CASE BeginAssign(r)
  BY <1>5, <1>7 DEF BeginAssign
<1>8. CASE BeginSnapshot(r)
  BY <1>0, <1>5, <1>8 DEF BeginSnapshot
<1>9. CASE Unassign(r)
  <2>1. <<>> \in List /\ "unassign" \in Operation
    BY DEF List, Operation
  <2>2. ses'[r].pc = "done" /\ ses'[r].op = "unassign" /\ ses'[r].on = None
    <3>1. "done" \in Phase
      BY DEF Phase
    <3>. QED  BY <1>2, <1>9, <2>1, <3>1 DEF Unassign
  <2>3. PhaseOK(r)'
    BY <2>2 DEF PhaseOK, Open
  <2>4. Begin(r, "unassign", None, <<>>, "done") /\ service' = None /\ UNCHANGED <<exists, used, children>>
    BY <1>9 DEF Unassign
  <2>. QED  BY <1>0, <2>1, <2>3, <2>4, BeginInv
<1>. QED  BY <1>3, <1>4, <1>6, <1>7, <1>8, <1>9 DEF BeginSome

\* The rows a DELETE statement finds are all the parent has.
LEMMA StartDeleteInv ==
    ASSUME Inv, NEW r \in Request, StartDelete(r)
    PROVE  Inv'
<1>0. /\ Typed /\ SessionOK(r) /\ ParentsOK(r) /\ ses[r] \in Session /\ children' = children
      /\ exists' = exists /\ used' = used /\ overlap' = overlap /\ view' = view
      /\ ses[r].pc \in {"delete", "deleteLayers"} /\ Open(r)
      /\ \A c \in children : Committed(c.by)
  BY DEF Inv, Typed, StartDelete, Reading, tables, Open, RowOK
<1>1. ChildrenOf(ses[r].on) \subseteq children /\ children \subseteq Child
  BY <1>0 DEF ChildrenOf, Typed
<1>2. /\ ses' \in [Request -> Session]
      /\ \A x \in Request \ {r} : ses'[x] = ses[x]
      /\ ses'[r].pc = IF ses[r].pc = "delete" THEN "deleting" ELSE "deletingLayers"
      /\ ses'[r].aim = ChildrenOf(ses[r].on) /\ ses'[r].gone = ses[r].gone
      /\ ses'[r].op = ses[r].op /\ ses'[r].on = ses[r].on /\ ses'[r].list = ses[r].list
  BY <1>0, <1>1 DEF StartDelete, Replaced, Session, Phase, Typed
<1>3. Typed'
  BY <1>2 DEF Inv, Typed, StartDelete, Reading, tables
<1>4. Quiet(r)
  BY <1>0, <1>2 DEF Quiet, Progress
<1>5. Met'
  BY <1>0, <1>2, <1>4, StillMet DEF Quiet
<1>6. PhaseOK(r)' /\ ParentsOK(r)'
  BY <1>0, <1>2 DEF SessionOK, PhaseOK, ParentsOK, Open
<1>7. DeletesOK(r)'
  <2>1. \A c \in ses[r].gone \cup children : c.by \in Request \cup {None}
    BY <1>0 DEF Session, Child, Typed
  <2>2. \A c \in ses'[r].aim \cup ses'[r].gone : Committed(c.by)'
    BY <1>0, <1>1, <1>2, <1>4, <2>1, StaysCommitted DEF SessionOK, DeletesOK, Quiet
  <2>3. Whole(ses[r].aim)' /\ Whole(ses[r].gone)'
    BY <1>0, <1>2 DEF Whole, ChildrenOf, SessionOK, DeletesOK
  <2>. QED  BY <2>2, <2>3 DEF DeletesOK
<1>8. ReplacesOK(r)' /\ TargetsOK(r)' /\ ViewOK(r)'
  BY <1>0, <1>2 DEF ReplacesOK, ChildrenOf, TargetsOK, ViewOK
<1>. QED  BY <1>0, <1>3, <1>4, <1>5, <1>6, <1>7, <1>8, QuietInv
          DEF SessionOK, Inv, StartDelete, Reading, tables

\* Those of them that are there when it goes on are deleted.
LEMMA FinishDeleteInv ==
    ASSUME Inv, NEW r \in Request, FinishDelete(r)
    PROVE  Inv'
<1>0. /\ Typed /\ SessionOK(r) /\ ParentsOK(r) /\ ses[r] \in Session /\ children' = children
      /\ exists' = exists /\ used' = used /\ overlap' = overlap /\ view' = view
      /\ ses[r].pc \in {"deleting", "deletingLayers"} /\ Open(r) /\ ses[r].on \in Parent
      /\ ses[r].op = "update" /\ ses[r].list # Keep
  BY DEF Inv, Typed, FinishDelete, Reading, tables, Open, SessionOK, PhaseOK
<1>1. AfterDelete(r) \in {"validate", "deleteLayers", "write"}
  BY DEF AfterDelete
<1>2. /\ ses' \in [Request -> Session]
      /\ \A x \in Request \ {r} : ses'[x] = ses[x]
      /\ ses'[r].pc = AfterDelete(r)
      /\ ses'[r].aim = {} /\ ses'[r].gone = ses[r].gone \cup (ses[r].aim \cap children)
      /\ ses'[r].op = ses[r].op /\ ses'[r].on = ses[r].on /\ ses'[r].list = ses[r].list
  BY <1>0, <1>1 DEF FinishDelete, Session, Phase, Typed
<1>3. Typed'
  BY <1>2 DEF Inv, Typed, FinishDelete, Reading, tables
<1>4. Quiet(r)
  BY <1>0, <1>2 DEF Quiet, Progress
<1>5. Met'
  BY <1>0, <1>1, <1>2, <1>4, StillMet DEF Quiet
<1>6. PhaseOK(r)' /\ ParentsOK(r)'
  <2>1. ses'[r].pc = "validate" => ses[r].on \in Policy
    BY <1>2 DEF AfterDelete
  <2>2. ses'[r].pc = "deleteLayers" => ses[r].on \in Schedule
    BY <1>0, <1>2 DEF AfterDelete, Parent
  <2>. QED  BY <1>0, <1>1, <1>2, <2>1, <2>2 DEF SessionOK, PhaseOK, ParentsOK, Open
<1>7. DeletesOK(r)'
  <2>1. \A c \in ses[r].gone \cup ses[r].aim : c.by \in Request \cup {None}
    BY <1>0 DEF Session, Child
  <2>2. \A c \in ses'[r].aim \cup ses'[r].gone : Committed(c.by)'
    BY <1>0, <1>2, <1>4, <2>1, StaysCommitted DEF SessionOK, DeletesOK, Quiet
  <2>3. Whole(ses[r].aim)' /\ Whole(ses[r].gone)'
    BY <1>0, <1>2 DEF Whole, SessionOK, DeletesOK
  <2>. QED  BY <2>2, <2>3 DEF DeletesOK
<1>8. ReplacesOK(r)'
  <2>1. \A d \in ChildrenOf(ses[r].on) : d \in ses[r].aim \cup ses[r].gone \/ Overlapped(d.by, r)
    BY <1>0 DEF SessionOK, ReplacesOK
  <2>2. \A d \in ChildrenOf(ses[r].on)' : d \in ses'[r].gone \/ Overlapped(d.by, r)'
    BY <1>0, <1>2, <2>1 DEF ChildrenOf, Overlapped
  <2>. QED  BY <1>1, <1>2, <2>2 DEF ReplacesOK
<1>9. TargetsOK(r)' /\ ViewOK(r)'
  BY <1>0, <1>1, <1>2, AdminAssumption DEF AfterDelete, TargetsOK, ViewOK
<1>. QED  BY <1>0, <1>3, <1>4, <1>5, <1>6, <1>7, <1>8, <1>9, QuietInv
          DEF SessionOK, Inv, FinishDelete, Reading, tables

\* Going on leaves what was found and deleted alone.
LEMMA GotoEffect ==
    ASSUME Inv, NEW r \in Request, NEW pc \in Phase, Goto(r, pc), Reading, Open(r)
    PROVE  /\ ses'[r].pc = pc /\ ses'[r].aim = ses[r].aim /\ ses'[r].gone = ses[r].gone
           /\ ses'[r].op = ses[r].op /\ ses'[r].on = ses[r].on /\ ses'[r].list = ses[r].list
           /\ \A x \in Request \ {r} : ses'[x] = ses[x]
           /\ exists' = exists /\ used' = used /\ children' = children
           /\ view' = view /\ overlap' = overlap
           /\ Quiet(r) /\ DeletesOK(r)'
<1>1. /\ ses'[r].pc = pc /\ ses'[r].aim = ses[r].aim /\ ses'[r].gone = ses[r].gone
      /\ ses'[r].op = ses[r].op /\ ses'[r].on = ses[r].on /\ ses'[r].list = ses[r].list
      /\ \A x \in Request \ {r} : ses'[x] = ses[x]
      /\ exists' = exists /\ used' = used /\ children' = children
      /\ view' = view /\ overlap' = overlap
  BY DEF Inv, Typed, Goto, Session, Reading, tables
<1>2. Quiet(r)
  BY <1>1 DEF Quiet, Progress, Open
<1>3. DeletesOK(r)'
  <2>1. \A c \in ses[r].gone \cup ses[r].aim : c.by \in Request \cup {None}
    BY DEF Session, Child, Inv, Typed
  <2>2. \A c \in ses'[r].aim \cup ses'[r].gone : Committed(c.by)'
    BY <1>1, <1>2, <2>1, StaysCommitted DEF SessionOK, DeletesOK, Quiet, Inv
  <2>3. Whole(ses[r].aim)' /\ Whole(ses[r].gone)'
    BY <1>1 DEF Whole, SessionOK, DeletesOK, Inv
  <2>. QED  BY <2>2, <2>3 DEF DeletesOK
<1>. QED  BY <1>1, <1>2, <1>3

\* The schedules of a list are there when it is checked.
LEMMA ValidateInv ==
    ASSUME Inv, NEW r \in Request, Validate(r)
    PROVE  Inv'
<1>0. /\ Typed /\ SessionOK(r) /\ ParentsOK(r) /\ Reading /\ Open(r) /\ ses[r].pc = "validate"
  BY DEF Inv, Validate, Open
<1>1. CASE ~ValidTargets(ses[r].list)
  BY <1>0, <1>1, FailInv DEF Validate, Fail
<1>2. CASE ValidTargets(ses[r].list)
  <2> DEFINE pc == IF ses[r].op = "create" THEN "commit" ELSE "write"
  <2>1. PICK to \in {"commit", "write"} : to = pc
    OBVIOUS
  <2>2. Goto(r, to) /\ to \in Phase
    BY <1>2, <2>1 DEF Validate, Phase
  <2>3. /\ ses'[r].pc = to /\ ses'[r].aim = ses[r].aim /\ ses'[r].gone = ses[r].gone
        /\ ses'[r].op = ses[r].op /\ ses'[r].on = ses[r].on /\ ses'[r].list = ses[r].list
        /\ exists' = exists /\ used' = used /\ children' = children
        /\ view' = view /\ overlap' = overlap
        /\ Quiet(r) /\ DeletesOK(r)'
    BY <1>0, <2>2, GotoEffect
  <2>4. to = "commit" => ses[r].op = "create"
    BY <2>1
  <2>5. Met'
    BY <1>0, <2>3, <2>4, StillMet DEF Quiet
  <2>6. PhaseOK(r)' /\ ParentsOK(r)'
    <3>1. ses[r].op \in {"create", "update"} /\ (to = "write" => ses[r].op = "update")
      BY <1>0, <2>1 DEF SessionOK, PhaseOK
    <3>. QED  BY <1>0, <2>3, <2>4, <3>1 DEF SessionOK, PhaseOK, ParentsOK, Open
  <2>7. ReplacesOK(r)'
    BY <1>0, <2>3 DEF SessionOK, ReplacesOK, ChildrenOf, Overlapped
  <2>8. TargetsOK(r)' /\ ViewOK(r)'
    BY <1>2, <2>3 DEF ValidTargets, ScheduleTargets, TargetsOK, ViewOK
  <2>. QED  BY <1>0, <2>2, <2>3, <2>5, <2>6, <2>7, <2>8, GotoInv DEF SessionOK
<1>. QED  BY <1>1, <1>2

\* An update holds its parent from here to its commit.
LEMMA WriteInv ==
    ASSUME Inv, NEW r \in Request, Write(r)
    PROVE  Inv'
<1>0. /\ Typed /\ SessionOK(r) /\ ParentsOK(r) /\ Reading /\ Open(r) /\ ses[r].pc = "write"
      /\ ses[r].op = "update"
  BY DEF Inv, Write, Open, SessionOK, PhaseOK
<1>1. CASE ses[r].on \notin exists
  BY <1>0, <1>1, FailInv DEF Write, Fail
<1>2. CASE ses[r].on \in exists
  <2>1. Goto(r, "commit") /\ "commit" \in Phase
    BY <1>2 DEF Write, Phase
  <2>2. /\ ses'[r].pc = "commit" /\ ses'[r].aim = ses[r].aim /\ ses'[r].gone = ses[r].gone
        /\ ses'[r].op = ses[r].op /\ ses'[r].on = ses[r].on /\ ses'[r].list = ses[r].list
        /\ \A x \in Request \ {r} : ses'[x] = ses[x]
        /\ exists' = exists /\ used' = used /\ children' = children
        /\ view' = view /\ overlap' = overlap
        /\ Quiet(r) /\ DeletesOK(r)'
    BY <1>0, <2>1, GotoEffect
  <2>3. Met'
    <3> SUFFICES ASSUME NEW x \in Request, NEW y \in Request, x # y
                 PROVE  /\ Open(x)' /\ Open(y)' => Overlapped(x, y)'
                        /\ ses'[x].op = "create" /\ ses'[y].op = "create" => ses'[x].on # ses'[y].on
                        /\ ses'[x].pc = "cascade" /\ ses'[y].pc = "commit" /\ ses'[y].op = "update" =>
                              ses'[x].on # ses'[y].on
      BY DEF Met
    <3>1. \A q \in Request : (Open(q)' <=> Open(q)) /\ ses'[q].op = ses[q].op /\ ses'[q].on = ses[q].on
      BY <1>0, <2>2 DEF Open
    <3>2. CASE y # r
      BY <1>0, <2>2, <3>1, <3>2 DEF Inv, Met, Overlapped
    <3>3. CASE y = r
      <4>1. ~(ses[x].pc = "cascade" /\ ses[x].on = ses[r].on)
        BY <3>3 DEF Write, ParentTaken
      <4>. QED  BY <1>0, <2>2, <3>1, <3>3, <4>1 DEF Inv, Met, Overlapped
    <3>. QED  BY <3>2, <3>3
  <2>4. PhaseOK(r)' /\ ParentsOK(r)'
    BY <1>0, <1>2, <2>2 DEF SessionOK, PhaseOK, ParentsOK, Open
  <2>5. ReplacesOK(r)'
    BY <1>0, <2>2 DEF SessionOK, ReplacesOK, ChildrenOf, Overlapped
  <2>6. TargetsOK(r)'
    <3>1. \A s : RemovedBeside(s, r) => RemovedBeside(s, r)'
      BY <1>0, <2>2, StaysRemoved DEF SessionOK, Quiet
    <3>. QED  BY <1>0, <2>2, <3>1 DEF SessionOK, TargetsOK, ScheduleTargets
  <2>7. ViewOK(r)'
    BY <2>2 DEF ViewOK
  <2>. QED  BY <1>0, <2>1, <2>2, <2>3, <2>4, <2>5, <2>6, <2>7, GotoInv DEF SessionOK
<1>. QED  BY <1>1, <1>2

\* The rules are looked up before a schedule is deleted.
LEMMA CheckUseInv ==
    ASSUME Inv, NEW r \in Request, CheckUse(r)
    PROVE  Inv'
<1>0. /\ Typed /\ SessionOK(r) /\ ParentsOK(r) /\ Reading /\ Open(r) /\ ses[r].pc = "check"
      /\ ses[r].op = "remove"
  BY DEF Inv, CheckUse, Open, SessionOK, PhaseOK
<1> DEFINE pc == IF InUse(ses[r].on) THEN "failed" ELSE "remove"
<1>1. PICK to \in {"failed", "remove"} : to = pc
  OBVIOUS
<1>2. Goto(r, to) /\ to \in Phase
  BY <1>1 DEF CheckUse, Phase
<1>3. /\ ses'[r].pc = to /\ ses'[r].aim = ses[r].aim /\ ses'[r].gone = ses[r].gone
      /\ ses'[r].op = ses[r].op /\ ses'[r].on = ses[r].on /\ ses'[r].list = ses[r].list
      /\ exists' = exists /\ used' = used /\ children' = children
      /\ view' = view /\ overlap' = overlap
      /\ Quiet(r) /\ DeletesOK(r)'
  BY <1>0, <1>2, GotoEffect
<1>4. Met'
  BY <1>0, <1>3, StillMet DEF Quiet
<1>5. PhaseOK(r)' /\ ParentsOK(r)' /\ ReplacesOK(r)' /\ ViewOK(r)'
  BY <1>0, <1>3 DEF SessionOK, PhaseOK, ParentsOK, Open, ReplacesOK, ViewOK
<1>6. TargetsOK(r)'
  <2>1. to = "remove" => ~InUse(ses[r].on)
    BY <1>1
  <2>2. to = "remove" /\ ses[r].on \in Schedule =>
           ~ \E c \in children : c.of \in Policy /\ c.target = ses[r].on
    BY <2>1, AdminAssumption DEF InUse
  <2>. QED  BY <1>3, <2>2 DEF TargetsOK
<1>. QED  BY <1>0, <1>2, <1>3, <1>4, <1>5, <1>6, GotoInv DEF SessionOK

LEMMA RemoveInv ==
    ASSUME Inv, NEW r \in Request, Remove(r)
    PROVE  Inv'
<1>0. /\ Typed /\ SessionOK(r) /\ ParentsOK(r) /\ Reading /\ Open(r) /\ ses[r].pc = "remove"
      /\ ses[r].op = "remove"
  BY DEF Inv, Remove, Open, SessionOK, PhaseOK
<1> DEFINE pc == IF ses[r].on \in exists THEN "cascade" ELSE "done"
<1>1. PICK to \in {"cascade", "done"} : to = pc
  OBVIOUS
<1>2. Goto(r, to) /\ to \in Phase
  BY <1>1 DEF Remove, Phase
<1>3. /\ ses'[r].pc = to /\ ses'[r].aim = ses[r].aim /\ ses'[r].gone = ses[r].gone
      /\ ses'[r].op = ses[r].op /\ ses'[r].on = ses[r].on /\ ses'[r].list = ses[r].list
      /\ \A x \in Request \ {r} : ses'[x] = ses[x]
      /\ exists' = exists /\ used' = used /\ children' = children
      /\ view' = view /\ overlap' = overlap
      /\ Quiet(r) /\ DeletesOK(r)'
  BY <1>0, <1>2, GotoEffect
<1>4. Met'
  <2> SUFFICES ASSUME NEW x \in Request, NEW y \in Request, x # y
               PROVE  /\ Open(x)' /\ Open(y)' => Overlapped(x, y)'
                      /\ ses'[x].op = "create" /\ ses'[y].op = "create" => ses'[x].on # ses'[y].on
                      /\ ses'[x].pc = "cascade" /\ ses'[y].pc = "commit" /\ ses'[y].op = "update" =>
                            ses'[x].on # ses'[y].on
    BY DEF Met
  <2>1. \A q \in Request : (Open(q)' => Open(q)) /\ ses'[q].op = ses[q].op /\ ses'[q].on = ses[q].on
    BY <1>0, <1>3 DEF Open
  <2>2. CASE x # r
    BY <1>0, <1>3, <2>1, <2>2 DEF Inv, Met, Overlapped
  <2>3. CASE x = r
    <3>1. ~(ses[y].pc = "commit" /\ ses[y].on = ses[r].on /\ ses[y].op = "update")
      BY <2>3 DEF Remove, ParentShared
    <3>. QED  BY <1>0, <1>3, <2>1, <2>3, <3>1 DEF Inv, Met, Overlapped
  <2>. QED  BY <2>2, <2>3
<1>5. PhaseOK(r)' /\ ParentsOK(r)' /\ ReplacesOK(r)' /\ ViewOK(r)'
  BY <1>0, <1>3 DEF SessionOK, PhaseOK, ParentsOK, Open, ReplacesOK, ViewOK
<1>6. TargetsOK(r)'
  BY <1>0, <1>3 DEF SessionOK, TargetsOK, Overlapped
<1>. QED  BY <1>0, <1>2, <1>3, <1>4, <1>5, <1>6, GotoInv DEF SessionOK

\* An ingestion builds its snapshot: nothing but its view changes.
LEMMA ViewInv ==
    ASSUME Inv, NEW r \in Request, ses[r].pc \in {"readPolicy", "readRules", "nextRule", "readUsers"},
           NEW pc \in {"readRules", "nextRule", "readUsers", "failed"},
           ses' = [ses EXCEPT ![r].pc = pc],
           NEW v \in View, view' = [view EXCEPT ![r] = v],
           UNCHANGED <<tables, overlap, faults>>, ViewOK(r)'
    PROVE  Inv'
<1>0. /\ Typed /\ SessionOK(r) /\ ParentsOK(r) /\ ses[r] \in Session
      /\ exists' = exists /\ used' = used /\ children' = children /\ overlap' = overlap
  BY DEF Inv, Typed, tables
<1>1. /\ ses' \in [Request -> Session]
      /\ ses'[r].pc = pc /\ ses'[r].aim = ses[r].aim /\ ses'[r].gone = ses[r].gone
      /\ ses'[r].op = ses[r].op /\ ses'[r].on = ses[r].on /\ ses'[r].list = ses[r].list
      /\ \A x \in Request \ {r} : ses'[x] = ses[x]
  BY <1>0 DEF Typed, Session, Phase
<1>2. view' \in [Request -> View] /\ \A x \in Request \ {r} : view'[x] = view[x]
  BY <1>0 DEF Typed
<1>3. Typed'
  BY <1>0, <1>1, <1>2 DEF Typed, tables
<1>4. Quiet(r)
  BY <1>0, <1>1, <1>2 DEF Quiet, Progress
<1>5. Open(r)
  BY DEF Open
<1>6. Met'
  BY <1>1, <1>4, <1>5, StillMet DEF Quiet
<1>7. PhaseOK(r)' /\ ParentsOK(r)'
  BY <1>0, <1>1, <1>5 DEF SessionOK, PhaseOK, ParentsOK, Open
<1>8. DeletesOK(r)'
  <2>1. \A c \in ses[r].gone \cup ses[r].aim : c.by \in Request \cup {None}
    BY <1>0 DEF Session, Child
  <2>2. \A c \in ses'[r].aim \cup ses'[r].gone : Committed(c.by)'
    BY <1>0, <1>1, <1>4, <2>1, StaysCommitted DEF SessionOK, DeletesOK, Quiet
  <2>3. Whole(ses[r].aim)' /\ Whole(ses[r].gone)'
    BY <1>0, <1>1 DEF Whole, SessionOK, DeletesOK
  <2>. QED  BY <2>2, <2>3 DEF DeletesOK
<1>9. ReplacesOK(r)' /\ TargetsOK(r)'
  BY <1>1 DEF ReplacesOK, TargetsOK
<1>. QED  BY <1>0, <1>3, <1>4, <1>6, <1>7, <1>8, <1>9, QuietInv DEF SessionOK, Inv, tables

LEMMA ReadPolicyInv ==
    ASSUME Inv, NEW r \in Request, ReadPolicy(r)
    PROVE  Inv'
<1> DEFINE pc == IF ses[r].on \in exists THEN "readRules" ELSE "failed"
<1>1. PICK to \in {"readRules", "failed"} : to = pc
  OBVIOUS
<1>2. Goto(r, to) /\ to \in Phase /\ Open(r) /\ ses[r].pc = "readPolicy" /\ Reading
  BY <1>1 DEF ReadPolicy, Phase, Open
<1>3. ses'[r].pc = to
  BY <1>2, GotoEffect
<1>4. PICK v \in View : v = view[r]
  BY DEF Inv, Typed
<1>5. view' = [view EXCEPT ![r] = v]
  BY <1>2, <1>4 DEF Reading, Inv, Typed
<1>6. ViewOK(r)'
  BY <1>3 DEF ViewOK
<1>. QED  BY <1>2, <1>5, <1>6, ViewInv DEF Goto, Reading

LEMMA ReadRulesInv ==
    ASSUME Inv, NEW r \in Request, ReadRules(r)
    PROVE  Inv'
<1>1. /\ ses[r].pc = "readRules" /\ ses' = [ses EXCEPT ![r].pc = "nextRule"]
      /\ UNCHANGED <<tables, overlap, faults>>
      /\ view' = [view EXCEPT ![r].rules = ChildrenOf(ses[r].on)]
      /\ Typed /\ view[r] \in View
  BY DEF ReadRules, Goto, Inv, Typed
<1>2. ChildrenOf(ses[r].on) \subseteq Child
  BY <1>1 DEF ChildrenOf, Typed
<1>3. [view[r] EXCEPT !.rules = ChildrenOf(ses[r].on)] \in View
  BY <1>1, <1>2 DEF View
<1>4. view' = [view EXCEPT ![r] = [view[r] EXCEPT !.rules = ChildrenOf(ses[r].on)]]
  BY <1>1
<1>5. ViewOK(r)'
  BY <1>1 DEF ViewOK, Typed
<1>. QED  BY <1>1, <1>3, <1>4, <1>5, ViewInv

\* What an answer leaves of the view.
LEMMA AnswerView ==
    ASSUME Typed, NEW r \in Request, NEW rule \in Child, NEW user \in User \cup {None},
           Answer(r, rule, user)
    PROVE  \E v \in View : view' = [view EXCEPT ![r] = v]
<1>1. PICK old \in View : old = view[r]
  BY DEF Typed
<1>2. PICK paged \in SUBSET [rule : Child, user : User \cup {None}] :
         paged = old.paged \cup {[rule |-> rule, user |-> user]}
  <2>1. [rule |-> rule, user |-> user] \in [rule : Child, user : User \cup {None}]
    OBVIOUS
  <2>2. old.paged \subseteq [rule : Child, user : User \cup {None}]
    BY DEF View
  <2>. QED  BY <2>1, <2>2
<1>3. [old EXCEPT !.paged = paged, !.rule = None, !.layers = {}] \in View
  BY DEF View
<1>4. view' = [view EXCEPT ![r] = [old EXCEPT !.paged = paged, !.rule = None, !.layers = {}]]
  BY <1>1, <1>2 DEF Answer
<1>. QED  BY <1>3, <1>4

LEMMA NextRuleInv ==
    ASSUME Inv, NEW r \in Request, NextRule(r)
    PROVE  Inv'
<1>0. /\ Typed /\ view[r] \in View /\ ses[r].pc = "nextRule"
      /\ UNCHANGED <<tables, overlap, faults>> /\ children' = children
  BY DEF NextRule, Inv, Typed, tables
<1>1. PICK c \in First(Unanswered(r)) :
         IF c.target \in User
         THEN Answer(r, c, c.target) /\ UNCHANGED ses
         ELSE /\ view' = [view EXCEPT ![r].rule = c, ![r].layers = ChildrenOf(c.target)]
              /\ Goto(r, "readUsers")
  BY DEF NextRule
<1>2. c \in Child
  BY <1>0 DEF First, Unanswered, View
<1>3. CASE c.target \in User
  <2>1. PICK v \in View : view' = [view EXCEPT ![r] = v]
    BY <1>0, <1>1, <1>2, <1>3, AnswerView
  <2>2. ses' = [ses EXCEPT ![r].pc = "nextRule"]
    BY <1>0, <1>1, <1>3 DEF Typed, Session
  <2>3. ViewOK(r)'
    BY <1>0, <1>1, <1>3 DEF ViewOK
  <2>. QED  BY <1>0, <2>1, <2>2, <2>3, ViewInv
<1>4. CASE c.target \notin User
  <2>1. c.target \in Schedule /\ c.target # None
    BY <1>2, <1>4, AdminAssumption DEF Child, Parent
  <2>2. ChildrenOf(c.target) \subseteq Child
    BY <1>0 DEF ChildrenOf, Typed
  <2>3. PICK v \in View : v = [view[r] EXCEPT !.rule = c, !.layers = ChildrenOf(c.target)]
    BY <1>0, <1>2, <2>2 DEF View
  <2>4. view' = [view EXCEPT ![r] = v]
    BY <1>1, <1>4, <2>3
  <2>5. ses' = [ses EXCEPT ![r].pc = "readUsers"]
    BY <1>1, <1>4 DEF Goto
  <2>6. view'[r].rule = c /\ view'[r].layers = ChildrenOf(c.target)
    BY <1>0, <2>3, <2>4 DEF Typed, View
  <2>7. \A l \in ChildrenOf(c.target) : l \in Child /\ l.of = c.target /\ l.target \in User
    BY <2>1, <2>2 DEF ChildrenOf, Inv, RowOK
  <2>8. ViewOK(r)'
    BY <1>0, <1>2, <2>1, <2>6, <2>7 DEF ViewOK, ChildrenOf
  <2>. QED  BY <1>0, <2>4, <2>5, <2>8, ViewInv
<1>. QED  BY <1>3, <1>4

LEMMA ReadUsersInv ==
    ASSUME Inv, NEW r \in Request, ReadUsers(r)
    PROVE  Inv'
<1>0. /\ Typed /\ view[r] \in View /\ ses[r].pc = "readUsers" /\ ses[r] \in Session
      /\ UNCHANGED <<tables, overlap, faults>> /\ children' = children /\ overlap' = overlap
      /\ view[r].rule \in Child /\ view[r].rule.target \in Schedule
      /\ view[r].layers \subseteq {l \in Child : l.of = view[r].rule.target /\ l.target \in User}
      /\ \A l \in ChildrenOf(view[r].rule.target) :
            l \in view[r].layers \/ ChangedBeside(view[r].rule.target, r)
  BY DEF ReadUsers, Inv, Typed, tables, SessionOK, ViewOK
<1>1. PICK l \in First(view[r].layers) :
         IF l \in children
         THEN Answer(r, view[r].rule, l.target) /\ Goto(r, "nextRule")
         ELSE view' = [view EXCEPT ![r].layers = @ \ {l}] /\ UNCHANGED ses
  BY DEF ReadUsers
<1>2. l \in Child /\ l.target \in User
  BY <1>0 DEF First
<1>3. CASE l \in children
  <2>1. PICK v \in View : view' = [view EXCEPT ![r] = v]
    BY <1>0, <1>1, <1>2, <1>3, AnswerView
  <2>2. ses' = [ses EXCEPT ![r].pc = "nextRule"]
    BY <1>1, <1>3 DEF Goto
  <2>3. ViewOK(r)'
    BY <1>0, <2>2 DEF ViewOK, Typed
  <2>. QED  BY <1>0, <2>1, <2>2, <2>3, ViewInv
<1>4. CASE l \notin children
  <2>1. PICK v \in View : v = [view[r] EXCEPT !.layers = @ \ {l}]
    BY <1>0 DEF View
  <2>2. view' = [view EXCEPT ![r] = v]
    BY <1>1, <1>4, <2>1
  <2>3. ses' = [ses EXCEPT ![r].pc = "readUsers"] /\ ses' = ses
    BY <1>0, <1>1, <1>4 DEF Typed, Session
  <2>4. view'[r].rule = view[r].rule /\ view'[r].layers = view[r].layers \ {l}
    BY <1>0, <2>1, <2>2 DEF Typed, View
  <2>5. \A m \in ChildrenOf(view[r].rule.target) : m \in children
    BY DEF ChildrenOf
  <2>6. ViewOK(r)'
    BY <1>0, <1>4, <2>3, <2>4, <2>5 DEF ViewOK, ChildrenOf, ChangedBeside, Overlapped
  <2>. QED  BY <1>0, <2>2, <2>3, <2>6, ViewInv
<1>. QED  BY <1>3, <1>4

LEMMA NobodyOnCallInv ==
    ASSUME Inv, NEW r \in Request, NobodyOnCall(r)
    PROVE  Inv'
<1>0. /\ Typed /\ ses[r].pc = "readUsers" /\ view[r].rule \in Child
      /\ UNCHANGED <<tables, overlap, faults>>
      /\ Answer(r, view[r].rule, None) /\ ses' = [ses EXCEPT ![r].pc = "nextRule"]
  BY DEF NobodyOnCall, Goto, Inv, SessionOK, ViewOK
<1>1. PICK v \in View : view' = [view EXCEPT ![r] = v]
  BY <1>0, AnswerView
<1>2. ViewOK(r)'
  BY <1>0 DEF ViewOK, Typed
<1>. QED  BY <1>0, <1>1, <1>2, ViewInv

LEMMA SnapshotTakenInv ==
    ASSUME Inv, NEW r \in Request, SnapshotTaken(r)
    PROVE  Inv'
BY EndInv DEF SnapshotTaken, Open, Inv, Typed

LEMMA AbortVictimInv ==
    ASSUME Inv, NEW r \in Request, AbortVictim(r)
    PROVE  Inv'
BY FailInv DEF AbortVictim, Deadlocked, Open

LEMMA FaultInv ==
    ASSUME Inv, NEW r \in Request, Fault(r)
    PROVE  Inv'
<1>1. faults' \in 0 .. MaxFaults
  BY AdminAssumption DEF Fault, Inv, Typed
<1>. QED  BY <1>1, EndInv DEF Fault

\* The foreign key holds when a service takes a policy.
LEMMA AssignInv ==
    ASSUME Inv, NEW r \in Request, Assign(r)
    PROVE  Inv'
<1>0. /\ Typed /\ SessionOK(r) /\ ses[r] \in Session /\ Open(r) /\ ses[r].pc = "assign"
      /\ ses[r].on \in Policy /\ ses[r].op = "assign"
  BY DEF Inv, Typed, Assign, Open, SessionOK, PhaseOK
<1>1. CASE ses[r].on \notin exists
  BY <1>0, <1>1, FailInv DEF Assign
<1>2. CASE ses[r].on \in exists
  <2>1. /\ service' = ses[r].on /\ ses' = [ses EXCEPT ![r].pc = "done"]
        /\ exists' = exists /\ used' = used /\ children' = children
        /\ view' = view /\ overlap' = overlap /\ faults' = faults
    BY <1>2 DEF Assign, Goto
  <2>2. /\ ses' \in [Request -> Session]
        /\ ses'[r].pc = "done" /\ ses'[r].aim = ses[r].aim /\ ses'[r].gone = ses[r].gone
        /\ ses'[r].op = ses[r].op /\ ses'[r].on = ses[r].on /\ ses'[r].list = ses[r].list
        /\ \A x \in Request \ {r} : ses'[x] = ses[x]
    BY <1>0, <2>1 DEF Typed, Session, Phase
  <2>3. Typed'
    BY <1>0, <2>1, <2>2 DEF Typed
  <2>4. Quiet(r)
    BY <1>0, <2>1, <2>2 DEF Quiet, Progress
  <2>5. Met'
    BY <1>0, <2>2, <2>4, StillMet DEF Quiet
  <2>6. PhaseOK(r)' /\ ParentsOK(r)' /\ ReplacesOK(r)' /\ TargetsOK(r)' /\ ViewOK(r)'
    BY <1>0, <2>1, <2>2 DEF SessionOK, PhaseOK, ParentsOK, Open, ReplacesOK, TargetsOK, ViewOK
  <2>7. DeletesOK(r)'
    <3>1. \A c \in ses[r].gone \cup ses[r].aim : c.by \in Request \cup {None}
      BY <1>0 DEF Session, Child
    <3>2. \A c \in ses'[r].aim \cup ses'[r].gone : Committed(c.by)'
      BY <1>0, <2>2, <2>4, <3>1, StaysCommitted DEF SessionOK, DeletesOK, Quiet
    <3>3. Whole(ses[r].aim)' /\ Whole(ses[r].gone)'
      BY <1>0, <2>1, <2>2 DEF Whole, SessionOK, DeletesOK
    <3>. QED  BY <3>2, <3>3 DEF DeletesOK
  <2>. QED  BY <1>2, <2>1, <2>3, <2>4, <2>5, <2>6, <2>7, QuietInv DEF SessionOK
<1>. QED  BY <1>1, <1>2

-----------------------------------------------------------------------------
(***************************************************************************)
(* The two commits that change rows.                                       *)
(***************************************************************************)
LEMMA NewRowsAre ==
    ASSUME Inv, NEW r \in Request, ses[r].pc = "commit", NEW c \in NewRows(r)
    PROVE  /\ c \in Child /\ c.of = ses[r].on /\ c.by = r /\ ses[r].list # Keep
           /\ NewRows(r) = Rows(ses[r].on, r, ses[r].list)
           /\ c.of \in Schedule => c.target \in User
           /\ c.target \in Schedule => c.target \in ScheduleTargets(ses[r].list)
<1>1. ses[r].on \in Parent /\ ses[r].list \in Lists(ses[r].on) \cup {Keep}
  BY AdminAssumption DEF Inv, Typed, SessionOK, PhaseOK, Open
<1>2. ses[r].list # Keep /\ NewRows(r) = Rows(ses[r].on, r, ses[r].list)
  BY DEF NewRows
<1>3. PICK i \in DOMAIN ses[r].list :
         c = [of |-> ses[r].on, by |-> r, pos |-> i, target |-> ses[r].list[i]]
  BY <1>2 DEF Rows
<1>4. /\ ses[r].list \in Seq(User \cup Schedule)
      /\ ses[r].on \in Schedule => ses[r].list \in Seq(User)
  BY <1>1, <1>2, AdminAssumption DEF Lists
<1>5. /\ i \in Nat /\ ses[r].list[i] \in User \cup Schedule
      /\ ses[r].on \in Schedule => ses[r].list[i] \in User
  BY <1>3, <1>4
<1>6. c.of = ses[r].on /\ c.by = r /\ c.target = ses[r].list[i]
  BY <1>3
<1>7. c \in Child
  BY <1>1, <1>3, <1>5 DEF Child
<1>. QED  BY <1>2, <1>3, <1>5, <1>6, <1>7 DEF ScheduleTargets

LEMMA CommitEffect ==
    ASSUME Inv, NEW r \in Request, Commit(r)
    PROVE  /\ ses[r].pc = "commit" /\ Open(r) /\ ses[r].on \in used /\ ses[r].on \in Parent
           /\ exists' = exists \cup {ses[r].on}
           /\ children' = (children \ ses[r].gone) \cup NewRows(r)
           /\ Progress(r) /\ Typed' /\ Met' /\ service' = service /\ overlap' = overlap
           /\ \A x \in Request \ {r} : ses'[x] = ses[x] /\ view'[x] = view[x]
           /\ ses'[r].pc = "done" /\ ses'[r].aim = {} /\ ses'[r].gone = {}
           /\ ses'[r].op = ses[r].op /\ ses'[r].on = ses[r].on /\ ses'[r].list = ses[r].list
<1>0. /\ Typed /\ ses[r] \in Session /\ ses[r].pc = "commit" /\ Open(r)
      /\ ses[r].on \in used /\ ses[r].on \in Parent
      /\ exists' = exists \cup {ses[r].on}
      /\ children' = (children \ ses[r].gone) \cup NewRows(r)
      /\ used' = used /\ service' = service /\ view' = view /\ overlap' = overlap /\ faults' = faults
      /\ ses' = [ses EXCEPT ![r].pc = "done", ![r].aim = {}, ![r].gone = {}]
  BY DEF Inv, Typed, SessionOK, PhaseOK, Open, Commit, End
<1>1. /\ ses' \in [Request -> Session]
      /\ \A x \in Request \ {r} : ses'[x] = ses[x]
      /\ ses'[r].pc = "done" /\ ses'[r].aim = {} /\ ses'[r].gone = {}
      /\ ses'[r].op = ses[r].op /\ ses'[r].on = ses[r].on /\ ses'[r].list = ses[r].list
  BY <1>0 DEF Typed, Session, Phase
<1>2. children' \subseteq Child
  BY <1>0, NewRowsAre DEF Typed
<1>3. Typed'
  BY <1>0, <1>1, <1>2 DEF Typed
<1>4. Progress(r)
  BY <1>0, <1>1 DEF Progress
<1>5. Met'
  BY <1>0, <1>1, <1>4, StillMet
<1>. QED  BY <1>0, <1>1, <1>3, <1>4, <1>5

\* What the other requests know survives a commit: they overlap it.
LEMMA CommitOthers ==
    ASSUME Inv, NEW r \in Request, Commit(r), NEW x \in Request \ {r}
    PROVE  SessionOK(x)' /\ ParentsOK(x)'
<1>0. /\ ses[r].pc = "commit" /\ Open(r) /\ ses[r].on \in Parent
      /\ exists' = exists \cup {ses[r].on}
      /\ children' = (children \ ses[r].gone) \cup NewRows(r)
      /\ Progress(r) /\ PhaseOK(r) /\ overlap' = overlap
      /\ ses'[x] = ses[x] /\ view'[x] = view[x] /\ x \in Request
      /\ ses'[r].on = ses[r].on
      /\ used \subseteq used'
      /\ ses[x] \in Session /\ view[x] \in View
      /\ SessionOK(x) /\ ParentsOK(x) /\ ParentsOK(r)
  BY CommitEffect DEF Inv, Typed, SessionOK, Progress
<1>1. \A c \in NewRows(r) : c.of = ses[r].on /\ c.by = r /\ c \in Child
  BY <1>0, NewRowsAre
<1>2. Open(x) => Overlapped(r, x) /\ Overlapped(x, r)
  BY <1>0 DEF Inv, Met
<1>3. PhaseOK(x)'
  BY <1>0 DEF SessionOK, PhaseOK, Open
<1>4. ParentsOK(x)'
  <2>1. CASE ses[r].op = "create"
    BY <1>0, <2>1 DEF ParentsOK, Open, Inv, Met
  <2>2. CASE ses[r].op # "create"
    <3>1. ses[r].on \in exists
      BY <1>0, <2>2 DEF ParentsOK, PhaseOK
    <3>. QED  BY <1>0, <3>1 DEF ParentsOK, Open
  <2>. QED  BY <2>1, <2>2
<1>5. DeletesOK(x)'
  <2>1. \A c \in ses[x].gone \cup ses[x].aim : c.by \in Request \cup {None}
    BY <1>0 DEF Session, Child
  <2>2. \A c \in ses[x].aim \cup ses[x].gone : Committed(c.by) /\ Committed(c.by)'
    BY <1>0, <2>1, StaysCommitted DEF SessionOK, DeletesOK, Inv
  <2>3. \A c \in ses[x].aim \cup ses[x].gone : c.by # r
    BY <1>0, <2>2, AdminAssumption DEF Committed
  <2>4. Whole(ses[x].aim)' /\ Whole(ses[x].gone)'
    BY <1>0, <1>1, <2>3 DEF Whole, SessionOK, DeletesOK
  <2>. QED  BY <1>0, <2>2, <2>4 DEF DeletesOK
<1>6. ReplacesOK(x)'
  BY <1>0, <1>1, <1>2 DEF SessionOK, ReplacesOK, ChildrenOf, Overlapped, Open
<1>7. TargetsOK(x)'
  <2>1. \A s : RemovedBeside(s, x) => RemovedBeside(s, x)'
    BY <1>0, StaysRemoved
  <2>. QED  BY <1>0, <1>1, <1>2, <2>1 DEF SessionOK, TargetsOK, ScheduleTargets, Overlapped, Open
<1>8. ViewOK(x)'
  <2> SUFFICES ASSUME ses[x].pc = "readUsers", NEW l \in children', l.of = view[x].rule.target
               PROVE  l \in view[x].layers \/ ChangedBeside(view[x].rule.target, x)'
    BY <1>0 DEF SessionOK, ViewOK, ChildrenOf
  <2>1. view[x].rule.target \in Schedule /\ Open(x)
    BY <1>0 DEF SessionOK, ViewOK, Open
  <2>2. CASE l \in children
    <3>1. l \in view[x].layers \/ ChangedBeside(view[x].rule.target, x)
      BY <1>0, <2>2 DEF SessionOK, ViewOK, ChildrenOf
    <3>2. view[x].rule.target # None
      BY <2>1, AdminAssumption DEF Parent
    <3>. QED  BY <1>0, <3>1, <3>2, StaysChanged
  <2>3. CASE l \in NewRows(r)
    BY <1>0, <1>1, <1>2, <2>1, <2>3 DEF ChangedBeside, Overlapped
  <2>. QED  BY <1>0, <2>2, <2>3
<1>. QED  BY <1>3, <1>4, <1>5, <1>6, <1>7, <1>8 DEF SessionOK

LEMMA CommitRows ==
    ASSUME Inv, NEW r \in Request, Commit(r), NEW c \in children'
    PROVE  RowOK(c)'
<1>0. /\ ses[r].pc = "commit" /\ Open(r) /\ ses[r].on \in Parent
      /\ exists' = exists \cup {ses[r].on}
      /\ children' = (children \ ses[r].gone) \cup NewRows(r)
      /\ Progress(r) /\ PhaseOK(r) /\ overlap' = overlap /\ Typed
      /\ \A x \in Request \ {r} : ses'[x] = ses[x]
      /\ ses'[r].pc = "done" /\ ses'[r].list = ses[r].list
      /\ SessionOK(r) /\ ParentsOK(r)
      /\ \A d \in children : RowOK(d) /\ d.by \in Request \cup {None}
  BY CommitEffect DEF Inv, Typed, SessionOK, Child
<1>1. \A d \in NewRows(r) :
         /\ d \in Child /\ d.of = ses[r].on /\ d.by = r /\ ses[r].list # Keep
         /\ NewRows(r) = Rows(ses[r].on, r, ses[r].list)
         /\ d.of \in Schedule => d.target \in User
         /\ d.target \in Schedule => d.target \in ScheduleTargets(ses[r].list)
  BY <1>0, NewRowsAre
\* The rows of the parent that stay are those of overlapping requests.
<1>2. \A d \in children \ ses[r].gone : d.of = ses[r].on /\ ses[r].list # Keep =>
         Overlapped(d.by, r) /\ Overlapped(r, d.by)
  <2> SUFFICES ASSUME NEW d \in children \ ses[r].gone, d.of = ses[r].on, ses[r].list # Keep
               PROVE  Overlapped(d.by, r) /\ Overlapped(r, d.by)
    OBVIOUS
  <2>1. ses[r].op = "update"
    <3>1. d.of \in exists
      BY <1>0 DEF RowOK
    <3>. QED  BY <1>0, <3>1 DEF ParentsOK, PhaseOK
  <2>2. Overlapped(d.by, r)
    BY <1>0, <2>1 DEF SessionOK, ReplacesOK, ChildrenOf
  <2>3. {d.by, r} = {r, d.by}
    OBVIOUS
  <2>. QED  BY <2>2, <2>3 DEF Overlapped
<1>3. \A s, b : RemovedBeside(s, b) => RemovedBeside(s, b)'
  BY <1>0, StaysRemoved
<1>4. CASE c \in NewRows(r)
  <2>1. Committed(c.by)' /\ c.of \in exists' /\ (c.of \in Schedule => c.target \in User)
    BY <1>0, <1>1, <1>4 DEF Committed
  <2>2. Rows(c.of, c.by, ses'[c.by].list) \subseteq children'
    BY <1>0, <1>1, <1>4
  <2>3. \A d \in children' : c.of = d.of /\ c.by # d.by => Overlapped(c.by, d.by)'
    BY <1>0, <1>1, <1>2, <1>4 DEF Overlapped
  <2>4. ASSUME c.of \in Policy, c.target \in Schedule \ exists'
        PROVE  RemovedBeside(c.target, c.by)'
    <3>1. c.target \in ScheduleTargets(ses[r].list) \ exists /\ ses[r].on \in Policy /\ c.by = r
          /\ ses[r].list # Keep
      BY <1>0, <1>1, <1>4, <2>4
    <3>2. RemovedBeside(c.target, r)
      BY <1>0, <3>1 DEF SessionOK, TargetsOK
    <3>. QED  BY <1>3, <3>1, <3>2
  <2>. QED  BY <2>1, <2>2, <2>3, <2>4 DEF RowOK
<1>5. CASE c \in children \ ses[r].gone
  <2>0. RowOK(c) /\ c.by \in Request \cup {None} /\ Committed(c.by) /\ c.by # r
    BY <1>0, <1>5, AdminAssumption DEF RowOK, Committed
  <2>1. Committed(c.by)' /\ c.of \in exists' /\ (c.of \in Schedule => c.target \in User)
    BY <1>0, <2>0, StaysCommitted DEF RowOK
  <2>2. ASSUME c.by # None
        PROVE  Rows(c.of, c.by, ses'[c.by].list) \subseteq children'
    <3>1. ses'[c.by].list = ses[c.by].list
      BY <1>0, <2>0, <2>2
    <3>2. Rows(c.of, c.by, ses[c.by].list) \subseteq children
      BY <2>0, <2>2 DEF RowOK
    <3>3. \A d \in Rows(c.of, c.by, ses[c.by].list) : d.of = c.of /\ d.by = c.by
      BY DEF Rows
    <3>4. \A d \in Rows(c.of, c.by, ses[c.by].list) : d \notin ses[r].gone
      BY <1>0, <1>5, <3>2, <3>3 DEF SessionOK, DeletesOK, Whole
    <3>. QED  BY <1>0, <3>1, <3>2, <3>4
  <2>3. \A d \in children' : c.of = d.of /\ c.by # d.by => Overlapped(c.by, d.by)'
    BY <1>0, <1>1, <1>2, <1>5, <2>0 DEF Overlapped, RowOK
  <2>4. c.of \in Policy /\ c.target \in Schedule \ exists' => RemovedBeside(c.target, c.by)'
    BY <1>0, <1>3, <2>0 DEF RowOK
  <2>. QED  BY <2>1, <2>2, <2>3, <2>4 DEF RowOK
<1>. QED  BY <1>0, <1>4, <1>5

LEMMA CommitInv ==
    ASSUME Inv, NEW r \in Request, Commit(r)
    PROVE  Inv'
<1>0. /\ ses[r].pc = "commit" /\ Open(r) /\ ses[r].on \in used
      /\ exists' = exists \cup {ses[r].on}
      /\ Progress(r) /\ Typed' /\ Met' /\ service' = service
      /\ ses'[r].pc = "done" /\ ses'[r].aim = {} /\ ses'[r].gone = {}
      /\ ses'[r].op = ses[r].op /\ ses'[r].on = ses[r].on /\ ses'[r].list = ses[r].list
      /\ used \subseteq used' /\ SessionOK(r)
  BY CommitEffect DEF Progress, Inv
<1>1. SessionOK(r)' /\ ParentsOK(r)'
  <2>1. PhaseOK(r)' /\ ParentsOK(r)'
    BY <1>0 DEF SessionOK, PhaseOK, ParentsOK, Open
  <2>2. DeletesOK(r)' /\ ReplacesOK(r)' /\ TargetsOK(r)' /\ ViewOK(r)'
    BY <1>0 DEF DeletesOK, Whole, ReplacesOK, TargetsOK, ViewOK
  <2>. QED  BY <2>1, <2>2 DEF SessionOK
<1>2. \A x \in Request : SessionOK(x)' /\ ParentsOK(x)'
  BY <1>1, CommitOthers
<1>3. \A c \in children' : RowOK(c)'
  BY CommitRows
<1>4. service' \in exists' \cup {None}
  BY <1>0 DEF Inv
<1>. QED  BY <1>0, <1>2, <1>3, <1>4 DEF Inv

LEMMA CascadeEffect ==
    ASSUME Inv, NEW r \in Request, Cascade(r), ForeignKeyHolds(ses[r].on)
    PROVE  /\ ses[r].pc = "cascade" /\ Open(r) /\ ses[r].on \in Parent /\ ses[r].op = "remove"
           /\ exists' = exists \ {ses[r].on}
           /\ children' = children \ ChildrenOf(ses[r].on)
           /\ Progress(r) /\ Typed' /\ Met' /\ service' = service /\ overlap' = overlap
           /\ \A x \in Request \ {r} : ses'[x] = ses[x] /\ view'[x] = view[x]
           /\ ses'[r].pc = "done" /\ ses'[r].aim = ses[r].aim /\ ses'[r].gone = ses[r].gone
           /\ ses'[r].op = ses[r].op /\ ses'[r].on = ses[r].on /\ ses'[r].list = ses[r].list
<1>0. /\ Typed /\ ses[r] \in Session /\ ses[r].pc = "cascade" /\ Open(r)
      /\ ses[r].on \in Parent /\ ses[r].op = "remove"
      /\ exists' = exists \ {ses[r].on}
      /\ children' = children \ ChildrenOf(ses[r].on)
      /\ used' = used /\ service' = service /\ view' = view /\ overlap' = overlap /\ faults' = faults
      /\ ses' = [ses EXCEPT ![r].pc = "done"]
  BY DEF Inv, Typed, SessionOK, PhaseOK, Open, Cascade, Goto
<1>1. /\ ses' \in [Request -> Session]
      /\ \A x \in Request \ {r} : ses'[x] = ses[x]
      /\ ses'[r].pc = "done" /\ ses'[r].aim = ses[r].aim /\ ses'[r].gone = ses[r].gone
      /\ ses'[r].op = ses[r].op /\ ses'[r].on = ses[r].on /\ ses'[r].list = ses[r].list
  BY <1>0 DEF Typed, Session, Phase
<1>2. Typed'
  BY <1>0, <1>1 DEF Typed
<1>3. Progress(r)
  BY <1>0, <1>1 DEF Progress
<1>4. Met'
  BY <1>0, <1>1, <1>3, StillMet
<1>. QED  BY <1>0, <1>1, <1>2, <1>3, <1>4

\* Who named the schedule, or updates the policy, that is deleted.
LEMMA CascadeOthers ==
    ASSUME Inv, NEW r \in Request, Cascade(r), ForeignKeyHolds(ses[r].on), NEW x \in Request \ {r}
    PROVE  SessionOK(x)' /\ ParentsOK(x)'
<1>0. /\ ses[r].pc = "cascade" /\ Open(r) /\ ses[r].on \in Parent /\ ses[r].op = "remove"
      /\ exists' = exists \ {ses[r].on}
      /\ children' = children \ ChildrenOf(ses[r].on)
      /\ Progress(r) /\ PhaseOK(r) /\ overlap' = overlap
      /\ ses'[x] = ses[x] /\ view'[x] = view[x] /\ x \in Request
      /\ ses'[r].on = ses[r].on /\ ses'[r].op = ses[r].op
      /\ used \subseteq used'
      /\ ses[x] \in Session /\ view[x] \in View
      /\ SessionOK(x) /\ ParentsOK(x)
  BY CascadeEffect DEF Inv, Typed, SessionOK, Progress
<1>1. Open(x) => Overlapped(r, x)
  BY <1>0 DEF Inv, Met
<1>2. PhaseOK(x)'
  BY <1>0 DEF SessionOK, PhaseOK, Open
<1>3. ParentsOK(x)'
  BY <1>0 DEF ParentsOK, Open, Inv, Met
<1>4. DeletesOK(x)'
  <2>1. \A c \in ses[x].gone \cup ses[x].aim : c.by \in Request \cup {None}
    BY <1>0 DEF Session, Child
  <2>2. \A c \in ses[x].aim \cup ses[x].gone : Committed(c.by)'
    BY <1>0, <2>1, StaysCommitted DEF SessionOK, DeletesOK, Inv
  <2>3. Whole(ses[x].aim)' /\ Whole(ses[x].gone)'
    BY <1>0 DEF Whole, SessionOK, DeletesOK
  <2>. QED  BY <1>0, <2>2, <2>3 DEF DeletesOK
<1>5. ReplacesOK(x)'
  BY <1>0 DEF SessionOK, ReplacesOK, ChildrenOf, Overlapped
<1>6. TargetsOK(x)'
  <2>1. \A s : RemovedBeside(s, x) => RemovedBeside(s, x)'
    BY <1>0, StaysRemoved
  <2>2. Open(x) => RemovedBeside(ses[r].on, x)'
    BY <1>0, <1>1 DEF RemovedBeside, Overlapped
  <2>. QED  BY <1>0, <2>1, <2>2 DEF SessionOK, TargetsOK, ScheduleTargets, Overlapped, Open
<1>7. ViewOK(x)'
  <2>1. \A s \in Schedule : ChangedBeside(s, x) => ChangedBeside(s, x)'
    BY <1>0, StaysChanged, AdminAssumption DEF Parent
  <2>. QED  BY <1>0, <2>1 DEF SessionOK, ViewOK, ChildrenOf
<1>. QED  BY <1>2, <1>3, <1>4, <1>5, <1>6, <1>7 DEF SessionOK

LEMMA CascadeRows ==
    ASSUME Inv, NEW r \in Request, Cascade(r), ForeignKeyHolds(ses[r].on), NEW c \in children'
    PROVE  RowOK(c)'
<1>0. /\ ses[r].pc = "cascade" /\ ses[r].op = "remove"
      /\ exists' = exists \ {ses[r].on}
      /\ children' = children \ ChildrenOf(ses[r].on)
      /\ Progress(r) /\ PhaseOK(r) /\ overlap' = overlap /\ Typed
      /\ \A x \in Request \ {r} : ses'[x] = ses[x]
      /\ ses'[r].on = ses[r].on /\ ses'[r].op = ses[r].op
      /\ ses'[r].list = ses[r].list
      /\ SessionOK(r)
      /\ RowOK(c) /\ c.by \in Request \cup {None} /\ c.of # ses[r].on /\ c \in children
  BY CascadeEffect DEF Inv, Typed, SessionOK, Child, ChildrenOf
<1>1. Committed(c.by)' /\ c.of \in exists' /\ (c.of \in Schedule => c.target \in User)
  BY <1>0, StaysCommitted DEF RowOK
<1>2. ASSUME c.by # None
      PROVE  Rows(c.of, c.by, ses'[c.by].list) \subseteq children'
  <2>1. ses'[c.by].list = ses[c.by].list
    BY <1>0, <1>2
  <2>2. Rows(c.of, c.by, ses[c.by].list) \subseteq children
    BY <1>0, <1>2 DEF RowOK
  <2>3. \A d \in Rows(c.of, c.by, ses[c.by].list) : d.of = c.of
    BY DEF Rows
  <2>. QED  BY <1>0, <2>1, <2>2, <2>3 DEF ChildrenOf
<1>3. \A d \in children' : c.of = d.of /\ c.by # d.by => Overlapped(c.by, d.by)'
  BY <1>0 DEF RowOK, Overlapped
<1>4. ASSUME c.of \in Policy, c.target \in Schedule \ exists'
      PROVE  RemovedBeside(c.target, c.by)'
  <2>1. CASE c.target \in exists
    <3>1. c.target = ses[r].on
      BY <1>0, <1>4, <2>1
    <3>2. Overlapped(r, c.by)
      BY <1>0, <1>4, <3>1 DEF SessionOK, TargetsOK
    <3>. QED  BY <1>0, <3>1, <3>2 DEF RemovedBeside, Overlapped
  <2>2. CASE c.target \notin exists
    BY <1>0, <1>4, <2>2, StaysRemoved DEF RowOK
  <2>. QED  BY <2>1, <2>2
<1>. QED  BY <1>1, <1>2, <1>3, <1>4 DEF RowOK

LEMMA CascadeInv ==
    ASSUME Inv, NEW r \in Request, Cascade(r)
    PROVE  Inv'
<1>1. CASE ~ForeignKeyHolds(ses[r].on)
  BY <1>1, FailInv DEF Cascade, Open
<1>2. CASE ForeignKeyHolds(ses[r].on)
  <2>0. /\ ses[r].pc = "cascade" /\ Open(r) /\ ses[r].op = "remove"
        /\ exists' = exists \ {ses[r].on}
        /\ children' = children \ ChildrenOf(ses[r].on)
        /\ Progress(r) /\ Typed' /\ Met' /\ service' = service
        /\ ses'[r].pc = "done" /\ ses'[r].aim = ses[r].aim /\ ses'[r].gone = ses[r].gone
        /\ ses'[r].op = ses[r].op /\ ses'[r].on = ses[r].on /\ ses'[r].list = ses[r].list
        /\ used \subseteq used' /\ SessionOK(r) /\ Typed /\ ses[r] \in Session
    BY <1>2, CascadeEffect DEF Progress, Inv, Typed
  <2>1. PhaseOK(r)' /\ ParentsOK(r)' /\ ReplacesOK(r)' /\ TargetsOK(r)' /\ ViewOK(r)'
    BY <2>0 DEF SessionOK, PhaseOK, ParentsOK, Open, ReplacesOK, TargetsOK, ViewOK
  <2>2. DeletesOK(r)'
    <3>1. \A c \in ses[r].gone \cup ses[r].aim : c.by \in Request \cup {None}
      BY <2>0 DEF Session, Child
    <3>2. \A c \in ses[r].aim \cup ses[r].gone : Committed(c.by)'
      BY <2>0, <3>1, StaysCommitted DEF SessionOK, DeletesOK
    <3>3. Whole(ses[r].aim)' /\ Whole(ses[r].gone)'
      BY <2>0 DEF Whole, SessionOK, DeletesOK
    <3>. QED  BY <2>0, <3>2, <3>3 DEF DeletesOK
  <2>3. \A x \in Request : SessionOK(x)' /\ ParentsOK(x)'
    BY <1>2, <2>1, <2>2, CascadeOthers DEF SessionOK
  <2>4. \A c \in children' : RowOK(c)'
    BY <1>2, CascadeRows
  <2>5. service' \in exists' \cup {None}
    BY <1>2, <2>0 DEF Inv, ForeignKeyHolds
  <2>. QED  BY <2>0, <2>3, <2>4, <2>5 DEF Inv
<1>. QED  BY <1>1, <1>2

-----------------------------------------------------------------------------
LEMMA StutterInv ==
    ASSUME Inv, UNCHANGED vars
    PROVE  Inv'
<1>0. /\ ses' = ses /\ view' = view /\ exists' = exists /\ used' = used /\ children' = children
      /\ service' = service /\ overlap' = overlap /\ faults' = faults
  BY DEF vars
<1>1. Typed' /\ Met' /\ (service \in exists \cup {None})'
  BY <1>0 DEF Inv, Typed, Met, Open, Overlapped
<1>2. ASSUME NEW r \in Request
      PROVE  SessionOK(r)' /\ ParentsOK(r)'
  <2>0. SessionOK(r) /\ ParentsOK(r)
    BY DEF Inv
  <2>1. PhaseOK(r)' /\ ParentsOK(r)'
    BY <1>0, <2>0 DEF SessionOK, PhaseOK, ParentsOK, Open
  <2>2. DeletesOK(r)'
    BY <1>0, <2>0 DEF SessionOK, DeletesOK, Committed, Whole
  <2>3. ReplacesOK(r)'
    <3>1. ses'[r] = ses[r] /\ children' = children
      BY <1>0
    <3>2. \A b : Overlapped(b, r) => Overlapped(b, r)'
      BY <1>0 DEF Overlapped
    <3>. QED  BY <2>0, <3>1, <3>2 DEF SessionOK, ReplacesOK, ChildrenOf
  <2>4. TargetsOK(r)'
    <3>1. ses'[r] = ses[r] /\ children' = children /\ exists' = exists
      BY <1>0
    <3>2. \A b : Overlapped(r, b) => Overlapped(r, b)'
      BY <1>0 DEF Overlapped
    <3>3. \A s : RemovedBeside(s, r) => RemovedBeside(s, r)'
      BY <1>0 DEF RemovedBeside, Overlapped
    <3>. QED  BY <2>0, <3>1, <3>2, <3>3 DEF SessionOK, TargetsOK, ScheduleTargets
  <2>5. ViewOK(r)'
    BY <1>0, <2>0 DEF SessionOK, ViewOK, ChildrenOf, ChangedBeside, Overlapped
  <2>. QED  BY <2>1, <2>2, <2>3, <2>4, <2>5 DEF SessionOK
<1>3. ASSUME NEW c \in children
      PROVE  RowOK(c)'
  <2>0. RowOK(c)
    BY DEF Inv
  <2>1. RemovedBeside(c.target, c.by) => RemovedBeside(c.target, c.by)'
    BY <1>0 DEF RemovedBeside, Overlapped
  <2>2. Committed(c.by)'
    BY <1>0, <2>0 DEF RowOK, Committed
  <2>. QED  BY <1>0, <2>0, <2>1, <2>2 DEF RowOK, Overlapped
<1>. QED  BY <1>0, <1>1, <1>2, <1>3 DEF Inv

LEMMA NextInv == Inv /\ [Next]_vars => Inv'
<1> SUFFICES ASSUME Inv, [Next]_vars PROVE Inv'
  OBVIOUS
<1>1. ASSUME NEW r \in Request, Step(r) PROVE Inv'
  BY <1>1, StartDeleteInv, FinishDeleteInv, ValidateInv, WriteInv, CommitInv, CheckUseInv,
     RemoveInv, CascadeInv, AssignInv, ReadPolicyInv, ReadRulesInv, NextRuleInv, ReadUsersInv,
     NobodyOnCallInv, SnapshotTakenInv, AbortVictimInv DEF Step
<1>. QED  BY <1>1, BeginSomeInv, FaultInv, StutterInv DEF Next, Rest

LEMMA Invariance == Spec => []Inv
BY InitInv, NextInv, PTL DEF Spec

\* The variables hold what their tables and the memory of a request can hold.
THEOREM TypeCorrect == Spec => []TypeOK
<1>1. Inv => TypeOK
  BY DEF Inv, Typed, Session, View, TypeOK
<1>. QED  BY <1>1, Invariance, PTL

\* Of every request all rows are there or none, whatever races.
THEOREM ListsAreWhole == Spec => []ListsWhole
<1>1. Inv => ListsWhole
  BY DEF Inv, RowOK, ListsWhole
<1>. QED  BY <1>1, Invariance, PTL

\* Rows of two requests stand side by side only if the two overlapped.
THEOREM ListsAreReplaced == Spec => []OneListUnlessRaced
<1>1. Inv => OneListUnlessRaced
  BY DEF Inv, RowOK, OneListUnlessRaced
<1>. QED  BY <1>1, Invariance, PTL

\* Services and rows refer to what is there; a rule may name a schedule that is
\* gone only if it was deleted beside the request that wrote the rule.
THEOREM ReferencesAreKept == Spec => []ReferencesExist
<1>1. Inv => ReferencesExist
  BY DEF Inv, RowOK, RemovedBeside, ReferencesExist
<1>. QED  BY <1>1, Invariance, PTL

\* An ingestion finds nobody on call for a schedule with layers only if the
\* schedule was changed beside it.
THEOREM NobodyIsRaced == Spec => NobodyUnlessRaced
<1> DEFINE Raced(r) == \A a \in view'[r].paged \ view[r].paged :
                          a.user = None /\ ChildrenOf(a.rule.target) # {} =>
                             \E q \in Request : ses[q].on = a.rule.target /\ Overlapped(q, r)
<1>1. ASSUME Inv, NEW r \in Request, ses[r].pc = "readUsers", ses'[r].pc = "nextRule",
             NEW q \in Request, BeginSome(q) \/ Step(q) \/ Fault(q)
      PROVE  Raced(r)
  <2>1. q = r
    <3>1. \A pc : Goto(q, pc) \/ End(q, pc) => q = r
      BY <1>1 DEF Goto, End, Inv, Typed
    <3>2. ASSUME NEW op, NEW p, NEW list, NEW pc, Begin(q, op, p, list, pc)
          PROVE  q = r
      BY <1>1, <3>2 DEF Begin, Inv, Typed
    <3>3. CASE BeginSome(q)
      BY <3>2, <3>3 DEF BeginSome, BeginCreate, BeginUpdate, BeginRemove, BeginAssign, BeginSnapshot, Unassign
    <3>4. CASE Fault(q)
      BY <3>1, <3>4 DEF Fault
    <3>5. CASE StartDelete(q) \/ FinishDelete(q)
      BY <1>1, <3>5 DEF StartDelete, FinishDelete, Inv, Typed
    <3>6. CASE Validate(q) \/ Write(q) \/ Commit(q) \/ CheckUse(q) \/ Remove(q) \/ Cascade(q) \/ Assign(q)
      BY <3>1, <3>6 DEF Validate, Write, Commit, CheckUse, Remove, Cascade, Assign, Fail
    <3>7. CASE ReadPolicy(q) \/ ReadRules(q) \/ NobodyOnCall(q) \/ SnapshotTaken(q) \/ AbortVictim(q)
      BY <3>1, <3>7 DEF ReadPolicy, ReadRules, NobodyOnCall, SnapshotTaken, AbortVictim, Fail
    <3>8. CASE NextRule(q) \/ ReadUsers(q)
      BY <1>1, <3>1, <3>8 DEF NextRule, ReadUsers
    <3>. QED  BY <1>1, <3>3, <3>4, <3>5, <3>6, <3>7, <3>8 DEF Step
  <2>2. view[r] \in View /\ Typed /\ ses[r] \in Session
    BY <1>1 DEF Inv, Typed
  <2>3. /\ view[r].rule \in Child
        /\ view[r].layers \subseteq {l \in Child : l.of = view[r].rule.target /\ l.target \in User}
        /\ \A l \in ChildrenOf(view[r].rule.target) :
              l \in view[r].layers \/ ChangedBeside(view[r].rule.target, r)
    BY <1>1 DEF Inv, SessionOK, ViewOK
  <2>4. ReadUsers(r) \/ NobodyOnCall(r)
    <3>1. ~BeginSome(r)
      BY <1>1 DEF BeginSome, BeginCreate, BeginUpdate, BeginRemove, BeginAssign, BeginSnapshot, Unassign, Begin
    <3>2. ~Fault(r)
      BY <1>1, <2>2 DEF Fault, End, Typed, Session
    <3>. QED  BY <1>1, <2>1, <3>1, <3>2
              DEF Step, StartDelete, FinishDelete, Validate, Write, Commit, CheckUse, Remove, Cascade,
                  Assign, ReadPolicy, ReadRules, NextRule, SnapshotTaken, AbortVictim, Deadlocked
  <2>5. ASSUME NEW rule, NEW user, Answer(r, rule, user)
        PROVE  \A a \in view'[r].paged \ view[r].paged : a.rule = rule /\ a.user = user
    BY <2>2, <2>5 DEF Answer, Typed, View
  <2>6. CASE ReadUsers(r)
    <3>1. PICK l \in First(view[r].layers) :
             IF l \in children
             THEN Answer(r, view[r].rule, l.target) /\ Goto(r, "nextRule")
             ELSE view' = [view EXCEPT ![r].layers = @ \ {l}] /\ UNCHANGED ses
      BY <2>6 DEF ReadUsers
    <3>2. l.target \in User /\ l.target # None
      BY <2>3, AdminAssumption DEF First
    <3>3. CASE l \in children
      BY <2>5, <3>1, <3>2, <3>3
    <3>4. CASE l \notin children
      BY <1>1, <3>1, <3>4
    <3>. QED  BY <3>3, <3>4
  <2>7. CASE NobodyOnCall(r)
    <3>1. Answer(r, view[r].rule, None) /\ view[r].layers = {}
      BY <2>7 DEF NobodyOnCall, NoLayerLeft
    <3>2. \A a \in view'[r].paged \ view[r].paged : a.rule = view[r].rule
      BY <2>5, <3>1
    <3>. QED  BY <2>3, <3>1, <3>2 DEF ChangedBeside
  <2>. QED  BY <2>4, <2>6, <2>7
<1>2. Inv /\ [Next]_vars =>
         [\A r \in Request :
            ses[r].pc = "readUsers" /\ ses'[r].pc = "nextRule" => Raced(r)]_vars
  <2>. HIDE DEF Raced
  <2>. QED  BY <1>1 DEF Next, Rest
<1>3. Inv /\ [Next]_vars => [\A r \in Request :
        ses[r].pc = "readUsers" /\ ses'[r].pc = "nextRule" =>
            \A a \in view'[r].paged \ view[r].paged :
                a.user = None /\ ChildrenOf(a.rule.target) # {} =>
                    \E q \in Request : /\ ses[q].on = a.rule.target
                                       /\ Overlapped(q, r)]_vars
  BY <1>2
<1>. QED  BY <1>3, Invariance, PTL DEF Spec, NobodyUnlessRaced
-----------------------------------------------------------------------------
(***************************************************************************)
(* Requests never all wait for each other.                                 *)
(*                                                                         *)
(* Of two requests that replace the rows of one parent at most one has     *)
(* deleted any.  What a DELETE finds are all rows the parent has at the    *)
(* time, and a row that is gone does not come back: of the rows two        *)
(* requests have found, those still there are comparable, as the later of  *)
(* the two statements has found them all.  A request that goes on has      *)
(* found no row another one has deleted, so that one of the two has none.  *)
(***************************************************************************)
Found(r) == (ses[r].aim \cup ses[r].gone) \cap children

Comparable(X, Y) == X \subseteq Y \/ Y \subseteq X

\* What a request has found and deleted are rows of its parent.
Holds(r) ==
    /\ \A c \in ses[r].aim \cup ses[r].gone : c.of = ses[r].on
    /\ ses[r].gone \subseteq children
    /\ ses[r].gone # {} =>
          ses[r].pc \in {"deleteLayers", "deletingLayers", "validate", "write", "commit"}
    /\ ses[r].aim # {} => ses[r].pc \in {"deleting", "deletingLayers"}

Apart(q, r) ==
    /\ ses[q].gone \cap ses[r].gone = {}
    /\ ses[q].on = ses[r].on =>
          /\ Comparable(Found(q), Found(r))
          /\ Comparable(Found(q), ses[r].gone)
          /\ Comparable(ses[q].gone, Found(r))
          /\ Comparable(ses[q].gone, ses[r].gone)

LocksOK == \A r \in Request : Holds(r) /\ \A q \in Request \ {r} : Apart(q, r)

\* At most one request has deleted rows of a parent.
LEMMA OneDeletes ==
    ASSUME LocksOK, NEW q \in Request, NEW r \in Request, q # r, ses[q].on = ses[r].on
    PROVE  ses[q].gone = {} \/ ses[r].gone = {}
BY DEF LocksOK, Apart, Comparable

\* A request that has not begun, or has ended, holds nothing.
LEMMA Empty ==
    ASSUME LocksOK, NEW r \in Request,
           ses[r].pc \notin {"delete", "deleting", "deleteLayers", "deletingLayers",
                             "validate", "write", "commit"}
    PROVE  ses[r].aim = {} /\ ses[r].gone = {}
BY DEF LocksOK, Holds

\* Nothing changes for the others when one request lets go of what it holds, or
\* keeps it.
LEMMA KeepLocks ==
    ASSUME LocksOK, NEW r \in Request,
           children' = children,
           \A x \in Request \ {r} : ses'[x] = ses[x],
           \/ ses'[r].aim = {} /\ ses'[r].gone = {}
           \/ /\ ses'[r].on = ses[r].on /\ ses'[r].aim = ses[r].aim /\ ses'[r].gone = ses[r].gone
              /\ ses'[r].gone # {} =>
                    ses'[r].pc \in {"deleteLayers", "deletingLayers", "validate", "write", "commit"}
              /\ ses'[r].aim # {} => ses'[r].pc \in {"deleting", "deletingLayers"}
    PROVE  LocksOK'
<1>1. ASSUME NEW x \in Request
      PROVE  Holds(x)'
  BY DEF LocksOK, Holds
<1>2. ASSUME NEW q \in Request, NEW x \in Request, q # x
      PROVE  Apart(q, x)'
  <2>0. Apart(q, x)
    BY <1>2 DEF LocksOK
  <2>1. CASE r \notin {q, x}
    BY <1>2, <2>0, <2>1 DEF Apart, Found, Comparable
  <2>2. CASE r = q
    BY <1>2, <2>0, <2>2 DEF Apart, Found, Comparable
  <2>3. CASE r = x
    BY <1>2, <2>0, <2>3 DEF Apart, Found, Comparable
  <2>. QED  BY <2>1, <2>2, <2>3
<1>. QED  BY <1>1, <1>2 DEF LocksOK

\* A statement that starts finds all rows there are.
LEMMA StartDeleteLocks ==
    ASSUME Inv, LocksOK, NEW r \in Request, StartDelete(r)
    PROVE  LocksOK'
<1>0. /\ children' = children /\ Typed
      /\ ses[r].pc \in {"delete", "deleteLayers"}
      /\ \A x \in Request \ {r} : ses'[x] = ses[x]
      /\ ses'[r].pc = IF ses[r].pc = "delete" THEN "deleting" ELSE "deletingLayers"
      /\ ses'[r].aim = ChildrenOf(ses[r].on) /\ ses'[r].gone = ses[r].gone
      /\ ses'[r].on = ses[r].on
  BY DEF Inv, Typed, StartDelete, Reading, tables, Replaced, Session
<1>1. \A x \in Request : Found(x) \subseteq ChildrenOf(ses[x].on)
  BY DEF LocksOK, Holds, Found, ChildrenOf
<1>2. Holds(r)' /\ Found(r)' = ChildrenOf(ses[r].on)
  BY <1>0 DEF LocksOK, Holds, Found, ChildrenOf
<1>3. ASSUME NEW x \in Request \ {r}
      PROVE  Holds(x)' /\ Apart(x, r)' /\ Apart(r, x)'
  <2>1. Holds(x) /\ Apart(x, r) /\ ses'[x] = ses[x] /\ Found(x)' = Found(x)
    BY <1>0 DEF LocksOK, Found
  <2>2. Holds(x)'
    BY <1>0, <2>1 DEF Holds
  <2>3. ses[x].on = ses[r].on =>
           Found(x) \subseteq ChildrenOf(ses[r].on) /\ ses[x].gone \subseteq ChildrenOf(ses[r].on)
    BY <1>1, <2>1 DEF Holds, ChildrenOf
  <2>. QED  BY <1>0, <1>2, <2>1, <2>2, <2>3 DEF Apart, Comparable
<1>4. ASSUME NEW q \in Request \ {r}, NEW x \in Request \ {r}, q # x
      PROVE  Apart(q, x)'
  BY <1>0, <1>4 DEF LocksOK, Apart, Found, Comparable
<1>. QED  BY <1>2, <1>3, <1>4 DEF LocksOK

\* A statement that goes on deletes what nobody else has deleted.
LEMMA FinishDeleteLocks ==
    ASSUME Inv, LocksOK, NEW r \in Request, FinishDelete(r)
    PROVE  LocksOK'
<1>0. /\ children' = children /\ Typed
      /\ ses[r].pc \in {"deleting", "deletingLayers"}
      /\ \A x \in Request \ {r} : ses'[x] = ses[x]
      /\ ses'[r].pc \in {"validate", "deleteLayers", "write"}
      /\ ses'[r].aim = {} /\ ses'[r].gone = ses[r].gone \cup (ses[r].aim \cap children)
      /\ ses'[r].on = ses[r].on /\ ~RowsTaken(r, ses[r].aim)
  BY DEF Inv, Typed, FinishDelete, AfterDelete, Reading, tables, Session
<1>1. Holds(r)' /\ Found(r)' = Found(r) /\ ses'[r].gone = Found(r)
  BY <1>0 DEF LocksOK, Holds, Found
<1>2. ASSUME NEW x \in Request \ {r}
      PROVE  Holds(x)' /\ Apart(x, r)' /\ Apart(r, x)'
  <2>1. Holds(x) /\ Apart(x, r) /\ ses'[x] = ses[x] /\ Found(x)' = Found(x)
    BY <1>0 DEF LocksOK, Found
  <2>2. Holds(x)'
    BY <1>0, <2>1 DEF Holds
  <2>3. ses[x].gone \cap ses[r].aim = {}
    BY <1>0, <2>1 DEF RowsTaken, Holds, Open
  <2>4. ses'[x].gone \cap ses'[r].gone = {}
    BY <1>0, <2>1, <2>3 DEF Apart
  <2>. QED  BY <1>0, <1>1, <2>1, <2>2, <2>4 DEF Apart, Comparable
<1>3. ASSUME NEW q \in Request \ {r}, NEW x \in Request \ {r}, q # x
      PROVE  Apart(q, x)'
  BY <1>0, <1>3 DEF LocksOK, Apart, Found, Comparable
<1>. QED  BY <1>1, <1>2, <1>3 DEF LocksOK

\* Rows that nobody else has deleted go, and rows come that nobody has found.
LEMMA CommittedLocks ==
    ASSUME LocksOK, NEW r \in Request, NEW going, NEW coming,
           children' = (children \ going) \cup coming,
           \A x \in Request \ {r} : ses'[x] = ses[x],
           ses'[r].aim = {} /\ ses'[r].gone = {},
           \A x \in Request \ {r} :
              ses[x].gone \cap going = {} /\ (ses[x].aim \cup ses[x].gone) \cap coming = {}
    PROVE  LocksOK'
<1>1. ASSUME NEW x \in Request \ {r}
      PROVE  Holds(x)' /\ Found(x)' = Found(x) \ going
  BY DEF LocksOK, Holds, Found
<1>2. Holds(r)' /\ Found(r)' = {}
  BY DEF Holds, Found
<1>3. ASSUME NEW q \in Request, NEW x \in Request, q # x
      PROVE  Apart(q, x)'
  <2>1. CASE r \in {q, x}
    BY <1>1, <1>2, <2>1 DEF Apart, Comparable
  <2>2. CASE r \notin {q, x}
    <3>1. ses[q].gone = ses[q].gone \ going /\ ses[x].gone = ses[x].gone \ going
      BY <2>2
    <3>. QED  BY <1>1, <1>3, <2>2, <3>1 DEF LocksOK, Apart, Comparable
  <2>. QED  BY <2>1, <2>2
<1>. QED  BY <1>1, <1>2, <1>3 DEF LocksOK
LEMMA CommitLocks ==
    ASSUME Inv, LocksOK, NEW r \in Request, Commit(r)
    PROVE  LocksOK'
<1>0. /\ children' = (children \ ses[r].gone) \cup NewRows(r)
      /\ \A x \in Request \ {r} : ses'[x] = ses[x]
      /\ ses'[r].aim = {} /\ ses'[r].gone = {} /\ ses[r].pc = "commit"
  BY CommitEffect
<1>1. ASSUME NEW x \in Request \ {r}
      PROVE  ses[x].gone \cap ses[r].gone = {} /\ (ses[x].aim \cup ses[x].gone) \cap NewRows(r) = {}
  <2>1. \A c \in NewRows(r) : c.by = r
    BY DEF NewRows, Rows
  <2>2. \A c \in ses[x].aim \cup ses[x].gone : Committed(c.by)
    BY DEF Inv, SessionOK, DeletesOK
  <2>3. ~Committed(r)
    BY <1>0, AdminAssumption DEF Committed
  <2>. QED  BY <2>1, <2>2, <2>3 DEF LocksOK, Apart
<1> DEFINE going == ses[r].gone
           coming == NewRows(r)
<1>2. /\ children' = (children \ going) \cup coming
      /\ \A x \in Request \ {r} :
            ses[x].gone \cap going = {} /\ (ses[x].aim \cup ses[x].gone) \cap coming = {}
  BY <1>0, <1>1
<1>. HIDE DEF going, coming
<1>. QED  BY <1>0, <1>2, CommittedLocks

LEMMA EndLocks ==
    ASSUME Inv, LocksOK, NEW r \in Request, NEW pc \in {"done", "failed"}, End(r, pc), children' = children
    PROVE  LocksOK'
<1>1. /\ \A x \in Request \ {r} : ses'[x] = ses[x]
      /\ ses'[r].aim = {} /\ ses'[r].gone = {}
  BY DEF End, Inv, Typed, Session
<1>. QED  BY <1>1, KeepLocks

LEMMA CascadeLocks ==
    ASSUME Inv, LocksOK, NEW r \in Request, Cascade(r)
    PROVE  LocksOK'
<1>1. CASE ~ForeignKeyHolds(ses[r].on)
  BY <1>1, EndLocks DEF Cascade, Fail, Reading, tables
<1>2. CASE ForeignKeyHolds(ses[r].on)
  <2>0. /\ children' = (children \ ChildrenOf(ses[r].on)) \cup {}
        /\ \A x \in Request \ {r} : ses'[x] = ses[x]
        /\ ses[r].pc = "cascade"
        /\ ses'[r].aim = ses[r].aim /\ ses'[r].gone = ses[r].gone
        /\ ~RowsTaken(r, ChildrenOf(ses[r].on))
    BY <1>2, CascadeEffect DEF Cascade
  <2>1. ses[r].aim = {} /\ ses[r].gone = {}
    BY <2>0 DEF LocksOK, Holds
  <2>2. ASSUME NEW x \in Request \ {r}
        PROVE  ses[x].gone \cap ChildrenOf(ses[r].on) = {}
    BY <2>0, Empty DEF RowsTaken, Open
  <2> DEFINE going == ChildrenOf(ses[r].on)
             coming == {}
  <2>3. /\ children' = (children \ going) \cup coming
        /\ \A x \in Request \ {r} : ses'[x] = ses[x]
        /\ ses'[r].aim = {} /\ ses'[r].gone = {}
        /\ \A x \in Request \ {r} :
              ses[x].gone \cap going = {} /\ (ses[x].aim \cup ses[x].gone) \cap coming = {}
    BY <2>0, <2>1, <2>2
  <2>. HIDE DEF going, coming
  <2>. QED  BY <2>3, CommittedLocks
<1>. QED  BY <1>1, <1>2

\* A request goes on to a statement that needs no row.
LEMMA GotoLocks ==
    ASSUME Inv, LocksOK, NEW r \in Request, NEW pc \in Phase, Goto(r, pc), children' = children,
           \/ ses[r].pc \notin {"delete", "deleting", "deleteLayers", "deletingLayers",
                                "validate", "write", "commit"}
           \/ ses[r].pc \in {"validate", "write"} /\ pc \in {"write", "commit"}
    PROVE  LocksOK'
<1>1. /\ \A x \in Request \ {r} : ses'[x] = ses[x]
      /\ ses'[r].aim = ses[r].aim /\ ses'[r].gone = ses[r].gone
      /\ ses'[r].on = ses[r].on /\ ses'[r].pc = pc
  BY DEF Goto, Inv, Typed, Session
<1>2. CASE ses[r].pc \in {"validate", "write"} /\ pc \in {"write", "commit"}
  <2>1. ses[r].aim = {}
    BY <1>2 DEF LocksOK, Holds
  <2>. QED  BY <1>1, <1>2, <2>1, KeepLocks
<1>3. CASE ses[r].pc \notin {"delete", "deleting", "deleteLayers", "deletingLayers",
                             "validate", "write", "commit"}
  <2>1. ses[r].aim = {} /\ ses[r].gone = {}
    BY <1>3, Empty
  <2>. QED  BY <1>1, <2>1, KeepLocks
<1>. QED  BY <1>2, <1>3

LEMMA BeginLocks ==
    ASSUME Inv, LocksOK, NEW r \in Request, BeginSome(r)
    PROVE  LocksOK'
<1>1. children' = children /\ \E op, p, list, pc : Begin(r, op, p, list, pc)
  BY DEF BeginSome, BeginCreate, BeginUpdate, BeginRemove, BeginAssign, BeginSnapshot, Unassign, tables
<1>2. PICK op, p, list, pc : Begin(r, op, p, list, pc)
  BY <1>1
<1>3. /\ \A x \in Request \ {r} : ses'[x] = ses[x]
      /\ ses'[r].aim = {} /\ ses'[r].gone = {}
  BY <1>2 DEF Begin, Idle, Inv, Typed
<1>. QED  BY <1>1, <1>3, KeepLocks

LEMMA StepLocks ==
    ASSUME Inv, LocksOK, NEW r \in Request, Step(r)
    PROVE  LocksOK'
<1>1. CASE StartDelete(r) \/ FinishDelete(r) \/ Commit(r) \/ Cascade(r)
  BY <1>1, StartDeleteLocks, FinishDeleteLocks, CommitLocks, CascadeLocks
<1>2. CASE Validate(r) \/ Write(r)
  BY <1>2, GotoLocks, EndLocks DEF Validate, Write, Reading, tables, Phase
<1>3. CASE CheckUse(r) \/ Remove(r) \/ Assign(r) \/ ReadPolicy(r) \/ ReadRules(r) \/ NobodyOnCall(r)
  BY <1>3, GotoLocks, EndLocks
  DEF CheckUse, Remove, Assign, ReadPolicy, ReadRules, NobodyOnCall, Fail, Reading, tables, Phase
<1>4. CASE NextRule(r) \/ ReadUsers(r)
  <2>1. /\ children' = children
        /\ ses' = ses \/ Goto(r, "readUsers") \/ Goto(r, "nextRule")
        /\ ses[r].pc \in {"nextRule", "readUsers"}
    BY <1>4 DEF NextRule, ReadUsers, tables
  <2>. QED  BY <2>1, GotoLocks, Empty, KeepLocks DEF Phase
<1>5. CASE SnapshotTaken(r) \/ AbortVictim(r)
  BY <1>5, EndLocks DEF SnapshotTaken, AbortVictim, Fail, Reading, tables
<1>. QED  BY <1>1, <1>2, <1>3, <1>4, <1>5 DEF Step

LEMMA InitLocks == Init => LocksOK
<1> SUFFICES ASSUME Init PROVE LocksOK
  OBVIOUS
<1>1. \A r \in Request : ses[r].aim = {} /\ ses[r].gone = {}
  BY DEF Init, Idle
<1>. QED  BY <1>1 DEF LocksOK, Holds, Apart, Found, Comparable

LEMMA NextLocks == Inv /\ LocksOK /\ [Next]_vars => LocksOK'
<1> SUFFICES ASSUME Inv, LocksOK, [Next]_vars PROVE LocksOK'
  OBVIOUS
<1>1. CASE UNCHANGED vars
  BY <1>1 DEF vars, LocksOK, Holds, Apart, Found, Comparable
<1>2. ASSUME NEW r \in Request, Fault(r)
      PROVE  LocksOK'
  BY <1>2, EndLocks DEF Fault, tables
<1>. QED  BY <1>1, <1>2, BeginLocks, StepLocks DEF Next, Rest

LEMMA LocksInvariance == Spec => []LocksOK
BY InitLocks, NextLocks, Invariance, PTL DEF Spec
\* A set of places has a first one.
LEMMA LeastExists ==
    ASSUME NEW S \in SUBSET Nat, S # {}
    PROVE  \E m \in S : \A n \in S : m <= n
<1>1. IsWellFoundedOn(OpToRel(<, Nat), Nat)
  BY NatLessThanWellFounded
<1>2. PICK m \in S : \A n \in S : <<n, m>> \notin OpToRel(<, Nat)
  BY <1>1, WFMin, Zenon
<1>3. \A n \in S : ~ (n < m)
  BY <1>2 DEF OpToRel
<1>. QED  BY <1>3

\* Rules and layers are taken in the order of their places, so one is first.
LEMMA FirstExists ==
    ASSUME NEW rows \in SUBSET Child, rows # {}
    PROVE  First(rows) # {}
<1> DEFINE places == {c.pos : c \in rows}
<1>1. places \in SUBSET Nat /\ places # {}
  BY DEF Child
<1>2. PICK m \in places : \A n \in places : m <= n
  <2>. HIDE DEF places
  <2>. QED  BY <1>1, LeastExists
<1>3. PICK c \in rows : c.pos = m
  BY <1>2
<1>. QED  BY <1>2, <1>3 DEF First

\* Two requests that both have deleted rows do not wait for each other: a DELETE
\* waits only for one that is no longer at its own.
LEMMA DeleteCan ==
    ASSUME Inv, LocksOK, NEW q \in Request, Open(q), ses[q].gone # {},
           \A r \in Request : ~CanStep(r)
    PROVE  ses[q].pc = "write"
<1>1. ses[q].pc \in {"deletingLayers", "write"}
  BY DEF LocksOK, Holds, CanStep
<1>2. ASSUME ses[q].pc = "deletingLayers"
      PROVE  FALSE
  <2>1. PICK x \in Request \ {q} : ses[x].gone \cap ses[q].aim # {}
    BY <1>2 DEF CanStep, RowsTaken
  <2>2. ses[x].on = ses[q].on
    BY <2>1 DEF LocksOK, Holds
  <2>. QED  BY <2>1, <2>2, OneDeletes
<1>. QED  BY <1>1, <1>2

\* A delete waits for no one but an update that waits for it.
LEMMA CascadeCan ==
    ASSUME Inv, LocksOK, NEW r \in Request, ses[r].pc = "cascade",
           \A q \in Request : ~CanStep(q)
    PROVE  FALSE
<1>1. PICK q \in Request \ {r} : Open(q) /\ ses[q].gone \cap ChildrenOf(ses[r].on) # {}
  BY DEF CanStep, RowsTaken
<1>2. ses[q].pc = "write" /\ ses[q].on = ses[r].on
  BY <1>1, DeleteCan DEF LocksOK, Holds, ChildrenOf
<1>. QED  BY <1>1, <1>2 DEF CanStep, Deadlocked

LEMMA SomebodyCan == Inv /\ LocksOK => SomebodyMoves
<1> SUFFICES ASSUME Inv, LocksOK, NEW r \in Request, Open(r), \A q \in Request : ~CanStep(q)
             PROVE  FALSE
  BY DEF SomebodyMoves
<1>1. ses[r].pc \in Phase /\ view[r].rules \cup view[r].layers \in SUBSET Child
  BY DEF Inv, Typed, Session, View
<1>2. \A q \in Request : ses[q].pc \notin {"cascade", "commit", "write"}
  <2>1. \A q \in Request : ses[q].pc \notin {"cascade", "commit"}
    BY CascadeCan DEF CanStep
  <2>. QED  BY <2>1 DEF CanStep, ParentTaken, ParentShared
<1>3. CASE ses[r].pc \in {"validate", "commit", "delete", "deleteLayers", "check",
                          "readPolicy", "readRules"}
  BY <1>3 DEF CanStep
<1>4. CASE ses[r].pc \in {"deleting", "deletingLayers"}
  <2>1. PICK q \in Request \ {r} : Open(q) /\ ses[q].gone \cap ses[r].aim # {}
    BY <1>4 DEF CanStep, RowsTaken
  <2>2. ses[q].gone # {}
    BY <2>1
  <2>. QED  BY <1>2, <2>1, <2>2, DeleteCan
<1>5. CASE ses[r].pc \in {"write", "remove", "cascade", "assign"}
  BY <1>2, <1>5 DEF CanStep, ParentTaken, ParentShared
<1>6. CASE ses[r].pc = "nextRule"
  <2>1. Unanswered(r) \in SUBSET Child
    BY <1>1 DEF Unanswered
  <2>. QED  BY <1>6, <2>1, FirstExists DEF CanStep
<1>7. CASE ses[r].pc = "readUsers"
  BY <1>1, <1>7, FirstExists DEF CanStep, NoLayerLeft
<1>. QED  BY <1>1, <1>3, <1>4, <1>5, <1>6, <1>7 DEF Open, Phase

\* Requests never all wait for each other.
THEOREM NobodyStandsStill == Spec => []SomebodyMoves
BY SomebodyCan, Invariance, LocksInvariance, PTL
-----------------------------------------------------------------------------
(***************************************************************************)
(* Every step is progress: a request goes to a later statement, or has     *)
(* answered one more rule, or has one layer less to try.  Rules and layers *)
(* are finitely many, so that with NobodyStandsStill all requests end.     *)
(***************************************************************************)
Rank == [idle |-> 0, delete |-> 1, deleting |-> 2, deleteLayers |-> 3, deletingLayers |-> 4,
         validate |-> 5, write |-> 6, commit |-> 7, check |-> 1, remove |-> 2, cascade |-> 3,
         assign |-> 1, readPolicy |-> 1, readRules |-> 2, nextRule |-> 3, readUsers |-> 3,
         done |-> 8, failed |-> 8]

Nearer(r) ==
    \/ Rank[ses[r].pc] < Rank[ses'[r].pc]
    \/ /\ Unanswered(r)' \subseteq Unanswered(r) /\ Unanswered(r)' # Unanswered(r)
       /\ ses[r].pc \in {"nextRule", "readUsers"} /\ ses'[r].pc = "nextRule"
    \/ /\ Unanswered(r)' = Unanswered(r)
       /\ ses[r].pc = "nextRule" /\ ses'[r].pc = "readUsers"
    \/ /\ Unanswered(r)' = Unanswered(r)
       /\ ses[r].pc = "readUsers" /\ ses'[r].pc = "readUsers"
       /\ view'[r].layers \subseteq view[r].layers /\ view'[r].layers # view[r].layers

\* The rule whose layers are read has no answer yet.
Answering(r) == ses[r].pc = "readUsers" => view[r].rule \in Unanswered(r)

LEMMA AnswerCounts ==
    ASSUME Typed, NEW r \in Request, NEW rule, NEW user, Answer(r, rule, user),
           rule \in Unanswered(r)
    PROVE  Unanswered(r)' \subseteq Unanswered(r) /\ Unanswered(r)' # Unanswered(r)
<1>1. /\ view'[r].rules = view[r].rules
      /\ view'[r].paged = view[r].paged \cup {[rule |-> rule, user |-> user]}
  BY DEF Answer, Typed, View
<1>2. rule \notin Unanswered(r)'
  BY <1>1 DEF Unanswered
<1>. QED  BY <1>1, <1>2 DEF Unanswered

\* A step of one request leaves the others where they are.
LEMMA OthersRest ==
    ASSUME Typed, NEW r \in Request, BeginSome(r) \/ Step(r) \/ Fault(r), NEW x \in Request \ {r}
    PROVE  ses'[x] = ses[x] /\ view'[x] = view[x]
<1>1. \A pc : Goto(r, pc) \/ End(r, pc) => ses'[x] = ses[x]
  BY DEF Goto, End, Typed
<1>2. \A rule, user : Answer(r, rule, user) => view'[x] = view[x]
  BY DEF Answer, Typed
<1>3. CASE BeginSome(r)
  BY <1>3 DEF BeginSome, BeginCreate, BeginUpdate, BeginRemove, BeginAssign, BeginSnapshot, Unassign,
              Begin, Typed
<1>4. CASE Fault(r)
  BY <1>1, <1>4 DEF Fault, Typed
<1>5. CASE StartDelete(r) \/ FinishDelete(r)
  BY <1>5 DEF StartDelete, FinishDelete, Reading, Typed
<1>6. CASE Validate(r) \/ Write(r) \/ Commit(r) \/ CheckUse(r) \/ Remove(r) \/ Cascade(r) \/ Assign(r)
           \/ ReadPolicy(r) \/ AbortVictim(r)
  BY <1>1, <1>6 DEF Validate, Write, Commit, CheckUse, Remove, Cascade, Assign, ReadPolicy, AbortVictim,
                    Fail, Reading
<1>7. CASE ReadRules(r) \/ NobodyOnCall(r) \/ SnapshotTaken(r)
  BY <1>1, <1>2, <1>7 DEF ReadRules, NobodyOnCall, SnapshotTaken, Typed
<1>8. CASE NextRule(r) \/ ReadUsers(r)
  BY <1>1, <1>2, <1>8 DEF NextRule, ReadUsers, Typed
<1>. QED  BY <1>3, <1>4, <1>5, <1>6, <1>7, <1>8 DEF Step

\* What each step of an ingestion does to the rules that wait for an answer.
LEMMA NextRuleNearer ==
    ASSUME Typed, NEW r \in Request, NextRule(r)
    PROVE  Nearer(r) /\ Answering(r)'
<1>1. PICK c \in First(Unanswered(r)) :
        IF c.target \in User
        THEN Answer(r, c, c.target) /\ UNCHANGED ses
        ELSE /\ view' = [view EXCEPT ![r].rule = c,
                                     ![r].layers = ChildrenOf(c.target)]
             /\ Goto(r, "readUsers")
  BY DEF NextRule
<1>2. c \in Unanswered(r) /\ ses[r].pc = "nextRule"
  BY DEF First, NextRule
<1>3. CASE c.target \in User
  BY <1>1, <1>2, <1>3, AnswerCounts DEF Nearer, Answering
<1>4. CASE c.target \notin User
  <2>1. /\ view'[r].rules = view[r].rules /\ view'[r].paged = view[r].paged
        /\ view'[r].rule = c /\ ses'[r].pc = "readUsers"
    BY <1>1, <1>4 DEF Goto, Typed, View, Session
  <2>2. Unanswered(r)' = Unanswered(r)
    BY <2>1 DEF Unanswered
  <2>. QED  BY <1>2, <2>1, <2>2 DEF Nearer, Answering
<1>. QED  BY <1>3, <1>4

LEMMA ReadUsersNearer ==
    ASSUME Typed, NEW r \in Request, Answering(r), ReadUsers(r) \/ NobodyOnCall(r)
    PROVE  Nearer(r) /\ Answering(r)'
<1>1. ses[r].pc = "readUsers" /\ view[r].rule \in Unanswered(r)
  BY DEF ReadUsers, NobodyOnCall, Answering
<1>2. ASSUME NEW user, Answer(r, view[r].rule, user), Goto(r, "nextRule")
      PROVE  Nearer(r) /\ Answering(r)'
  <2>1. ses'[r].pc = "nextRule"
    BY <1>2 DEF Goto, Typed, Session
  <2>. QED  BY <1>1, <1>2, <2>1, AnswerCounts DEF Nearer, Answering
<1>3. ASSUME NEW l \in First(view[r].layers),
             view' = [view EXCEPT ![r].layers = @ \ {l}], UNCHANGED ses
      PROVE  Nearer(r) /\ Answering(r)'
  <2>1. /\ view'[r].rules = view[r].rules /\ view'[r].paged = view[r].paged
        /\ view'[r].rule = view[r].rule /\ view'[r].layers = view[r].layers \ {l}
        /\ l \in view[r].layers
    BY <1>3 DEF Typed, View, First
  <2>2. Unanswered(r)' = Unanswered(r)
    BY <2>1 DEF Unanswered
  <2>. QED  BY <1>1, <1>3, <2>1, <2>2 DEF Nearer, Answering
<1>. QED  BY <1>2, <1>3 DEF ReadUsers, NobodyOnCall

LEMMA StepNearer ==
    ASSUME Inv, NEW r \in Request, Answering(r), Step(r)
    PROVE  Nearer(r) /\ Answering(r)'
<1>0. Typed /\ ses[r] \in Session /\ ses[r].pc \in Phase
  BY DEF Inv, Typed, Session
<1>1. \A pc \in Phase : Goto(r, pc) \/ End(r, pc) => ses'[r].pc = pc
  BY <1>0 DEF Goto, End, Typed, Session
<1>2. CASE NextRule(r) \/ ReadUsers(r) \/ NobodyOnCall(r)
  BY <1>0, <1>2, NextRuleNearer, ReadUsersNearer
<1>3. CASE ~(NextRule(r) \/ ReadUsers(r) \/ NobodyOnCall(r))
  <2>1. CASE StartDelete(r) \/ FinishDelete(r)
    <3>1. \/ ses'[r].pc = "deleting" /\ ses[r].pc = "delete"
          \/ ses'[r].pc = "deletingLayers" /\ ses[r].pc = "deleteLayers"
          \/ ses'[r].pc \in {"validate", "write"} /\ ses[r].pc \in {"deleting", "deletingLayers"}
          \/ ses'[r].pc = "deleteLayers" /\ ses[r].pc = "deleting"
      BY <1>0, <2>1 DEF StartDelete, FinishDelete, AfterDelete, Typed, Session
    <3>. QED  BY <3>1 DEF Nearer, Rank, Answering
  <2>2. CASE Validate(r) \/ Write(r) \/ Commit(r) \/ CheckUse(r) \/ Remove(r) \/ Cascade(r)
             \/ Assign(r) \/ ReadPolicy(r) \/ ReadRules(r) \/ SnapshotTaken(r)
    <3>1. \/ ses[r].pc = "validate" /\ ses'[r].pc \in {"commit", "write", "failed"}
          \/ ses[r].pc = "write" /\ ses'[r].pc \in {"commit", "failed"}
          \/ ses[r].pc = "commit" /\ ses'[r].pc = "done"
          \/ ses[r].pc = "check" /\ ses'[r].pc \in {"remove", "failed"}
          \/ ses[r].pc = "remove" /\ ses'[r].pc \in {"cascade", "done"}
          \/ ses[r].pc \in {"cascade", "assign"} /\ ses'[r].pc \in {"done", "failed"}
          \/ ses[r].pc = "readPolicy" /\ ses'[r].pc \in {"readRules", "failed"}
          \/ ses[r].pc = "readRules" /\ ses'[r].pc = "nextRule"
          \/ ses[r].pc = "nextRule" /\ ses'[r].pc = "done"
      BY <1>1, <2>2 DEF Validate, Write, Commit, CheckUse, Remove, Cascade, Assign, ReadPolicy,
                        ReadRules, SnapshotTaken, Fail, Phase
    <3>. QED  BY <3>1 DEF Nearer, Rank, Answering
  <2>3. CASE AbortVictim(r)
    <3>1. ses[r].pc \in {"write", "cascade"} /\ ses'[r].pc = "failed"
      BY <1>1, <2>3 DEF AbortVictim, Deadlocked, Fail, Phase
    <3>. QED  BY <3>1 DEF Nearer, Rank, Answering
  <2>. QED  BY <1>3, <2>1, <2>2, <2>3 DEF Step
<1>. QED  BY <1>2, <1>3

LEMMA AnsweringInvariance == Spec => [](\A r \in Request : Answering(r))
<1> DEFINE All == \A r \in Request : Answering(r)
<1>1. Init => All
  BY DEF Init, Idle, Answering
<1>2. ASSUME Inv, All, NEW r \in Request, BeginSome(r) \/ Step(r) \/ Fault(r)
      PROVE  All'
  <2>1. \A x \in Request \ {r} : Answering(x)'
    BY <1>2, OthersRest DEF Answering, Unanswered, Inv
  <2>2. Answering(r)'
    <3>1. CASE Step(r)
      BY <1>2, <3>1, StepNearer
    <3>2. CASE Fault(r)
      BY <1>2, <3>2 DEF Fault, End, Answering, Inv, Typed, Session
    <3>3. CASE BeginSome(r)
      <4>1. \E op, p, list, pc : Begin(r, op, p, list, pc) /\ pc # "readUsers"
        BY <3>3 DEF BeginSome, BeginCreate, BeginUpdate, BeginRemove, BeginAssign, BeginSnapshot,
                    Unassign
      <4>2. ses'[r].pc # "readUsers"
        BY <1>2, <4>1 DEF Begin, Idle, Inv, Typed
      <4>. QED  BY <4>2 DEF Answering
    <3>. QED  BY <1>2, <3>1, <3>2, <3>3
  <2>. QED  BY <2>1, <2>2
<1>3. All /\ UNCHANGED vars => All'
  BY DEF vars, Answering, Unanswered
<1>4. Inv /\ All /\ [Next]_vars => All'
  <2>. HIDE DEF All
  <2>. QED  BY <1>2, <1>3 DEF Next, Rest
<1>. QED  BY <1>1, <1>4, Invariance, PTL DEF Spec

\* Each step of a request brings it nearer to its end.
THEOREM StepsAreProgress == Spec => [][\A r \in Request : Step(r) => Nearer(r)]_vars
<1>1. Inv /\ (\A r \in Request : Answering(r)) => [\A r \in Request : Step(r) => Nearer(r)]_vars
  BY StepNearer
<1>. QED  BY <1>1, Invariance, AnsweringInvariance, PTL DEF Spec
=============================================================================
