--------------------------- MODULE IncidentsProofs --------------------------
(***************************************************************************)
(* Proofs about Incidents, for any number of incidents, requests, workers, *)
(* rules and loops.                                                        *)
(*                                                                         *)
(* What the flush of a session writes depends on the copy it loaded, so    *)
(* the inductive invariant says how far that copy may lie behind the row:  *)
(* under the row lock only by a timer that has elapsed meanwhile, without  *)
(* it by anything but a timer that was stopped.  The worker's copies are   *)
(* exact, because every other writer of the row waits for its lock.        *)
(***************************************************************************)
EXTENDS Incidents, FiniteSetTheorems, SequenceTheorems, TLAPS

\* What holds of every row.
RowOK(row) ==
    /\ row.status = "triggered" => row.ackBy = None
    /\ row.status # "triggered" => row.timer = "none"
    /\ row.status # "resolved" => row.resolvedBy = None
    /\ row.loops <= NumLoops /\ row.rule < NumRules
    /\ row.loops = NumLoops => row.timer = "none" /\ row.rule = NumRules - 1
    /\ row.snapshot # "policy" => row.timer = "none" /\ row.level \in {1, 2}
    /\ row.snapshot \in {"empty", "json_null"} => row.level = 1

\* The copy a session has of the row it is about to change, and the row.
CopyOK(q, row) ==
    /\ q.loaded # None
    /\ q.op # "edit" =>
         /\ q.loaded.status # "resolved" /\ q.loaded.resolvedBy = None
         /\ q.loaded.timer = "none" => row.timer = "none"
    /\ q.op \in {"ack", "resolve"} =>
         row.status = q.loaded.status /\ row.ackBy = q.loaded.ackBy
    /\ q.op = "ack" => row.status = "triggered"
    /\ q.op = "edit" => q.title \in Titles

\* Who is about to write a status holds the row.
SessionOK(s) ==
    LET q == session[s] IN
    /\ q.pc # "idle" => q.on \in Incidents /\ Exists(q.on)
    /\ q.pc = "lock" => q.op \in {"ack", "resolve", "grafana"}
    /\ q.pc = "commit" => q.op \in {"ack", "resolve", "grafana", "edit"}
    /\ q.pc = "commit" \/ (q.pc = "lock" /\ q.op = "grafana") => CopyOK(q, rows[q.on])
    /\ q.pc = "commit" /\ q.op # "edit" => lock[q.on] = s
    /\ q.pc = "close" => q.op = "grafana"

\* A worker holds every row it selected, and its copies are the rows.
BatchOK(w) ==
    \A i \in Selected(w) :
        /\ lock[i] = w /\ Exists(i) /\ batch[w][i] = rows[i]
        /\ rows[i].status = "triggered"
        /\ pass[w] # "idle"
        /\ pass[w] = "snapshot" => rows[i].timer = "due"
        /\ pass[w] = "legacy" => rows[i].snapshot = "sql_null" /\ rows[i].level = 1

At(i, action) == {n \in DOMAIN trail[i] : trail[i][n].action = action}

TimelineOK(i) ==
    LET row == rows[i]
        acks == At(i, "acknowledged")
        resolves == At(i, "resolved") IN
    /\ row.status = IF resolves # {} THEN "resolved"
                    ELSE IF acks # {} THEN "acknowledged" ELSE "triggered"
    /\ Cardinality(acks) <= 1
    /\ \A n \in acks : row.ackBy = trail[i][n].by /\ \A m \in resolves : n < m
    /\ \A n \in resolves : trail[i][n].by # None =>
          row.resolvedBy = trail[i][n].by /\ \A m \in resolves : n <= m

\* Its alert will be closed, unless its request fails.
Closing(s, i) ==
    session[s].op = "grafana" /\ session[s].on = i /\ session[s].pc \in {"close", "failed"}

AlertOK(i) ==
    rows[i].status = "resolved" /\ alertOpen[i] =>
        \/ \E n \in At(i, "resolved") : trail[i][n].by # None
        \/ \E s \in Sessions : Closing(s, i)

\* The escalation columns, in full.
AccountOK(i) ==
    rows[i].snapshot = "policy" =>
        LET row == rows[i]
            ended == IF row.loops = NumLoops THEN 1 ELSE 0 IN
        /\ Count(i, "escalation_exhausted") = ended
        /\ Count(i, "escalated") = (row.loops - ended) * NumRules + row.rule

IncidentOK(i) ==
    IF Exists(i) THEN RowOK(rows[i]) /\ TimelineOK(i) /\ AlertOK(i) /\ AccountOK(i)
    ELSE trail[i] = <<>>

Inv ==
    /\ TypeOK
    /\ \A i \in Incidents : IncidentOK(i)
    /\ \A s \in Sessions : SessionOK(s)
    /\ \A w \in Workers : BatchOK(w)

-----------------------------------------------------------------------------
(***************************************************************************)
(* The timeline.                                                           *)
(***************************************************************************)
Entries == [action : Actions, by : Users \cup {None}]

\* An entry is appended, and counted.
LEMMA Appended ==
    ASSUME TypeOK, NEW i \in Incidents, NEW e \in Entries, NEW action,
           trail'[i] = Append(trail[i], e)
    PROVE  LET last == Len(trail[i]) + 1 IN
           /\ trail'[i] \in Seq(Entries)
           /\ trail'[i][last] = e
           /\ \A n \in DOMAIN trail[i] : n \in DOMAIN trail'[i] /\ trail'[i][n] = trail[i][n] /\ n < last
           /\ At(i, action)' = IF e.action = action THEN At(i, action) \cup {last} ELSE At(i, action)
           /\ Count(i, action) \in Nat
           /\ Count(i, action)' = IF e.action = action THEN Count(i, action) + 1 ELSE Count(i, action)
<1> DEFINE last == Len(trail[i]) + 1
<1>1. trail[i] \in Seq(Entries)
  BY DEF TypeOK, Entries
<1>2. /\ trail'[i] \in Seq(Entries) /\ trail'[i][last] = e
      /\ DOMAIN trail[i] = 1 .. Len(trail[i]) /\ DOMAIN trail'[i] = 1 .. last
      /\ \A n \in DOMAIN trail[i] : trail'[i][n] = trail[i][n]
      /\ last \in Nat /\ last \notin DOMAIN trail[i]
  BY <1>1
<1>3. At(i, action)' = IF e.action = action THEN At(i, action) \cup {last} ELSE At(i, action)
  BY <1>2 DEF At
<1>4. IsFiniteSet(At(i, action)) /\ last \notin At(i, action)
  <2>1. IsFiniteSet(1 .. Len(trail[i]))
    BY <1>1, FS_Interval
  <2>2. At(i, action) \subseteq 1 .. Len(trail[i])
    BY <1>2 DEF At
  <2>. QED  BY <1>2, <2>1, <2>2, FS_Subset
<1>5. Count(i, action) = Cardinality(At(i, action))
  BY DEF Count, At
<1>6. Count(i, action)' = Cardinality(At(i, action)')
  BY DEF Count, At
<1>7. Cardinality(At(i, action)) \in Nat
  BY <1>4, FS_CardinalityType
<1>8. Cardinality(At(i, action) \cup {last}) = Cardinality(At(i, action)) + 1
  BY <1>4, FS_AddElement
<1>. QED  BY <1>2, <1>3, <1>5, <1>6, <1>7, <1>8

\* The rows of seed.py.
LEMMA SeedRowOK ==
    ASSUME NEW st \in Statuses
    PROVE  /\ SeedRow(st) \in Row /\ RowOK(SeedRow(st))
           /\ SeedRow(st).status = st /\ SeedRow(st).snapshot = "sql_null"
           /\ SeedRow(st).timer = "none" /\ SeedRow(st).level = 1
           /\ SeedRow(st).ackBy = IF st = "triggered" THEN None ELSE SeedUser
           /\ SeedRow(st).resolvedBy = IF st = "resolved" THEN SeedUser ELSE None
<1>. USE IncidentsAssumption
<1>1. (CHOOSE t \in Titles : TRUE) \in Titles
  OBVIOUS
<1> DEFINE title == CHOOSE t \in Titles : TRUE
           ack == IF st = "triggered" THEN None ELSE SeedUser
           res == IF st = "resolved" THEN SeedUser ELSE None
           new == NewRow("sql_null")
           row == [new EXCEPT !.status = st, !.ackBy = ack, !.resolvedBy = res]
<1>2. SeedRow(st) = row
  BY DEF SeedRow
<1>3. new = [status |-> "triggered", timer |-> "none", rule |-> 0, loops |-> 0, level |-> 1,
             snapshot |-> "sql_null", title |-> title, ackBy |-> None, resolvedBy |-> None]
  BY DEF NewRow
<1>4. title \in Titles /\ ack \in Users \cup {None} /\ res \in Users \cup {None}
  BY <1>1 DEF Users
<1>5. /\ st # "resolved" => res = None
      /\ st = "triggered" => ack = None
  OBVIOUS
<1>6. row \in Row /\ RowOK(row) /\ row.status = st /\ row.snapshot = "sql_null"
      /\ row.timer = "none" /\ row.level = 1
      /\ row.ackBy = ack /\ row.resolvedBy = res
  <2>. HIDE DEF title, ack, res
  <2>1. new \in Row
    <3>. HIDE DEF new
    <3>. QED  BY <1>3, <1>4 DEF Row, Timers, Snapshots, Statuses, Users
  <2>. HIDE DEF new
  <2>2. row \in Row /\ row.status = st /\ row.ackBy = ack /\ row.resolvedBy = res
    BY <1>4, <2>1 DEF Row
  <2>3. /\ row.timer = "none" /\ row.rule = 0 /\ row.loops = 0 /\ row.level = 1
        /\ row.snapshot = "sql_null"
    BY <1>3
  <2>. QED  BY <1>4, <1>5, <2>2, <2>3 DEF Statuses, RowOK
<1>. QED  BY <1>2, <1>6

LEMMA InitInv == Init => Inv
<1>. SUFFICES ASSUME Init PROVE Inv
  OBVIOUS
<1>. USE IncidentsAssumption
<1>1. PICK status \in [Seeded -> Statuses] :
         /\ rows = [i \in Incidents |-> IF i \in Seeded THEN SeedRow(status[i]) ELSE None]
         /\ alertOpen = [i \in Incidents |-> i \in Seeded /\ status[i] # "resolved"]
         /\ trail = [i \in Incidents |-> IF i \in Seeded THEN SeedTrail(status[i]) ELSE <<>>]
  BY DEF Init
<1>2. ASSUME NEW st \in Statuses
      PROVE  /\ SeedRow(st) \in Row /\ RowOK(SeedRow(st))
             /\ SeedRow(st).status = st /\ SeedRow(st).snapshot = "sql_null"
             /\ SeedRow(st).ackBy = IF st = "triggered" THEN None ELSE SeedUser
             /\ SeedRow(st).resolvedBy = IF st = "resolved" THEN SeedUser ELSE None
  BY SeedRowOK
<1>3. ASSUME NEW st \in Statuses
      PROVE  /\ SeedTrail(st) \in Seq(Entries) /\ DOMAIN SeedTrail(st) = 1 .. Rank(st)
             /\ \A n \in DOMAIN SeedTrail(st) :
                  SeedTrail(st)[n] = CASE n = 1 -> Entry("triggered", None)
                                       [] n = 2 -> Entry("acknowledged", SeedUser)
                                       [] OTHER -> Entry("resolved", SeedUser)
  <2> DEFINE full == <<Entry("triggered", None), Entry("acknowledged", SeedUser),
                       Entry("resolved", SeedUser)>>
  <2>1. full \in Seq(Entries) /\ Len(full) = 3
    BY DEF Entries, Entry, Actions, Users
  <2>2. Rank(st) \in 1 .. 3
    BY DEF Rank
  <2>3. /\ SubSeq(full, 1, Rank(st)) \in Seq(Entries)
        /\ DOMAIN SubSeq(full, 1, Rank(st)) = 1 .. Rank(st)
        /\ \A n \in 1 .. Rank(st) : SubSeq(full, 1, Rank(st))[n] = full[n]
    <3> DEFINE k == Rank(st)
               part == SubSeq(full, 1, k)
    <3>. HIDE DEF full
    <3>0. \A n \in 1 .. 3 : full[n] \in Entries
      BY <2>1
    <3>1. k \in Int /\ \A n \in 1 .. k : full[n] \in Entries
      BY <2>2, <3>0
    <3>. HIDE DEF k
    <3>2. /\ part \in Seq(Entries) /\ Len(part) = IF 1 <= k THEN k - 1 + 1 ELSE 0
          /\ \A n \in 1 .. k - 1 + 1 : part[n] = full[1 + n - 1]
      BY <3>1, SubSeqProperties
    <3>3. k \in 1 .. 3
      BY <2>2 DEF k
    <3>4. Len(part) = k /\ \A n \in 1 .. k : part[n] = full[n]
      BY <3>2, <3>3
    <3>5. DOMAIN part = 1 .. k
      BY <3>2, <3>4
    <3>. QED  BY <3>2, <3>4, <3>5 DEF k
  <2>4. /\ full[1] = Entry("triggered", None)
        /\ full[2] = Entry("acknowledged", SeedUser)
        /\ full[3] = Entry("resolved", SeedUser)
    OBVIOUS
  <2>5. SeedTrail(st) = SubSeq(full, 1, Rank(st))
    BY DEF SeedTrail
  <2>. HIDE DEF full
  <2>. QED  BY <2>2, <2>3, <2>4, <2>5
<1>4. TypeOK
  <2>1. rows \in [Incidents -> Row \cup {None}]
    BY <1>1, <1>2
  <2>2. trail \in [Incidents -> Seq(Entries)]
    BY <1>1, <1>3
  <2>3. /\ \A w \in Workers : Selected(w) = {}
        /\ DOMAIN batch = Workers
    BY DEF Init, Selected
  <2>4. session \in [Sessions -> SessionState]
    BY DEF Init, NoSession, SessionState, Operations
  <2>5. outbox \in [Incidents -> [Mails -> Nat]]
    BY DEF Init, NoMail
  <2>6. alertOpen \in [Incidents -> BOOLEAN]
    BY <1>1, Zenon
  <2>7. /\ lock \in [Incidents -> Sessions \cup Workers \cup {None}]
        /\ aged \in [Incidents -> BOOLEAN]
        /\ pass \in [Workers -> {"idle", "snapshot", "legacy"}]
        /\ faults \in 0 .. MaxFaults
    BY DEF Init
  <2>. QED  BY <2>1, <2>2, <2>3, <2>4, <2>5, <2>6, <2>7 DEF TypeOK, Entries
<1>5. ASSUME NEW i \in Incidents, Exists(i)
      PROVE  RowOK(rows[i]) /\ AlertOK(i) /\ AccountOK(i)
  BY <1>1, <1>2, <1>5 DEF Exists, AlertOK, AccountOK
<1>6. ASSUME NEW i \in Incidents, Exists(i)
      PROVE  TimelineOK(i)
  <2>1. i \in Seeded /\ rows[i] = SeedRow(status[i]) /\ trail[i] = SeedTrail(status[i])
    BY <1>1, <1>6 DEF Exists
  <2>2. /\ At(i, "acknowledged") = IF status[i] = "triggered" THEN {} ELSE {2}
        /\ At(i, "resolved") = IF status[i] = "resolved" THEN {3} ELSE {}
    BY <1>3, <2>1 DEF At, Rank, Entry, Statuses
  <2>3. Cardinality({}) = 0 /\ Cardinality({2}) = 1
    BY FS_EmptySet, FS_Singleton
  <2>4. /\ status[i] # "triggered" => trail[i][2].by = SeedUser
        /\ status[i] = "resolved" => trail[i][3].by = SeedUser
    BY <1>3, <2>1 DEF Rank, Entry, Statuses
  <2>5. /\ rows[i].status = status[i]
        /\ rows[i].ackBy = IF status[i] = "triggered" THEN None ELSE SeedUser
        /\ rows[i].resolvedBy = IF status[i] = "resolved" THEN SeedUser ELSE None
    <3>1. status[i] \in Statuses
      BY <2>1
    <3>2. /\ SeedRow(status[i]).status = status[i]
          /\ SeedRow(status[i]).ackBy = IF status[i] = "triggered" THEN None ELSE SeedUser
          /\ SeedRow(status[i]).resolvedBy = IF status[i] = "resolved" THEN SeedUser ELSE None
      BY <1>2, <3>1
    <3>. QED  BY <2>1, <3>2, Zenon
  <2>6. CASE status[i] = "triggered"
    BY <2>2, <2>3, <2>5, <2>6 DEF TimelineOK
  <2>7. CASE status[i] = "acknowledged"
    <3>1. /\ At(i, "acknowledged") = {2} /\ At(i, "resolved") = {}
          /\ rows[i].status = "acknowledged" /\ rows[i].ackBy = trail[i][2].by
      BY <2>2, <2>4, <2>5, <2>7
    <3>. QED  BY <2>3, <3>1 DEF TimelineOK
  <2>8. CASE status[i] = "resolved"
    BY <2>2, <2>3, <2>4, <2>5, <2>8 DEF TimelineOK
  <2>. QED  BY <2>1, <2>6, <2>7, <2>8 DEF Statuses
<1>7. \A i \in Incidents : ~Exists(i) => trail[i] = <<>>
  BY <1>1, <1>2 DEF Exists
<1>8. /\ \A s \in Sessions : SessionOK(s)
      /\ \A w \in Workers : BatchOK(w)
  BY DEF Init, SessionOK, NoSession, BatchOK, Selected
<1>. QED  BY <1>4, <1>5, <1>6, <1>7, <1>8 DEF Inv, IncidentOK

-----------------------------------------------------------------------------
(***************************************************************************)
(* What a step leaves alone stays in order.                                *)
(***************************************************************************)
LEMMA IncidentKeeps ==
    ASSUME Inv, NEW i \in Incidents,
           rows'[i] = rows[i], trail'[i] = trail[i], alertOpen'[i] => alertOpen[i],
           alertOpen'[i] => \A s \in Sessions : Closing(s, i) => Closing(s, i)'
    PROVE  IncidentOK(i)'
<1>1. IncidentOK(i) /\ Exists(i)' = Exists(i)
  BY DEF Inv, Exists
<1>2. \A action : At(i, action)' = At(i, action) /\ Count(i, action)' = Count(i, action)
  BY DEF At, Count
<1>3. CASE ~Exists(i)
  BY <1>1, <1>3 DEF IncidentOK
<1>4. CASE Exists(i)
  <2>1. RowOK(rows[i])' /\ TimelineOK(i)' /\ AccountOK(i)'
    BY <1>1, <1>2, <1>4 DEF IncidentOK, RowOK, TimelineOK, AccountOK
  <2>2. AlertOK(i)'
    BY <1>1, <1>2, <1>4 DEF IncidentOK, AlertOK
  <2>. QED  BY <1>1, <1>4, <2>1, <2>2 DEF IncidentOK
<1>. QED  BY <1>3, <1>4

\* The row a session has a copy of may move on: its timer is not started
\* again, and its status is changed by nobody who does not hold the row.
LEMMA SessionKeeps ==
    ASSUME Inv, NEW s \in Sessions, session'[s] = session[s],
           NEW i \in Incidents, i = session[s].on,
           Exists(i) => /\ rows'[i] # None
                        /\ rows[i].timer = "none" => rows'[i].timer = "none"
                        /\ lock[i] = s => /\ rows'[i].status = rows[i].status
                                          /\ rows'[i].ackBy = rows[i].ackBy
                                          /\ lock'[i] = s
    PROVE  SessionOK(s)'
<1>1. SessionOK(s)
  BY DEF Inv
<1>. QED  BY <1>1 DEF SessionOK, CopyOK, Exists

LEMMA BatchKeeps ==
    ASSUME Inv, NEW w \in Workers, batch'[w] = batch[w], pass'[w] = pass[w],
           \A i \in Selected(w) : rows'[i] = rows[i] /\ lock'[i] = lock[i]
    PROVE  BatchOK(w)'
<1>1. BatchOK(w)
  BY DEF Inv
<1>. QED  BY <1>1 DEF BatchOK, Exists, Selected

\* A step of one request that writes nothing.
LEMMA RequestStep ==
    ASSUME Inv, NEW s \in Sessions, NEW q \in SessionState,
           session' = [session EXCEPT ![s] = q], UNCHANGED <<db, aged, batch, pass>>,
           lock' \in [Incidents -> Sessions \cup Workers \cup {None}],
           \A i \in Incidents : lock[i] \notin {None, s} => lock'[i] = lock[i],
           faults' \in 0 .. MaxFaults,
           session[s].pc \in {"close", "failed"} =>
              q.pc = "failed" /\ q.op = session[s].op /\ q.on = session[s].on,
           SessionOK(s)'
    PROVE  Inv'
<1>1. /\ session'[s] = q
      /\ \A x \in Sessions \ {s} : session'[x] = session[x]
  BY DEF Inv, TypeOK
<1>2. TypeOK'
  BY DEF Inv, TypeOK, db, Selected
<1>3. ASSUME NEW i \in Incidents PROVE IncidentOK(i)'
  <2>1. \A x \in Sessions : Closing(x, i) => Closing(x, i)'
    BY <1>1 DEF Closing
  <2>. QED  BY <2>1, IncidentKeeps DEF db
<1>4. ASSUME NEW x \in Sessions PROVE SessionOK(x)'
  <2>1. CASE x = s
    BY <2>1
  <2>2. CASE x # s /\ session[x].pc = "idle"
    BY <1>1, <2>2 DEF SessionOK
  <2>3. CASE x # s /\ session[x].pc # "idle"
    <3>1. session[x].on \in Incidents
      BY <2>3 DEF Inv, SessionOK
    <3>2. lock[session[x].on] = x => lock'[session[x].on] = x
      BY <2>3, <3>1, IncidentsAssumption
    <3>. QED  BY <1>1, <2>3, <3>1, <3>2, SessionKeeps DEF db, Exists
  <2>. QED  BY <2>1, <2>2, <2>3
<1>5. ASSUME NEW w \in Workers PROVE BatchOK(w)'
  <2>1. \A i \in Selected(w) : i \in Incidents /\ lock[i] = w
    BY DEF Inv, TypeOK, BatchOK
  <2>2. w # s /\ w # None
    BY IncidentsAssumption
  <2>. QED  BY <2>1, <2>2, BatchKeeps DEF db
<1>. QED  BY <1>2, <1>3, <1>4, <1>5 DEF Inv

LEMMA RequestInv ==
    ASSUME Inv, NEW s \in Sessions, NEW i \in Incidents, NEW op \in Operations, Request(s, i, op)
    PROVE  Inv'
<1> DEFINE q == [session[s] EXCEPT !.pc = FirstStep(op), !.op = op, !.on = i]
<1>1. FirstStep(op) \in {"lock", "findAlert", "load"} /\ (FirstStep(op) = "lock" => op \in {"ack", "resolve"})
  BY DEF FirstStep
<1>2. q \in SessionState /\ q.pc = FirstStep(op) /\ q.op = op /\ q.on = i
  BY <1>1 DEF Inv, TypeOK, SessionState
<1>3. session' = [session EXCEPT ![s] = q]
  BY DEF Request, Inv, TypeOK
<1>4. UNCHANGED <<db, lock, aged, batch, pass, faults>> /\ Exists(i) /\ session[s].pc = "idle"
  BY DEF Request
<1>. HIDE DEF q
<1>5. SessionOK(s)'
  BY <1>1, <1>2, <1>3, <1>4 DEF Inv, TypeOK, SessionOK, Exists, db
<1>6. lock' \in [Incidents -> Sessions \cup Workers \cup {None}] /\ faults' \in 0 .. MaxFaults
  BY <1>4 DEF Inv, TypeOK
<1>. QED  BY <1>2, <1>3, <1>4, <1>5, <1>6, RequestStep

\* A request goes on to another step: nothing but its program counter.
LEMMA GotoState ==
    ASSUME TypeOK, NEW s \in Sessions, NEW step, Goto(s, step),
           step \in {"idle", "findAlert", "load", "lock", "commit", "close", "done", "failed"}
    PROVE  LET q == [session[s] EXCEPT !.pc = step] IN
           /\ session' = [session EXCEPT ![s] = q] /\ q \in SessionState
           /\ q.pc = step /\ q.op = session[s].op /\ q.on = session[s].on
           /\ q.loaded = session[s].loaded /\ q.title = session[s].title
           /\ session'[s] = q /\ session' \in [Sessions -> SessionState]
           /\ session'[s].pc = step /\ session'[s].op = session[s].op
           /\ session'[s].on = session[s].on
           /\ \A x \in Sessions \ {s} : session'[x] = session[x]
BY DEF Goto, TypeOK, SessionState

LEMMA FindAlertInv ==
    ASSUME Inv, NEW s \in Sessions, FindAlert(s)
    PROVE  Inv'
<1> DEFINE step == IF alertOpen[session[s].on] THEN "load" ELSE "done"
           q == [session[s] EXCEPT !.pc = step]
<1>1. /\ step \in {"load", "done"} /\ Goto(s, step) /\ session[s].pc = "findAlert"
      /\ UNCHANGED <<db, lock, aged, batch, pass, faults>>
  BY DEF FindAlert
<1>. HIDE DEF step
<1>2. /\ session' = [session EXCEPT ![s] = q] /\ q \in SessionState /\ session'[s] = q
      /\ q.pc = step /\ q.on = session[s].on
  BY <1>1, GotoState DEF Inv
<1>3. SessionOK(s)'
  BY <1>1, <1>2 DEF Inv, SessionOK, Exists, db
<1>4. lock' \in [Incidents -> Sessions \cup Workers \cup {None}] /\ faults' \in 0 .. MaxFaults
  BY <1>1 DEF Inv, TypeOK
<1>. HIDE DEF q
<1>. QED  BY <1>1, <1>2, <1>3, <1>4, RequestStep

LEMMA LoadForGrafanaInv ==
    ASSUME Inv, NEW s \in Sessions, LoadForGrafana(s)
    PROVE  Inv'
<1> DEFINE i == session[s].on
           step == IF rows[i].status = "resolved" THEN "done" ELSE "lock"
           q == [session[s] EXCEPT !.loaded = rows[i], !.pc = step]
<1>1. /\ session[s].pc = "load" /\ session[s].op = "grafana" /\ step \in {"done", "lock"}
      /\ UNCHANGED <<db, lock, aged, batch, pass, faults>>
  BY DEF LoadForGrafana
<1>2. i \in Incidents /\ Exists(i) /\ rows[i] \in Row /\ RowOK(rows[i])
  BY <1>1 DEF Inv, TypeOK, SessionOK, IncidentOK, Exists
<1>3. session' = [session EXCEPT ![s] = q]
  BY DEF LoadForGrafana, Inv, TypeOK
<1>4. /\ q \in SessionState /\ q.pc = step /\ q.on = i /\ q.op = "grafana" /\ q.loaded = rows[i]
      /\ session'[s] = q
  BY <1>1, <1>2, <1>3 DEF Inv, TypeOK, SessionState
<1>5. step = "lock" => rows[i].status # "resolved"
  OBVIOUS
<1>. HIDE DEF q, step
<1>6. SessionOK(s)'
  BY <1>1, <1>2, <1>4, <1>5 DEF SessionOK, CopyOK, RowOK, Exists, db
<1>7. lock' \in [Incidents -> Sessions \cup Workers \cup {None}] /\ faults' \in 0 .. MaxFaults
  BY <1>1 DEF Inv, TypeOK
<1>. QED  BY <1>1, <1>3, <1>4, <1>6, <1>7, RequestStep

LEMMA LoadForEditInv ==
    ASSUME Inv, NEW s \in Sessions, LoadForEdit(s)
    PROVE  Inv'
<1> DEFINE i == session[s].on
<1>1. /\ session[s].pc = "load" /\ session[s].op = "edit"
      /\ UNCHANGED <<db, lock, aged, batch, pass, faults>>
  BY DEF LoadForEdit
<1>2. i \in Incidents /\ Exists(i) /\ rows[i] \in Row
  BY <1>1 DEF Inv, TypeOK, SessionOK, Exists
<1>3. PICK t \in Titles :
         session' = [session EXCEPT ![s].loaded = rows[i], ![s].title = t,
                                    ![s].pc = IF t = rows[i].title THEN "done" ELSE "commit"]
  BY DEF LoadForEdit
<1> DEFINE step == IF t = rows[i].title THEN "done" ELSE "commit"
           q == [session[s] EXCEPT !.loaded = rows[i], !.title = t, !.pc = step]
<1>4. session' = [session EXCEPT ![s] = q] /\ step \in {"done", "commit"}
  BY <1>3 DEF Inv, TypeOK
<1>. HIDE DEF step
<1>5. /\ q \in SessionState /\ q.pc = step /\ q.on = i /\ q.op = "edit" /\ q.loaded = rows[i]
      /\ q.title = t /\ session'[s] = q
  BY <1>1, <1>2, <1>4 DEF Inv, TypeOK, SessionState
<1>. HIDE DEF q
<1>6. SessionOK(s)'
  BY <1>1, <1>2, <1>4, <1>5 DEF SessionOK, CopyOK, Exists, db
<1>7. lock' \in [Incidents -> Sessions \cup Workers \cup {None}] /\ faults' \in 0 .. MaxFaults
  BY <1>1 DEF Inv, TypeOK
<1>. QED  BY <1>1, <1>4, <1>5, <1>6, <1>7, RequestStep

LEMMA LockRowInv ==
    ASSUME Inv, NEW s \in Sessions, LockRow(s)
    PROVE  Inv'
<1> DEFINE i == session[s].on
           held == Held(s)
           refused == Refused(session[s].op, held)
           step == IF refused THEN "done" ELSE "commit"
           q == [session[s] EXCEPT !.loaded = held, !.pc = step]
<1>1. /\ session[s].pc = "lock" /\ Free(i)
      /\ UNCHANGED <<db, aged, batch, pass, faults>>
  BY DEF LockRow
<1>2. /\ i \in Incidents /\ Exists(i) /\ rows[i] \in Row /\ RowOK(rows[i])
      /\ session[s].op \in {"ack", "resolve", "grafana"}
  BY <1>1 DEF Inv, TypeOK, SessionOK, IncidentOK, Exists
<1>3. /\ session[s].op = "grafana" => held = session[s].loaded /\ CopyOK(session[s], rows[i])
      /\ session[s].op # "grafana" => held = rows[i]
  BY <1>1 DEF Inv, SessionOK, Held
<1>4. held \in Row /\ held # None
  BY <1>2, <1>3, IncidentsAssumption DEF Inv, TypeOK, SessionState, CopyOK
<1>5. session' = [session EXCEPT ![s] = q] /\ lock' = [lock EXCEPT ![i] = HolderAfter(s, refused)]
  BY DEF LockRow, Inv, TypeOK
<1>6. step \in {"done", "commit"} /\ (step = "commit" => ~refused)
  OBVIOUS
<1>7. step = "commit" => lock'[i] = s /\ held.status # "resolved"
                         /\ (session[s].op = "ack" => held.status = "triggered")
  BY <1>2, <1>4, <1>5, <1>6 DEF HolderAfter, Refused, Inv, TypeOK, Row, Statuses
<1>8. /\ lock' \in [Incidents -> Sessions \cup Workers \cup {None}]
      /\ \A j \in Incidents : lock[j] \notin {None, s} => lock'[j] = lock[j]
  BY <1>1, <1>2, <1>5 DEF Inv, TypeOK, HolderAfter, Free
<1>. HIDE DEF held, refused, step
<1>9. /\ q \in SessionState /\ q.pc = step /\ q.on = i /\ q.op = session[s].op /\ q.loaded = held
      /\ q.title = session[s].title /\ session'[s] = q
  BY <1>4, <1>5, <1>6 DEF Inv, TypeOK, SessionState
<1>. HIDE DEF q
<1>10. step = "commit" => CopyOK(q, rows[i])
  BY <1>2, <1>3, <1>4, <1>7, <1>9 DEF CopyOK, RowOK
<1>11. SessionOK(s)'
  BY <1>1, <1>2, <1>6, <1>7, <1>9, <1>10 DEF SessionOK, CopyOK, Exists, db
<1>12. faults' \in 0 .. MaxFaults
  BY <1>1 DEF Inv, TypeOK
<1>. QED  BY <1>1, <1>5, <1>8, <1>9, <1>11, <1>12, RequestStep

LEMMA CutSessionInv ==
    ASSUME Inv, NEW s \in Sessions, CutSession(s)
    PROVE  Inv'
<1> DEFINE q == [session[s] EXCEPT !.pc = "failed"]
<1>1. /\ session[s].pc \notin {"idle", "done", "failed"} /\ Goto(s, "failed")
      /\ lock' = [i \in Incidents |-> IF lock[i] = s THEN None ELSE lock[i]]
      /\ UNCHANGED <<db, aged, batch, pass>>
  BY DEF CutSession
<1>2. /\ session' = [session EXCEPT ![s] = q] /\ q \in SessionState /\ session'[s] = q
      /\ q.pc = "failed" /\ q.on = session[s].on /\ q.op = session[s].op
  BY <1>1, GotoState DEF Inv
<1>3. SessionOK(s)'
  BY <1>1, <1>2 DEF Inv, SessionOK, Exists, db
<1>4. /\ lock' \in [Incidents -> Sessions \cup Workers \cup {None}]
      /\ \A i \in Incidents : lock[i] \notin {None, s} => lock'[i] = lock[i]
  BY <1>1 DEF Inv, TypeOK
<1>5. faults' \in 0 .. MaxFaults
  BY IncidentsAssumption DEF CutSession, Inv, TypeOK
<1>. HIDE DEF q
<1>. QED  BY <1>1, <1>2, <1>3, <1>4, <1>5, RequestStep

-----------------------------------------------------------------------------
(***************************************************************************)
(* Steps that change one incident.                                         *)
(***************************************************************************)
LEMMA TimelineGrows ==
    ASSUME Inv, NEW i \in Incidents, Exists(i),
           NEW e \in Entries, e.action \notin {"acknowledged", "resolved"},
           trail'[i] = Append(trail[i], e),
           rows'[i].status = rows[i].status, rows'[i].ackBy = rows[i].ackBy,
           rows'[i].resolvedBy = rows[i].resolvedBy
    PROVE  TimelineOK(i)'
<1>1. TimelineOK(i) /\ TypeOK
  BY DEF Inv, IncidentOK
<1>2. /\ At(i, "acknowledged")' = At(i, "acknowledged") /\ At(i, "resolved")' = At(i, "resolved")
      /\ \A n \in DOMAIN trail[i] : trail'[i][n] = trail[i][n]
  BY <1>1, Appended
<1>3. At(i, "acknowledged") \subseteq DOMAIN trail[i] /\ At(i, "resolved") \subseteq DOMAIN trail[i]
  BY DEF At
<1>. QED  BY <1>1, <1>2, <1>3 DEF TimelineOK

LEMMA AlertStays ==
    ASSUME Inv, NEW i \in Incidents, Exists(i), NEW e \in Entries,
           trail'[i] = trail[i] \/ trail'[i] = Append(trail[i], e),
           rows'[i].status = "resolved" => rows[i].status = "resolved",
           alertOpen'[i] => alertOpen[i],
           \A s \in Sessions : Closing(s, i) => Closing(s, i)'
    PROVE  AlertOK(i)'
<1>1. AlertOK(i) /\ TypeOK
  BY DEF Inv, IncidentOK
<1>2. \A n \in At(i, "resolved") : n \in At(i, "resolved")' /\ trail'[i][n] = trail[i][n]
  <2>1. CASE trail'[i] = trail[i]
    BY <2>1 DEF At
  <2>2. CASE trail'[i] = Append(trail[i], e)
    <3>1. \A n \in DOMAIN trail[i] : n \in DOMAIN trail'[i] /\ trail'[i][n] = trail[i][n]
      BY <1>1, <2>2, Appended
    <3>. QED  BY <3>1 DEF At
  <2>. QED  BY <2>1, <2>2
<1>3. ASSUME rows'[i].status = "resolved" /\ alertOpen'[i]
      PROVE  \/ \E n \in At(i, "resolved")' : trail'[i][n].by # None
             \/ \E s \in Sessions : Closing(s, i)'
  <2>1. CASE \E n \in At(i, "resolved") : trail[i][n].by # None
    BY <1>2, <2>1
  <2>2. CASE \E s \in Sessions : Closing(s, i)
    BY <2>2
  <2>. QED  BY <1>1, <1>3, <2>1, <2>2 DEF AlertOK
<1>. QED  BY <1>3 DEF AlertOK

LEMMA AccountStays ==
    ASSUME Inv, NEW i \in Incidents, Exists(i), NEW e \in Entries,
           e.action \notin {"escalated", "escalation_exhausted"},
           trail'[i] = trail[i] \/ trail'[i] = Append(trail[i], e),
           rows'[i].rule = rows[i].rule, rows'[i].loops = rows[i].loops,
           rows'[i].snapshot = rows[i].snapshot
    PROVE  AccountOK(i)'
<1>1. AccountOK(i) /\ TypeOK
  BY DEF Inv, IncidentOK
<1>2. /\ Count(i, "escalated")' = Count(i, "escalated")
      /\ Count(i, "escalation_exhausted")' = Count(i, "escalation_exhausted")
  <2>1. CASE trail'[i] = trail[i]
    BY <2>1 DEF Count
  <2>2. CASE trail'[i] = Append(trail[i], e)
    BY <1>1, <2>2, Appended
  <2>. QED  BY <2>1, <2>2
<1>. QED  BY <1>1, <1>2 DEF AccountOK

\* The step may be of a request that works on the incident, and gives the row
\* back if it held it.
LEMMA IncidentStep ==
    ASSUME Inv, NEW i \in Incidents, NEW S \in SUBSET Sessions,
           \A s \in S : session[s].on = i /\ SessionOK(s)',
           \A s \in Sessions \ S : session'[s] = session[s],
           \A j \in Incidents \ {i} : /\ rows'[j] = rows[j] /\ trail'[j] = trail[j]
                                      /\ alertOpen'[j] = alertOpen[j] /\ lock'[j] = lock[j],
           lock[i] \notin S => lock'[i] = lock[i],
           UNCHANGED <<batch, pass>>,
           Exists(i) => /\ rows'[i] # None
                        /\ rows[i].timer = "none" => rows'[i].timer = "none"
                        /\ lock[i] \notin S => /\ rows'[i].status = rows[i].status
                                               /\ rows'[i].ackBy = rows[i].ackBy,
           rows'[i] # rows[i] => \A w \in Workers : i \notin Selected(w),
           IncidentOK(i)', TypeOK'
    PROVE  Inv'
<1>1. ASSUME NEW j \in Incidents PROVE IncidentOK(j)'
  <2>1. CASE j = i
    BY <2>1
  <2>2. CASE j # i
    <3>1. \A s \in Sessions : Closing(s, j) => Closing(s, j)'
      BY <2>2 DEF Closing
    <3>. QED  BY <2>2, <3>1, IncidentKeeps
  <2>. QED  BY <2>1, <2>2
<1>2. ASSUME NEW s \in Sessions PROVE SessionOK(s)'
  <2>1. CASE s \in S
    BY <2>1
  <2>2. CASE s \notin S /\ session[s].pc = "idle"
    BY <2>2 DEF SessionOK
  <2>3. CASE s \notin S /\ session[s].pc # "idle"
    <3> DEFINE j == session[s].on
    <3>1. j \in Incidents
      BY <2>3 DEF Inv, SessionOK
    <3>2. Exists(j) => /\ rows'[j] # None
                       /\ rows[j].timer = "none" => rows'[j].timer = "none"
                       /\ lock[j] = s => /\ rows'[j].status = rows[j].status
                                         /\ rows'[j].ackBy = rows[j].ackBy
                                         /\ lock'[j] = s
      <4>1. CASE j = i
        BY <2>3, <4>1
      <4>2. CASE j # i
        BY <3>1, <4>2 DEF Exists
      <4>. QED  BY <4>1, <4>2
    <3>. HIDE DEF j
    <3>. QED  BY <2>3, <3>1, <3>2, SessionKeeps DEF j
  <2>. QED  BY <2>1, <2>2, <2>3
<1>3. ASSUME NEW w \in Workers PROVE BatchOK(w)'
  <2>1. ASSUME NEW j \in Selected(w) PROVE rows'[j] = rows[j] /\ lock'[j] = lock[j]
    <3>1. j \in Incidents /\ lock[j] = w
      BY DEF Inv, TypeOK, BatchOK
    <3>2. w \notin S
      BY IncidentsAssumption
    <3>. QED  BY <3>1, <3>2
  <2>. QED  BY <2>1, BatchKeeps
<1>. QED  BY <1>1, <1>2, <1>3 DEF Inv

\* A step that is of no request.
LEMMA WorldStep ==
    ASSUME Inv, NEW i \in Incidents,
           \A j \in Incidents \ {i} : /\ rows'[j] = rows[j] /\ trail'[j] = trail[j]
                                      /\ alertOpen'[j] = alertOpen[j],
           UNCHANGED <<session, lock, batch, pass>>,
           Exists(i) => /\ rows'[i] # None
                        /\ rows[i].timer = "none" => rows'[i].timer = "none"
                        /\ rows'[i].status = rows[i].status /\ rows'[i].ackBy = rows[i].ackBy,
           rows'[i] # rows[i] => \A w \in Workers : i \notin Selected(w),
           IncidentOK(i)', TypeOK'
    PROVE  Inv'
<1> DEFINE S == {}
<1>1. /\ S \in SUBSET Sessions /\ lock[i] \notin S
      /\ \A s \in S : session[s].on = i /\ SessionOK(s)'
      /\ \A s \in Sessions \ S : session'[s] = session[s]
      /\ \A j \in Incidents \ {i} : /\ rows'[j] = rows[j] /\ trail'[j] = trail[j]
                                    /\ alertOpen'[j] = alertOpen[j] /\ lock'[j] = lock[j]
      /\ lock[i] \notin S => lock'[i] = lock[i]
      /\ UNCHANGED <<batch, pass>>
  OBVIOUS
<1>. HIDE DEF S
<1>. QED  BY <1>1, IncidentStep

\* A step of a request: it writes the row while it holds it, or the row is free.
LEMMA WritingStep ==
    ASSUME Inv, NEW s \in Sessions, NEW i \in Incidents, session[s].on = i,
           SessionOK(s)',
           \A x \in Sessions \ {s} : session'[x] = session[x],
           \A j \in Incidents \ {i} : /\ rows'[j] = rows[j] /\ trail'[j] = trail[j]
                                      /\ alertOpen'[j] = alertOpen[j] /\ lock'[j] = lock[j],
           lock[i] # s => lock'[i] = lock[i],
           UNCHANGED <<batch, pass>>,
           rows'[i] # None, rows[i].timer = "none" => rows'[i].timer = "none",
           lock[i] # s => rows'[i].status = rows[i].status /\ rows'[i].ackBy = rows[i].ackBy,
           rows'[i] # rows[i] => \A w \in Workers : i \notin Selected(w),
           IncidentOK(i)', TypeOK'
    PROVE  Inv'
<1> DEFINE S == {s}
<1>1. /\ S \in SUBSET Sessions
      /\ \A x \in S : session[x].on = i /\ SessionOK(x)'
      /\ \A x \in Sessions \ S : session'[x] = session[x]
      /\ lock[i] \notin S => lock[i] # s
  OBVIOUS
<1>. HIDE DEF S
<1>. QED  BY <1>1, IncidentStep

LEMMA NotSelected ==
    ASSUME Inv, NEW i \in Incidents, lock[i] \in Sessions \cup {None}
    PROVE  \A w \in Workers : i \notin Selected(w)
BY IncidentsAssumption DEF Inv, BatchOK

\* The row process_event inserts.
LEMMA NewRowOK ==
    ASSUME NEW snapshot \in Snapshots \ {"sql_null"}
    PROVE  LET row == NewRow(snapshot) IN
           /\ row \in Row /\ RowOK(row) /\ row # None
           /\ row.status = "triggered" /\ row.ackBy = None /\ row.resolvedBy = None
           /\ row.snapshot = snapshot /\ row.level = 1 /\ row.loops = 0 /\ row.rule = 0
           /\ row.timer = "none" <=> snapshot # "policy"
<1> DEFINE timer == IF snapshot = "policy" THEN "pending" ELSE "none"
           title == CHOOSE t \in Titles : TRUE
           row == NewRow(snapshot)
<1>1. /\ timer \in Timers /\ (timer = "none" <=> snapshot # "policy")
      /\ title \in Titles /\ NumRules \in Nat \ {0} /\ NumLoops \in Nat \ {0}
  BY IncidentsAssumption DEF Timers
<1>2. row = [status |-> "triggered", timer |-> timer, rule |-> 0, loops |-> 0, level |-> 1,
             snapshot |-> snapshot, title |-> title, ackBy |-> None, resolvedBy |-> None]
  BY DEF NewRow
<1>. HIDE DEF timer, title, row
<1>3. row \in Row /\ row # None
  BY <1>1, <1>2, IncidentsAssumption DEF Row, Statuses, Snapshots
<1>4. RowOK(row)
  BY <1>1, <1>2 DEF RowOK
<1>. QED  BY <1>1, <1>2, <1>3, <1>4 DEF row

LEMMA TriggerInv ==
    ASSUME Inv, NEW i \in Incidents, Trigger(i)
    PROVE  Inv'
<1> DEFINE e == Entry("triggered", None)
<1>1. PICK snapshot \in Snapshots \ {"sql_null"} :
         /\ rows' = [rows EXCEPT ![i] = NewRow(snapshot)]
         /\ outbox' = [outbox EXCEPT ![i]["page"] = IF Assigned(snapshot) THEN 1 ELSE 0,
                                     ![i]["incident.triggered"] = 1]
  BY DEF Trigger
<1> DEFINE row == NewRow(snapshot)
<1>2. /\ ~Exists(i) /\ alertOpen' = [alertOpen EXCEPT ![i] = TRUE] /\ Log(i, e)
      /\ UNCHANGED <<lock, aged, session, batch, pass, faults>>
  BY DEF Trigger
<1>3. /\ row \in Row /\ RowOK(row) /\ row # None
      /\ row.status = "triggered" /\ row.snapshot = snapshot /\ row.loops = 0 /\ row.rule = 0
  BY NewRowOK
<1>4. NumRules \in Nat \ {0} /\ NumLoops \in Nat \ {0}
  BY IncidentsAssumption
<1>. HIDE DEF row
<1>5. e \in Entries /\ e.action = "triggered"
  BY DEF Entries, Entry, Actions
<1>. HIDE DEF e
<1>6. /\ rows'[i] = row /\ trail'[i] = Append(trail[i], e)
      /\ \A j \in Incidents \ {i} : /\ rows'[j] = rows[j] /\ trail'[j] = trail[j]
                                    /\ alertOpen'[j] = alertOpen[j]
  BY <1>1, <1>2 DEF Inv, TypeOK, Log, row
<1>7. TypeOK'
  <2>1. rows' \in [Incidents -> Row \cup {None}] /\ alertOpen' \in [Incidents -> BOOLEAN]
    BY <1>1, <1>2, <1>3 DEF Inv, TypeOK, row
  <2>2. trail' \in [Incidents -> Seq(Entries)]
    <3>1. trail \in [Incidents -> Seq(Entries)]
      BY DEF Inv, TypeOK, Entries
    <3>2. Append(trail[i], e) \in Seq(Entries)
      BY <1>5, <3>1
    <3>. QED  BY <1>2, <3>1, <3>2 DEF Log
  <2>3. outbox' \in [Incidents -> [Mails -> Nat]]
    BY <1>1 DEF Inv, TypeOK
  <2>. QED  BY <1>2, <2>1, <2>2, <2>3 DEF Inv, TypeOK, Entries, Selected
<1>8. trail[i] = <<>>
  BY <1>2 DEF Inv, IncidentOK
<1>9. /\ At(i, "acknowledged")' = {} /\ At(i, "resolved")' = {}
       /\ Count(i, "escalated")' = 0 /\ Count(i, "escalation_exhausted")' = 0
  <2>1. At(i, "acknowledged") = {} /\ At(i, "resolved") = {}
    BY <1>8 DEF At
  <2>2. Count(i, "escalated") = 0 /\ Count(i, "escalation_exhausted") = 0
    <3>1. \A action : {n \in DOMAIN trail[i] : trail[i][n].action = action} = {}
      BY <1>8
    <3>. QED  BY <3>1, FS_EmptySet DEF Count
  <2>. QED  BY <1>5, <1>6, <2>1, <2>2, Appended DEF Inv
<1>10. IncidentOK(i)'
  <2>1. TimelineOK(i)'
    <3>1. rows'[i].status = "triggered" /\ Cardinality({}) = 0
      BY <1>3, <1>6, FS_EmptySet
    <3>. QED  BY <1>9, <3>1 DEF TimelineOK
  <2>2. AlertOK(i)'
    BY <1>3, <1>6 DEF AlertOK
  <2>3. AccountOK(i)'
    BY <1>3, <1>4, <1>6, <1>9 DEF AccountOK
  <2>. QED  BY <1>3, <1>6, <2>1, <2>2, <2>3 DEF IncidentOK, Exists
<1>11. \A w \in Workers : i \notin Selected(w)
  BY <1>2 DEF Inv, BatchOK
<1>. QED  BY <1>2, <1>6, <1>7, <1>10, <1>11, WorldStep

LEMMA TimerElapsesInv ==
    ASSUME Inv, NEW i \in Incidents, TimerElapses(i)
    PROVE  Inv'
<1> DEFINE row == [rows[i] EXCEPT !.timer = "due"]
<1>1. /\ Exists(i) /\ rows[i].timer = "pending" /\ rows[i] \in Row /\ IncidentOK(i)
      /\ UNCHANGED <<alertOpen, trail, outbox, lock, aged, session, batch, pass, faults>>
  BY DEF TimerElapses, Inv, TypeOK, Exists
<1>2. rows' = [rows EXCEPT ![i] = row]
  BY DEF TimerElapses, Inv, TypeOK
<1>3. row \in Row /\ row # None
  BY <1>1, IncidentsAssumption DEF Row, Timers
<1>4. /\ row.timer = "due" /\ row.status = rows[i].status /\ row.ackBy = rows[i].ackBy
      /\ row.resolvedBy = rows[i].resolvedBy /\ row.rule = rows[i].rule
      /\ row.loops = rows[i].loops /\ row.snapshot = rows[i].snapshot /\ row.level = rows[i].level
  BY <1>1 DEF Row
<1>. HIDE DEF row
<1>5. /\ rows'[i] = row
      /\ \A j \in Incidents \ {i} : rows'[j] = rows[j]
  BY <1>2 DEF Inv, TypeOK
<1>6. TypeOK'
  BY <1>1, <1>2, <1>3 DEF Inv, TypeOK, Selected
<1>7. IncidentOK(i)'
  <2>1. \A action : At(i, action)' = At(i, action) /\ Count(i, action)' = Count(i, action)
    BY <1>1 DEF At, Count
  <2>2. \A s \in Sessions : Closing(s, i)' = Closing(s, i)
    BY <1>1 DEF Closing
  <2>3. RowOK(row)
    BY <1>1, <1>4 DEF IncidentOK, RowOK
  <2>4. TimelineOK(i)'
    BY <1>1, <1>4, <1>5, <2>1 DEF IncidentOK, TimelineOK
  <2>5. AlertOK(i)' /\ AccountOK(i)'
    BY <1>1, <1>4, <1>5, <2>1, <2>2 DEF IncidentOK, AlertOK, AccountOK
  <2>. QED  BY <1>3, <1>5, <2>3, <2>4, <2>5 DEF IncidentOK, Exists
<1>8. \A w \in Workers : i \notin Selected(w)
  <2>. SUFFICES ASSUME NEW w \in Workers, i \in Selected(w) PROVE FALSE
    OBVIOUS
  <2>1. /\ pass[w] # "idle" /\ (pass[w] = "snapshot" => rows[i].timer = "due")
        /\ pass[w] = "legacy" => rows[i].snapshot = "sql_null"
    BY DEF Inv, BatchOK
  <2>2. rows[i].snapshot = "policy"
    BY <1>1 DEF IncidentOK, RowOK
  <2>. QED  BY <1>1, <2>1, <2>2 DEF Inv, TypeOK
<1>. QED  BY <1>1, <1>3, <1>4, <1>5, <1>6, <1>7, <1>8, WorldStep

LEMMA AgeInv ==
    ASSUME Inv, NEW i \in Incidents, Age(i)
    PROVE  Inv'
<1>1. UNCHANGED <<db, lock, session, batch, pass, faults>> /\ aged' = [aged EXCEPT ![i] = TRUE]
  BY DEF Age
<1>2. TypeOK'
  BY <1>1 DEF Inv, TypeOK, db, Selected
<1>3. IncidentOK(i)'
  BY <1>1, IncidentKeeps DEF db, Closing
<1>. QED  BY <1>1, <1>2, <1>3, WorldStep DEF db, Exists

LEMMA RecordInv ==
    ASSUME Inv, NEW s \in Sessions, NEW op, NEW entry \in Entries,
           entry.action \in {"note_added", "agent_update"}, Record(s, op, entry)
    PROVE  Inv'
<1>0. session[s].pc = "load"
  BY DEF Record
<1>2. PICK i \in Incidents : i = session[s].on /\ Exists(i) /\ IncidentOK(i)
  BY <1>0 DEF Inv, SessionOK
<1>1. /\ session[s].pc = "load" /\ Log(i, entry) /\ Goto(s, "done")
      /\ UNCHANGED <<rows, alertOpen, outbox, lock, aged, batch, pass, faults>>
  BY <1>2 DEF Record
<1>3. /\ session'[s].pc = "done" /\ session'[s].on = i /\ session' \in [Sessions -> SessionState]
      /\ \A x \in Sessions \ {s} : session'[x] = session[x]
  BY <1>1, <1>2, GotoState DEF Inv
<1>4. /\ trail' \in [Incidents -> Seq(Entries)] /\ trail'[i] = Append(trail[i], entry)
      /\ \A j \in Incidents \ {i} : trail'[j] = trail[j]
  <2>1. trail \in [Incidents -> Seq(Entries)]
    BY DEF Inv, TypeOK, Entries
  <2>2. Append(trail[i], entry) \in Seq(Entries)
    BY <1>2, <2>1
  <2>. QED  BY <1>1, <1>2, <2>1, <2>2 DEF Log
<1>5. TypeOK'
  BY <1>1, <1>3, <1>4 DEF Inv, TypeOK, Entries, Selected
<1>6. SessionOK(s)'
  BY <1>1, <1>2, <1>3 DEF SessionOK, Exists
<1>7. \A x \in Sessions : Closing(x, i) => Closing(x, i)'
  BY <1>1, <1>3 DEF Closing
<1>8. IncidentOK(i)'
  BY <1>1, <1>2, <1>4, <1>7, TimelineGrows, AlertStays, AccountStays DEF IncidentOK, Exists, RowOK
<1>. QED  BY <1>1, <1>2, <1>3, <1>4, <1>5, <1>6, <1>8, WritingStep DEF Exists

LEMMA CloseAlertInv ==
    ASSUME Inv, NEW s \in Sessions, CloseAlert(s)
    PROVE  Inv'
<1>0. session[s].pc = "close"
  BY DEF CloseAlert
<1>2. PICK i \in Incidents : i = session[s].on /\ Exists(i) /\ IncidentOK(i)
  BY <1>0 DEF Inv, SessionOK
<1>1. /\ session[s].pc = "close" /\ alertOpen' = [alertOpen EXCEPT ![i] = FALSE] /\ Goto(s, "done")
      /\ UNCHANGED <<rows, trail, outbox, lock, aged, batch, pass, faults>>
  BY <1>2 DEF CloseAlert
<1>3. /\ session'[s].pc = "done" /\ session'[s].on = i /\ session' \in [Sessions -> SessionState]
      /\ \A x \in Sessions \ {s} : session'[x] = session[x]
  BY <1>1, <1>2, GotoState DEF Inv
<1>4. /\ ~alertOpen'[i] /\ alertOpen' \in [Incidents -> BOOLEAN]
      /\ \A j \in Incidents \ {i} : alertOpen'[j] = alertOpen[j]
  BY <1>1, <1>2 DEF Inv, TypeOK
<1>5. TypeOK'
  BY <1>1, <1>3, <1>4 DEF Inv, TypeOK, Selected
<1>6. SessionOK(s)'
  BY <1>1, <1>2, <1>3 DEF SessionOK, Exists
<1>7. IncidentOK(i)'
  BY <1>1, <1>4, IncidentKeeps
<1>. QED  BY <1>1, <1>2, <1>3, <1>4, <1>5, <1>6, <1>7, WritingStep DEF Exists

\* What the flushes leave in the row.
LEMMA WriteRow ==
    ASSUME NEW row \in Row, NEW loaded \in Row, NEW new \in Row
    PROVE  LET r == Write(row, loaded, new) IN
           /\ r \in Row
           /\ r.status = IF new.status = loaded.status THEN row.status ELSE new.status
           /\ r.timer = IF new.timer = loaded.timer THEN row.timer ELSE new.timer
           /\ r.rule = IF new.rule = loaded.rule THEN row.rule ELSE new.rule
           /\ r.loops = IF new.loops = loaded.loops THEN row.loops ELSE new.loops
           /\ r.level = IF new.level = loaded.level THEN row.level ELSE new.level
           /\ r.snapshot = IF new.snapshot = loaded.snapshot THEN row.snapshot ELSE new.snapshot
           /\ r.title = IF new.title = loaded.title THEN row.title ELSE new.title
           /\ r.ackBy = IF new.ackBy = loaded.ackBy THEN row.ackBy ELSE new.ackBy
           /\ r.resolvedBy = IF new.resolvedBy = loaded.resolvedBy THEN row.resolvedBy ELSE new.resolvedBy
BY DEF Write, Row

\* The columns the worker and the timers use, and those a request writes.
SameEscalation(r, row) ==
    r.rule = row.rule /\ r.loops = row.loops /\ r.level = row.level /\ r.snapshot = row.snapshot

LEMMA EditWrites ==
    ASSUME NEW row \in Row, NEW loaded \in Row, NEW title \in Titles
    PROVE  LET r == Write(row, loaded, [loaded EXCEPT !.title = title]) IN
           /\ r \in Row /\ SameEscalation(r, row) /\ r.status = row.status /\ r.timer = row.timer
           /\ r.ackBy = row.ackBy /\ r.resolvedBy = row.resolvedBy
<1> DEFINE new == [loaded EXCEPT !.title = title]
<1>1. new \in Row /\ \A c \in DOMAIN loaded \ {"title"} : new[c] = loaded[c]
  BY DEF Row
<1>2. /\ SameEscalation(new, loaded) /\ new.status = loaded.status /\ new.timer = loaded.timer
      /\ new.ackBy = loaded.ackBy /\ new.resolvedBy = loaded.resolvedBy
  BY DEF SameEscalation, Row
<1> DEFINE r == Write(row, loaded, new)
<1>3. /\ r \in Row /\ SameEscalation(r, row) /\ r.status = row.status /\ r.timer = row.timer
      /\ r.ackBy = row.ackBy /\ r.resolvedBy = row.resolvedBy
  <2>. HIDE DEF new
  <2>. QED  BY <1>1, <1>2, WriteRow DEF SameEscalation
<1>. QED  BY <1>3

\* The copy is of a triggered row, and was taken under the lock.
LEMMA AcknowledgeWrites ==
    ASSUME NEW s \in Sessions, NEW row \in Row, NEW loaded \in Row, RowOK(row),
           row.status = "triggered", loaded.status = "triggered", row.ackBy = loaded.ackBy,
           loaded.timer = "none" => row.timer = "none"
    PROVE  LET r == Write(row, loaded, Acknowledged(loaded, s)) IN
           /\ r \in Row /\ SameEscalation(r, row)
           /\ r.status = "acknowledged" /\ r.timer = "none" /\ r.ackBy = s
           /\ r.resolvedBy = row.resolvedBy
<1> DEFINE new == Acknowledged(loaded, s)
<1>1. new \in Row
  BY DEF Row, Acknowledged, Statuses, Timers, Users
<1>2. /\ SameEscalation(new, loaded) /\ new.status = "acknowledged" /\ new.timer = "none"
      /\ new.ackBy = s /\ new.resolvedBy = loaded.resolvedBy
  BY DEF SameEscalation, Row, Acknowledged
<1>3. row.ackBy = None /\ s # None
  BY IncidentsAssumption DEF RowOK
<1> DEFINE r == Write(row, loaded, new)
<1>4. /\ r \in Row /\ SameEscalation(r, row)
      /\ r.status = "acknowledged" /\ r.timer = "none" /\ r.ackBy = s
  <2>. HIDE DEF new
  <2>1. r \in Row /\ SameEscalation(r, row)
    BY <1>1, <1>2, WriteRow DEF SameEscalation
  <2>2. r.status = IF new.status = loaded.status THEN row.status ELSE new.status
    BY <1>1, WriteRow
  <2>3. r.timer = IF new.timer = loaded.timer THEN row.timer ELSE new.timer
    BY <1>1, WriteRow
  <2>4. r.ackBy = IF new.ackBy = loaded.ackBy THEN row.ackBy ELSE new.ackBy
    BY <1>1, WriteRow
  <2>. QED  BY <1>2, <1>3, <2>1, <2>2, <2>3, <2>4
<1>5. r.resolvedBy = row.resolvedBy
  <2>. HIDE DEF new
  <2>. QED  BY <1>1, <1>2, WriteRow
<1>. QED  BY <1>4, <1>5

\* The copy is of a row that was not resolved; the row may be.
LEMMA ResolveWrites ==
    ASSUME NEW user \in Users \cup {None}, NEW row \in Row, NEW loaded \in Row, RowOK(row),
           loaded.status # "resolved", loaded.resolvedBy = None,
           loaded.timer = "none" => row.timer = "none"
    PROVE  LET r == Write(row, loaded, Resolved(loaded, user)) IN
           /\ r \in Row /\ SameEscalation(r, row)
           /\ r.status = "resolved" /\ r.timer = "none" /\ r.ackBy = row.ackBy
           /\ r.resolvedBy = IF user = None THEN row.resolvedBy ELSE user
<1> DEFINE new == Resolved(loaded, user)
<1>1. new \in Row
  BY DEF Row, Resolved, Statuses, Timers
<1>2. /\ SameEscalation(new, loaded) /\ new.status = "resolved" /\ new.timer = "none"
      /\ new.ackBy = loaded.ackBy /\ new.resolvedBy = user
  BY DEF SameEscalation, Row, Resolved
<1> DEFINE r == Write(row, loaded, new)
<1>3. /\ r \in Row /\ SameEscalation(r, row)
      /\ r.status = "resolved" /\ r.timer = "none" /\ r.ackBy = row.ackBy
  <2>. HIDE DEF new
  <2>. QED  BY <1>1, <1>2, WriteRow DEF SameEscalation
<1>4. r.resolvedBy = IF user = None THEN row.resolvedBy ELSE user
  <2>. HIDE DEF new
  <2>. QED  BY <1>1, <1>2, WriteRow
<1>. QED  BY <1>3, <1>4

LEMMA EditEffect ==
    ASSUME Inv, NEW s \in Sessions, CommitEdit(s)
    PROVE  \E i \in Incidents, row \in Row, r \in Row :
             /\ i = session[s].on /\ row = rows[i] /\ Exists(i) /\ rows' = [rows EXCEPT ![i] = r]
             /\ SameEscalation(r, row) /\ r.status = row.status /\ r.timer = row.timer
             /\ r.ackBy = row.ackBy /\ r.resolvedBy = row.resolvedBy
<1>0. session[s].pc = "commit" /\ session[s].op = "edit" /\ SessionOK(s)
  BY DEF CommitEdit, Inv
<1>1. PICK i \in Incidents : i = session[s].on /\ Exists(i)
  BY <1>0 DEF Inv, SessionOK
<1>2. PICK loaded \in Row : loaded = session[s].loaded
  BY <1>0 DEF SessionOK, CopyOK, Inv, TypeOK, SessionState
<1>3. PICK title \in Titles : title = session[s].title
  BY <1>0 DEF SessionOK, CopyOK
<1>4. PICK row \in Row : row = rows[i]
  BY <1>1 DEF Inv, TypeOK, Exists
<1> DEFINE r == Write(row, loaded, [loaded EXCEPT !.title = title])
<1>5. rows' = [rows EXCEPT ![i] = r]
  BY <1>1, <1>2, <1>3, <1>4 DEF CommitEdit
<1>6. /\ r \in Row /\ SameEscalation(r, row) /\ r.status = row.status /\ r.timer = row.timer
      /\ r.ackBy = row.ackBy /\ r.resolvedBy = row.resolvedBy
  BY EditWrites
<1>. HIDE DEF r
<1>. QED  BY <1>1, <1>4, <1>5, <1>6

LEMMA CommitEditInv ==
    ASSUME Inv, NEW s \in Sessions, CommitEdit(s)
    PROVE  Inv'
<1> DEFINE e == Entry("updated", s)
<1>1. PICK i \in Incidents, row \in Row, r \in Row :
         /\ i = session[s].on /\ row = rows[i] /\ Exists(i) /\ rows' = [rows EXCEPT ![i] = r]
         /\ SameEscalation(r, row) /\ r.status = row.status /\ r.timer = row.timer
         /\ r.ackBy = row.ackBy /\ r.resolvedBy = row.resolvedBy
  BY EditEffect
<1>2. session[s].pc = "commit" /\ IncidentOK(i)
  BY DEF CommitEdit, Inv
<1>5. /\ lock[i] = None /\ Log(i, e) /\ Goto(s, "done")
      /\ UNCHANGED <<alertOpen, outbox, lock, aged, batch, pass, faults>>
  BY <1>1 DEF CommitEdit, Free
<1>7. e \in Entries /\ e.action = "updated"
  BY DEF Entries, Entry, Actions, Users
<1>. HIDE DEF e
<1>8. /\ session'[s].pc = "done" /\ session'[s].on = i /\ session' \in [Sessions -> SessionState]
      /\ \A x \in Sessions \ {s} : session'[x] = session[x]
  BY <1>1, <1>5, GotoState DEF Inv
<1>9. /\ trail' \in [Incidents -> Seq(Entries)] /\ trail'[i] = Append(trail[i], e)
      /\ \A j \in Incidents \ {i} : trail'[j] = trail[j]
  <2>1. trail \in [Incidents -> Seq(Entries)]
    BY DEF Inv, TypeOK, Entries
  <2>2. Append(trail[i], e) \in Seq(Entries)
    BY <1>7, <2>1
  <2>. QED  BY <1>5, <2>1, <2>2 DEF Log
<1>10. /\ rows' \in [Incidents -> Row \cup {None}] /\ rows'[i] = r /\ r # None
       /\ \A j \in Incidents \ {i} : rows'[j] = rows[j]
  BY <1>1, IncidentsAssumption DEF Inv, TypeOK
<1>11. TypeOK'
  BY <1>5, <1>8, <1>9, <1>10 DEF Inv, TypeOK, Entries, Selected
<1>12. SessionOK(s)'
  BY <1>8, <1>10 DEF SessionOK, Exists
<1>13. \A x \in Sessions : Closing(x, i) => Closing(x, i)'
  BY <1>2, <1>8 DEF Closing
<1>14. IncidentOK(i)'
  <2>1. TimelineOK(i)'
    BY <1>1, <1>7, <1>9, <1>10, TimelineGrows
  <2>2. AlertOK(i)'
    <3>1. /\ rows'[i].status = "resolved" => rows[i].status = "resolved"
          /\ alertOpen'[i] => alertOpen[i]
      BY <1>1, <1>5, <1>10
    <3>. QED  BY <1>1, <1>7, <1>9, <1>13, <3>1, AlertStays
  <2>3. AccountOK(i)'
    BY <1>1, <1>7, <1>9, <1>10, AccountStays DEF SameEscalation
  <2>4. RowOK(r)
    BY <1>1, <1>2 DEF IncidentOK, RowOK, SameEscalation
  <2>. QED  BY <1>10, <2>1, <2>2, <2>3, <2>4 DEF IncidentOK, Exists
<1>15. \A w \in Workers : i \notin Selected(w)
  BY <1>5, NotSelected
<1>. QED  BY <1>1, <1>5, <1>8, <1>9, <1>10, <1>11, <1>12, <1>14, <1>15, WritingStep

LEMMA AckEffect ==
    ASSUME Inv, NEW s \in Sessions, CommitAck(s)
    PROVE  \E i \in Incidents, row \in Row, r \in Row :
             /\ i = session[s].on /\ row = rows[i] /\ Exists(i) /\ lock[i] = s
             /\ rows' = [rows EXCEPT ![i] = r]
             /\ RowOK(row) /\ row.status = "triggered"
             /\ SameEscalation(r, row)
             /\ r.status = "acknowledged" /\ r.timer = "none" /\ r.ackBy = s
             /\ r.resolvedBy = row.resolvedBy
<1>0. session[s].pc = "commit" /\ session[s].op = "ack" /\ SessionOK(s)
  BY DEF CommitAck, Inv
<1>1. PICK i \in Incidents : i = session[s].on /\ Exists(i) /\ lock[i] = s
  BY <1>0 DEF Inv, SessionOK
<1>2. PICK loaded \in Row : loaded = session[s].loaded
  BY <1>0 DEF SessionOK, CopyOK, Inv, TypeOK, SessionState
<1>3. PICK row \in Row : row = rows[i]
  BY <1>1 DEF Inv, TypeOK, Exists
<1> DEFINE r == Write(row, loaded, Acknowledged(loaded, s))
<1>4. rows' = [rows EXCEPT ![i] = r]
  BY <1>1, <1>2, <1>3 DEF CommitAck
<1>5. RowOK(row)
  BY <1>1, <1>3 DEF Inv, IncidentOK
<1>6. /\ row.status = "triggered" /\ loaded.status = "triggered" /\ row.ackBy = loaded.ackBy
      /\ loaded.timer = "none" => row.timer = "none"
  <2>1. CopyOK(session[s], row)
    BY <1>0, <1>1, <1>3 DEF SessionOK
  <2>2. /\ session[s].loaded.status # "resolved" /\ row.status = session[s].loaded.status
        /\ row.ackBy = session[s].loaded.ackBy /\ row.status = "triggered"
        /\ session[s].loaded.timer = "none" => row.timer = "none"
    BY <1>0, <2>1 DEF CopyOK
  <2>. QED  BY <1>2, <2>2
<1>7. /\ r \in Row /\ SameEscalation(r, row)
      /\ r.status = "acknowledged" /\ r.timer = "none" /\ r.ackBy = s
      /\ r.resolvedBy = row.resolvedBy
  BY <1>5, <1>6, AcknowledgeWrites
<1>. HIDE DEF r
<1>. QED  BY <1>1, <1>3, <1>4, <1>5, <1>6, <1>7

LEMMA CommitAckInv ==
    ASSUME Inv, NEW s \in Sessions, CommitAck(s)
    PROVE  Inv'
<1> DEFINE e == Entry("acknowledged", s)
<1>1. PICK i \in Incidents, row \in Row, r \in Row :
         /\ i = session[s].on /\ row = rows[i] /\ Exists(i) /\ lock[i] = s
         /\ rows' = [rows EXCEPT ![i] = r]
         /\ RowOK(row) /\ row.status = "triggered"
         /\ SameEscalation(r, row)
         /\ r.status = "acknowledged" /\ r.timer = "none" /\ r.ackBy = s
         /\ r.resolvedBy = row.resolvedBy
  BY AckEffect
<1>2. session[s].pc = "commit" /\ IncidentOK(i)
  BY DEF CommitAck, Inv
<1>4. /\ Log(i, e) /\ Goto(s, "done")
      /\ outbox' = [outbox EXCEPT ![i]["incident.acknowledged"] = @ + 1]
      /\ lock' = [lock EXCEPT ![i] = None]
      /\ UNCHANGED <<alertOpen, aged, batch, pass, faults>>
  BY <1>1 DEF CommitAck
<1>7. e \in Entries /\ e.action = "acknowledged" /\ e.by = s
  BY DEF Entries, Entry, Actions, Users
<1>. HIDE DEF e
<1>8. /\ session'[s].pc = "done" /\ session'[s].on = i /\ session' \in [Sessions -> SessionState]
      /\ \A x \in Sessions \ {s} : session'[x] = session[x]
  BY <1>1, <1>4, GotoState DEF Inv
<1>9. /\ trail' \in [Incidents -> Seq(Entries)] /\ trail'[i] = Append(trail[i], e)
      /\ \A j \in Incidents \ {i} : trail'[j] = trail[j]
  <2>1. trail \in [Incidents -> Seq(Entries)]
    BY DEF Inv, TypeOK, Entries
  <2>2. Append(trail[i], e) \in Seq(Entries)
    BY <1>7, <2>1
  <2>. QED  BY <1>4, <2>1, <2>2 DEF Log
<1>10. /\ rows' \in [Incidents -> Row \cup {None}] /\ rows'[i] = r /\ r # None
       /\ \A j \in Incidents \ {i} : rows'[j] = rows[j] /\ lock'[j] = lock[j]
  BY <1>1, <1>4, IncidentsAssumption DEF Inv, TypeOK
<1>11. TypeOK'
  <2>1. outbox' \in [Incidents -> [Mails -> Nat]]
    BY <1>4 DEF Inv, TypeOK, Mails
  <2>2. lock' \in [Incidents -> Sessions \cup Workers \cup {None}]
    BY <1>4 DEF Inv, TypeOK
  <2>. QED  BY <1>4, <1>8, <1>9, <1>10, <2>1, <2>2 DEF Inv, TypeOK, Entries, Selected
<1>12. SessionOK(s)'
  BY <1>8, <1>10 DEF SessionOK, Exists
<1>13. \A x \in Sessions : Closing(x, i) => Closing(x, i)'
  BY <1>2, <1>8 DEF Closing
<1>14. IncidentOK(i)'
  <2>1. TimelineOK(i)'
    <3>1. TimelineOK(i)
      BY <1>1, <1>2 DEF IncidentOK
    <3>2. At(i, "acknowledged") = {} /\ At(i, "resolved") = {}
      BY <1>1, <3>1 DEF TimelineOK
    <3> DEFINE last == Len(trail[i]) + 1
    <3>3. /\ At(i, "acknowledged")' = {last} /\ At(i, "resolved")' = {}
          /\ trail'[i][last] = e
      BY <1>7, <1>9, <3>2, Appended DEF Inv
    <3>. HIDE DEF last
    <3>4. Cardinality({last}) = 1
      BY FS_Singleton
    <3>5. rows'[i].status = "acknowledged" /\ rows'[i].ackBy = e.by
      BY <1>1, <1>7, <1>10
    <3>. QED  BY <3>3, <3>4, <3>5 DEF TimelineOK
  <2>2. AlertOK(i)'
    BY <1>1, <1>10 DEF AlertOK
  <2>3. AccountOK(i)'
    BY <1>1, <1>7, <1>9, <1>10, AccountStays DEF SameEscalation
  <2>4. RowOK(r)
    BY <1>1 DEF RowOK, SameEscalation
  <2>. QED  BY <1>10, <2>1, <2>2, <2>3, <2>4 DEF IncidentOK, Exists
<1>15. \A w \in Workers : i \notin Selected(w)
  BY <1>1, NotSelected
<1>. QED  BY <1>1, <1>4, <1>8, <1>9, <1>10, <1>11, <1>12, <1>14, <1>15, WritingStep

LEMMA ResolveEffect ==
    ASSUME Inv, NEW s \in Sessions, CommitResolve(s)
    PROVE  \E i \in Incidents, row \in Row, r \in Row, user \in Users \cup {None} :
             /\ i = session[s].on /\ row = rows[i] /\ Exists(i) /\ lock[i] = s
             /\ user = IF session[s].op = "grafana" THEN None ELSE s
             /\ rows' = [rows EXCEPT ![i] = r]
             /\ RowOK(row) /\ (user # None => row.status # "resolved")
             /\ SameEscalation(r, row)
             /\ r.status = "resolved" /\ r.timer = "none" /\ r.ackBy = row.ackBy
             /\ r.resolvedBy = IF user = None THEN row.resolvedBy ELSE user
<1>0. session[s].pc = "commit" /\ session[s].op \in {"resolve", "grafana"} /\ SessionOK(s)
  BY DEF CommitResolve, Inv
<1>1. PICK i \in Incidents : i = session[s].on /\ Exists(i) /\ lock[i] = s
  BY <1>0 DEF Inv, SessionOK
<1>2. PICK loaded \in Row : loaded = session[s].loaded
  BY <1>0 DEF SessionOK, CopyOK, Inv, TypeOK, SessionState
<1>3. PICK row \in Row : row = rows[i]
  BY <1>1 DEF Inv, TypeOK, Exists
<1>4. PICK user \in Users \cup {None} : user = IF session[s].op = "grafana" THEN None ELSE s
  BY DEF Users
<1> DEFINE r == Write(row, loaded, Resolved(loaded, user))
<1>5. rows' = [rows EXCEPT ![i] = r]
  BY <1>1, <1>2, <1>3, <1>4 DEF CommitResolve
<1>6. RowOK(row)
  BY <1>1, <1>3 DEF Inv, IncidentOK
<1>7. /\ loaded.status # "resolved" /\ loaded.resolvedBy = None
      /\ loaded.timer = "none" => row.timer = "none"
      /\ user # None => row.status # "resolved"
  <2>1. CopyOK(session[s], row)
    BY <1>0, <1>1, <1>3 DEF SessionOK
  <2>2. /\ session[s].loaded.status # "resolved" /\ session[s].loaded.resolvedBy = None
        /\ session[s].loaded.timer = "none" => row.timer = "none"
        /\ session[s].op = "resolve" => row.status = session[s].loaded.status
    BY <1>0, <2>1 DEF CopyOK
  <2>. QED  BY <1>0, <1>2, <1>4, <2>2
<1>8. /\ r \in Row /\ SameEscalation(r, row)
      /\ r.status = "resolved" /\ r.timer = "none" /\ r.ackBy = row.ackBy
      /\ r.resolvedBy = IF user = None THEN row.resolvedBy ELSE user
  BY <1>6, <1>7, ResolveWrites
<1>. HIDE DEF r
<1>. QED  BY <1>1, <1>3, <1>4, <1>5, <1>6, <1>7, <1>8

LEMMA CommitResolveInv ==
    ASSUME Inv, NEW s \in Sessions, CommitResolve(s)
    PROVE  Inv'
<1>1. PICK i \in Incidents, row \in Row, r \in Row, user \in Users \cup {None} :
         /\ i = session[s].on /\ row = rows[i] /\ Exists(i) /\ lock[i] = s
         /\ user = IF session[s].op = "grafana" THEN None ELSE s
         /\ rows' = [rows EXCEPT ![i] = r]
         /\ RowOK(row) /\ (user # None => row.status # "resolved")
         /\ SameEscalation(r, row)
         /\ r.status = "resolved" /\ r.timer = "none" /\ r.ackBy = row.ackBy
         /\ r.resolvedBy = IF user = None THEN row.resolvedBy ELSE user
  BY ResolveEffect
<1>2. session[s].pc = "commit" /\ session[s].op \in {"resolve", "grafana"} /\ IncidentOK(i)
  BY DEF CommitResolve, Inv
<1>5. PICK step \in {"close", "done"} : step = AfterResolve(s)
  BY DEF AfterResolve
<1> DEFINE e == Entry("resolved", user)
<1>6. /\ Log(i, e) /\ Goto(s, step)
      /\ outbox' = [outbox EXCEPT ![i]["incident.resolved"] = @ + 1]
      /\ lock' = [lock EXCEPT ![i] = None]
      /\ UNCHANGED <<alertOpen, aged, batch, pass, faults>>
  BY <1>1, <1>5 DEF CommitResolve
<1>7. /\ user = None => session[s].op = "grafana"
      /\ session[s].op = "grafana" => step = "close"
      /\ session[s].op = "resolve" => step = "done"
  BY <1>1, <1>2, <1>5, IncidentsAssumption DEF AfterResolve
<1>10. e \in Entries /\ e.action = "resolved" /\ e.by = user
  BY DEF Entries, Entry, Actions
<1>. HIDE DEF e
<1>11. /\ session'[s].pc = step /\ session'[s].on = i /\ session'[s].op = session[s].op
       /\ session' \in [Sessions -> SessionState]
       /\ \A x \in Sessions \ {s} : session'[x] = session[x]
  BY <1>1, <1>5, <1>6, GotoState DEF Inv
<1>12. /\ trail' \in [Incidents -> Seq(Entries)] /\ trail'[i] = Append(trail[i], e)
       /\ \A j \in Incidents \ {i} : trail'[j] = trail[j]
  <2>1. trail \in [Incidents -> Seq(Entries)]
    BY DEF Inv, TypeOK, Entries
  <2>2. Append(trail[i], e) \in Seq(Entries)
    BY <1>10, <2>1
  <2>. QED  BY <1>6, <2>1, <2>2 DEF Log
<1>13. /\ rows' \in [Incidents -> Row \cup {None}] /\ rows'[i] = r /\ r # None
       /\ \A j \in Incidents \ {i} : rows'[j] = rows[j] /\ lock'[j] = lock[j]
  BY <1>1, <1>6, IncidentsAssumption DEF Inv, TypeOK
<1>14. TypeOK'
  <2>1. outbox' \in [Incidents -> [Mails -> Nat]]
    BY <1>6 DEF Inv, TypeOK, Mails
  <2>2. lock' \in [Incidents -> Sessions \cup Workers \cup {None}]
    BY <1>6 DEF Inv, TypeOK
  <2>. QED  BY <1>6, <1>11, <1>12, <1>13, <2>1, <2>2 DEF Inv, TypeOK, Entries, Selected
<1>15. SessionOK(s)'
  <2>1. step = "close" => session'[s].op = "grafana"
    BY <1>2, <1>7, <1>11
  <2>. QED  BY <1>11, <1>13, <2>1 DEF SessionOK, Exists
<1> DEFINE last == Len(trail[i]) + 1
<1>16. /\ At(i, "acknowledged")' = At(i, "acknowledged")
       /\ At(i, "resolved")' = At(i, "resolved") \cup {last}
       /\ trail'[i][last] = e
       /\ \A n \in DOMAIN trail[i] : trail'[i][n] = trail[i][n] /\ n < last
  BY <1>10, <1>12, Appended DEF Inv
<1>17. last \in Nat
  BY <1>1 DEF Inv, TypeOK
<1>. HIDE DEF last
<1>18. IncidentOK(i)'
  <2>1. TimelineOK(i)'
    <3> DEFINE acks == At(i, "acknowledged")
               resolves == At(i, "resolved")
    <3>1. /\ Cardinality(acks) <= 1
          /\ \A n \in acks : row.ackBy = trail[i][n].by /\ \A m \in resolves : n < m
          /\ \A n \in resolves : trail[i][n].by # None =>
                row.resolvedBy = trail[i][n].by /\ \A m \in resolves : n <= m
          /\ row.status # "resolved" => resolves = {}
      BY <1>1, <1>2 DEF IncidentOK, TimelineOK
    <3>2. acks \subseteq DOMAIN trail[i] /\ resolves \subseteq DOMAIN trail[i]
      BY DEF At
    <3>. HIDE DEF acks, resolves
    <3>3. Cardinality(acks) <= 1 /\ resolves \cup {last} # {}
      BY <3>1
    <3>4. ASSUME NEW n \in acks
          PROVE  r.ackBy = trail'[i][n].by /\ \A m \in resolves \cup {last} : n < m
      BY <1>1, <1>16, <3>1, <3>2
    <3>5. ASSUME NEW n \in resolves \cup {last}, trail'[i][n].by # None
          PROVE  r.resolvedBy = trail'[i][n].by /\ \A m \in resolves \cup {last} : n <= m
      <4>1. CASE n \in resolves
        <5>1. trail[i][n].by # None /\ row.status = "resolved" /\ n < last
          BY <1>16, <3>1, <3>2, <3>5, <4>1
        <5>2. user = None
          BY <1>1, <5>1
        <5>3. n \in Nat
          BY <3>2, <4>1 DEF Inv, TypeOK
        <5>4. \A m \in resolves \cup {last} : n <= m
          BY <1>17, <3>1, <4>1, <5>1, <5>3
        <5>. QED  BY <1>1, <1>16, <3>1, <3>2, <4>1, <5>1, <5>2, <5>4
      <4>2. CASE n = last
        <5>1. user # None /\ trail'[i][n].by = user
          BY <1>10, <1>16, <3>5, <4>2
        <5>2. resolves = {}
          BY <1>1, <3>1, <5>1
        <5>. QED  BY <1>1, <1>17, <4>2, <5>1, <5>2
      <4>. QED  BY <4>1, <4>2
    <3>6. At(i, "acknowledged")' = acks /\ At(i, "resolved")' = resolves \cup {last}
      BY <1>16 DEF acks, resolves
    <3>. QED  BY <1>1, <1>13, <3>3, <3>4, <3>5, <3>6 DEF TimelineOK
  <2>2. AlertOK(i)'
    <3>1. CASE user # None
      BY <1>10, <1>16, <3>1 DEF AlertOK
    <3>2. CASE user = None
      BY <1>7, <1>11, <3>2 DEF AlertOK, Closing
    <3>. QED  BY <3>1, <3>2
  <2>3. AccountOK(i)'
    BY <1>1, <1>10, <1>12, <1>13, AccountStays DEF SameEscalation
  <2>4. RowOK(r)
    BY <1>1 DEF RowOK, SameEscalation
  <2>. QED  BY <1>13, <2>1, <2>2, <2>3, <2>4 DEF IncidentOK, Exists
<1>19. \A w \in Workers : i \notin Selected(w)
  BY <1>1, NotSelected
<1>. QED  BY <1>1, <1>6, <1>11, <1>12, <1>13, <1>14, <1>15, <1>18, <1>19, WritingStep

-----------------------------------------------------------------------------
(***************************************************************************)
(* The passes of the worker.                                               *)
(***************************************************************************)
LEMMA PassStep ==
    ASSUME Inv, NEW w \in Workers, UNCHANGED <<alertOpen, session>>,
           \A i \in Incidents : i \notin Selected(w) => rows'[i] = rows[i] /\ trail'[i] = trail[i],
           \A i \in Selected(w) :
              \/ rows'[i] = rows[i] /\ trail'[i] = trail[i]
              \/ /\ rows'[i] # None
                 /\ rows'[i].status = rows[i].status /\ rows'[i].ackBy = rows[i].ackBy
                 /\ rows[i].timer = "none" => rows'[i].timer = "none"
                 /\ IncidentOK(i)',
           \A i \in Incidents : lock[i] \notin {None, w} => lock'[i] = lock[i],
           \A x \in Workers \ {w} : batch'[x] = batch[x] /\ pass'[x] = pass[x],
           BatchOK(w)', TypeOK'
    PROVE  Inv'
<1>1. ASSUME NEW i \in Incidents PROVE IncidentOK(i)'
  <2>1. CASE rows'[i] = rows[i] /\ trail'[i] = trail[i]
    BY <2>1, IncidentKeeps DEF Closing
  <2>2. CASE ~(rows'[i] = rows[i] /\ trail'[i] = trail[i])
    BY <2>2
  <2>. QED  BY <2>1, <2>2
<1>2. ASSUME NEW s \in Sessions PROVE SessionOK(s)'
  <2>1. CASE session[s].pc = "idle"
    BY <2>1 DEF SessionOK
  <2>2. CASE session[s].pc # "idle"
    <3>1. PICK i \in Incidents : i = session[s].on
      BY <2>2 DEF Inv, SessionOK
    <3>2. lock[i] = s => lock'[i] = s
      BY IncidentsAssumption
    <3>3. Exists(i) => /\ rows'[i] # None
                       /\ rows[i].timer = "none" => rows'[i].timer = "none"
                       /\ rows'[i].status = rows[i].status /\ rows'[i].ackBy = rows[i].ackBy
      BY DEF Exists
    <3>. QED  BY <3>1, <3>2, <3>3, SessionKeeps
  <2>. QED  BY <2>1, <2>2
<1>3. ASSUME NEW x \in Workers PROVE BatchOK(x)'
  <2>1. CASE x = w
    BY <2>1
  <2>2. CASE x # w
    <3>1. ASSUME NEW i \in Selected(x) PROVE rows'[i] = rows[i] /\ lock'[i] = lock[i]
      <4>1. i \in Incidents /\ lock[i] = x /\ lock[i] \notin {None, w}
        BY <2>2, IncidentsAssumption DEF Inv, TypeOK, BatchOK
      <4>2. i \notin Selected(w)
        BY <2>2, <4>1 DEF Inv, BatchOK
      <4>. QED  BY <4>1, <4>2
    <3>. QED  BY <2>2, <3>1, BatchKeeps
  <2>. QED  BY <2>1, <2>2
<1>. QED  BY <1>1, <1>2, <1>3 DEF Inv

LEMMA SelectInv ==
    ASSUME Inv, NEW w \in Workers, NEW kind \in {"snapshot", "legacy"},
           NEW selected \in SUBSET Incidents, Select(w, kind, selected),
           \A i \in selected :
              /\ Free(i) /\ Exists(i) /\ rows[i].status = "triggered"
              /\ kind = "snapshot" => rows[i].timer = "due"
              /\ kind = "legacy" => rows[i].snapshot = "sql_null" /\ rows[i].level = 1
    PROVE  Inv'
<1>1. /\ batch' = [batch EXCEPT ![w] = [i \in selected |-> rows[i]]]
      /\ lock' = [i \in Incidents |-> IF i \in selected THEN w ELSE lock[i]]
      /\ pass' = [pass EXCEPT ![w] = kind]
      /\ UNCHANGED <<db, aged, session, faults>>
  BY DEF Select, HeldBy
<1>2. /\ batch'[w] = [i \in selected |-> rows[i]] /\ pass'[w] = kind
      /\ \A x \in Workers \ {w} : batch'[x] = batch[x] /\ pass'[x] = pass[x]
  BY <1>1 DEF Inv, TypeOK
<1>3. Selected(w)' = selected /\ \A x \in Workers \ {w} : Selected(x)' = Selected(x)
  BY <1>2 DEF Selected
<1>4. BatchOK(w)'
  BY <1>1, <1>2, <1>3 DEF BatchOK, Exists, db
<1>5. TypeOK'
  <2>1. DOMAIN batch' = Workers /\ pass' \in [Workers -> {"idle", "snapshot", "legacy"}]
        /\ lock' \in [Incidents -> Sessions \cup Workers \cup {None}]
    BY <1>1 DEF Inv, TypeOK
  <2>2. ASSUME NEW x \in Workers
        PROVE  Selected(x)' \subseteq Incidents /\ \A i \in Selected(x)' : batch'[x][i] \in Row
    <3>1. CASE x = w
      BY <1>2, <1>3, <3>1 DEF Inv, TypeOK, Exists
    <3>2. CASE x # w
      BY <1>2, <1>3, <3>2 DEF Inv, TypeOK
    <3>. QED  BY <3>1, <3>2
  <2>. QED  BY <1>1, <2>1, <2>2 DEF Inv, TypeOK, db
<1>6. \A i \in Incidents : lock[i] \notin {None, w} => lock'[i] = lock[i]
  BY <1>1 DEF Free
<1>. QED  BY <1>1, <1>2, <1>4, <1>5, <1>6, PassStep DEF db

LEMMA SelectDueInv ==
    ASSUME Inv, NEW w \in Workers, SelectDue(w)
    PROVE  Inv'
<1> DEFINE selected == {i \in Incidents : Due(i) /\ Free(i)}
<1>1. /\ selected \in SUBSET Incidents /\ Select(w, "snapshot", selected)
      /\ \A i \in selected :
            Free(i) /\ Exists(i) /\ rows[i].status = "triggered" /\ rows[i].timer = "due"
  BY DEF SelectDue, Due
<1>. HIDE DEF selected
<1>. QED  BY <1>1, SelectInv

LEMMA SelectLegacyInv ==
    ASSUME Inv, NEW w \in Workers, SelectLegacy(w)
    PROVE  Inv'
<1> DEFINE selected == {i \in Incidents : LegacyDue(i) /\ Free(i)}
<1>1. /\ selected \in SUBSET Incidents /\ Select(w, "legacy", selected)
      /\ \A i \in selected :
            /\ Free(i) /\ Exists(i) /\ rows[i].status = "triggered"
            /\ rows[i].snapshot = "sql_null" /\ rows[i].level = 1
  BY DEF SelectLegacy, LegacyDue
<1>. HIDE DEF selected
<1>. QED  BY <1>1, SelectInv

\* The end of a pass leaves the worker with nothing.
LEMMA EndPassLeaves ==
    ASSUME Inv, NEW w \in Workers, EndPass(w)
    PROVE  /\ lock' \in [Incidents -> Sessions \cup Workers \cup {None}]
           /\ \A i \in Incidents : lock[i] \notin {None, w} => lock'[i] = lock[i]
           /\ \A x \in Workers \ {w} : batch'[x] = batch[x] /\ pass'[x] = pass[x]
           /\ DOMAIN batch' = Workers /\ pass' \in [Workers -> {"idle", "snapshot", "legacy"}]
           /\ \A x \in Workers : /\ Selected(x)' \subseteq Incidents
                                 /\ \A i \in Selected(x)' : batch'[x][i] \in Row
           /\ BatchOK(w)'
<1>1. /\ batch'[w] = <<>> /\ DOMAIN batch' = Workers
      /\ \A x \in Workers \ {w} : batch'[x] = batch[x]
  BY DEF EndPass, Inv, TypeOK
<1>2. Selected(w)' = {} /\ \A x \in Workers \ {w} : Selected(x)' = Selected(x)
  BY <1>1 DEF Selected
<1>3. \A x \in Workers : /\ Selected(x)' \subseteq Incidents
                         /\ \A i \in Selected(x)' : batch'[x][i] \in Row
  BY <1>1, <1>2 DEF Inv, TypeOK
<1>4. BatchOK(w)'
  BY <1>2 DEF BatchOK
<1>5. /\ lock' \in [Incidents -> Sessions \cup Workers \cup {None}]
      /\ \A i \in Incidents : lock[i] \notin {None, w} => lock'[i] = lock[i]
      /\ pass' \in [Workers -> {"idle", "snapshot", "legacy"}]
      /\ \A x \in Workers \ {w} : pass'[x] = pass[x]
  BY DEF EndPass, Inv, TypeOK
<1>. QED  BY <1>1, <1>3, <1>4, <1>5

LEMMA CutPassInv ==
    ASSUME Inv, NEW w \in Workers, CutPass(w)
    PROVE  Inv'
<1>1. UNCHANGED <<db, aged, session>> /\ EndPass(w) /\ faults' = faults + 1 /\ faults < MaxFaults
  BY DEF CutPass
<1>2. faults' \in 0 .. MaxFaults
  BY <1>1, IncidentsAssumption DEF Inv, TypeOK
<1>3. /\ lock' \in [Incidents -> Sessions \cup Workers \cup {None}]
      /\ DOMAIN batch' = Workers /\ pass' \in [Workers -> {"idle", "snapshot", "legacy"}]
      /\ \A x \in Workers : /\ Selected(x)' \subseteq Incidents
                            /\ \A i \in Selected(x)' : batch'[x][i] \in Row
  BY <1>1, EndPassLeaves
<1>4. TypeOK'
  BY <1>1, <1>2, <1>3 DEF Inv, TypeOK, db
<1>. QED  BY <1>1, <1>4, EndPassLeaves, PassStep DEF db

\* A row a worker has selected is one whose escalation goes on.
LEMMA SelectedRow ==
    ASSUME Inv, NEW w \in Workers, NEW i \in Selected(w)
    PROVE  /\ i \in Incidents /\ Exists(i) /\ rows[i] \in Row /\ IncidentOK(i) /\ RowOK(rows[i])
           /\ batch[w][i] = rows[i] /\ rows[i].status = "triggered"
           /\ pass[w] = "snapshot" => rows[i].snapshot = "policy" /\ rows[i].loops < NumLoops
           /\ pass[w] = "legacy" => rows[i].snapshot = "sql_null" /\ rows[i].level = 1
<1>1. /\ i \in Incidents /\ Exists(i) /\ rows[i] \in Row /\ IncidentOK(i) /\ RowOK(rows[i])
      /\ batch[w][i] = rows[i] /\ rows[i].status = "triggered"
      /\ pass[w] = "snapshot" => rows[i].timer = "due"
      /\ pass[w] = "legacy" => rows[i].snapshot = "sql_null" /\ rows[i].level = 1
  BY DEF Inv, TypeOK, BatchOK, IncidentOK, Exists
<1>2. rows[i].timer = "due" => rows[i].snapshot = "policy" /\ rows[i].loops < NumLoops
  BY <1>1, IncidentsAssumption DEF RowOK, Row
<1>. QED  BY <1>1, <1>2

LEMMA RowStopped ==
    ASSUME NEW row \in Row, NEW loops \in Nat
    PROVE  LET r == [row EXCEPT !.timer = "none", !.loops = loops] IN
           /\ r \in Row
           /\ r.timer = "none" /\ r.loops = loops /\ r.rule = row.rule /\ r.level = row.level
           /\ r.status = row.status /\ r.ackBy = row.ackBy /\ r.resolvedBy = row.resolvedBy
           /\ r.snapshot = row.snapshot
BY DEF Row, Timers

\* The next step of a policy: from rule to rule, from the last one to the first
\* of the next loop, and after the last loop to the end.
LEMMA NextStep ==
    ASSUME NEW row \in Row, RowOK(row), row.status = "triggered", row.snapshot = "policy",
           row.loops < NumLoops
    PROVE  LET r == Escalated(row, row) IN
           /\ r \in Row /\ RowOK(r)
           /\ r.status = row.status /\ r.ackBy = row.ackBy /\ r.resolvedBy = row.resolvedBy
           /\ r.snapshot = row.snapshot
           /\ Exhausted(row) => /\ row.loops = NumLoops - 1 /\ row.rule = NumRules - 1
                                /\ r.loops = NumLoops /\ r.rule = row.rule /\ r.timer = "none"
           /\ ~Exhausted(row) => /\ r.loops < NumLoops /\ r.timer = "pending"
                                 /\ r.rule = NextRule(row) /\ r.level = r.rule + 1
                                 /\ r.loops * NumRules + r.rule = row.loops * NumRules + row.rule + 1
<1> DEFINE r == Escalated(row, row)
<1>0. /\ NumRules \in Nat \ {0} /\ NumLoops \in Nat \ {0}
      /\ row.loops \in Nat /\ row.rule \in Nat /\ row.level \in Nat /\ row.rule < NumRules
  BY IncidentsAssumption DEF Row, RowOK
<1>1. CASE Exhausted(row)
  <2>1. row.rule = NumRules - 1 /\ row.loops = NumLoops - 1
    BY <1>0, <1>1 DEF Exhausted, LastRule
  <2> DEFINE loops == row.loops + 1
  <2>2. r = [row EXCEPT !.timer = "none", !.loops = loops]
    BY <1>1 DEF Escalated, TimerAfter, LoopsAfter, Exhausted
  <2>. HIDE DEF r
  <2>3. /\ r \in Row /\ r.timer = "none" /\ r.loops = row.loops + 1 /\ r.rule = row.rule
        /\ r.status = row.status /\ r.ackBy = row.ackBy /\ r.resolvedBy = row.resolvedBy
        /\ r.snapshot = row.snapshot /\ r.level = row.level
    <3>1. loops \in Nat /\ loops = row.loops + 1
      BY <1>0
    <3>. HIDE DEF loops
    <3>. QED  BY <2>2, <3>1, RowStopped
  <2>4. RowOK(r)
    BY <1>0, <2>1, <2>3 DEF RowOK
  <2>. QED  BY <1>0, <1>1, <2>1, <2>3, <2>4 DEF r
<1>2. CASE ~Exhausted(row)
  <2> DEFINE rule == NextRule(row)
             loops == LoopsAfter(row)
  <2>1. r = [row EXCEPT !.timer = "pending", !.loops = loops, !.rule = rule, !.level = rule + 1]
    BY <1>2 DEF Escalated, TimerAfter
  <2>2. /\ rule \in Nat /\ loops \in Nat /\ rule < NumRules /\ loops < NumLoops
        /\ loops * NumRules + rule = row.loops * NumRules + row.rule + 1
    <3>1. CASE LastRule(row)
      <4>1. /\ rule = 0 /\ loops = row.loops + 1 /\ row.rule = NumRules - 1
            /\ row.loops + 1 < NumLoops
        BY <1>0, <1>2, <3>1 DEF NextRule, LoopsAfter, LastRule, Exhausted
      <4>2. (row.loops + 1) * NumRules = row.loops * NumRules + NumRules
        BY <1>0
      <4>. HIDE DEF rule, loops
      <4>3. rule \in Nat /\ loops \in Nat /\ rule < NumRules /\ loops < NumLoops
        BY <1>0, <4>1
      <4>4. loops * NumRules = row.loops * NumRules + NumRules
        BY <4>1, <4>2
      <4>5. row.loops * NumRules \in Nat
        BY <1>0
      <4>. QED  BY <1>0, <4>1, <4>3, <4>4, <4>5
    <3>2. CASE ~LastRule(row)
      <4>1. rule = row.rule + 1 /\ loops = row.loops /\ row.rule + 1 < NumRules
        BY <1>0, <3>2 DEF NextRule, LoopsAfter, LastRule
      <4>. QED  BY <1>0, <4>1
    <3>. QED  BY <3>1, <3>2
  <2>. HIDE DEF r, rule, loops
  <2>3. /\ r \in Row /\ r.timer = "pending" /\ r.loops = loops /\ r.rule = rule
        /\ r.status = row.status /\ r.ackBy = row.ackBy /\ r.resolvedBy = row.resolvedBy
        /\ r.snapshot = row.snapshot /\ r.level = rule + 1
    <3> DEFINE level == rule + 1
               timer == "pending"
    <3>1. level \in Nat /\ level = rule + 1 /\ timer \in Timers /\ timer = "pending"
      BY <2>2 DEF Timers
    <3>2. r = [row EXCEPT !.timer = timer, !.loops = loops, !.rule = rule, !.level = level]
      BY <2>1
    <3>. HIDE DEF level, timer
    <3>3. /\ r \in Row
          /\ r.timer = timer /\ r.loops = loops /\ r.rule = rule /\ r.level = level
          /\ r.status = row.status /\ r.ackBy = row.ackBy /\ r.resolvedBy = row.resolvedBy
          /\ r.snapshot = row.snapshot
      <4>1. rule \in Nat /\ loops \in Nat
        BY <2>2
      <4>. QED  BY <3>1, <3>2, <4>1 DEF Row
    <3>. QED  BY <3>1, <3>3
  <2>4. RowOK(r)
    BY <1>0, <2>2, <2>3 DEF RowOK
  <2>. QED  BY <1>2, <2>2, <2>3, <2>4 DEF r, rule
<1>. QED  BY <1>1, <1>2

LEMMA EscalateInv ==
    ASSUME Inv, NEW w \in Workers, Escalate(w)
    PROVE  Inv'
<1>1. /\ pass[w] = "snapshot" /\ EndPass(w) /\ UNCHANGED <<alertOpen, aged, session, faults>>
      /\ rows' = [i \in Incidents |->
                    IF i \in Selected(w) THEN Escalated(rows[i], batch[w][i]) ELSE rows[i]]
      /\ trail' = [i \in Incidents |->
                     IF i \in Selected(w) THEN Append(trail[i], EscalationEntry(batch[w][i]))
                     ELSE trail[i]]
      /\ outbox' = [i \in Incidents |->
                      IF i \in Selected(w)
                      THEN [outbox[i] EXCEPT !["page"] = @ + Pages(batch[w][i])]
                      ELSE outbox[i]]
  BY DEF Escalate
<1>2. ASSUME NEW i \in Selected(w)
      PROVE  /\ rows'[i] \in Row /\ rows'[i] # None
             /\ rows'[i].status = rows[i].status /\ rows'[i].ackBy = rows[i].ackBy
             /\ rows[i].timer # "none"
             /\ trail'[i] \in Seq(Entries)
             /\ IncidentOK(i)'
  <2>1. /\ i \in Incidents /\ Exists(i) /\ rows[i] \in Row /\ IncidentOK(i) /\ RowOK(rows[i])
        /\ batch[w][i] = rows[i] /\ rows[i].status = "triggered"
        /\ rows[i].snapshot = "policy" /\ rows[i].loops < NumLoops
        /\ rows[i].timer = "due"
    BY <1>1, SelectedRow DEF Inv, BatchOK
  <2> DEFINE row == rows[i]
             r == Escalated(row, row)
             e == EscalationEntry(row)
  <2>2. rows'[i] = r /\ trail'[i] = Append(trail[i], e)
    BY <1>1, <2>1
  <2>3. /\ r \in Row /\ RowOK(r)
        /\ r.status = row.status /\ r.ackBy = row.ackBy /\ r.resolvedBy = row.resolvedBy
        /\ r.snapshot = row.snapshot
        /\ Exhausted(row) => /\ row.loops = NumLoops - 1 /\ row.rule = NumRules - 1
                             /\ r.loops = NumLoops /\ r.rule = row.rule /\ r.timer = "none"
        /\ ~Exhausted(row) => /\ r.loops < NumLoops /\ r.rule = NextRule(row)
                              /\ r.loops * NumRules + r.rule = row.loops * NumRules + row.rule + 1
    BY <2>1, NextStep
  <2>4. /\ e \in Entries
        /\ e.action = IF Exhausted(row) THEN "escalation_exhausted" ELSE "escalated"
    BY DEF EscalationEntry, Entry, Entries, Actions
  <2>5. r # None
    BY <2>3, IncidentsAssumption
  <2>. HIDE DEF r, e
  <2>6. /\ trail'[i] \in Seq(Entries)
        /\ Count(i, "escalated") \in Nat /\ Count(i, "escalation_exhausted") \in Nat
        /\ Count(i, "escalated")' = IF Exhausted(row) THEN Count(i, "escalated")
                                    ELSE Count(i, "escalated") + 1
        /\ Count(i, "escalation_exhausted")' = IF Exhausted(row) THEN Count(i, "escalation_exhausted") + 1
                                               ELSE Count(i, "escalation_exhausted")
    <3>0. TypeOK
      BY DEF Inv
    <3>1. /\ trail'[i] \in Seq(Entries) /\ Count(i, "escalated") \in Nat
          /\ Count(i, "escalated")' = IF e.action = "escalated" THEN Count(i, "escalated") + 1
                                      ELSE Count(i, "escalated")
      BY <2>1, <2>2, <2>4, <3>0, Appended
    <3>2. /\ Count(i, "escalation_exhausted") \in Nat
          /\ Count(i, "escalation_exhausted")' = IF e.action = "escalation_exhausted"
                                                 THEN Count(i, "escalation_exhausted") + 1
                                                 ELSE Count(i, "escalation_exhausted")
      BY <2>1, <2>2, <2>4, <3>0, Appended
    <3>. QED  BY <2>4, <3>1, <3>2
  <2>7. /\ Count(i, "escalation_exhausted") = 0
        /\ Count(i, "escalated") = row.loops * NumRules + row.rule
    BY <2>1, IncidentsAssumption DEF IncidentOK, AccountOK, Row
  <2>8. AccountOK(i)'
    <3>0. /\ NumRules \in Nat \ {0} /\ NumLoops \in Nat \ {0}
          /\ row.loops \in Nat /\ row.rule \in Nat /\ r.loops \in Nat /\ r.rule \in Nat
      BY <2>1, <2>3, IncidentsAssumption DEF Row
    <3>1. CASE Exhausted(row)
      <4>1. /\ Count(i, "escalation_exhausted")' = 1 /\ r.loops = NumLoops
            /\ Count(i, "escalated")' = (NumLoops - 1) * NumRules + r.rule
        BY <2>3, <2>6, <2>7, <3>1
      <4>. QED  BY <2>2, <4>1 DEF AccountOK
    <3>2. CASE ~Exhausted(row)
      <4>1. /\ Count(i, "escalation_exhausted")' = 0 /\ r.loops # NumLoops
            /\ Count(i, "escalated")' = (r.loops - 0) * NumRules + r.rule
        BY <2>3, <2>6, <2>7, <3>0, <3>2
      <4>. QED  BY <2>2, <4>1 DEF AccountOK
    <3>. QED  BY <3>1, <3>2
  <2>9. TimelineOK(i)'
    BY <2>1, <2>2, <2>3, <2>4, TimelineGrows
  <2>10. AlertOK(i)'
    BY <2>1, <2>2, <2>3 DEF AlertOK
  <2>. QED  BY <2>1, <2>2, <2>3, <2>5, <2>6, <2>8, <2>9, <2>10 DEF IncidentOK, Exists
<1>3. /\ lock' \in [Incidents -> Sessions \cup Workers \cup {None}]
      /\ DOMAIN batch' = Workers /\ pass' \in [Workers -> {"idle", "snapshot", "legacy"}]
      /\ \A x \in Workers : /\ Selected(x)' \subseteq Incidents
                            /\ \A i \in Selected(x)' : batch'[x][i] \in Row
      /\ \A i \in Incidents : lock[i] \notin {None, w} => lock'[i] = lock[i]
      /\ \A x \in Workers \ {w} : batch'[x] = batch[x] /\ pass'[x] = pass[x]
      /\ BatchOK(w)'
  BY <1>1, EndPassLeaves
<1>4. TypeOK'
  <2>1. rows' \in [Incidents -> Row \cup {None}]
    BY <1>1, <1>2 DEF Inv, TypeOK
  <2>2. trail' \in [Incidents -> Seq(Entries)]
    BY <1>1, <1>2 DEF Inv, TypeOK, Entries
  <2>3. outbox' \in [Incidents -> [Mails -> Nat]]
    BY <1>1 DEF Inv, TypeOK, Mails, Pages
  <2>. QED  BY <1>1, <1>3, <2>1, <2>2, <2>3 DEF Inv, TypeOK, Entries
<1>5. \A i \in Incidents : i \notin Selected(w) => rows'[i] = rows[i] /\ trail'[i] = trail[i]
  BY <1>1
<1>. QED  BY <1>1, <1>2, <1>3, <1>4, <1>5, PassStep

LEMMA EscalateLegacyInv ==
    ASSUME Inv, NEW w \in Workers, EscalateLegacy(w)
    PROVE  Inv'
<1> DEFINE e == Entry("escalated", None)
<1>1. /\ pass[w] = "legacy" /\ EndPass(w) /\ UNCHANGED <<alertOpen, aged, session, faults>>
      /\ rows' = [i \in Incidents |->
                    IF i \in Selected(w) THEN [rows[i] EXCEPT !.level = 2] ELSE rows[i]]
      /\ trail' = [i \in Incidents |->
                     IF i \in Selected(w) THEN Append(trail[i], e) ELSE trail[i]]
      /\ outbox' = [i \in Incidents |->
                      IF i \in Selected(w) THEN [outbox[i] EXCEPT !["page"] = @ + 1]
                      ELSE outbox[i]]
  BY DEF EscalateLegacy
<1>2. e \in Entries /\ e.action = "escalated"
  BY DEF Entry, Entries, Actions
<1>. HIDE DEF e
<1>3. ASSUME NEW i \in Selected(w)
      PROVE  /\ rows'[i] \in Row /\ rows'[i] # None
             /\ rows'[i].status = rows[i].status /\ rows'[i].ackBy = rows[i].ackBy
             /\ rows[i].timer = "none" => rows'[i].timer = "none"
             /\ trail'[i] \in Seq(Entries)
             /\ IncidentOK(i)'
  <2>1. /\ i \in Incidents /\ Exists(i) /\ rows[i] \in Row /\ RowOK(rows[i])
        /\ rows[i].status = "triggered" /\ rows[i].snapshot = "sql_null"
    BY <1>1, SelectedRow
  <2> DEFINE row == rows[i]
             r == [row EXCEPT !.level = 2]
  <2>2. rows'[i] = r /\ trail'[i] = Append(trail[i], e)
    BY <1>1, <2>1
  <2>3. /\ r \in Row /\ r # None /\ r.level = 2 /\ r.status = row.status /\ r.timer = row.timer
        /\ r.ackBy = row.ackBy /\ r.resolvedBy = row.resolvedBy /\ r.snapshot = row.snapshot
        /\ r.rule = row.rule /\ r.loops = row.loops
    BY <2>1, IncidentsAssumption DEF Row
  <2>. HIDE DEF r
  <2>4. RowOK(r)
    BY <2>1, <2>3 DEF RowOK
  <2>5. trail'[i] \in Seq(Entries)
    <3>1. trail[i] \in Seq(Entries)
      BY <2>1 DEF Inv, TypeOK, Entries
    <3>. QED  BY <1>2, <2>2, <3>1
  <2>6. TimelineOK(i)'
    BY <1>2, <2>1, <2>2, <2>3, TimelineGrows
  <2>7. AlertOK(i)' /\ AccountOK(i)'
    BY <2>1, <2>2, <2>3 DEF AlertOK, AccountOK
  <2>. QED  BY <2>2, <2>3, <2>4, <2>5, <2>6, <2>7 DEF IncidentOK, Exists
<1>4. /\ lock' \in [Incidents -> Sessions \cup Workers \cup {None}]
      /\ DOMAIN batch' = Workers /\ pass' \in [Workers -> {"idle", "snapshot", "legacy"}]
      /\ \A x \in Workers : /\ Selected(x)' \subseteq Incidents
                            /\ \A i \in Selected(x)' : batch'[x][i] \in Row
      /\ \A i \in Incidents : lock[i] \notin {None, w} => lock'[i] = lock[i]
      /\ \A x \in Workers \ {w} : batch'[x] = batch[x] /\ pass'[x] = pass[x]
      /\ BatchOK(w)'
  BY <1>1, EndPassLeaves
<1>5. TypeOK'
  <2>1. rows' \in [Incidents -> Row \cup {None}]
    <3>1. \A i \in Incidents \ Selected(w) : rows'[i] = rows[i] /\ rows[i] \in Row \cup {None}
      BY <1>1 DEF Inv, TypeOK
    <3>2. rows' = [i \in Incidents |-> rows'[i]]
      BY <1>1
    <3>. QED  BY <1>3, <3>1, <3>2
  <2>2. trail' \in [Incidents -> Seq(Entries)]
    BY <1>1, <1>3 DEF Inv, TypeOK, Entries
  <2>3. outbox' \in [Incidents -> [Mails -> Nat]]
    BY <1>1 DEF Inv, TypeOK, Mails
  <2>. QED  BY <1>1, <1>4, <2>1, <2>2, <2>3 DEF Inv, TypeOK, Entries
<1>6. \A i \in Incidents : i \notin Selected(w) => rows'[i] = rows[i] /\ trail'[i] = trail[i]
  BY <1>1
<1>. QED  BY <1>1, <1>3, <1>4, <1>5, <1>6, PassStep

-----------------------------------------------------------------------------
LEMMA NextInv == Inv /\ [Next]_vars => Inv'
<1>. SUFFICES ASSUME Inv, [Next]_vars PROVE Inv'
  OBVIOUS
<1>1. ASSUME NEW s \in Sessions, SessionStep(s) \/ CutSession(s) PROVE Inv'
  <2>1. CASE AddNote(s)
    <3>1. Entry("note_added", s) \in Entries /\ Entry("note_added", s).action = "note_added"
      BY DEF Entry, Entries, Actions, Users
    <3>. QED  BY <2>1, <3>1, RecordInv DEF AddNote
  <2>2. CASE RecordAgentUpdate(s)
    <3>1. Entry("agent_update", None) \in Entries /\ Entry("agent_update", None).action = "agent_update"
      BY DEF Entry, Entries, Actions
    <3>. QED  BY <2>2, <3>1, RecordInv DEF RecordAgentUpdate
  <2>. QED
    BY <1>1, <2>1, <2>2, FindAlertInv, LoadForGrafanaInv, LoadForEditInv, LockRowInv, CommitAckInv,
       CommitResolveInv, CloseAlertInv, CommitEditInv, CutSessionInv DEF SessionStep
<1>2. ASSUME NEW w \in Workers, WorkerStep(w) \/ CutPass(w) PROVE Inv'
  BY <1>2, SelectDueInv, SelectLegacyInv, EscalateInv, EscalateLegacyInv, CutPassInv DEF WorkerStep
<1>3. CASE UNCHANGED vars
  <2>1. TypeOK'
    BY <1>3 DEF vars, Inv, TypeOK, Selected
  <2>2. ASSUME NEW i \in Incidents PROVE IncidentOK(i)'
    BY <1>3, IncidentKeeps DEF vars, Closing
  <2>3. \A s \in Sessions : SessionOK(s)'
    BY <1>3 DEF vars, Inv, SessionOK, CopyOK, Exists
  <2>4. \A w \in Workers : BatchOK(w)'
    BY <1>3 DEF vars, Inv, BatchOK, Exists, Selected
  <2>. QED  BY <2>1, <2>2, <2>3, <2>4 DEF Inv
<1>. QED  BY <1>1, <1>2, <1>3, TriggerInv, TimerElapsesInv, AgeInv, RequestInv DEF Next

LEMMA Invariance == Spec => []Inv
BY InitInv, NextInv, PTL DEF Spec

\* Every variable keeps its type.
THEOREM TypeCorrect == Spec => []TypeOK
<1>1. Inv => TypeOK
  BY DEF Inv
<1>. QED  BY <1>1, Invariance, PTL

\* Whatever the requests overwrite with their stale copies, the status and the
\* actors of a row are those its timeline tells.
THEOREM TimelinesExplain == Spec => []TimelineExplainsRow
<1>1. Inv => TimelineExplainsRow
  BY DEF Inv, IncidentOK, TimelineOK, TimelineExplainsRow, At
<1>. QED  BY <1>1, Invariance, PTL

\* An alert that stays open after its incident is resolved does so because an
\* operator resolved it, or because a Grafana call is on its way or broke off.
THEOREM OpenAlertsHaveAReason == Spec => []OpenAlertExplained
<1>1. Inv => OpenAlertExplained
  BY DEF Inv, IncidentOK, AlertOK, Closing, OpenAlertExplained, At
<1>. QED  BY <1>1, Invariance, PTL

\* The escalation columns are what the timeline tells: no rule of any loop is
\* skipped or taken twice, however many workers there are.
THEOREM EscalationsAdd == Spec => []EscalationAccount
<1>1. ASSUME Inv, NEW i \in Incidents, Exists(i), rows[i].snapshot = "policy"
      PROVE  LET row == rows[i]
                 taken == Count(i, "escalated")
                 ended == Count(i, "escalation_exhausted") IN
             /\ ended <= 1
             /\ taken = (row.loops - ended) * NumRules + row.rule
             /\ taken < NumLoops * NumRules
             /\ ended = 1 => taken = NumLoops * NumRules - 1 /\ row.timer = "none"
  <2> DEFINE row == rows[i]
             loops == row.loops
             rule == row.rule
  <2>1. /\ loops \in Nat /\ rule \in Nat /\ NumRules \in Nat \ {0} /\ NumLoops \in Nat \ {0}
        /\ rule < NumRules /\ loops <= NumLoops
        /\ loops = NumLoops => row.timer = "none" /\ rule = NumRules - 1
    <3>1. rows[i] \in Row /\ RowOK(rows[i])
      BY <1>1 DEF Inv, TypeOK, IncidentOK, Exists
    <3>. QED  BY <3>1, IncidentsAssumption DEF RowOK, Row
  <2>2. /\ Count(i, "escalation_exhausted") = IF loops = NumLoops THEN 1 ELSE 0
        /\ Count(i, "escalated") =
             (loops - IF loops = NumLoops THEN 1 ELSE 0) * NumRules + rule
    <3>1. AccountOK(i)
      BY <1>1 DEF Inv, IncidentOK
    <3>. QED  BY <1>1, <3>1 DEF AccountOK
  <2>. HIDE DEF loops, rule
  <2>3. CASE loops = NumLoops
    BY <2>1, <2>2, <2>3 DEF loops, rule
  <2>4. CASE loops < NumLoops
    <3>1. (loops + 1) * NumRules = loops * NumRules + NumRules
      BY <2>1
    <3>2. (loops + 1) * NumRules <= NumLoops * NumRules
      BY <2>1, <2>4
    <3>. QED  BY <2>1, <2>2, <2>4, <3>1, <3>2 DEF loops, rule
  <2>. QED  BY <2>1, <2>3, <2>4
<1>2. Inv => EscalationAccount
  BY <1>1 DEF EscalationAccount
<1>. QED  BY <1>2, Invariance, PTL

-----------------------------------------------------------------------------
(***************************************************************************)
(* Incidents implements IncidentContract.                                  *)
(***************************************************************************)
promised == [i \in Incidents |-> AsPromised(i)]

LEMMA StuttersUnless ==
    ASSUME NEW i \in Incidents, rows'[i] = rows[i], outbox'[i]["page"] = outbox[i]["page"]
    PROVE  AsPromised(i)' = AsPromised(i)
BY DEF AsPromised, Exists, PlanOf, StepsTaken

\* A step under which every incident does what its contract allows.
LEMMA Allowed ==
    ASSUME \A i \in Incidents :
             \/ AsPromised(i)' = AsPromised(i)
             \/ Contract!Trigger(i) \/ Contract!Escalate(i) \/ Contract!EscalateLegacy(i)
             \/ Contract!Acknowledge(i) \/ Contract!Resolve(i)
    PROVE  Contract!Next
<1>1. ASSUME NEW i \in Incidents, AsPromised(i)' = AsPromised(i)
      PROVE  promised'[i] = promised[i]
  BY <1>1 DEF promised
<1>. QED  BY <1>1 DEF Contract!Next, promised

-----------------------------------------------------------------------------
(***************************************************************************)
(* What a row promises.                                                    *)
(***************************************************************************)
PromiseOf(row, pages) ==
    [status |-> row.status, plan |-> PlanOf(row), armed |-> row.timer # "none",
     steps |-> StepsTaken(row), pages |-> pages,
     acknowledgedBy |-> row.ackBy, resolvedBy |-> row.resolvedBy]

LEMMA Promises ==
    ASSUME NEW row \in Row, RowOK(row), NEW pages \in Nat
    PROVE  LET p == PromiseOf(row, pages) IN
           /\ p \in Promise /\ p # None
           /\ p.status = row.status /\ p.plan = PlanOf(row) /\ (p.armed <=> row.timer # "none")
           /\ p.steps = StepsTaken(row) /\ p.pages = pages
           /\ p.acknowledgedBy = row.ackBy /\ p.resolvedBy = row.resolvedBy
<1>1. /\ row.level \in Nat /\ row.loops \in Nat /\ row.rule \in Nat
      /\ NumRules \in Nat /\ NumLoops \in Nat
      /\ row.status \in Statuses
      /\ row.ackBy \in Users \cup {None} /\ row.resolvedBy \in Users \cup {None}
  BY IncidentsAssumption DEF Row
<1>2. PlanOf(row) \in {"policy", "empty", "legacy"}
  BY DEF PlanOf
<1>3. row.snapshot # "policy" => row.level - 1 \in Nat
  BY <1>1 DEF RowOK
<1>4. NumRules * NumLoops \in Nat /\ row.loops * NumRules + row.rule \in Nat
  BY <1>1
<1>5. StepsTaken(row) \in Nat
  BY <1>3, <1>4 DEF StepsTaken
<1>6. PromiseOf(row, pages) \in Promise
  BY <1>1, <1>2, <1>5 DEF PromiseOf, Promise
<1>. QED  BY <1>6, PromiseAssumption DEF PromiseOf

\* Two promises are the same when their fields are.
LEMMA SamePromise ==
    ASSUME NEW p \in Promise, NEW q \in Promise,
           p.status = q.status, p.plan = q.plan, p.armed <=> q.armed, p.steps = q.steps,
           p.pages = q.pages, p.acknowledgedBy = q.acknowledgedBy, p.resolvedBy = q.resolvedBy
    PROVE  p = q
BY DEF Promise

\* The promise before and after a step.
LEMMA FromTo ==
    ASSUME Inv, Inv', NEW i \in Incidents, NEW row \in Row, NEW r \in Row,
           rows[i] = row, rows'[i] = r
    PROVE  \E p \in Promise, q \in Promise :
             /\ p = AsPromised(i) /\ q = AsPromised(i)' /\ p # None
             /\ p.status = row.status /\ p.plan = PlanOf(row) /\ (p.armed <=> row.timer # "none")
             /\ p.steps = StepsTaken(row) /\ p.pages = outbox[i]["page"]
             /\ p.acknowledgedBy = row.ackBy /\ p.resolvedBy = row.resolvedBy
             /\ q.status = r.status /\ q.plan = PlanOf(r) /\ (q.armed <=> r.timer # "none")
             /\ q.steps = StepsTaken(r) /\ q.pages = outbox'[i]["page"]
             /\ q.acknowledgedBy = r.ackBy /\ q.resolvedBy = r.resolvedBy
<1>1. row # None /\ r # None
  BY IncidentsAssumption
<1>2. PICK pages \in Nat : pages = outbox[i]["page"]
  BY DEF Inv, TypeOK, Mails
<1>3. PICK pagesThen \in Nat : pagesThen = outbox'[i]["page"]
  BY DEF Inv, TypeOK, Mails
<1>4. RowOK(row)
  BY <1>1 DEF Inv, IncidentOK, Exists
<1>5. RowOK(r)
  BY <1>1 DEF Inv, IncidentOK, Exists
<1>6. AsPromised(i) = PromiseOf(row, pages)
  BY <1>1, <1>2 DEF AsPromised, PromiseOf, Exists
<1>7. AsPromised(i)' = PromiseOf(r, pagesThen)
  <2>1. PlanOf(rows[i])' = PlanOf(r) /\ StepsTaken(rows[i])' = StepsTaken(r)
    BY DEF PlanOf, StepsTaken
  <2>. QED  BY <1>1, <1>3, <2>1 DEF AsPromised, PromiseOf, Exists
<1>8. PICK p \in Promise : p = PromiseOf(row, pages)
  BY <1>4, Promises
<1>9. PICK q \in Promise : q = PromiseOf(r, pagesThen)
  BY <1>5, Promises
<1>10. /\ p # None /\ p.status = row.status /\ p.plan = PlanOf(row)
       /\ (p.armed <=> row.timer # "none") /\ p.steps = StepsTaken(row) /\ p.pages = pages
       /\ p.acknowledgedBy = row.ackBy /\ p.resolvedBy = row.resolvedBy
  BY <1>4, <1>8, Promises
<1>11. /\ q.status = r.status /\ q.plan = PlanOf(r)
       /\ (q.armed <=> r.timer # "none") /\ q.steps = StepsTaken(r) /\ q.pages = pagesThen
       /\ q.acknowledgedBy = r.ackBy /\ q.resolvedBy = r.resolvedBy
  BY <1>5, <1>9, Promises
<1>. QED  BY <1>2, <1>3, <1>6, <1>7, <1>8, <1>9, <1>10, <1>11

\* A row that keeps what the contract speaks of.
LEMMA Stutters ==
    ASSUME Inv, Inv', NEW i \in Incidents, NEW row \in Row, NEW r \in Row,
           rows[i] = row, rows'[i] = r, SameEscalation(r, row),
           r.status = row.status, r.ackBy = row.ackBy, r.resolvedBy = row.resolvedBy,
           r.timer = "none" <=> row.timer = "none",
           outbox'[i]["page"] = outbox[i]["page"]
    PROVE  AsPromised(i)' = AsPromised(i)
<1>1. PlanOf(r) = PlanOf(row) /\ StepsTaken(r) = StepsTaken(row)
  BY DEF PlanOf, StepsTaken, SameEscalation
<1>. QED  BY <1>1, FromTo, SamePromise

LEMMA ContractInit == Init => Contract!Init
<1>. SUFFICES ASSUME Init PROVE Contract!Init
  OBVIOUS
<1>1. PICK status \in [Seeded -> Statuses] :
         rows = [i \in Incidents |-> IF i \in Seeded THEN SeedRow(status[i]) ELSE None]
  BY DEF Init
<1>2. PICK p \in Promise :
         /\ p = Contract!New("legacy", 0)
         /\ p.status = "triggered" /\ p.plan = "legacy" /\ ~p.armed /\ p.steps = 0
         /\ p.pages = 0 /\ p.acknowledgedBy = None /\ p.resolvedBy = None
  <2> DEFINE new == Contract!New("legacy", 0)
  <2>1. new = [status |-> "triggered", plan |-> "legacy", armed |-> FALSE, steps |-> 0,
               pages |-> 0, acknowledgedBy |-> None, resolvedBy |-> None]
    BY DEF Contract!New
  <2>. HIDE DEF new
  <2>2. new \in Promise
    BY <2>1 DEF Promise, Statuses
  <2>. QED  BY <2>1, <2>2 DEF new
<1>3. /\ p \in Contract!Seeds
      /\ \A u \in Users :
           /\ [p EXCEPT !.status = "acknowledged", !.acknowledgedBy = u] \in Contract!Seeds
           /\ [p EXCEPT !.status = "resolved", !.acknowledgedBy = u, !.resolvedBy = u]
                \in Contract!Seeds
  <2> DEFINE ack(u) == [p EXCEPT !.status = "acknowledged", !.acknowledgedBy = u]
             res(u) == [p EXCEPT !.status = "resolved", !.acknowledgedBy = u, !.resolvedBy = u]
  <2>1. Contract!Seeds = {p} \cup UNION {{ack(u), res(u)} : u \in Users}
    BY <1>2, Zenon DEF Contract!Seeds
  <2>. HIDE DEF ack, res
  <2>2. p \in Contract!Seeds /\ \A u \in Users : ack(u) \in Contract!Seeds /\ res(u) \in Contract!Seeds
    BY <2>1
  <2>. QED  BY <2>2 DEF ack, res
<1>4. ASSUME NEW i \in Incidents PROVE AsPromised(i) \in {None} \cup Contract!Seeds
  <2>1. CASE ~Exists(i)
    BY <2>1 DEF AsPromised
  <2>2. CASE Exists(i)
    <3>1. PICK st \in Statuses : rows[i] = SeedRow(st)
      BY <1>1, <2>2 DEF Exists
    <3>2. PICK r \in Row : r = SeedRow(st)
      BY SeedRowOK
    <3>3. /\ r.status = st /\ r.timer = "none" /\ r.snapshot = "sql_null" /\ r.level = 1
          /\ r.ackBy = IF st = "triggered" THEN None ELSE SeedUser
          /\ r.resolvedBy = IF st = "resolved" THEN SeedUser ELSE None
          /\ RowOK(r)
      BY <3>2, SeedRowOK
    <3>4. AsPromised(i) = PromiseOf(r, 0)
      <4>1. outbox[i]["page"] = 0
        BY DEF Init, NoMail, Mails
      <4>. QED  BY <2>2, <3>1, <3>2, <4>1 DEF AsPromised, PromiseOf
    <3>5. PlanOf(r) = "legacy" /\ StepsTaken(r) = 0
      BY <3>3 DEF PlanOf, StepsTaken
    <3>6. PICK q \in Promise :
             /\ q = PromiseOf(r, 0)
             /\ q.status = st /\ q.plan = "legacy" /\ ~q.armed /\ q.steps = 0
             /\ q.pages = 0 /\ q.acknowledgedBy = r.ackBy /\ q.resolvedBy = r.resolvedBy
      BY <3>3, <3>5, Promises
    <3>7. SeedUser \in Users
      BY DEF Users
    <3>8. CASE st = "triggered"
      <4>1. q = p
        BY <1>2, <3>3, <3>6, <3>8, SamePromise
      <4>. QED  BY <1>3, <3>4, <3>6, <4>1
    <3>9. CASE st = "acknowledged"
      <4>1. q.status = "acknowledged" /\ q.acknowledgedBy = SeedUser /\ q.resolvedBy = None
        BY <3>3, <3>6, <3>9
      <4>2. /\ q.plan = p.plan /\ (q.armed <=> p.armed) /\ q.steps = p.steps /\ q.pages = p.pages
            /\ p.resolvedBy = None
        BY <1>2, <3>6
      <4>3. q = [p EXCEPT !.status = "acknowledged", !.acknowledgedBy = SeedUser]
        BY <3>7, <4>1, <4>2 DEF Promise
      <4>4. q \in Contract!Seeds
        BY <1>3, <3>7, <4>3, Zenon
      <4>. QED  BY <3>4, <3>6, <4>4, Zenon
    <3>10. CASE st = "resolved"
      <4>1. q.status = "resolved" /\ q.acknowledgedBy = SeedUser /\ q.resolvedBy = SeedUser
        BY <3>3, <3>6, <3>10
      <4>2. /\ q.plan = p.plan /\ (q.armed <=> p.armed) /\ q.steps = p.steps /\ q.pages = p.pages
            /\ p.resolvedBy = None
        BY <1>2, <3>6
      <4>3. q = [p EXCEPT !.status = "resolved", !.acknowledgedBy = SeedUser,
                          !.resolvedBy = SeedUser]
        BY <3>7, <4>1, <4>2 DEF Promise
      <4>4. q \in Contract!Seeds
        BY <1>3, <3>7, <4>3, Zenon
      <4>. QED  BY <3>4, <3>6, <4>4, Zenon
    <3>. QED  BY <3>8, <3>9, <3>10 DEF Statuses
  <2>. QED  BY <2>1, <2>2
<1>. QED  BY <1>4 DEF Contract!Init

\* Where one row changes, and nobody is paged.
LEMMA OneRow ==
    ASSUME Inv, NEW i \in Incidents, NEW r \in Row, rows' = [rows EXCEPT ![i] = r],
           \A j \in Incidents : outbox'[j]["page"] = outbox[j]["page"],
           \/ AsPromised(i)' = AsPromised(i)
           \/ Contract!Acknowledge(i) \/ Contract!Resolve(i)
    PROVE  Contract!Next
<1>1. ASSUME NEW j \in Incidents, j # i PROVE AsPromised(j)' = AsPromised(j)
  <2>1. rows'[j] = rows[j]
    BY <1>1
  <2>. QED  BY <2>1, StuttersUnless
<1>. QED  BY <1>1, Allowed

LEMMA TriggerAllowed ==
    ASSUME Inv, NEW i \in Incidents, Trigger(i)
    PROVE  Contract!Next
<1>1. PICK snapshot \in Snapshots \ {"sql_null"} :
         /\ rows' = [rows EXCEPT ![i] = NewRow(snapshot)]
         /\ outbox' = [outbox EXCEPT ![i]["page"] = IF Assigned(snapshot) THEN 1 ELSE 0,
                                     ![i]["incident.triggered"] = 1]
  BY DEF Trigger
<1> DEFINE page == IF Assigned(snapshot) THEN 1 ELSE 0
           row == NewRow(snapshot)
           plan == PlanOf(row)
<1>2. page \in {0, 1} /\ AsPromised(i) = None
  BY DEF Trigger, AsPromised
<1>3. /\ rows'[i] = row /\ outbox'[i]["page"] = page
      /\ \A j \in Incidents \ {i} : rows'[j] = rows[j] /\ outbox'[j] = outbox[j]
  BY <1>1 DEF Inv, TypeOK, Mails
<1>4. /\ row \in Row /\ row.status = "triggered" /\ row.ackBy = None /\ row.resolvedBy = None
      /\ row.snapshot = snapshot /\ row.level = 1 /\ row.loops = 0 /\ row.rule = 0
      /\ row.timer = "none" <=> snapshot # "policy"
  BY NewRowOK
<1>. HIDE DEF page, row
<1>5. /\ plan \in {"policy", "empty", "legacy"} /\ (row.timer # "none" <=> plan = "policy")
      /\ StepsTaken(row) = 0
  BY <1>4, IncidentsAssumption DEF PlanOf, StepsTaken
<1>6. AsPromised(i)' = PromiseOf(row, page)
  <2>1. PlanOf(rows[i])' = PlanOf(row) /\ StepsTaken(rows[i])' = StepsTaken(row)
    BY <1>3 DEF PlanOf, StepsTaken
  <2>. QED  BY <1>3, <1>4, <2>1, IncidentsAssumption DEF AsPromised, PromiseOf, Exists
<1>7. PromiseOf(row, page) = Contract!New(plan, page)
  <2>1. (row.timer # "none") = (plan = "policy")
    BY <1>5
  <2>. HIDE DEF plan
  <2>2. PromiseOf(row, page) =
          [status |-> "triggered", plan |-> plan, armed |-> (plan = "policy"), steps |-> 0,
           pages |-> page, acknowledgedBy |-> None, resolvedBy |-> None]
    BY <1>4, <1>5, <2>1 DEF PromiseOf, plan
  <2>. QED  BY <2>2 DEF Contract!New
<1>8. Contract!Trigger(i)
  BY <1>2, <1>5, <1>6, <1>7 DEF Contract!Trigger, Contract!Plans
<1>9. ASSUME NEW j \in Incidents, j # i PROVE AsPromised(j)' = AsPromised(j)
  BY <1>3, <1>9, StuttersUnless
<1>. QED  BY <1>8, <1>9, Allowed

LEMMA TimerElapsesAllowed ==
    ASSUME Inv, Inv', NEW i \in Incidents, TimerElapses(i)
    PROVE  Contract!Next
<1>1. PICK row \in Row : row = rows[i]
  BY DEF TimerElapses, Inv, TypeOK, Exists
<1> DEFINE r == [row EXCEPT !.timer = "due"]
<1>2. rows' = [rows EXCEPT ![i] = r] /\ row.timer = "pending" /\ outbox' = outbox
  BY <1>1 DEF TimerElapses
<1>3. /\ r \in Row /\ r.timer = "due" /\ SameEscalation(r, row) /\ r.status = row.status
      /\ r.ackBy = row.ackBy /\ r.resolvedBy = row.resolvedBy
  BY DEF Row, Timers, SameEscalation
<1>. HIDE DEF r
<1>4. rows'[i] = r
  BY <1>2 DEF Inv, TypeOK
<1>5. AsPromised(i)' = AsPromised(i)
  BY <1>1, <1>2, <1>3, <1>4, Stutters
<1>. QED  BY <1>2, <1>3, <1>5, OneRow

LEMMA CommitEditAllowed ==
    ASSUME Inv, Inv', NEW s \in Sessions, CommitEdit(s)
    PROVE  Contract!Next
<1>1. PICK i \in Incidents, row \in Row, r \in Row :
         /\ i = session[s].on /\ row = rows[i] /\ Exists(i) /\ rows' = [rows EXCEPT ![i] = r]
         /\ SameEscalation(r, row) /\ r.status = row.status /\ r.timer = row.timer
         /\ r.ackBy = row.ackBy /\ r.resolvedBy = row.resolvedBy
  BY EditEffect
<1>2. rows'[i] = r /\ outbox' = outbox
  BY <1>1 DEF Inv, TypeOK, CommitEdit
<1>3. AsPromised(i)' = AsPromised(i)
  BY <1>1, <1>2, Stutters
<1>. QED  BY <1>1, <1>2, <1>3, OneRow

LEMMA CommitAckAllowed ==
    ASSUME Inv, Inv', NEW s \in Sessions, CommitAck(s)
    PROVE  Contract!Next
<1>1. PICK i \in Incidents, row \in Row, r \in Row :
         /\ i = session[s].on /\ row = rows[i] /\ Exists(i) /\ lock[i] = s
         /\ rows' = [rows EXCEPT ![i] = r]
         /\ RowOK(row) /\ row.status = "triggered"
         /\ SameEscalation(r, row)
         /\ r.status = "acknowledged" /\ r.timer = "none" /\ r.ackBy = s
         /\ r.resolvedBy = row.resolvedBy
  BY AckEffect
<1>2. /\ rows'[i] = r /\ s \in Users
      /\ \A j \in Incidents : outbox'[j]["page"] = outbox[j]["page"]
  BY <1>1 DEF Inv, TypeOK, CommitAck, Mails, Users
<1>3. PlanOf(r) = PlanOf(row) /\ StepsTaken(r) = StepsTaken(row)
  BY <1>1 DEF PlanOf, StepsTaken, SameEscalation
<1>4. PICK p \in Promise, q \in Promise :
         /\ p = AsPromised(i) /\ q = AsPromised(i)' /\ p # None
         /\ p.status = row.status /\ p.plan = PlanOf(row) /\ (p.armed <=> row.timer # "none")
         /\ p.steps = StepsTaken(row) /\ p.pages = outbox[i]["page"]
         /\ p.acknowledgedBy = row.ackBy /\ p.resolvedBy = row.resolvedBy
         /\ q.status = r.status /\ q.plan = PlanOf(r) /\ (q.armed <=> r.timer # "none")
         /\ q.steps = StepsTaken(r) /\ q.pages = outbox'[i]["page"]
         /\ q.acknowledgedBy = r.ackBy /\ q.resolvedBy = r.resolvedBy
  BY <1>1, <1>2, FromTo
<1>5. /\ p.status = "triggered"
      /\ q.status = "acknowledged" /\ q.plan = p.plan /\ ~q.armed
      /\ q.steps = p.steps /\ q.pages = p.pages
      /\ q.acknowledgedBy = s /\ q.resolvedBy = p.resolvedBy
  BY <1>1, <1>2, <1>3, <1>4
<1>6. q = [p EXCEPT !.status = "acknowledged", !.armed = FALSE, !.acknowledgedBy = s]
  BY <1>2, <1>5 DEF Promise
<1>7. Contract!Acknowledge(i)
  BY <1>2, <1>4, <1>5, <1>6, Zenon DEF Contract!Acknowledge, Contract!Triggered
<1>. QED  BY <1>1, <1>2, <1>7, OneRow

\* A second resolve, of a Grafana call that had loaded the row before, changes
\* nothing.
LEMMA CommitResolveAllowed ==
    ASSUME Inv, Inv', NEW s \in Sessions, CommitResolve(s)
    PROVE  Contract!Next
<1>1. PICK i \in Incidents, row \in Row, r \in Row, user \in Users \cup {None} :
         /\ i = session[s].on /\ row = rows[i] /\ Exists(i) /\ lock[i] = s
         /\ user = IF session[s].op = "grafana" THEN None ELSE s
         /\ rows' = [rows EXCEPT ![i] = r]
         /\ RowOK(row) /\ (user # None => row.status # "resolved")
         /\ SameEscalation(r, row)
         /\ r.status = "resolved" /\ r.timer = "none" /\ r.ackBy = row.ackBy
         /\ r.resolvedBy = IF user = None THEN row.resolvedBy ELSE user
  BY ResolveEffect
<1>2. /\ rows'[i] = r
      /\ \A j \in Incidents : outbox'[j]["page"] = outbox[j]["page"]
  BY <1>1 DEF Inv, TypeOK, CommitResolve, Mails
<1>3. CASE row.status = "resolved"
  <2>1. r.resolvedBy = row.resolvedBy /\ row.timer = "none"
    BY <1>1, <1>3 DEF RowOK
  <2>2. AsPromised(i)' = AsPromised(i)
    BY <1>1, <1>2, <1>3, <2>1, Stutters
  <2>. QED  BY <1>1, <1>2, <2>2, OneRow
<1>4. CASE row.status # "resolved"
  <2>1. r.resolvedBy = user
    BY <1>1, <1>4 DEF RowOK
  <2>2. PlanOf(r) = PlanOf(row) /\ StepsTaken(r) = StepsTaken(row)
    BY <1>1 DEF PlanOf, StepsTaken, SameEscalation
  <2>3. PICK p \in Promise, q \in Promise :
           /\ p = AsPromised(i) /\ q = AsPromised(i)' /\ p # None
           /\ p.status = row.status /\ p.plan = PlanOf(row) /\ (p.armed <=> row.timer # "none")
           /\ p.steps = StepsTaken(row) /\ p.pages = outbox[i]["page"]
           /\ p.acknowledgedBy = row.ackBy /\ p.resolvedBy = row.resolvedBy
           /\ q.status = r.status /\ q.plan = PlanOf(r) /\ (q.armed <=> r.timer # "none")
           /\ q.steps = StepsTaken(r) /\ q.pages = outbox'[i]["page"]
           /\ q.acknowledgedBy = r.ackBy /\ q.resolvedBy = r.resolvedBy
    BY <1>1, <1>2, FromTo
  <2>4. /\ p.status # "resolved"
        /\ q.status = "resolved" /\ q.plan = p.plan /\ ~q.armed
        /\ q.steps = p.steps /\ q.pages = p.pages
        /\ q.acknowledgedBy = p.acknowledgedBy /\ q.resolvedBy = user
    BY <1>1, <1>2, <1>4, <2>1, <2>2, <2>3
  <2>5. q = [p EXCEPT !.status = "resolved", !.armed = FALSE, !.resolvedBy = user]
    BY <1>1, <2>4 DEF Promise
  <2>6. /\ AsPromised(i) # None /\ AsPromised(i).status # "resolved"
        /\ AsPromised(i)' =
             [AsPromised(i) EXCEPT !.status = "resolved", !.armed = FALSE, !.resolvedBy = user]
    <3>1. AsPromised(i) = p /\ AsPromised(i)' = q /\ p # None /\ p.status # "resolved"
      BY <2>3, <2>4
    <3>. QED  BY <2>5, <3>1, Zenon
  <2>7. Contract!Resolve(i)
    BY <2>6, Zenon DEF Contract!Resolve
  <2>. QED  BY <1>1, <1>2, <2>7, OneRow
<1>. QED  BY <1>3, <1>4

\* The rule a step of a policy takes.
LEMMA RuleOfStep ==
    ASSUME NEW loops \in Nat, NEW rules \in Nat \ {0}, NEW rule \in Nat, rule < rules
    PROVE  (loops * rules + rule) % rules = rule
BY SMTT(30)

\* One row of a pass over the snapshots.
LEMMA EscalateRow ==
    ASSUME Inv, Inv', NEW w \in Workers, Escalate(w), NEW i \in Selected(w)
    PROVE  Contract!Escalate(i)
<1>1. PICK row \in Row : row = rows[i]
  BY SelectedRow
<1>2. /\ i \in Incidents /\ row # None /\ RowOK(row) /\ batch[w][i] = row
      /\ row.status = "triggered" /\ row.snapshot = "policy" /\ row.loops < NumLoops
      /\ row.timer = "due"
  BY <1>1, SelectedRow DEF Escalate, Inv, BatchOK, Exists
<1>3. PICK r : r = Escalated(row, row)
  OBVIOUS
<1>4. /\ r \in Row /\ RowOK(r)
      /\ r.status = row.status /\ r.ackBy = row.ackBy /\ r.resolvedBy = row.resolvedBy
      /\ r.snapshot = row.snapshot
      /\ Exhausted(row) => /\ row.loops = NumLoops - 1 /\ row.rule = NumRules - 1
                           /\ r.loops = NumLoops /\ r.rule = row.rule /\ r.timer = "none"
      /\ ~Exhausted(row) => /\ r.loops < NumLoops /\ r.timer = "pending"
                            /\ r.rule = NextRule(row)
                            /\ r.loops * NumRules + r.rule = row.loops * NumRules + row.rule + 1
  BY <1>2, <1>3, NextStep
<1>5. rows'[i] = r
  BY <1>1, <1>2, <1>3 DEF Escalate
<1>6. outbox'[i]["page"] = outbox[i]["page"] + Pages(row) /\ outbox[i]["page"] \in Nat
  BY <1>2 DEF Escalate, Inv, TypeOK, Mails
<1>7. PICK p \in Promise, q \in Promise :
         /\ p = AsPromised(i) /\ q = AsPromised(i)' /\ p # None
         /\ p.status = row.status /\ p.plan = PlanOf(row) /\ (p.armed <=> row.timer # "none")
         /\ p.steps = StepsTaken(row) /\ p.pages = outbox[i]["page"]
         /\ p.acknowledgedBy = row.ackBy /\ p.resolvedBy = row.resolvedBy
         /\ q.status = r.status /\ q.plan = PlanOf(r) /\ (q.armed <=> r.timer # "none")
         /\ q.steps = StepsTaken(r) /\ q.pages = outbox'[i]["page"]
         /\ q.acknowledgedBy = r.ackBy /\ q.resolvedBy = r.resolvedBy
  BY <1>1, <1>2, <1>4, <1>5, FromTo
<1> DEFINE step == p.steps + 1
           last == step = NumRules * NumLoops
           pages == p.pages + IF last THEN 0 ELSE Contract!PageFor(step)
<1>8. /\ NumRules \in Nat \ {0} /\ NumLoops \in Nat \ {0}
      /\ row.loops \in Nat /\ row.rule \in Nat /\ row.rule < NumRules
      /\ r.loops \in Nat /\ r.rule \in Nat /\ r.rule < NumRules
  BY <1>2, <1>4, IncidentsAssumption DEF Row, RowOK
<1>9. p.steps = row.loops * NumRules + row.rule
  BY <1>2, <1>7, <1>8 DEF StepsTaken
<1>10. q.steps = step /\ (last <=> Exhausted(row))
  <2>1. CASE Exhausted(row)
    <3>1. q.steps = NumRules * NumLoops
      BY <1>2, <1>4, <1>7, <2>1 DEF StepsTaken
    <3>2. (NumLoops - 1) * NumRules + NumRules = NumRules * NumLoops
      BY <1>8
    <3>3. row.loops * NumRules = (NumLoops - 1) * NumRules
      BY <1>4, <2>1
    <3>4. (NumLoops - 1) * NumRules \in Int
      BY <1>8
    <3>. QED  BY <1>4, <1>8, <1>9, <2>1, <3>1, <3>2, <3>3, <3>4
  <2>2. CASE ~Exhausted(row)
    <3>1. q.steps = r.loops * NumRules + r.rule
      BY <1>2, <1>4, <1>7, <1>8, <2>2 DEF StepsTaken
    <3>2. (r.loops + 1) * NumRules <= NumLoops * NumRules
      BY <1>4, <1>8, <2>2
    <3>3. (r.loops + 1) * NumRules = r.loops * NumRules + NumRules
      BY <1>8
    <3>4. NumLoops * NumRules = NumRules * NumLoops
      BY <1>8
    <3>5. r.loops * NumRules \in Nat /\ NumRules * NumLoops \in Nat
      BY <1>8
    <3>. QED  BY <1>4, <1>8, <1>9, <2>2, <3>1, <3>2, <3>3, <3>4, <3>5
  <2>. QED  BY <2>1, <2>2
<1>11. q.pages = pages
  <2>1. CASE Exhausted(row)
    BY <1>6, <1>7, <1>10, <2>1 DEF Pages
  <2>2. CASE ~Exhausted(row)
    <3>1. step = r.loops * NumRules + r.rule
      BY <1>4, <1>9, <2>2
    <3>2. (r.loops * NumRules + r.rule) % NumRules = r.rule
      BY <1>8, RuleOfStep
    <3>3. Contract!PageFor(step) = Pages(row)
      BY <1>4, <2>2, <3>1, <3>2 DEF Contract!PageFor, Pages
    <3>. QED  BY <1>6, <1>7, <1>10, <2>2, <3>3
  <2>. QED  BY <2>1, <2>2
<1>12. /\ p.status = "triggered" /\ p.armed /\ q.status = p.status /\ q.plan = p.plan
       /\ (q.armed <=> ~last) /\ q.acknowledgedBy = p.acknowledgedBy
       /\ q.resolvedBy = p.resolvedBy
  <2>1. PlanOf(r) = PlanOf(row)
    BY <1>4 DEF PlanOf
  <2>2. r.timer # "none" <=> ~Exhausted(row)
    BY <1>4
  <2>. QED  BY <1>2, <1>4, <1>7, <1>10, <2>1, <2>2
<1>13. /\ i \in Incidents /\ AsPromised(i) = p /\ AsPromised(i)' = q /\ p # None
       /\ p.status = "triggered" /\ p.armed
  BY <1>2, <1>7, <1>12
<1>14. q = [p EXCEPT !.steps = step, !.armed = ~last, !.pages = pages]
  <2>. HIDE DEF step, last, pages
  <2>1. q = [p EXCEPT !.steps = q.steps, !.armed = q.armed, !.pages = q.pages]
    BY <1>12 DEF Promise
  <2>2. q.armed = ~last
    BY <1>12 DEF Promise
  <2>. QED  BY <1>10, <1>11, <2>1, <2>2, Zenon
<1>. QED  BY <1>13, <1>14, Zenon DEF Contract!Escalate, Contract!Triggered

LEMMA EscalateAllowed ==
    ASSUME Inv, Inv', NEW w \in Workers, Escalate(w)
    PROVE  Contract!Next
<1>1. ASSUME NEW i \in Incidents, i \notin Selected(w) PROVE AsPromised(i)' = AsPromised(i)
  <2>1. rows'[i] = rows[i] /\ outbox'[i] = outbox[i]
    BY <1>1 DEF Escalate
  <2>. QED  BY <2>1, StuttersUnless
<1>. QED  BY <1>1, EscalateRow, Allowed

LEMMA EscalateLegacyRow ==
    ASSUME Inv, Inv', NEW w \in Workers, EscalateLegacy(w), NEW i \in Selected(w)
    PROVE  Contract!EscalateLegacy(i)
<1>1. PICK row \in Row : row = rows[i]
  BY SelectedRow
<1>2. /\ i \in Incidents /\ row.status = "triggered"
      /\ row.snapshot = "sql_null" /\ row.level = 1
  BY <1>1, SelectedRow DEF EscalateLegacy
<1>3. PICK r \in Row : r = [row EXCEPT !.level = 2]
  BY DEF Row
<1>4. /\ r.level = 2 /\ r.status = row.status /\ r.timer = row.timer
      /\ r.ackBy = row.ackBy /\ r.resolvedBy = row.resolvedBy /\ r.snapshot = row.snapshot
  BY <1>3 DEF Row
<1>5. rows'[i] = r
  BY <1>1, <1>2, <1>3 DEF EscalateLegacy
<1>6. outbox'[i]["page"] = outbox[i]["page"] + 1
  BY <1>2 DEF EscalateLegacy, Inv, TypeOK, Mails
<1>7. PICK p \in Promise, q \in Promise :
         /\ p = AsPromised(i) /\ q = AsPromised(i)' /\ p # None
         /\ p.status = row.status /\ p.plan = PlanOf(row) /\ (p.armed <=> row.timer # "none")
         /\ p.steps = StepsTaken(row) /\ p.pages = outbox[i]["page"]
         /\ p.acknowledgedBy = row.ackBy /\ p.resolvedBy = row.resolvedBy
         /\ q.status = r.status /\ q.plan = PlanOf(r) /\ (q.armed <=> r.timer # "none")
         /\ q.steps = StepsTaken(r) /\ q.pages = outbox'[i]["page"]
         /\ q.acknowledgedBy = r.ackBy /\ q.resolvedBy = r.resolvedBy
  BY <1>1, <1>2, <1>5, FromTo
<1>8. /\ p.status = "triggered" /\ p.plan = "legacy" /\ p.steps = 0
      /\ q.status = p.status /\ q.plan = p.plan /\ (q.armed <=> p.armed)
      /\ q.steps = 1 /\ q.pages = p.pages + 1
      /\ q.acknowledgedBy = p.acknowledgedBy /\ q.resolvedBy = p.resolvedBy
  BY <1>2, <1>4, <1>6, <1>7 DEF PlanOf, StepsTaken
<1>9. q = [p EXCEPT !.steps = 1, !.pages = p.pages + 1]
  BY <1>8 DEF Promise
<1>10. /\ i \in Incidents /\ AsPromised(i) = p /\ AsPromised(i)' = q /\ p # None
       /\ p.status = "triggered" /\ p.plan = "legacy" /\ p.steps = 0
  BY <1>2, <1>7, <1>8
<1>. QED  BY <1>9, <1>10, Zenon DEF Contract!EscalateLegacy, Contract!Triggered

LEMMA EscalateLegacyAllowed ==
    ASSUME Inv, Inv', NEW w \in Workers, EscalateLegacy(w)
    PROVE  Contract!Next
<1>1. ASSUME NEW i \in Incidents, i \notin Selected(w) PROVE AsPromised(i)' = AsPromised(i)
  <2>1. rows'[i] = rows[i] /\ outbox'[i] = outbox[i]
    BY <1>1 DEF EscalateLegacy
  <2>. QED  BY <2>1, StuttersUnless
<1>. QED  BY <1>1, EscalateLegacyRow, Allowed

\* Whatever else happens, no row and no page changes.
LEMMA QuietStep ==
    ASSUME rows' = rows, outbox' = outbox
    PROVE  promised' = promised
<1>1. \A i \in Incidents : AsPromised(i)' = AsPromised(i)
  BY StuttersUnless
<1>. QED  BY <1>1 DEF promised

LEMMA ContractNext == Inv /\ Inv' /\ [Next]_vars => [Contract!Next]_promised
<1>. SUFFICES ASSUME Inv, Inv', [Next]_vars PROVE [Contract!Next]_promised
  OBVIOUS
<1>1. ASSUME NEW i \in Incidents, Trigger(i) \/ TimerElapses(i) \/ Age(i)
      PROVE  Contract!Next \/ promised' = promised
  <2>1. CASE Age(i)
    BY <2>1, QuietStep DEF Age, db
  <2>. QED  BY <1>1, <2>1, TriggerAllowed, TimerElapsesAllowed
<1>2. ASSUME NEW s \in Sessions, NEW i \in Incidents, NEW op \in Operations, Request(s, i, op)
      PROVE  promised' = promised
  BY <1>2, QuietStep DEF Request, db
<1>3. ASSUME NEW s \in Sessions, SessionStep(s) \/ CutSession(s)
      PROVE  Contract!Next \/ promised' = promised
  <2>1. CASE FindAlert(s) \/ LoadForGrafana(s) \/ LoadForEdit(s) \/ LockRow(s) \/ CutSession(s)
    BY <2>1, QuietStep DEF FindAlert, LoadForGrafana, LoadForEdit, LockRow, CutSession, db
  <2>2. CASE AddNote(s) \/ RecordAgentUpdate(s) \/ CloseAlert(s)
    BY <2>2, QuietStep DEF AddNote, RecordAgentUpdate, Record, CloseAlert
  <2>. QED  BY <1>3, <2>1, <2>2, CommitAckAllowed, CommitResolveAllowed, CommitEditAllowed
            DEF SessionStep
<1>4. ASSUME NEW w \in Workers, WorkerStep(w) \/ CutPass(w)
      PROVE  Contract!Next \/ promised' = promised
  <2>1. CASE SelectDue(w) \/ SelectLegacy(w) \/ CutPass(w)
    BY <2>1, QuietStep DEF SelectDue, SelectLegacy, Select, CutPass, db
  <2>. QED  BY <1>4, <2>1, EscalateAllowed, EscalateLegacyAllowed DEF WorkerStep
<1>5. CASE UNCHANGED vars
  BY <1>5, QuietStep DEF vars
<1>. QED  BY <1>1, <1>2, <1>3, <1>4, <1>5 DEF Next

\* Whatever stale copies the sessions write back and however the passes of
\* several workers interleave with them, an incident does what its contract
\* allows and nothing else.
THEOREM ImplementsTheContract == Spec => ImplementsContract
<1>1. Inv /\ Inv' /\ [Next]_vars => [Contract!Next]_promised
  BY ContractNext
<1>. QED  BY <1>1, ContractInit, Invariance, PTL DEF Spec, ImplementsContract, Contract!Spec, promised

=============================================================================
