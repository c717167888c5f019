------------------------- MODULE GrafanaBatchProofs -------------------------
(***************************************************************************)
(* Proofs about GrafanaBatch, for any number of calls with any alerts in   *)
(* any order, any interleaving of their statements, any repeated, aborted  *)
(* or broken-off call.                                                     *)
(***************************************************************************)
EXTENDS GrafanaBatch, FiniteSetTheorems, TLAPS

-----------------------------------------------------------------------------
(***************************************************************************)
(* Types.                                                                  *)
(***************************************************************************)
AllItems == UNION {Range(Items[c]) : c \in Calls}
Keys == {KeyOf(item) : item \in AllItems}
Fingerprints == {item.fingerprint : item \in AllItems}
Services == {item.label : item \in AllItems} \cup {DefaultService[i] : i \in DOMAIN DefaultService}

Table(D, R) == UNION {[E -> R] : E \in SUBSET D}

Row == [fingerprint : Fingerprints, service : Services, open : BOOLEAN,
        resolvedBy : {"nobody", "grafana", "operator"}]

Locks == UNION { {<<"event", key>> : key \in Keys},
                 {<<"number", n>> : n \in Nat},
                 {<<"alert", n>> : n \in Nat},
                 {<<"incident", n>> : n \in Nat},
                 {<<"integration", IntegrationOf[c]>> : c \in Calls} }

Ended == {"idle", "done", "failed"}
Firing == {"checkKey", "insertEvent", "readAlert", "readMax", "insertIncident"}
Resolved == {"findAlert", "resolve"}
Steps == Ended \cup Firing \cup Resolved \cup {"commit"}

Session == [pc : Steps, pos : Nat, held : SUBSET Locks, wanted : SUBSET Locks,
            dirty : SUBSET Locks, found : Nat, events : Table(Keys, Nat),
            written : Table(Nat, Row), unflushed : Table(Nat, Row)]

TypeOK ==
    /\ events \in Table(Keys, Nat)
    /\ alerts \in Table(Nat, Row)
    /\ call \in [Calls -> Session]
    /\ lost \subseteq Nat
    /\ faults \in Nat

-----------------------------------------------------------------------------
(***************************************************************************)
(* The inductive invariant.  A session s is described by what it has       *)
(* changed (Own), the table it would leave behind if it committed now      *)
(* (All) and the incident numbers it holds.                                *)
(***************************************************************************)
Own(s) == DOMAIN s.written \cup DOMAIN s.unflushed

All(s) == Over(s.unflushed, Over(s.written, alerts))

HeldNumbers(s) == {n \in Nat : NumberLock(n) \in s.held}

\* Where a session stands: an ended one is empty, a running one is at an alert
\* of its call or behind the last, waits only where a statement needs locks,
\* and has written what its memory held before it looks for an alert.
Shape(c, s) ==
    /\ s.pc \in Ended => s.held = {} /\ Own(s) = {} /\ DOMAIN s.events = {}
    /\ s.pc \in Ended \cup {"checkKey", "readAlert", "readMax", "findAlert"} => s.wanted = {}
    /\ s.pc \in Firing \cup Resolved => s.pos \in DOMAIN Items[c]
    /\ s.pc \in Firing => Items[c][s.pos].status = "firing"
    /\ s.pc \in Resolved => Items[c][s.pos].status # "firing"
    /\ s.pc \in Firing \ {"checkKey"} => KeyOf(Items[c][s.pos]) \notin DOMAIN s.events
    /\ s.pc = "commit" => s.pos = Len(Items[c]) + 1
    /\ s.pc \in {"readAlert", "readMax", "insertIncident"} => DOMAIN s.unflushed = {}

\* What a session holds is not committed by anybody; it holds the index entry
\* of each event it has added and of the one it is about to add.
LocksOK(c, s) ==
    /\ \A lock \in s.held : ~Taken(lock)
    /\ \A key \in DOMAIN s.events : KeyLock(key) \in s.held
    /\ s.pc = "insertEvent" => KeyLock(KeyOf(Items[c][s.pos])) \in s.held \cup s.wanted
    /\ s.pc \in {"readAlert", "readMax", "insertIncident"} =>
         KeyLock(KeyOf(Items[c][s.pos])) \in s.held
    /\ \A n \in Nat : NumberLock(n) \notin s.dirty
    /\ \A n \in Nat : NumberLock(n) \in s.wanted =>
         s.pc = "insertIncident" /\ n = s.found /\ NumberLock(n) \notin s.held

\* The number of the incident a session is about to insert, once it holds it.
Pending(s) ==
    IF s.pc = "insertIncident" /\ NumberLock(s.found) \notin s.wanted THEN {s.found} ELSE {}

\* The committed numbers and the ones a session holds have no gap between them,
\* and those it holds are of its own rows, or the one it is about to insert.
NumbersOK(s) ==
    /\ \E t \in Nat :
         /\ DOMAIN alerts \cup HeldNumbers(s) = 1 .. t
         /\ s.pc = "insertIncident" => s.found \in 1 .. t + 1
         /\ Pending(s) \subseteq {t}
    /\ Pending(s) \subseteq HeldNumbers(s)
    /\ Pending(s) \cap Own(s) = {}
    /\ DOMAIN alerts \cup HeldNumbers(s) = DOMAIN alerts \cup Own(s) \cup Pending(s)

\* The rows a session has changed: of the fingerprint they had, none both open
\* and resolved by Grafana; its events are in alerts of their fingerprint, and
\* a row of its own has one.
RowsKept(s) ==
    /\ \A n \in DOMAIN alerts : All(s)[n].fingerprint = alerts[n].fingerprint
    /\ \A n \in Own(s) : All(s)[n].open => All(s)[n].resolvedBy = "nobody"
    /\ \A key \in DOMAIN s.events :
         /\ s.events[key] \in DOMAIN All(s)
         /\ All(s)[s.events[key]].fingerprint = key[1]
    /\ \A n \in Own(s) \ DOMAIN alerts : \E key \in DOMAIN s.events : s.events[key] = n

RowsOK(s) == RowsKept(s) /\ (s.pc = "resolve" => s.found \in DOMAIN All(s))

\* The firing alerts a call has behind it are recorded, or will be with it.
AnswerOK(c, s) ==
    /\ s.pc \notin Ended =>
         \A i \in DOMAIN Items[c] :
            i < s.pos /\ Items[c][i].status = "firing" =>
                KeyOf(Items[c][i]) \in DOMAIN events \cup DOMAIN s.events
    /\ s.pc = "done" =>
         \A i \in DOMAIN Items[c] :
            Items[c][i].status = "firing" => KeyOf(Items[c][i]) \in DOMAIN events

SessionOK(c, s) ==
    Shape(c, s) /\ LocksOK(c, s) /\ NumbersOK(s) /\ RowsOK(s) /\ AnswerOK(c, s)

\* No lock is held twice.
Exclusive == \A c, d \in Calls : c # d => call[c].held \cap call[d].held = {}

\* The committed tables.
Dense == \E k \in Nat : DOMAIN alerts = 1 .. k

TablesOK ==
    /\ \A key \in DOMAIN events : /\ events[key] \in DOMAIN alerts
                                  /\ alerts[events[key]].fingerprint = key[1]
    /\ \A n \in DOMAIN alerts : \E key \in DOMAIN events : events[key] = n
    /\ Dense

Closing(n) == n \in lost \/ \E c \in Calls : n \in Own(call[c])

SilentOK ==
    \A n \in DOMAIN alerts :
        alerts[n].open /\ alerts[n].resolvedBy = "grafana" => Closing(n)

Inv ==
    /\ TypeOK
    /\ Exclusive
    /\ TablesOK
    /\ SilentOK
    /\ \A c \in Calls : SessionOK(c, call[c])

-----------------------------------------------------------------------------
(***************************************************************************)
(* A call with one alert takes its locks in the order of their ranks.      *)
(***************************************************************************)
Rank == [event |-> 1, incident |-> 1, alert |-> 2, number |-> 2, integration |-> 3]

InOrder(s) ==
    /\ \A h \in s.held, w \in s.wanted : Rank[h[1]] < Rank[w[1]]
    /\ \A v, w \in s.wanted : v # w => v[1] # w[1] /\ "integration" \in {v[1], w[1]}
    /\ s.pc \in {"checkKey", "findAlert"} => s.held = {}
    /\ s.pc # "commit" => s.dirty = {}
    /\ s.pc \in {"insertEvent", "readAlert", "readMax"} =>
         \A lock \in s.held \cup s.wanted : lock[1] = "event"

Single(c) == Len(Items[c]) <= 1

OrderInv == \A c \in Calls : Single(c) => InOrder(call[c])
-----------------------------------------------------------------------------
(***************************************************************************)
(* Tables, alerts of a call, locks.                                        *)
(***************************************************************************)
LEMMA TableIs ==
    ASSUME NEW D, NEW R, NEW f \in Table(D, R)
    PROVE  DOMAIN f \subseteq D /\ \A x \in DOMAIN f : f[x] \in R
BY DEF Table

LEMMA EmptyIsTable ==
    ASSUME NEW D, NEW R
    PROVE  EmptyTable \in Table(D, R) /\ DOMAIN EmptyTable = {}
<1>1. EmptyTable \in [{} -> R] /\ DOMAIN EmptyTable = {}
  BY DEF EmptyTable
<1>. QED  BY <1>1 DEF Table

LEMMA OnlyIsTable ==
    ASSUME NEW D, NEW R, NEW x \in D, NEW v \in R
    PROVE  /\ Only(x, v) \in Table(D, R)
           /\ DOMAIN Only(x, v) = {x} /\ Only(x, v)[x] = v
<1>1. Only(x, v) \in [{x} -> R] /\ {x} \in SUBSET D
  BY DEF Only
<1>. QED  BY <1>1 DEF Table, Only

LEMMA OverIs ==
    ASSUME NEW f, NEW g
    PROVE  /\ DOMAIN Over(f, g) = DOMAIN f \cup DOMAIN g
           /\ \A x \in DOMAIN f : Over(f, g)[x] = f[x]
           /\ \A x \in DOMAIN g \ DOMAIN f : Over(f, g)[x] = g[x]
BY DEF Over

LEMMA OverIsTable ==
    ASSUME NEW D, NEW R, NEW f \in Table(D, R), NEW g \in Table(D, R)
    PROVE  Over(f, g) \in Table(D, R)
<1>1. PICK E \in SUBSET D, F \in SUBSET D : f \in [E -> R] /\ g \in [F -> R]
  BY DEF Table
<1>2. Over(f, g) \in [E \cup F -> R]
  BY <1>1 DEF Over
<1>. QED  BY <1>2 DEF Table

\* The alerts of a call are a sequence; what they carry has its type.
LEMMA ItemsAre ==
    ASSUME NEW c \in Calls
    PROVE  /\ Len(Items[c]) \in Nat
           /\ DOMAIN Items[c] = 1 .. Len(Items[c])
<1>1. Items[c] \in Seq(Range(Items[c]))
  BY GrafanaBatchAssumption
<1>. QED  BY <1>1

LEMMA ItemIs ==
    ASSUME NEW c \in Calls, NEW i \in DOMAIN Items[c]
    PROVE  /\ Items[c][i].status \in {"firing", "resolved"}
           /\ KeyOf(Items[c][i]) \in Keys
           /\ KeyOf(Items[c][i])[1] = Items[c][i].fingerprint
           /\ Items[c][i].fingerprint \in Fingerprints
           /\ ServiceFor(c, Items[c][i]) \in Services
<1>1. Items[c][i] \in AllItems
  BY DEF AllItems, Range
<1>2. KeyOf(Items[c][i]) \in Keys /\ Items[c][i].fingerprint \in Fingerprints
  BY <1>1 DEF Keys, Fingerprints
<1>3. KeyOf(Items[c][i])[1] = Items[c][i].fingerprint
  BY DEF KeyOf
<1>4. ServiceFor(c, Items[c][i]) \in Services
  BY <1>1, GrafanaBatchAssumption DEF ServiceFor, Services
<1>. QED  BY <1>2, <1>3, <1>4, GrafanaBatchAssumption

LEMMA LocksAre ==
    /\ \A key \in Keys : KeyLock(key) \in Locks
    /\ \A n \in Nat : NumberLock(n) \in Locks /\ AlertLock(n) \in Locks /\ IncidentLock(n) \in Locks
    /\ \A c \in Calls : IntegrationLock(c) \in Locks
BY DEF Locks, KeyLock, NumberLock, AlertLock, IncidentLock, IntegrationLock

LEMMA LocksDiffer ==
    /\ \A m, n : NumberLock(m) = NumberLock(n) => m = n
    /\ \A k, l : KeyLock(k) = KeyLock(l) => k = l
    /\ \A k, n : NumberLock(n) # KeyLock(k) /\ NumberLock(n) # AlertLock(k)
                 /\ NumberLock(n) # IncidentLock(k) /\ NumberLock(n) # IntegrationLock(k)
    /\ \A k, n : KeyLock(n) # AlertLock(k) /\ KeyLock(n) # IncidentLock(k)
                 /\ KeyLock(n) # IntegrationLock(k)
BY DEF KeyLock, NumberLock, AlertLock, IncidentLock, IntegrationLock

\* Which locks can be taken for ever.
LEMMA TakenIs ==
    /\ \A k : Taken(KeyLock(k)) <=> k \in DOMAIN events
    /\ \A n : Taken(NumberLock(n)) <=> n \in DOMAIN alerts
    /\ \A n : ~Taken(AlertLock(n)) /\ ~Taken(IncidentLock(n)) /\ ~Taken(IntegrationLock(n))
BY DEF Taken, KeyLock, NumberLock, AlertLock, IncidentLock, IntegrationLock

LEMMA FreshIsSession ==
    ASSUME NEW step \in Steps
    PROVE  /\ NewSession(step) \in Session
           /\ LET s == NewSession(step) IN
              /\ s.pc = step /\ s.pos = 0 /\ s.held = {} /\ s.wanted = {} /\ s.dirty = {}
              /\ DOMAIN s.events = {} /\ DOMAIN s.written = {} /\ DOMAIN s.unflushed = {}
BY EmptyIsTable DEF NewSession, Session

\* On to the next alert, or to the COMMIT.
LEMMA NextItemIs ==
    ASSUME NEW c \in Calls, NEW u \in Session, NEW t, t = NextItem(c, u)
    PROVE  /\ t \in Session
           /\ t.pos = u.pos + 1 /\ t.held = u.held /\ t.dirty = u.dirty
           /\ t.events = u.events /\ t.written = u.written /\ t.unflushed = u.unflushed
           /\ \/ /\ t.pc = "commit" /\ t.pos > Len(Items[c])
                 /\ t.wanted = u.dirty \ u.held
              \/ /\ t.pos \in DOMAIN Items[c] /\ t.wanted = u.wanted
                 /\ \/ t.pc = "checkKey" /\ Items[c][t.pos].status = "firing"
                    \/ t.pc = "findAlert" /\ Items[c][t.pos].status # "firing"
<1>1. u.pos + 1 \in Nat /\ u.dirty \ u.held \in SUBSET Locks
  BY DEF Session
<1>2. {"commit", "checkKey", "findAlert"} \subseteq Steps
  BY DEF Steps, Firing, Resolved
<1>3. CASE u.pos + 1 > Len(Items[c])
  <2>1. t = [u EXCEPT !.pos = u.pos + 1, !.pc = "commit", !.wanted = u.dirty \ u.held]
    BY <1>3 DEF NextItem, FlushLocks
  <2>. QED  BY <1>1, <1>2, <1>3, <2>1 DEF Session
<1>4. CASE ~(u.pos + 1 > Len(Items[c]))
  <2>1. t = [u EXCEPT !.pos = u.pos + 1,
                      !.pc = IF Items[c][u.pos + 1].status = "firing" THEN "checkKey" ELSE "findAlert"]
    BY <1>4 DEF NextItem
  <2>2. u.pos + 1 \in DOMAIN Items[c]
    BY <1>1, <1>4, ItemsAre DEF Session
  <2>. QED  BY <1>1, <1>2, <2>1, <2>2 DEF Session
<1>. QED  BY <1>3, <1>4
-----------------------------------------------------------------------------
(***************************************************************************)
(* Steps that leave the tables alone.                                      *)
(***************************************************************************)
LEMMA AllIs ==
    ASSUME NEW s
    PROVE  /\ DOMAIN All(s) = DOMAIN alerts \cup Own(s)
           /\ \A n \in DOMAIN s.unflushed : All(s)[n] = s.unflushed[n]
           /\ \A n \in DOMAIN s.written \ DOMAIN s.unflushed : All(s)[n] = s.written[n]
           /\ \A n \in DOMAIN alerts \ Own(s) : All(s)[n] = alerts[n]
BY DEF All, Own, Over

\* Sessions with the same changes.
LEMMA SameRows ==
    ASSUME NEW s, NEW t,
           t.events = s.events, t.written = s.written, t.unflushed = s.unflushed
    PROVE  /\ Own(t) = Own(s) /\ All(t) = All(s)
           /\ RowsKept(s) => RowsKept(t)
<1>1. Own(t) = Own(s) /\ All(t) = All(s)
  BY DEF Own, All
<1>2. ASSUME RowsKept(s) PROVE RowsKept(t)
  <2>1. \A n \in DOMAIN alerts : All(t)[n].fingerprint = alerts[n].fingerprint
    BY <1>1, <1>2 DEF RowsKept
  <2>2. \A n \in Own(t) : All(t)[n].open => All(t)[n].resolvedBy = "nobody"
    BY <1>1, <1>2 DEF RowsKept
  <2>3. \A key \in DOMAIN t.events : /\ t.events[key] \in DOMAIN All(t)
                                     /\ All(t)[t.events[key]].fingerprint = key[1]
    BY <1>1, <1>2 DEF RowsKept
  <2>4. \A n \in Own(t) \ DOMAIN alerts : \E key \in DOMAIN t.events : t.events[key] = n
    BY <1>1, <1>2 DEF RowsKept
  <2>. QED  BY <2>1, <2>2, <2>3, <2>4 DEF RowsKept
<1>. QED  BY <1>1, <1>2

LEMMA AllIsTable ==
    ASSUME TypeOK, NEW s \in Session
    PROVE  All(s) \in Table(Nat, Row)
<1>1. s.unflushed \in Table(Nat, Row) /\ s.written \in Table(Nat, Row)
      /\ alerts \in Table(Nat, Row)
  BY DEF Session, TypeOK
<1>2. Over(s.written, alerts) \in Table(Nat, Row)
  BY <1>1, OverIsTable
<1>. QED  BY <1>1, <1>2, OverIsTable DEF All

LEMMA CallIs ==
    ASSUME TypeOK, NEW c \in Calls
    PROVE  call[c] \in Session
BY DEF TypeOK

\* One session changes: the others are as they were.
LEMMA QuietStep ==
    ASSUME Inv, NEW c \in Calls, NEW t \in Session, SetCall(c, t),
           UNCHANGED <<events, alerts>>,
           lost \subseteq lost', lost' \subseteq Nat, faults' \in Nat,
           \A d \in Calls \ {c} : t.held \cap call[d].held = {},
           \A n \in DOMAIN alerts : n \in Own(call[c]) => n \in lost' \cup Own(t),
           SessionOK(c, t)
    PROVE  Inv'
<1>1. /\ call' \in [Calls -> Session]
      /\ call'[c] = t /\ \A d \in Calls \ {c} : call'[d] = call[d]
  BY DEF Inv, TypeOK, SetCall
<1>2. TypeOK'
  BY <1>1 DEF Inv, TypeOK
<1>3. Exclusive'
  BY <1>1 DEF Inv, Exclusive
<1>4. TablesOK'
  BY DEF Inv, TablesOK, Dense
<1>5. SilentOK'
  <2>1. ASSUME NEW n \in DOMAIN alerts, Closing(n)
        PROVE  n \in lost' \/ \E d \in Calls : n \in Own(call'[d])
    BY <1>1, <2>1 DEF Closing
  <2>. QED  BY <2>1 DEF Inv, SilentOK, Closing
<1>6. \A d \in Calls : SessionOK(d, call'[d])
  BY <1>1 DEF Inv
<1>7. ASSUME NEW d \in Calls
      PROVE  SessionOK(d, call[d])'
  <2>1. PICK s : s = call'[d]
    OBVIOUS
  <2>2. SessionOK(d, s)
    BY <1>6, <2>1
  <2>3. All(s)' = All(s)
    BY DEF All
  <2>4. LocksOK(d, s)'
    BY <2>2 DEF SessionOK, LocksOK, Taken
  <2>5. NumbersOK(s)' /\ RowsOK(s)'
    BY <2>2, <2>3 DEF SessionOK, NumbersOK, RowsOK, RowsKept
  <2>6. AnswerOK(d, s)'
    BY <2>2 DEF SessionOK, AnswerOK
  <2>7. SessionOK(d, s)'
    BY <2>2, <2>4, <2>5, <2>6 DEF SessionOK
  <2>. QED  BY <2>1, <2>7
<1>. QED  BY <1>2, <1>3, <1>4, <1>5, <1>7 DEF Inv

\* The same for the steps that neither give up a row nor lose one.
LEMMA OwnStep ==
    ASSUME Inv, NEW c \in Calls, NEW t \in Session, SetCall(c, t), Keep,
           t.held = call[c].held, Own(call[c]) \subseteq Own(t),
           SessionOK(c, t)
    PROVE  Inv'
<1>1. lost \subseteq Nat /\ faults \in Nat
  BY DEF Inv, TypeOK
<1>2. \A d \in Calls \ {c} : t.held \cap call[d].held = {}
  BY DEF Inv, Exclusive
<1>. QED  BY <1>1, <1>2, QuietStep DEF Keep

LEMMA Initially == Init => Inv
<1> SUFFICES ASSUME Init PROVE Inv
  OBVIOUS
<1>1. "idle" \in Steps
  BY DEF Steps, Ended
<1>2. TypeOK
  BY <1>1, EmptyIsTable, FreshIsSession, GrafanaBatchAssumption DEF Init, TypeOK
<1>3. \A c \in Calls : call[c] = NewSession("idle")
  BY DEF Init
<1>4. DOMAIN events = {} /\ DOMAIN alerts = {}
  BY EmptyIsTable DEF Init
<1>5. Exclusive
  BY <1>1, <1>3, FreshIsSession DEF Exclusive
<1>6. TablesOK
  <2>1. DOMAIN alerts = 1 .. 0
    BY <1>4
  <2>. QED  BY <1>4, <2>1 DEF TablesOK, Dense
<1>7. SilentOK
  BY <1>4 DEF SilentOK
<1>8. ASSUME NEW c \in Calls PROVE SessionOK(c, call[c])
  <2>1. PICK s : s = call[c]
    OBVIOUS
  <2>2. /\ s.pc = "idle" /\ s.held = {} /\ s.wanted = {} /\ s.dirty = {}
        /\ DOMAIN s.events = {} /\ DOMAIN s.written = {} /\ DOMAIN s.unflushed = {}
    BY <1>1, <1>3, <2>1, FreshIsSession
  <2>3. Shape(c, s) /\ LocksOK(c, s) /\ AnswerOK(c, s)
    BY <2>2 DEF Shape, LocksOK, AnswerOK, Own, Ended, Firing, Resolved
  <2>4. NumbersOK(s)
    <3>1. HeldNumbers(s) = {} /\ Own(s) = {} /\ Pending(s) = {}
      BY <2>2 DEF HeldNumbers, Own, Pending
    <3>2. DOMAIN alerts \cup HeldNumbers(s) = 1 .. 0
      BY <1>4, <3>1
    <3>. QED  BY <1>4, <2>2, <3>1, <3>2 DEF NumbersOK
  <2>5. RowsOK(s)
    BY <1>4, <2>2 DEF RowsOK, RowsKept, Own
  <2>. QED  BY <2>1, <2>3, <2>4, <2>5 DEF SessionOK
<1>. QED  BY <1>2, <1>5, <1>6, <1>7, <1>8 DEF Inv

\* A session that holds nothing and has changed nothing.
LEMMA EmptySession ==
    ASSUME TablesOK, NEW c \in Calls, NEW s,
           s.held = {}, s.wanted = {}, s.dirty = {},
           DOMAIN s.events = {}, DOMAIN s.written = {}, DOMAIN s.unflushed = {},
           s.pc \in {"idle", "failed"}
    PROVE  SessionOK(c, s)
<1>1. Own(s) = {} /\ HeldNumbers(s) = {} /\ Pending(s) = {}
  BY DEF Own, HeldNumbers, Pending
<1>2. \A n \in DOMAIN alerts : All(s)[n] = alerts[n]
  BY <1>1, AllIs
<1>3. Shape(c, s) /\ LocksOK(c, s) /\ AnswerOK(c, s)
  BY <1>1 DEF Shape, LocksOK, AnswerOK, Ended, Firing, Resolved
<1>4. NumbersOK(s)
  BY <1>1 DEF NumbersOK, TablesOK, Dense
<1>5. RowsOK(s)
  BY <1>1, <1>2 DEF RowsOK, RowsKept
<1>. QED  BY <1>3, <1>4, <1>5 DEF SessionOK

\* A session is done with the alert at its position: everything holds but what
\* depends on its next statement.
Finished(c, u) ==
    /\ u.pos \in 0 .. Len(Items[c]) /\ u.wanted = {}
    /\ \A lock \in u.held : ~Taken(lock)
    /\ \A key \in DOMAIN u.events : KeyLock(key) \in u.held
    /\ \A n \in Nat : NumberLock(n) \notin u.dirty
    /\ \E t \in Nat : DOMAIN alerts \cup HeldNumbers(u) = 1 .. t
    /\ DOMAIN alerts \cup HeldNumbers(u) = DOMAIN alerts \cup Own(u)
    /\ RowsKept(u)
    /\ \A i \in DOMAIN Items[c] :
         i <= u.pos /\ Items[c][i].status = "firing" =>
             KeyOf(Items[c][i]) \in DOMAIN events \cup DOMAIN u.events
LEMMA NextItemOK ==
    ASSUME NEW c \in Calls, NEW u \in Session, NEW t, t = NextItem(c, u), Finished(c, u)
    PROVE  SessionOK(c, t)
<1>1. /\ t \in Session
      /\ t.pos = u.pos + 1 /\ t.held = u.held /\ t.dirty = u.dirty
      /\ t.events = u.events /\ t.written = u.written /\ t.unflushed = u.unflushed
      /\ \/ /\ t.pc = "commit" /\ t.pos > Len(Items[c])
            /\ t.wanted = u.dirty \ u.held
         \/ /\ t.pos \in DOMAIN Items[c] /\ t.wanted = u.wanted
            /\ \/ t.pc = "checkKey" /\ Items[c][t.pos].status = "firing"
               \/ t.pc = "findAlert" /\ Items[c][t.pos].status # "firing"
  BY NextItemIs
<1>2. Len(Items[c]) \in Nat /\ DOMAIN Items[c] = 1 .. Len(Items[c])
  BY ItemsAre
<1>3. u.pos \in 0 .. Len(Items[c]) /\ u.wanted = {}
  BY DEF Finished
<1>4. Shape(c, t)
  BY <1>1, <1>2, <1>3 DEF Shape, Ended, Firing, Resolved
<1>5. LocksOK(c, t)
  BY <1>1, <1>3 DEF LocksOK, Finished
<1>6. NumbersOK(t)
  <2>1. HeldNumbers(t) = HeldNumbers(u) /\ Own(t) = Own(u) /\ Pending(t) = {}
    BY <1>1 DEF HeldNumbers, Own, Pending
  <2>. QED  BY <1>1, <2>1 DEF NumbersOK, Finished
<1>7. RowsOK(t)
  <2>1. All(t) = All(u) /\ Own(t) = Own(u)
    BY <1>1 DEF All, Own
  <2>. QED  BY <1>1, <2>1 DEF RowsOK, RowsKept, Finished
<1>8. AnswerOK(c, t)
  <2>1. ASSUME NEW i \in DOMAIN Items[c], i < t.pos PROVE i <= u.pos
    BY <1>1, <1>2, <1>3, <2>1
  <2>. QED  BY <1>1, <2>1 DEF AnswerOK, Finished, Ended
<1>. QED  BY <1>4, <1>5, <1>6, <1>7, <1>8 DEF SessionOK

LEMMA PostKeeps ==
    ASSUME Inv, NEW c \in Calls, Post(c)
    PROVE  Inv'
<1>1. PICK u : u = NewSession("idle")
  OBVIOUS
<1>2. /\ u \in Session /\ u.pc = "idle" /\ u.pos = 0
      /\ u.held = {} /\ u.wanted = {} /\ u.dirty = {}
      /\ DOMAIN u.events = {} /\ DOMAIN u.written = {} /\ DOMAIN u.unflushed = {}
  BY <1>1, FreshIsSession DEF Steps, Ended
<1>3. SessionOK(c, u)
  BY <1>2, EmptySession DEF Inv
<1>4. Finished(c, u)
  <2>1. Len(Items[c]) \in Nat /\ DOMAIN Items[c] = 1 .. Len(Items[c])
    BY ItemsAre
  <2>2. Own(u) = {} /\ HeldNumbers(u) = {} /\ Pending(u) = {}
    BY <1>2 DEF Own, HeldNumbers, Pending
  <2>. QED  BY <1>2, <1>3, <2>1, <2>2 DEF Finished, SessionOK, LocksOK, NumbersOK, RowsOK
<1>5. PICK t : t = NextItem(c, u)
  OBVIOUS
<1>6. t \in Session /\ t.held = {} /\ SessionOK(c, t)
  BY <1>2, <1>4, <1>5, NextItemIs, NextItemOK
<1>7. Own(call[c]) = {} /\ call[c].held = {}
  BY DEF Inv, SessionOK, Shape, Ended, Post
<1>. QED  BY <1>1, <1>5, <1>6, <1>7, OwnStep DEF Post

\* The session is closed with its changes; only memory that closed an alert is
\* missed (lost).
LEMMA FailKeeps ==
    ASSUME Inv, NEW c \in Calls, Fail(c), faults' \in Nat
    PROVE  Inv'
<1>1. PICK t : t = NewSession("failed")
  OBVIOUS
<1>2. /\ t \in Session /\ t.pc = "failed" /\ t.held = {} /\ t.wanted = {} /\ t.dirty = {}
      /\ DOMAIN t.events = {} /\ DOMAIN t.written = {} /\ DOMAIN t.unflushed = {}
  BY <1>1, FreshIsSession DEF Steps, Ended
<1>3. SessionOK(c, t)
  BY <1>2, EmptySession DEF Inv
<1>4. lost' = lost \cup (DOMAIN alerts \cap Own(call[c])) /\ UNCHANGED <<events, alerts>>
  BY DEF Fail, Own
<1>5. DOMAIN alerts \subseteq Nat /\ lost \subseteq Nat
  BY TableIs DEF Inv, TypeOK
<1>6. SetCall(c, t)
  BY <1>1 DEF Fail
<1>. QED  BY <1>2, <1>3, <1>4, <1>5, <1>6, QuietStep

LEMMA TakeKeeps ==
    ASSUME Inv, NEW c \in Calls, NEW lock \in call[c].wanted, Take(c, lock)
    PROVE  Inv'
<1>1. PICK s : s = call[c]
  OBVIOUS
<1>2. s \in Session /\ SessionOK(c, s)
  BY <1>1, CallIs DEF Inv
<1>3. CASE Fail(c) /\ UNCHANGED faults
  BY <1>3, FailKeeps DEF Inv, TypeOK
<1>4. CASE /\ ~Taken(lock) /\ Keep
           /\ SetCall(c, [call[c] EXCEPT !.held = @ \cup {lock}, !.wanted = @ \ {lock}])
  <2>1. PICK t : t = [s EXCEPT !.held = s.held \cup {lock}, !.wanted = s.wanted \ {lock}]
    OBVIOUS
  <2>2. lock \in Locks /\ lock \in s.wanted
    BY <1>1, <1>2 DEF Session
  <2>3. /\ t \in Session /\ t.pc = s.pc /\ t.pos = s.pos /\ t.found = s.found
        /\ t.held = s.held \cup {lock} /\ t.wanted = s.wanted \ {lock}
        /\ t.dirty = s.dirty /\ t.events = s.events
        /\ t.written = s.written /\ t.unflushed = s.unflushed
    BY <1>2, <2>1, <2>2 DEF Session
  <2>4. Shape(c, t)
    BY <1>2, <2>2, <2>3 DEF SessionOK, Shape, Own
  <2>5. LocksOK(c, t)
    BY <1>2, <1>4, <2>2, <2>3 DEF SessionOK, LocksOK
  <2>6. Own(t) = Own(s) /\ All(t) = All(s)
    BY <2>3 DEF Own, All
  <2>7. RowsOK(t) /\ AnswerOK(c, t)
    BY <1>2, <2>3, <2>6 DEF SessionOK, RowsOK, RowsKept, AnswerOK
  <2>8. NumbersOK(t)
    <3>1. CASE \A n \in Nat : lock # NumberLock(n)
      <4>1. HeldNumbers(t) = HeldNumbers(s)
        BY <2>3, <3>1 DEF HeldNumbers
      <4>2. Pending(t) = Pending(s)
        BY <1>2, <2>3, <3>1 DEF Pending, Session
      <4>. QED  BY <1>2, <2>3, <2>6, <4>1, <4>2 DEF SessionOK, NumbersOK
    <3>2. ASSUME NEW n \in Nat, lock = NumberLock(n)
          PROVE  NumbersOK(t)
      <4>1. s.pc = "insertIncident" /\ n = s.found
        BY <1>2, <2>2, <3>2 DEF SessionOK, LocksOK
      <4>2. Pending(s) = {} /\ Pending(t) = {n}
        BY <2>2, <2>3, <3>2, <4>1 DEF Pending
      <4>3. HeldNumbers(t) = HeldNumbers(s) \cup {n}
        BY <2>3, <3>2, LocksDiffer DEF HeldNumbers
      <4>4. n \notin DOMAIN alerts
        BY <1>4, <3>2, TakenIs
      <4>5. n \notin HeldNumbers(s)
        BY <1>2, <2>2, <3>2 DEF SessionOK, LocksOK, HeldNumbers
      <4>6. PICK k \in Nat : /\ DOMAIN alerts \cup HeldNumbers(s) = 1 .. k
                             /\ s.found \in 1 .. k + 1
        BY <1>2, <4>1 DEF SessionOK, NumbersOK
      <4>7. n = k + 1
        BY <4>1, <4>4, <4>5, <4>6
      <4>8. DOMAIN alerts \cup HeldNumbers(t) = 1 .. k + 1
        <5>1. 1 .. k + 1 = (1 .. k) \cup {k + 1}
          OBVIOUS
        <5>. QED  BY <4>3, <4>6, <4>7, <5>1
      <4>9. DOMAIN alerts \cup HeldNumbers(s) = DOMAIN alerts \cup Own(s)
        BY <1>2, <4>2 DEF SessionOK, NumbersOK
      <4>10. n \notin Own(s)
        BY <4>4, <4>5, <4>9
      <4>11. k + 1 \in Nat /\ t.found \in 1 .. (k + 1) + 1
        BY <2>3, <4>1, <4>7
      <4>. QED
        BY <2>6, <4>2, <4>3, <4>7, <4>8, <4>9, <4>10, <4>11 DEF NumbersOK
    <3>. QED  BY <3>1, <3>2
  <2>9. SessionOK(c, t)
    BY <2>4, <2>5, <2>7, <2>8 DEF SessionOK
  <2>10. \A d \in Calls \ {c} : t.held \cap call[d].held = {}
    BY <1>1, <2>3 DEF Take, Holder, Inv, Exclusive
  <2>11. SetCall(c, t)
    BY <1>1, <1>4, <2>1
  <2>12. UNCHANGED <<events, alerts>> /\ lost \subseteq lost' /\ lost' \subseteq Nat /\ faults' \in Nat
    BY <1>4 DEF Keep, Inv, TypeOK
  <2>. QED  BY <1>1, <2>3, <2>6, <2>9, <2>10, <2>11, <2>12, QuietStep
<1>. QED  BY <1>3, <1>4 DEF Take
\* What is known of a session whose statement runs.
LEMMA AtIs ==
    ASSUME Inv, NEW c \in Calls, NEW s, s = call[c], s.pc \in Firing \cup Resolved
    PROVE  /\ s \in Session /\ SessionOK(c, s)
           /\ s.pos \in DOMAIN Items[c] /\ s.pos \in Nat
           /\ Item(c) = Items[c][s.pos]
           /\ KeyOf(Item(c)) \in Keys
           /\ s.pc \in Firing => Item(c).status = "firing"
<1>1. s \in Session /\ SessionOK(c, s)
  BY CallIs DEF Inv
<1>2. s.pos \in DOMAIN Items[c] /\ s.pos \in Nat
  BY <1>1 DEF SessionOK, Shape, Session
<1>. QED  BY <1>1, <1>2, ItemIs DEF SessionOK, Shape, Item

\* A session between two statements, outside the insertion of an incident.
LEMMA FinishedIs ==
    ASSUME Inv, NEW c \in Calls, NEW s, s = call[c], s.wanted = {},
           s.pc \in Firing \cup Resolved, s.pc # "insertIncident",
           Items[c][s.pos].status = "firing" =>
               KeyOf(Items[c][s.pos]) \in DOMAIN events \cup DOMAIN s.events
    PROVE  Finished(c, s)
<1>1. /\ s \in Session /\ SessionOK(c, s)
      /\ s.pos \in DOMAIN Items[c] /\ s.pos \in Nat
  BY AtIs
<1>2. Len(Items[c]) \in Nat /\ DOMAIN Items[c] = 1 .. Len(Items[c])
  BY ItemsAre
<1>3. Pending(s) = {}
  BY DEF Pending
<1>4. \A i \in DOMAIN Items[c] :
        i <= s.pos /\ Items[c][i].status = "firing" =>
            KeyOf(Items[c][i]) \in DOMAIN events \cup DOMAIN s.events
  <2>1. s.pc \notin Ended
    BY DEF Ended, Firing, Resolved
  <2>2. \A i \in DOMAIN Items[c] : i <= s.pos => i < s.pos \/ i = s.pos
    BY <1>1, <1>2
  <2>. QED  BY <1>1, <2>1, <2>2 DEF SessionOK, AnswerOK
<1>5. \E t \in Nat : DOMAIN alerts \cup HeldNumbers(s) = 1 .. t
  BY <1>1 DEF SessionOK, NumbersOK
<1>6. DOMAIN alerts \cup HeldNumbers(s) = DOMAIN alerts \cup Own(s)
  BY <1>1, <1>3 DEF SessionOK, NumbersOK
<1>. QED  BY <1>1, <1>2, <1>4, <1>5, <1>6 DEF Finished, SessionOK, LocksOK, RowsOK

\* The same with the next statement of the same alert: only locks are wanted.
LEMMA NextStatementOK ==
    ASSUME Inv, NEW c \in Calls, NEW s, s = call[c],
           s.pc \in Firing \cup Resolved, s.pc # "insertIncident",
           NEW t \in Session, t.pc \in {"insertEvent", "readMax", "resolve"},
           t.pos = s.pos, t.held = s.held, t.dirty = s.dirty,
           t.events = s.events, t.written = s.written, t.unflushed = s.unflushed,
           \A m \in Nat : NumberLock(m) \notin t.wanted,
           t.pc = "resolve" => s.pc = "findAlert",
           t.pc = "insertEvent" =>
               /\ s.pc = "checkKey" /\ KeyOf(Item(c)) \notin DOMAIN s.events
               /\ KeyLock(KeyOf(Item(c))) \in t.held \cup t.wanted,
           t.pc = "readMax" => s.pc = "readAlert" /\ t.wanted = {},
           t.pc = "resolve" => t.found \in DOMAIN All(s)
    PROVE  SessionOK(c, t)
<1>1. /\ s \in Session /\ SessionOK(c, s)
      /\ s.pos \in DOMAIN Items[c] /\ s.pos \in Nat
      /\ Item(c) = Items[c][s.pos]
  BY AtIs
<1>2. Own(t) = Own(s) /\ All(t) = All(s) /\ (RowsKept(s) => RowsKept(t))
  BY SameRows
<1>3. Shape(c, t)
  BY <1>1 DEF SessionOK, Shape, Ended, Firing, Resolved
<1>4. LocksOK(c, t)
  BY <1>1 DEF SessionOK, LocksOK
<1>5. NumbersOK(t)
  <2>1. Pending(s) = {} /\ Pending(t) = {} /\ HeldNumbers(t) = HeldNumbers(s)
    BY DEF Pending, HeldNumbers
  <2>. QED  BY <1>1, <1>2, <2>1 DEF SessionOK, NumbersOK
<1>6. RowsOK(t)
  BY <1>1, <1>2 DEF SessionOK, RowsOK
<1>7. AnswerOK(c, t)
  BY <1>1 DEF SessionOK, AnswerOK, Ended, Firing, Resolved
<1>. QED  BY <1>3, <1>4, <1>5, <1>6, <1>7 DEF SessionOK

\* A session whose work on an alert is done goes on to the next.
LEMMA GoesOn ==
    ASSUME Inv, NEW c \in Calls, NEW u \in Session, SetCall(c, NextItem(c, u)), Keep,
           u.held = call[c].held, Own(call[c]) \subseteq Own(u), Finished(c, u)
    PROVE  Inv'
<1>1. PICK t : t = NextItem(c, u)
  OBVIOUS
<1>2. t \in Session /\ t.held = u.held /\ Own(t) = Own(u) /\ SessionOK(c, t)
  BY <1>1, NextItemIs, NextItemOK DEF Own
<1>. QED  BY <1>1, <1>2, OwnStep

\* A flush wants the locks of the rows it writes; which are none of incidents.
LEMMA DirtyLocks ==
    ASSUME Inv, NEW c \in Calls
    PROVE  /\ call[c].dirty \subseteq Locks
           /\ \A n \in Nat : NumberLock(n) \notin call[c].dirty
BY CallIs DEF Inv, SessionOK, LocksOK, Session

LEMMA CheckKeyKeeps ==
    ASSUME Inv, NEW c \in Calls, CheckKey(c)
    PROVE  Inv'
<1>1. PICK s : s = call[c]
  OBVIOUS
<1>2. s.pc = "checkKey" /\ s.wanted = {} /\ s.pc \in Firing
  BY <1>1 DEF CheckKey, At, Firing
<1>3. /\ s \in Session /\ s.pos \in Nat /\ Item(c) = Items[c][s.pos]
      /\ KeyOf(Item(c)) \in Keys /\ Item(c).status = "firing"
  BY <1>1, <1>2, AtIs
<1>4. CASE KeyOf(Item(c)) \in DOMAIN events \cup DOMAIN s.events
  <2>1. Finished(c, s)
    BY <1>1, <1>2, <1>3, <1>4, FinishedIs
  <2>. QED  BY <1>1, <1>3, <1>4, <2>1, GoesOn DEF CheckKey
<1>5. CASE KeyOf(Item(c)) \notin DOMAIN events \cup DOMAIN s.events
  <2>1. PICK locks : locks = (s.dirty \cup {KeyLock(KeyOf(Item(c)))}) \ s.held
    OBVIOUS
  <2>2. PICK t : t = [s EXCEPT !.pc = "insertEvent", !.wanted = locks]
    OBVIOUS
  <2>3. /\ locks \in SUBSET Locks /\ locks \cap s.held = {}
        /\ \A m \in Nat : NumberLock(m) \notin locks
        /\ KeyLock(KeyOf(Item(c))) \in s.held \cup locks
    BY <1>1, <1>3, <2>1, DirtyLocks, LocksAre, LocksDiffer
  <2>4. /\ t \in Session /\ t.pc = "insertEvent" /\ t.wanted = locks
        /\ t.pos = s.pos /\ t.held = s.held /\ t.dirty = s.dirty
        /\ t.events = s.events /\ t.written = s.written /\ t.unflushed = s.unflushed
    BY <1>3, <2>2, <2>3 DEF Session, Steps, Firing
  <2>5. SessionOK(c, t)
    BY <1>1, <1>2, <1>3, <1>5, <2>3, <2>4, NextStatementOK
  <2>6. Own(t) = Own(s)
    BY <2>4, SameRows
  <2>7. SetCall(c, t) /\ Keep
    BY <1>1, <1>5, <2>1, <2>2 DEF CheckKey, FlushLocks
  <2>. QED  BY <1>1, <2>4, <2>5, <2>6, <2>7, OwnStep
<1>. QED  BY <1>4, <1>5

LEMMA InsertEventKeeps ==
    ASSUME Inv, NEW c \in Calls, InsertEvent(c)
    PROVE  Inv'
<1>1. PICK s : s = call[c]
  OBVIOUS
<1>2. s.pc = "insertEvent" /\ s.wanted = {} /\ s.pc \in Firing
  BY <1>1 DEF InsertEvent, At, Firing
<1>3. /\ s \in Session /\ SessionOK(c, s) /\ s.pos \in DOMAIN Items[c]
      /\ Items[c][s.pos].status = "firing"
  BY <1>1, <1>2, AtIs
<1>4. PICK t : t = [s EXCEPT !.pc = "readAlert", !.dirty = {}, !.unflushed = EmptyTable,
                             !.written = Over(s.unflushed, s.written)]
  OBVIOUS
<1>5. /\ Over(s.unflushed, s.written) \in Table(Nat, Row)
      /\ EmptyTable \in Table(Nat, Row) /\ DOMAIN EmptyTable = {}
      /\ "readAlert" \in Steps
  BY <1>3, OverIsTable, EmptyIsTable DEF Session, Steps, Firing
<1>6. /\ t \in Session /\ t.pc = "readAlert" /\ t.pos = s.pos
      /\ t.held = s.held /\ t.wanted = {} /\ t.dirty = {} /\ t.events = s.events
      /\ t.written = Over(s.unflushed, s.written) /\ t.unflushed = EmptyTable
  BY <1>2, <1>3, <1>4, <1>5 DEF Session
<1>7. Own(t) = Own(s) /\ HeldNumbers(t) = HeldNumbers(s) /\ Pending(t) = {} /\ Pending(s) = {}
  <2>1. DOMAIN t.written = DOMAIN s.unflushed \cup DOMAIN s.written
    <3>1. t.written = Over(s.unflushed, s.written)
      BY <1>6
    <3>2. DOMAIN Over(s.unflushed, s.written) = DOMAIN s.unflushed \cup DOMAIN s.written
      BY OverIs
    <3>. QED  BY <3>1, <3>2
  <2>. QED  BY <1>2, <1>5, <1>6, <2>1 DEF Own, HeldNumbers, Pending
<1>8. DOMAIN All(t) = DOMAIN All(s) /\ \A n \in DOMAIN All(s) : All(t)[n] = All(s)[n]
  BY <1>5, <1>6 DEF All, Over
<1>9. Shape(c, t)
  BY <1>2, <1>3, <1>5, <1>6 DEF SessionOK, Shape, Ended, Firing, Resolved
<1>10. LocksOK(c, t)
  BY <1>2, <1>3, <1>6 DEF SessionOK, LocksOK
<1>11. NumbersOK(t)
  BY <1>2, <1>3, <1>6, <1>7 DEF SessionOK, NumbersOK
<1>12. RowsOK(t)
  <2>1. DOMAIN All(s) = DOMAIN alerts \cup Own(s)
    BY AllIs
  <2>. QED  BY <1>3, <1>6, <1>7, <1>8, <2>1 DEF SessionOK, RowsOK, RowsKept
<1>13. AnswerOK(c, t)
  BY <1>2, <1>3, <1>6 DEF SessionOK, AnswerOK, Ended
<1>14. SessionOK(c, t)
  BY <1>9, <1>10, <1>11, <1>12, <1>13 DEF SessionOK
<1>15. SetCall(c, t) /\ Keep
  BY <1>1, <1>4 DEF InsertEvent
<1>. QED  BY <1>1, <1>6, <1>7, <1>14, <1>15, OwnStep
\* The event of an alert that found its incident, or is about to insert it.
LEMMA JoinsIs ==
    ASSUME Inv, NEW c \in Calls, NEW s, s = call[c], s.pc \in Firing, NEW n \in Nat,
           NEW u, u = Joins(c, n)
    PROVE  /\ u \in Session /\ u.pos = s.pos /\ u.held = s.held /\ u.wanted = s.wanted
           /\ u.dirty = s.dirty /\ u.written = s.written /\ u.unflushed = s.unflushed
           /\ DOMAIN u.events = DOMAIN s.events \cup {KeyOf(Item(c))}
           /\ u.events[KeyOf(Item(c))] = n
           /\ \A key \in DOMAIN s.events : key # KeyOf(Item(c)) => u.events[key] = s.events[key]
<1>1. s \in Session /\ KeyOf(Item(c)) \in Keys
  BY AtIs
<1>2. PICK key : key = KeyOf(Item(c))
  OBVIOUS
<1>3. PICK ev : ev = Over(Only(key, n), s.events)
  OBVIOUS
<1>4. s.events \in Table(Keys, Nat)
  BY <1>1 DEF Session
<1>5. /\ Only(key, n) \in Table(Keys, Nat)
      /\ DOMAIN Only(key, n) = {key} /\ Only(key, n)[key] = n
  BY <1>1, <1>2, OnlyIsTable
<1>6. ev \in Table(Keys, Nat)
  BY <1>3, <1>4, <1>5, OverIsTable
<1>7. /\ DOMAIN ev = DOMAIN s.events \cup {key} /\ ev[key] = n
      /\ \A k \in DOMAIN s.events : k # key => ev[k] = s.events[k]
  <2>1. PICK f : f = Only(key, n)
    OBVIOUS
  <2>2. DOMAIN f = {key} /\ f[key] = n /\ ev = Over(f, s.events)
    BY <1>3, <1>5, <2>1
  <2>. QED  BY <2>2 DEF Over
<1>8. u = [s EXCEPT !.events = ev]
  BY <1>2, <1>3 DEF Joins
<1>9. /\ u \in Session /\ u.pos = s.pos /\ u.held = s.held /\ u.wanted = s.wanted
      /\ u.dirty = s.dirty /\ u.written = s.written /\ u.unflushed = s.unflushed
      /\ u.events = ev
  BY <1>1, <1>6, <1>8 DEF Session
<1>. QED  BY <1>2, <1>7, <1>9

LEMMA ReadAlertKeeps ==
    ASSUME Inv, NEW c \in Calls, ReadAlert(c)
    PROVE  Inv'
<1>1. PICK s : s = call[c]
  OBVIOUS
<1>2. s.pc = "readAlert" /\ s.wanted = {} /\ s.pc \in Firing
  BY <1>1 DEF ReadAlert, At, Firing
<1>3. /\ s \in Session /\ SessionOK(c, s) /\ s.pos \in DOMAIN Items[c]
      /\ Item(c) = Items[c][s.pos] /\ KeyOf(Item(c)) \in Keys /\ s.pos \in Nat
      /\ Items[c][s.pos].status = "firing"
  BY <1>1, <1>2, AtIs
<1>4. ASSUME NEW n \in OpenVisible(c),
             SetCall(c, NextItem(c, [Joins(c, n) EXCEPT !.dirty = @ \cup {AlertLock(n), IntegrationLock(c)}])),
             Keep
      PROVE  Inv'
  <2>1. DOMAIN s.unflushed = {}
    BY <1>2, <1>3 DEF SessionOK, Shape
  <2>2. DOMAIN Visible(c) = DOMAIN All(s) /\ \A m \in DOMAIN All(s) : All(s)[m] = Visible(c)[m]
    BY <1>1, <2>1 DEF Visible, All, Over
  <2>3. n \in DOMAIN All(s) /\ All(s)[n].fingerprint = Item(c).fingerprint
    BY <2>2 DEF OpenVisible
  <2>4. n \in Nat
    BY <1>3, <2>3, AllIsTable, TableIs DEF Inv
  <2>5. PICK v : v = Joins(c, n)
    OBVIOUS
  <2>6. /\ v \in Session /\ v.pos = s.pos /\ v.held = s.held /\ v.wanted = s.wanted
        /\ v.dirty = s.dirty /\ v.written = s.written /\ v.unflushed = s.unflushed
        /\ DOMAIN v.events = DOMAIN s.events \cup {KeyOf(Item(c))}
        /\ v.events[KeyOf(Item(c))] = n
        /\ \A key \in DOMAIN s.events : key # KeyOf(Item(c)) => v.events[key] = s.events[key]
    BY <1>1, <1>2, <2>4, <2>5, JoinsIs
  <2>7. PICK u : u = [v EXCEPT !.dirty = v.dirty \cup {AlertLock(n), IntegrationLock(c)}]
    OBVIOUS
  <2>8. {AlertLock(n), IntegrationLock(c)} \subseteq Locks
    BY <2>4, LocksAre
  <2>9. /\ u \in Session /\ u.pos = s.pos /\ u.held = s.held /\ u.wanted = {}
        /\ u.dirty = s.dirty \cup {AlertLock(n), IntegrationLock(c)}
        /\ u.written = s.written /\ u.unflushed = s.unflushed /\ u.events = v.events
    BY <1>2, <2>6, <2>7, <2>8 DEF Session
  <2>10. KeyOf(Item(c)) \notin DOMAIN s.events /\ KeyLock(KeyOf(Item(c))) \in s.held
    BY <1>2, <1>3 DEF SessionOK, Shape, LocksOK
  <2>11. Own(u) = Own(s) /\ All(u) = All(s) /\ HeldNumbers(u) = HeldNumbers(s)
    BY <2>9 DEF Own, All, HeldNumbers
  <2>12. RowsKept(u)
    <3>1. RowsKept(s) /\ KeyOf(Item(c))[1] = Item(c).fingerprint
      BY <1>3, ItemIs DEF SessionOK, RowsOK
    <3>2. \A key \in DOMAIN u.events : /\ u.events[key] \in DOMAIN All(u)
                                       /\ All(u)[u.events[key]].fingerprint = key[1]
      BY <2>3, <2>6, <2>9, <2>11, <3>1 DEF RowsKept
    <3>3. \A m \in Own(u) \ DOMAIN alerts : \E key \in DOMAIN u.events : u.events[key] = m
      BY <2>6, <2>9, <2>10, <2>11, <3>1 DEF RowsKept
    <3>. QED  BY <2>11, <3>1, <3>2, <3>3 DEF RowsKept
  <2>13. /\ \A lock \in u.held : ~Taken(lock)
         /\ \A key \in DOMAIN u.events : KeyLock(key) \in u.held
    BY <1>3, <2>6, <2>9, <2>10 DEF SessionOK, LocksOK
  <2>14. \A m \in Nat : NumberLock(m) \notin u.dirty
    BY <1>1, <2>9, DirtyLocks, LocksDiffer
  <2>15. /\ \E t \in Nat : DOMAIN alerts \cup HeldNumbers(u) = 1 .. t
         /\ DOMAIN alerts \cup HeldNumbers(u) = DOMAIN alerts \cup Own(u)
    <3>1. Pending(s) = {}
      BY <1>2 DEF Pending
    <3>. QED  BY <1>3, <2>11, <3>1 DEF SessionOK, NumbersOK
  <2>16. \A i \in DOMAIN Items[c] :
           i <= u.pos /\ Items[c][i].status = "firing" =>
               KeyOf(Items[c][i]) \in DOMAIN events \cup DOMAIN u.events
    <3>1. \A i \in DOMAIN Items[c] : i <= s.pos => i < s.pos \/ i = s.pos
      BY <1>3, ItemsAre
    <3>. QED  BY <1>2, <1>3, <2>6, <2>9, <3>1 DEF SessionOK, AnswerOK, Ended
  <2>17. u.pos \in 0 .. Len(Items[c])
    BY <1>3, <2>9, ItemsAre
  <2>18. Finished(c, u)
    BY <2>9, <2>12, <2>13, <2>14, <2>15, <2>16, <2>17 DEF Finished
  <2>19. SetCall(c, NextItem(c, u))
    BY <1>4, <2>5, <2>7
  <2>. QED  BY <1>1, <1>4, <2>9, <2>11, <2>18, <2>19, GoesOn
<1>5. CASE SetCall(c, [call[c] EXCEPT !.pc = "readMax"]) /\ Keep
  <2>1. PICK t : t = [s EXCEPT !.pc = "readMax"]
    OBVIOUS
  <2>2. /\ t \in Session /\ t.pc = "readMax" /\ t.wanted = {}
        /\ t.pos = s.pos /\ t.held = s.held /\ t.dirty = s.dirty
        /\ t.events = s.events /\ t.written = s.written /\ t.unflushed = s.unflushed
    BY <1>2, <1>3, <2>1 DEF Session, Steps, Firing
  <2>3. SessionOK(c, t)
    BY <1>1, <1>2, <1>3, <2>2, NextStatementOK
  <2>4. Own(t) = Own(s)
    BY <2>2, SameRows
  <2>. QED  BY <1>1, <1>5, <2>1, <2>2, <2>3, <2>4, OwnStep
<1>. QED  BY <1>4, <1>5 DEF ReadAlert
LEMMA MaxOfInterval ==
    ASSUME NEW t \in Nat
    PROVE  Max({0} \cup (1 .. t)) = t
<1>1. t \in {0} \cup (1 .. t) /\ \A y \in {0} \cup (1 .. t) : t >= y
  OBVIOUS
<1>2. \A x \in {0} \cup (1 .. t) : (\A y \in {0} \cup (1 .. t) : x >= y) => x = t
  BY <1>1
<1>. QED  BY <1>1, <1>2 DEF Max

LEMMA ReadMaxKeeps ==
    ASSUME Inv, NEW c \in Calls, ReadMax(c)
    PROVE  Inv'
<1>1. PICK s : s = call[c]
  OBVIOUS
<1>2. s.pc = "readMax" /\ s.wanted = {} /\ s.pc \in Firing
  BY <1>1 DEF ReadMax, At, Firing
<1>3. s \in Session /\ SessionOK(c, s)
  BY <1>1, <1>2, AtIs
<1>4. Pending(s) = {}
  BY <1>2 DEF Pending
<1>5. PICK k \in Nat : DOMAIN alerts \cup HeldNumbers(s) = 1 .. k
  BY <1>3 DEF SessionOK, NumbersOK
<1>6. DOMAIN alerts \cup Own(s) = 1 .. k
  BY <1>3, <1>4, <1>5 DEF SessionOK, NumbersOK
<1>7. DOMAIN Visible(c) \cup DOMAIN s.unflushed = 1 .. k
  <2>1. DOMAIN Visible(c) = DOMAIN s.written \cup DOMAIN alerts
    BY <1>1 DEF Visible, Over
  <2>. QED  BY <1>6, <2>1 DEF Own
<1>8. {0} \cup DOMAIN Visible(c) \cup DOMAIN s.unflushed = {0} \cup (1 .. k)
  BY <1>7
<1>9. Max({0} \cup DOMAIN Visible(c) \cup DOMAIN s.unflushed) = k
  BY <1>8, MaxOfInterval
<1>10. PICK n : n = k + 1
  OBVIOUS
<1>11. PICK locks : locks = {NumberLock(n), IntegrationLock(c)} \ s.held
  OBVIOUS
<1>12. PICK t : t = [s EXCEPT !.pc = "insertIncident", !.found = n, !.wanted = locks]
  OBVIOUS
<1>13. n \in Nat /\ locks \in SUBSET Locks /\ "insertIncident" \in Steps
  BY <1>10, <1>11, LocksAre DEF Steps, Firing
<1>14. /\ t \in Session /\ t.pc = "insertIncident" /\ t.found = n /\ t.wanted = locks
       /\ t.pos = s.pos /\ t.held = s.held /\ t.dirty = s.dirty
       /\ t.events = s.events /\ t.written = s.written /\ t.unflushed = s.unflushed
  BY <1>3, <1>12, <1>13 DEF Session
<1>15. SetCall(c, t) /\ Keep
  BY <1>1, <1>9, <1>10, <1>11, <1>12 DEF ReadMax, FlushLocks
<1>16. Own(t) = Own(s) /\ All(t) = All(s) /\ (RowsKept(s) => RowsKept(t))
  BY <1>14, SameRows
<1>17. NumberLock(n) \in locks /\ NumberLock(n) \notin s.held
  <2>1. n \notin 1 .. k
    BY <1>10
  <2>2. n \notin HeldNumbers(s)
    BY <1>5, <2>1
  <2>. QED  BY <1>11, <1>13, <2>2 DEF HeldNumbers
<1>18. Shape(c, t)
  BY <1>2, <1>3, <1>14 DEF SessionOK, Shape, Ended, Firing, Resolved
<1>19. LocksOK(c, t)
  <2>1. \A m \in Nat : NumberLock(m) \in t.wanted => m = n
    BY <1>11, <1>14, LocksDiffer
  <2>. QED  BY <1>2, <1>3, <1>14, <1>17, <2>1 DEF SessionOK, LocksOK
<1>20. NumbersOK(t)
  <2>1. HeldNumbers(t) = HeldNumbers(s) /\ Pending(t) = {}
    BY <1>14, <1>17 DEF HeldNumbers, Pending
  <2>2. t.found \in 1 .. k + 1
    BY <1>10, <1>14
  <2>. QED  BY <1>5, <1>6, <1>16, <2>1, <2>2 DEF NumbersOK
<1>21. RowsOK(t)
  BY <1>3, <1>14, <1>16 DEF SessionOK, RowsOK
<1>22. AnswerOK(c, t)
  BY <1>2, <1>3, <1>14 DEF SessionOK, AnswerOK, Ended
<1>23. SessionOK(c, t)
  BY <1>18, <1>19, <1>20, <1>21, <1>22 DEF SessionOK
<1>. QED  BY <1>1, <1>14, <1>15, <1>16, <1>23, OwnStep

LEMMA InsertIncidentKeeps ==
    ASSUME Inv, NEW c \in Calls, InsertIncident(c)
    PROVE  Inv'
<1>1. PICK s : s = call[c]
  OBVIOUS
<1>2. s.pc = "insertIncident" /\ s.wanted = {} /\ s.pc \in Firing
  BY <1>1 DEF InsertIncident, At, Firing
<1>3. /\ s \in Session /\ SessionOK(c, s) /\ s.pos \in DOMAIN Items[c]
      /\ Item(c) = Items[c][s.pos] /\ KeyOf(Item(c)) \in Keys /\ s.pos \in Nat
      /\ Items[c][s.pos].status = "firing"
  BY <1>1, <1>2, AtIs
<1>4. PICK n \in Nat : n = s.found
  BY <1>3 DEF Session
<1>5. PICK new : new = [fingerprint |-> Item(c).fingerprint, service |-> ServiceFor(c, Item(c)),
                        open |-> TRUE, resolvedBy |-> "nobody"]
  OBVIOUS
<1>6. new \in Row /\ new.fingerprint = Item(c).fingerprint /\ new.resolvedBy = "nobody"
  BY <1>3, <1>5, ItemIs DEF Row
<1>7. PICK v : v = Joins(c, n)
  OBVIOUS
<1>8. /\ v \in Session /\ v.pos = s.pos /\ v.held = s.held /\ v.wanted = s.wanted
      /\ v.dirty = s.dirty /\ v.written = s.written /\ v.unflushed = s.unflushed
      /\ DOMAIN v.events = DOMAIN s.events \cup {KeyOf(Item(c))}
      /\ v.events[KeyOf(Item(c))] = n
      /\ \A key \in DOMAIN s.events : key # KeyOf(Item(c)) => v.events[key] = s.events[key]
  BY <1>1, <1>2, <1>7, JoinsIs
<1>9. PICK table : table = Only(n, new)
  OBVIOUS
<1>10. table \in Table(Nat, Row) /\ DOMAIN table = {n} /\ table[n] = new
  <2>1. /\ Only(n, new) \in Table(Nat, Row)
        /\ DOMAIN Only(n, new) = {n} /\ Only(n, new)[n] = new
    <3>1. n \in Nat /\ new \in Row
      BY <1>6
    <3>. QED  BY ONLY <3>1, OnlyIsTable
  <2>. QED  BY <1>9, <2>1
<1>11. PICK u : u = [v EXCEPT !.unflushed = table]
  OBVIOUS
<1>12. /\ u \in Session /\ u.pos = s.pos /\ u.held = s.held /\ u.wanted = {}
       /\ u.dirty = s.dirty /\ u.events = v.events
       /\ u.written = s.written /\ u.unflushed = table
  BY <1>2, <1>8, <1>10, <1>11 DEF Session
<1>13. Pending(s) = {n} /\ n \in HeldNumbers(s) /\ n \notin Own(s)
  <2>1. Pending(s) = {n}
    BY <1>2, <1>4 DEF Pending
  <2>. QED  BY <1>3, <2>1 DEF SessionOK, NumbersOK
<1>14. n \notin DOMAIN alerts
  BY <1>3, <1>13, TakenIs DEF SessionOK, LocksOK, HeldNumbers
<1>15. DOMAIN s.unflushed = {}
  BY <1>2, <1>3 DEF SessionOK, Shape
<1>16. Own(u) = Own(s) \cup {n} /\ HeldNumbers(u) = HeldNumbers(s)
  BY <1>10, <1>12, <1>15 DEF Own, HeldNumbers
<1>17. /\ DOMAIN All(u) = DOMAIN All(s) \cup {n}
       /\ All(u)[n] = new
       /\ \A m \in DOMAIN All(s) : m # n /\ All(u)[m] = All(s)[m]
  <2>1. /\ DOMAIN All(u) = DOMAIN alerts \cup Own(u)
        /\ \A m \in DOMAIN u.unflushed : All(u)[m] = u.unflushed[m]
        /\ \A m \in DOMAIN u.written \ DOMAIN u.unflushed : All(u)[m] = u.written[m]
        /\ \A m \in DOMAIN alerts \ Own(u) : All(u)[m] = alerts[m]
    BY AllIs
  <2>2. /\ DOMAIN All(s) = DOMAIN alerts \cup Own(s)
        /\ \A m \in DOMAIN s.written \ DOMAIN s.unflushed : All(s)[m] = s.written[m]
        /\ \A m \in DOMAIN alerts \ Own(s) : All(s)[m] = alerts[m]
    BY AllIs
  <2>3. ASSUME NEW m \in DOMAIN All(s) PROVE m # n /\ All(u)[m] = All(s)[m]
    <3>1. m # n
      BY <1>13, <1>14, <2>2
    <3>2. CASE m \in Own(s)
      BY <1>10, <1>12, <1>15, <2>1, <2>2, <3>1, <3>2 DEF Own
    <3>3. CASE m \notin Own(s)
      BY <1>16, <2>1, <2>2, <3>1, <3>3
    <3>. QED  BY <3>1, <3>2, <3>3
  <2>4. All(u)[n] = new
    BY <1>10, <1>12, <2>1
  <2>. QED  BY <1>16, <2>1, <2>2, <2>3, <2>4
<1>18. KeyOf(Item(c)) \notin DOMAIN s.events /\ KeyLock(KeyOf(Item(c))) \in s.held
  BY <1>2, <1>3 DEF SessionOK, Shape, LocksOK
<1>19. RowsKept(u)
  <2>1. RowsKept(s) /\ KeyOf(Item(c))[1] = Item(c).fingerprint
    BY <1>3, ItemIs DEF SessionOK, RowsOK
  <2>2. DOMAIN All(s) = DOMAIN alerts \cup Own(s)
    BY AllIs
  <2>3. \A m \in DOMAIN alerts : All(u)[m].fingerprint = alerts[m].fingerprint
    BY <1>17, <2>1, <2>2 DEF RowsKept
  <2>4. \A m \in Own(u) : All(u)[m].open => All(u)[m].resolvedBy = "nobody"
    BY <1>6, <1>16, <1>17, <2>1, <2>2 DEF RowsKept
  <2>5. \A key \in DOMAIN u.events : /\ u.events[key] \in DOMAIN All(u)
                                     /\ All(u)[u.events[key]].fingerprint = key[1]
    BY <1>6, <1>8, <1>12, <1>17, <2>1 DEF RowsKept
  <2>6. \A m \in Own(u) \ DOMAIN alerts : \E key \in DOMAIN u.events : u.events[key] = m
    BY <1>8, <1>12, <1>16, <1>18, <2>1 DEF RowsKept
  <2>. QED  BY <2>3, <2>4, <2>5, <2>6 DEF RowsKept
<1>20. /\ \A lock \in u.held : ~Taken(lock)
       /\ \A key \in DOMAIN u.events : KeyLock(key) \in u.held
       /\ \A m \in Nat : NumberLock(m) \notin u.dirty
  BY <1>3, <1>8, <1>12, <1>18 DEF SessionOK, LocksOK
<1>21. /\ \E t \in Nat : DOMAIN alerts \cup HeldNumbers(u) = 1 .. t
       /\ DOMAIN alerts \cup HeldNumbers(u) = DOMAIN alerts \cup Own(u)
  BY <1>3, <1>13, <1>16 DEF SessionOK, NumbersOK
<1>22. \A i \in DOMAIN Items[c] :
         i <= u.pos /\ Items[c][i].status = "firing" =>
             KeyOf(Items[c][i]) \in DOMAIN events \cup DOMAIN u.events
  <2>1. \A i \in DOMAIN Items[c] : i <= s.pos => i < s.pos \/ i = s.pos
    BY <1>3, ItemsAre
  <2>. QED  BY <1>2, <1>3, <1>8, <1>12, <2>1 DEF SessionOK, AnswerOK, Ended
<1>23. u.pos \in 0 .. Len(Items[c])
  BY <1>3, <1>12, ItemsAre
<1>24. Finished(c, u)
  BY <1>12, <1>19, <1>20, <1>21, <1>22, <1>23 DEF Finished
<1>25. SetCall(c, NextItem(c, u)) /\ Keep
  BY <1>1, <1>4, <1>5, <1>7, <1>9, <1>11 DEF InsertIncident
<1>. QED  BY <1>1, <1>12, <1>16, <1>24, <1>25, GoesOn

LEMMA FindAlertKeeps ==
    ASSUME Inv, NEW c \in Calls, FindAlert(c)
    PROVE  Inv'
<1>1. PICK s : s = call[c]
  OBVIOUS
<1>2. s.pc = "findAlert" /\ s.wanted = {} /\ s.pc \in Resolved
  BY <1>1 DEF FindAlert, At, Resolved
<1>3. s \in Session /\ SessionOK(c, s) /\ s.pos \in DOMAIN Items[c]
  BY <1>1, <1>2, AtIs
<1>4. Finished(c, s)
  <2>1. Items[c][s.pos].status # "firing"
    BY <1>2, <1>3 DEF SessionOK, Shape
  <2>. QED  BY <1>1, <1>2, <2>1, FinishedIs
<1>5. CASE SetCall(c, NextItem(c, s)) /\ Keep
  BY <1>1, <1>3, <1>4, <1>5, GoesOn
<1>6. ASSUME NEW n \in OpenVisible(c), Keep,
             SetCall(c, [s EXCEPT !.pc = "resolve", !.found = n,
                                  !.wanted = {IncidentLock(n)} \cup FlushLocks(s, s.dirty)])
      PROVE  Inv'
  <2>1. n \in DOMAIN Visible(c)
    BY DEF OpenVisible
  <2>2. n \in DOMAIN All(s)
    BY <1>1, <2>1 DEF Visible, All, Over
  <2>3. n \in Nat
    BY <1>3, <2>2, AllIsTable, TableIs DEF Inv
  <2>4. PICK locks : locks = {IncidentLock(n)} \cup (s.dirty \ s.held)
    OBVIOUS
  <2>5. locks \in SUBSET Locks /\ \A m \in Nat : NumberLock(m) \notin locks
    BY <1>1, <2>3, <2>4, DirtyLocks, LocksAre, LocksDiffer
  <2>6. PICK t : t = [s EXCEPT !.pc = "resolve", !.found = n, !.wanted = locks]
    OBVIOUS
  <2>7. /\ t \in Session /\ t.pc = "resolve" /\ t.wanted = locks /\ t.found = n
        /\ t.pos = s.pos /\ t.held = s.held /\ t.dirty = s.dirty
        /\ t.events = s.events /\ t.written = s.written /\ t.unflushed = s.unflushed
    BY <1>3, <2>3, <2>5, <2>6 DEF Session, Steps, Resolved
  <2>8. SessionOK(c, t)
    BY <1>1, <1>2, <2>2, <2>5, <2>7, NextStatementOK
  <2>9. Own(t) = Own(s)
    BY <2>7, SameRows
  <2>10. SetCall(c, t)
    BY <1>6, <2>4, <2>6 DEF FlushLocks
  <2>. QED  BY <1>1, <1>6, <2>7, <2>8, <2>9, <2>10, OwnStep
<1>. QED  BY <1>1, <1>5, <1>6 DEF FindAlert
-----------------------------------------------------------------------------
(***************************************************************************)
(* COMMIT: of the call, or inside resolve_incident.                        *)
(***************************************************************************)
LEMMA NextItemAlwaysOK ==
    \A c \in Calls : \A u \in Session : Finished(c, u) => SessionOK(c, NextItem(c, u))
BY NextItemOK

LEMMA NextItemThenOK ==
    (\A c \in Calls : \A u \in Session : Finished(c, u) => SessionOK(c, NextItem(c, u)))'
BY NextItemAlwaysOK, PTL

LEMMA UniqueLocks ==
    ASSUME NEW lock \in Locks
    PROVE  /\ lock[1] = "event" => lock = KeyLock(lock[2])
           /\ lock[1] = "number" => lock = NumberLock(lock[2]) /\ lock[2] \in Nat
BY DEF Locks, KeyLock, NumberLock

\* What a session holds, nobody else has committed or changed.
LEMMA OthersApart ==
    ASSUME Inv, NEW c \in Calls, NEW d \in Calls, c # d,
           NEW s, s = call[c], NEW r, r = call[d], Pending(s) = {}
    PROVE  /\ HeldNumbers(r) \cap HeldNumbers(s) = {}
           /\ HeldNumbers(r) \cap DOMAIN alerts = {}
           /\ Own(r) \cap (DOMAIN alerts \cup Own(s)) \subseteq DOMAIN alerts
<1>1. SessionOK(c, s) /\ SessionOK(d, r) /\ s.held \cap r.held = {}
  BY DEF Inv, Exclusive
<1>2. HeldNumbers(r) \cap HeldNumbers(s) = {}
  BY <1>1 DEF HeldNumbers
<1>3. HeldNumbers(r) \cap DOMAIN alerts = {}
  BY <1>1, TakenIs DEF SessionOK, LocksOK, HeldNumbers
<1>4. Own(s) \subseteq DOMAIN alerts \cup HeldNumbers(s)
  BY <1>1 DEF SessionOK, NumbersOK
<1>5. Own(r) \subseteq DOMAIN alerts \cup HeldNumbers(r)
  BY <1>1 DEF SessionOK, NumbersOK
<1>. QED  BY <1>2, <1>3, <1>4, <1>5

\* If a session commits new numbers, no other holds any.
LEMMA OneNumberer ==
    ASSUME Inv, NEW c \in Calls, NEW d \in Calls, c # d,
           NEW s, s = call[c], NEW r, r = call[d], Pending(s) = {},
           NEW k \in Nat, DOMAIN alerts \cup Own(s) = 1 .. k
    PROVE  NumbersOK(r) => \/ DOMAIN alerts \cup Own(s) = DOMAIN alerts
                           \/ /\ HeldNumbers(r) = {} /\ Pending(r) = {} /\ Own(r) \subseteq DOMAIN alerts
                              /\ r.pc = "insertIncident" => r.found \in 1 .. k + 1
<1> SUFFICES ASSUME NumbersOK(r), DOMAIN alerts \cup Own(s) # DOMAIN alerts
             PROVE  /\ HeldNumbers(r) = {} /\ Pending(r) = {} /\ Own(r) \subseteq DOMAIN alerts
                    /\ r.pc = "insertIncident" => r.found \in 1 .. k + 1
  OBVIOUS
<1>1. PICK a \in Nat : DOMAIN alerts = 1 .. a
  BY DEF Inv, TablesOK, Dense
<1>2. PICK m \in Nat : /\ DOMAIN alerts \cup HeldNumbers(r) = 1 .. m
                       /\ r.pc = "insertIncident" => r.found \in 1 .. m + 1
  BY DEF NumbersOK
<1>3. DOMAIN alerts \cup HeldNumbers(s) = DOMAIN alerts \cup Own(s)
  BY DEF Inv, SessionOK, NumbersOK
<1>4. a < k
  <2>1. 1 .. a \subseteq 1 .. k /\ 1 .. a # 1 .. k
    BY <1>1
  <2>. QED  BY <2>1
<1>5. a + 1 \in HeldNumbers(s)
  BY <1>1, <1>3, <1>4
<1>6. a + 1 \notin DOMAIN alerts \cup HeldNumbers(r)
  <2>1. HeldNumbers(r) \cap HeldNumbers(s) = {}
    BY OthersApart
  <2>2. a + 1 \notin 1 .. a
    OBVIOUS
  <2>. QED  BY <1>1, <1>5, <2>1, <2>2
<1>7. m <= a
  BY <1>2, <1>6
<1>8. HeldNumbers(r) \subseteq DOMAIN alerts
  BY <1>1, <1>2, <1>7
<1>9. HeldNumbers(r) = {}
  BY <1>8, OthersApart
<1>10. Pending(r) = {} /\ Own(r) \subseteq DOMAIN alerts
  BY <1>9 DEF NumbersOK
<1>11. r.pc = "insertIncident" => r.found \in 1 .. k + 1
  BY <1>2, <1>4, <1>7
<1>. QED  BY <1>9, <1>10, <1>11

\* The COMMIT of session s as the others see it.
Commits(s) ==
    /\ events' = Over(s.events, events)
    /\ DOMAIN alerts' = DOMAIN All(s)
    /\ \A n \in DOMAIN All(s) : alerts'[n].fingerprint = All(s)[n].fingerprint

LEMMA CommitsIs ==
    ASSUME Inv, NEW c \in Calls, NEW s, s = call[c], Pending(s) = {}, Commits(s)
    PROVE  /\ DOMAIN events' = DOMAIN events \cup DOMAIN s.events
           /\ DOMAIN alerts' = DOMAIN alerts \cup Own(s)
           /\ \A n \in DOMAIN alerts : alerts'[n].fingerprint = alerts[n].fingerprint
           /\ TablesOK'
<1>1. SessionOK(c, s) /\ RowsKept(s)
  BY DEF Inv, SessionOK, RowsOK
<1>2. /\ DOMAIN events' = DOMAIN events \cup DOMAIN s.events
      /\ \A key \in DOMAIN s.events : events'[key] = s.events[key]
      /\ \A key \in DOMAIN events \ DOMAIN s.events : events'[key] = events[key]
  BY DEF Commits, Over
<1>3. DOMAIN alerts' = DOMAIN alerts \cup Own(s)
  BY AllIs DEF Commits
<1>4. \A n \in DOMAIN alerts : alerts'[n].fingerprint = alerts[n].fingerprint
  BY <1>1, <1>3 DEF Commits, RowsKept
<1>5. DOMAIN s.events \cap DOMAIN events = {}
  BY <1>1, TakenIs DEF SessionOK, LocksOK
<1>6. ASSUME NEW key \in DOMAIN events'
      PROVE  events'[key] \in DOMAIN alerts' /\ alerts'[events'[key]].fingerprint = key[1]
  <2>1. CASE key \in DOMAIN s.events
    <3>1. PICK n : n = s.events[key]
      OBVIOUS
    <3>2. events'[key] = n /\ n \in DOMAIN All(s) /\ All(s)[n].fingerprint = key[1]
      BY <1>1, <1>2, <2>1, <3>1 DEF RowsKept
    <3>. QED  BY <3>2 DEF Commits
  <2>2. CASE key \notin DOMAIN s.events
    <3>1. PICK n : n = events[key]
      OBVIOUS
    <3>2. events'[key] = n /\ n \in DOMAIN alerts /\ alerts[n].fingerprint = key[1]
      BY <1>2, <1>6, <2>2, <3>1 DEF Inv, TablesOK
    <3>. QED  BY <1>3, <1>4, <3>2
  <2>. QED  BY <2>1, <2>2
<1>7. ASSUME NEW n \in DOMAIN alerts'
      PROVE  \E key \in DOMAIN events' : events'[key] = n
  <2>1. CASE n \in DOMAIN alerts
    BY <1>2, <1>5, <2>1 DEF Inv, TablesOK
  <2>2. CASE n \in Own(s) \ DOMAIN alerts
    BY <1>1, <1>2, <2>2 DEF RowsKept
  <2>. QED  BY <1>3, <1>7, <2>1, <2>2
<1>8. Dense'
  BY <1>1, <1>3 DEF SessionOK, NumbersOK, Dense
<1>. QED  BY <1>2, <1>3, <1>4, <1>6, <1>7, <1>8 DEF TablesOK
\* The sessions of the others stand as they stood.
LEMMA OthersKeep ==
    ASSUME Inv, NEW c \in Calls, NEW d \in Calls, c # d,
           NEW s, s = call[c], NEW r, r = call[d], Pending(s) = {}, Commits(s)
    PROVE  SessionOK(d, r)'
<1>1. SessionOK(c, s) /\ SessionOK(d, r) /\ r \in Session /\ s.held \cap r.held = {}
  BY CallIs DEF Inv, Exclusive
<1>2. /\ DOMAIN events' = DOMAIN events \cup DOMAIN s.events
      /\ DOMAIN alerts' = DOMAIN alerts \cup Own(s)
      /\ \A n \in DOMAIN alerts : alerts'[n].fingerprint = alerts[n].fingerprint
  BY CommitsIs
<1>3. DOMAIN alerts \cup HeldNumbers(s) = DOMAIN alerts \cup Own(s)
  BY <1>1 DEF SessionOK, NumbersOK
<1>4. LocksOK(d, r)'
  <2>1. ASSUME NEW lock \in r.held PROVE ~Taken(lock)'
    <3>1. lock \in Locks /\ ~Taken(lock) /\ lock \notin s.held
      BY <1>1 DEF Session, SessionOK, LocksOK
    <3>2. ASSUME lock[1] = "event" PROVE lock[2] \notin DOMAIN s.events
      <4>1. lock = KeyLock(lock[2])
        BY <3>1, <3>2, UniqueLocks
      <4>. QED  BY <1>1, <3>1, <4>1 DEF SessionOK, LocksOK
    <3>3. ASSUME lock[1] = "number" PROVE lock[2] \notin HeldNumbers(s)
      <4>1. lock = NumberLock(lock[2])
        BY <3>1, <3>3, UniqueLocks
      <4>. QED  BY <3>1, <4>1 DEF HeldNumbers
    <3>. QED  BY <1>2, <1>3, <3>1, <3>2, <3>3 DEF Taken
  <2>. QED  BY <1>1, <2>1 DEF SessionOK, LocksOK
<1>5. PICK k \in Nat : DOMAIN alerts \cup Own(s) = 1 .. k
  BY <1>1, <1>3 DEF SessionOK, NumbersOK
<1>6. NumbersOK(r)'
  <2>1. CASE DOMAIN alerts \cup Own(s) = DOMAIN alerts
    BY <1>1, <1>2, <2>1 DEF SessionOK, NumbersOK
  <2>2. CASE /\ HeldNumbers(r) = {} /\ Pending(r) = {} /\ Own(r) \subseteq DOMAIN alerts
             /\ r.pc = "insertIncident" => r.found \in 1 .. k + 1
    <3>1. DOMAIN alerts' \cup HeldNumbers(r) = 1 .. k
      BY <1>2, <1>5, <2>2
    <3>2. DOMAIN alerts' \cup HeldNumbers(r) = DOMAIN alerts' \cup Own(r) \cup Pending(r)
      BY <1>2, <2>2
    <3>. QED  BY <2>2, <3>1, <3>2 DEF NumbersOK
  <2>3. NumbersOK(r)
    BY <1>1 DEF SessionOK
  <2>. QED  BY <1>5, <2>1, <2>2, <2>3, OneNumberer
<1>7. RowsOK(r)'
  <2>1. Own(r) \cap DOMAIN alerts' \subseteq DOMAIN alerts
    BY <1>2, OthersApart
  <2>2. /\ DOMAIN All(r)' = DOMAIN alerts' \cup Own(r)
        /\ \A n \in Own(r) : All(r)'[n] = All(r)[n]
        /\ \A n \in DOMAIN alerts' \ Own(r) : All(r)'[n] = alerts'[n]
    BY DEF All, Own, Over
  <2>3. /\ DOMAIN All(r) = DOMAIN alerts \cup Own(r)
        /\ \A n \in DOMAIN alerts \ Own(r) : All(r)[n] = alerts[n]
    BY AllIs
  <2>4. RowsKept(r)
    BY <1>1 DEF SessionOK, RowsOK
  <2>5. \A n \in DOMAIN All(r) : All(r)'[n].fingerprint = All(r)[n].fingerprint
    BY <1>2, <2>2, <2>3
  <2>6. \A n \in DOMAIN alerts' : All(r)'[n].fingerprint = alerts'[n].fingerprint
    <3>1. ASSUME NEW n \in DOMAIN alerts', n \in Own(r)
          PROVE  All(r)'[n].fingerprint = alerts'[n].fingerprint
      BY <1>2, <2>1, <2>2, <2>4, <3>1 DEF RowsKept
    <3>. QED  BY <2>2, <3>1
  <2>7. \A n \in Own(r) : All(r)'[n].open => All(r)'[n].resolvedBy = "nobody"
    BY <2>2, <2>4 DEF RowsKept
  <2>8. \A key \in DOMAIN r.events : /\ r.events[key] \in DOMAIN All(r)'
                                     /\ All(r)'[r.events[key]].fingerprint = key[1]
    BY <1>2, <2>2, <2>3, <2>4, <2>5 DEF RowsKept
  <2>9. \A n \in Own(r) \ DOMAIN alerts' : \E key \in DOMAIN r.events : r.events[key] = n
    BY <1>2, <2>4 DEF RowsKept
  <2>10. RowsKept(r)'
    BY <2>6, <2>7, <2>8, <2>9 DEF RowsKept
  <2>11. r.pc = "resolve" => r.found \in DOMAIN All(r)'
    BY <1>1, <1>2, <2>2, <2>3 DEF SessionOK, RowsOK
  <2>. QED  BY <2>10, <2>11 DEF RowsOK
<1>8. AnswerOK(d, r)'
  BY <1>1, <1>2 DEF SessionOK, AnswerOK
<1>9. Shape(d, r)
  BY <1>1 DEF SessionOK
<1>. QED  BY <1>4, <1>6, <1>7, <1>8, <1>9 DEF SessionOK

LEMMA WriteStep ==
    ASSUME Inv, NEW c \in Calls, NEW s, s = call[c], Pending(s) = {}, Commits(s),
           alerts' \in Table(Nat, Row), UNCHANGED <<lost, faults>>,
           NEW t \in Session, SetCall(c, t), t.held = {}, SessionOK(c, t)',
           \A n \in DOMAIN alerts' :
               alerts'[n].open /\ alerts'[n].resolvedBy = "grafana" =>
                   n \in Own(t) \/ (n \notin Own(s) /\ alerts'[n] = alerts[n])
    PROVE  Inv'
<1>1. /\ call' \in [Calls -> Session]
      /\ call'[c] = t /\ \A d \in Calls \ {c} : call'[d] = call[d]
  BY DEF Inv, TypeOK, SetCall
<1>2. /\ DOMAIN alerts' = DOMAIN alerts \cup Own(s)
      /\ TablesOK'
  BY CommitsIs
<1>3. TypeOK'
  <2>1. s.events \in Table(Keys, Nat) /\ events \in Table(Keys, Nat)
    BY CallIs DEF Inv, TypeOK, Session
  <2>2. events' \in Table(Keys, Nat)
    BY <2>1, OverIsTable DEF Commits
  <2>. QED  BY <1>1, <2>2 DEF Inv, TypeOK
<1>4. Exclusive'
  BY <1>1 DEF Inv, Exclusive
<1>5. SilentOK'
  <2>1. ASSUME NEW n \in DOMAIN alerts', alerts'[n].open, alerts'[n].resolvedBy = "grafana"
        PROVE  n \in lost' \/ \E d \in Calls : n \in Own(call'[d])
    <3>1. CASE n \in Own(t)
      BY <1>1, <3>1
    <3>2. CASE n \notin Own(s) /\ alerts'[n] = alerts[n]
      <4>1. n \in DOMAIN alerts
        BY <1>2, <3>2
      <4>2. Closing(n)
        BY <2>1, <3>2, <4>1 DEF Inv, SilentOK
      <4>3. CASE n \in lost
        BY <4>3
      <4>4. ASSUME NEW d \in Calls, n \in Own(call[d])
            PROVE  n \in Own(call'[d])
        BY <1>1, <3>2, <4>4
      <4>. QED  BY <4>2, <4>3, <4>4 DEF Closing
    <3>. QED  BY <2>1, <3>1, <3>2
  <2>. QED  BY <2>1 DEF SilentOK, Closing
<1>6. ASSUME NEW d \in Calls PROVE SessionOK(d, call[d])'
  <2>1. CASE d = c
    BY <1>1, <2>1
  <2>2. CASE d # c
    <3>1. PICK r : r = call[d]
      OBVIOUS
    <3>2. SessionOK(d, r)'
      BY <2>2, <3>1, OthersKeep
    <3>. QED  BY <1>1, <2>2, <3>1, <3>2
  <2>. QED  BY <2>1, <2>2
<1>. QED  BY <1>2, <1>3, <1>4, <1>5, <1>6 DEF Inv
LEMMA CommitKeeps ==
    ASSUME Inv, NEW c \in Calls, Commit(c)
    PROVE  Inv'
<1>1. PICK s : s = call[c]
  OBVIOUS
<1>2. s.pc = "commit" /\ s \in Session /\ SessionOK(c, s)
  BY <1>1, CallIs DEF Commit, At, Inv
<1>3. events' = Over(s.events, events) /\ alerts' = All(s) /\ UNCHANGED <<lost, faults>>
  BY <1>1 DEF Commit, All
<1>4. alerts' \in Table(Nat, Row)
  BY <1>2, <1>3, AllIsTable DEF Inv
<1>5. Commits(s)
  BY <1>3 DEF Commits
<1>6. Pending(s) = {}
  BY <1>2 DEF Pending
<1>7. /\ DOMAIN events' = DOMAIN events \cup DOMAIN s.events
      /\ DOMAIN alerts' = DOMAIN alerts \cup Own(s)
      /\ TablesOK'
  BY <1>1, <1>5, <1>6, CommitsIs
<1>8. PICK t : t = NewSession("done")
  OBVIOUS
<1>9. /\ t \in Session /\ t.pc = "done" /\ t.held = {} /\ t.wanted = {} /\ t.dirty = {}
      /\ DOMAIN t.events = {} /\ DOMAIN t.written = {} /\ DOMAIN t.unflushed = {}
  BY <1>8, FreshIsSession DEF Steps, Ended
<1>10. Own(t) = {} /\ HeldNumbers(t) = {} /\ Pending(t) = {}
  BY <1>9 DEF Own, HeldNumbers, Pending
<1>11. SessionOK(c, t)'
  <2>1. Shape(c, t)
    BY <1>9, <1>10 DEF Shape, Ended, Firing, Resolved
  <2>2. LocksOK(c, t)'
    BY <1>9 DEF LocksOK
  <2>3. NumbersOK(t)'
    BY <1>7, <1>9, <1>10 DEF NumbersOK, TablesOK, Dense
  <2>4. RowsOK(t)'
    <3>1. \A n \in DOMAIN alerts' : All(t)'[n] = alerts'[n]
      BY <1>9 DEF All, Over
    <3>. QED  BY <1>9, <1>10, <3>1 DEF RowsOK, RowsKept
  <2>5. AnswerOK(c, t)'
    <3>1. s.pos = Len(Items[c]) + 1
      BY <1>2 DEF SessionOK, Shape
    <3>2. \A i \in DOMAIN Items[c] : i < s.pos
      BY <3>1, ItemsAre
    <3>3. \A i \in DOMAIN Items[c] :
            Items[c][i].status = "firing" => KeyOf(Items[c][i]) \in DOMAIN events'
      BY <1>2, <1>7, <3>2 DEF SessionOK, AnswerOK, Ended
    <3>. QED  BY <1>9, <3>3 DEF AnswerOK, Ended
  <2>. QED  BY <2>1, <2>2, <2>3, <2>4, <2>5 DEF SessionOK
<1>12. ASSUME NEW n \in DOMAIN alerts', alerts'[n].open, alerts'[n].resolvedBy = "grafana"
       PROVE  n \notin Own(s) /\ alerts'[n] = alerts[n]
  BY <1>2, <1>3, <1>7, <1>12, AllIs DEF SessionOK, RowsOK, RowsKept
<1>13. SetCall(c, t)
  BY <1>8 DEF Commit
<1>. QED  BY <1>1, <1>3, <1>4, <1>5, <1>6, <1>9, <1>11, <1>12, <1>13, WriteStep

\* resolve_incident: the next item starts with one alert closed in memory.
LEMMA ResolveKeeps ==
    ASSUME Inv, NEW c \in Calls, Resolve(c)
    PROVE  Inv'
<1>1. PICK s : s = call[c]
  OBVIOUS
<1>2. s.pc = "resolve" /\ s.pc \in Resolved
  BY <1>1 DEF Resolve, At, Resolved
<1>3. /\ s \in Session /\ SessionOK(c, s) /\ s.pos \in DOMAIN Items[c] /\ s.pos \in Nat
  BY <1>1, <1>2, AtIs
<1>4. PICK n : n = s.found
  OBVIOUS
<1>5. n \in DOMAIN All(s) /\ All(s) \in Table(Nat, Row)
  BY <1>2, <1>3, <1>4, AllIsTable DEF SessionOK, RowsOK, Inv
<1>6. n \in Nat /\ All(s)[n] \in Row
  BY <1>5, TableIs
<1>7. PICK row : row = [All(s)[n] EXCEPT !.resolvedBy = IF @ = "nobody" THEN "grafana" ELSE @]
  OBVIOUS
<1>8. row \in Row /\ row.fingerprint = All(s)[n].fingerprint
  BY <1>6, <1>7 DEF Row
<1>9. PICK shut : shut = [row EXCEPT !.open = FALSE]
  OBVIOUS
<1>10. shut \in Row /\ shut.fingerprint = row.fingerprint /\ ~shut.open
  BY <1>8, <1>9 DEF Row
<1>11. PICK u : u = [NewSession("resolve") EXCEPT
                        !.pos = s.pos, !.dirty = {AlertLock(n)}, !.unflushed = Only(n, shut)]
  OBVIOUS
<1>12. /\ events' = Over(s.events, events)
       /\ alerts' = [All(s) EXCEPT ![n] = row]
       /\ SetCall(c, NextItem(c, u))
       /\ UNCHANGED <<lost, faults>>
  BY <1>1, <1>4, <1>7, <1>9, <1>11 DEF Resolve, All, Closed
<1>13. /\ alerts' \in Table(Nat, Row) /\ DOMAIN alerts' = DOMAIN All(s)
       /\ alerts'[n] = row /\ \A m \in DOMAIN All(s) \ {n} : alerts'[m] = All(s)[m]
  <2>1. PICK E \in SUBSET Nat : All(s) \in [E -> Row]
    BY <1>5 DEF Table
  <2>2. alerts' \in [E -> Row]
    BY <1>8, <1>12, <2>1
  <2>3. alerts' \in Table(Nat, Row)
    BY <2>2 DEF Table
  <2>. QED  BY <1>5, <1>12, <2>3
<1>14. Commits(s)
  BY <1>8, <1>12, <1>13 DEF Commits
<1>15. Pending(s) = {}
  BY <1>2 DEF Pending
<1>16. /\ DOMAIN events' = DOMAIN events \cup DOMAIN s.events
       /\ DOMAIN alerts' = DOMAIN alerts \cup Own(s)
       /\ TablesOK'
  BY <1>1, <1>14, <1>15, CommitsIs
<1>17. /\ u \in Session /\ u.pos = s.pos /\ u.held = {} /\ u.wanted = {}
       /\ u.dirty = {AlertLock(n)}
       /\ DOMAIN u.events = {} /\ DOMAIN u.written = {} /\ u.unflushed = Only(n, shut)
  <2>1. PICK e : e = NewSession("resolve")
    OBVIOUS
  <2>2. /\ e \in Session /\ e.held = {} /\ e.wanted = {}
        /\ DOMAIN e.events = {} /\ DOMAIN e.written = {}
    BY <2>1, FreshIsSession DEF Steps, Resolved
  <2>3. AlertLock(n) \in Locks /\ Only(n, shut) \in Table(Nat, Row)
    BY <1>6, <1>10, LocksAre, OnlyIsTable
  <2>4. u = [e EXCEPT !.pos = s.pos, !.dirty = {AlertLock(n)}, !.unflushed = Only(n, shut)]
    BY <1>11, <2>1
  <2>. QED  BY <1>3, <2>2, <2>3, <2>4 DEF Session
<1>18. DOMAIN u.unflushed = {n} /\ u.unflushed[n] = shut
  <2>1. DOMAIN Only(n, shut) = {n} /\ Only(n, shut)[n] = shut
    BY DEF Only
  <2>2. PICK f : f = Only(n, shut)
    OBVIOUS
  <2>3. DOMAIN f = {n} /\ f[n] = shut
    BY <2>1, <2>2
  <2>4. u.unflushed = f
    BY <1>17, <2>2
  <2>. QED  BY <2>3, <2>4
<1>19. Own(u) = {n} /\ HeldNumbers(u) = {}
  <2>1. Own(u) = DOMAIN u.written \cup DOMAIN u.unflushed
    BY DEF Own
  <2>2. Own(u) = {n}
    BY ONLY <1>17, <1>18, <2>1
  <2>3. HeldNumbers(u) = {}
    BY <1>17 DEF HeldNumbers
  <2>. QED  BY <2>2, <2>3
<1>20. RowsKept(u)'
  <2>1. All(u)'[n] = shut /\ \A m \in DOMAIN alerts' \ {n} : All(u)'[m] = alerts'[m]
    BY <1>17, <1>18 DEF All, Over
  <2>2. n \in DOMAIN alerts'
    BY <1>5, <1>13
  <2>. QED  BY <1>10, <1>13, <1>17, <1>19, <2>1, <2>2 DEF RowsKept
<1>21. Finished(c, u)'
  <2>1. u.pos \in 0 .. Len(Items[c])
    BY <1>3, <1>17, ItemsAre
  <2>2. \A m \in Nat : NumberLock(m) \notin u.dirty
    BY <1>17, LocksDiffer
  <2>3. /\ \E t \in Nat : DOMAIN alerts' \cup HeldNumbers(u) = 1 .. t
        /\ DOMAIN alerts' \cup HeldNumbers(u) = DOMAIN alerts' \cup Own(u)
    BY <1>5, <1>13, <1>16, <1>19 DEF TablesOK, Dense
  <2>4. \A i \in DOMAIN Items[c] :
          i <= u.pos /\ Items[c][i].status = "firing" => KeyOf(Items[c][i]) \in DOMAIN events'
    <3>1. Items[c][s.pos].status # "firing"
      BY <1>2, <1>3 DEF SessionOK, Shape
    <3>2. \A i \in DOMAIN Items[c] : i <= s.pos => i < s.pos \/ i = s.pos
      BY <1>3, ItemsAre
    <3>3. s.pc \notin Ended
      BY <1>2 DEF Ended
    <3>. QED  BY <1>3, <1>16, <1>17, <3>1, <3>2, <3>3 DEF SessionOK, AnswerOK
  <2>. QED  BY <1>17, <1>20, <2>1, <2>2, <2>3, <2>4 DEF Finished
<1>22. PICK t : t = NextItem(c, u)
  OBVIOUS
<1>23. t \in Session /\ t.held = {} /\ Own(t) = {n}
  BY <1>17, <1>19, <1>22, NextItemIs DEF Own
<1>24. SessionOK(c, t)'
  BY <1>17, <1>21, <1>22, NextItemThenOK
<1>25. \A m \in DOMAIN alerts' \ {n} :
         alerts'[m].open /\ alerts'[m].resolvedBy = "grafana" =>
             m \notin Own(s) /\ alerts'[m] = alerts[m]
  <2>1. \A m \in Own(s) : All(s)[m].open => All(s)[m].resolvedBy = "nobody"
    BY <1>3 DEF SessionOK, RowsOK, RowsKept
  <2>2. \A m \in DOMAIN alerts' \ {n} : alerts'[m] = All(s)[m]
    BY <1>13
  <2>3. \A m \in DOMAIN alerts' \ Own(s) : All(s)[m] = alerts[m]
    BY <1>16, AllIs
  <2>. QED  BY ONLY <2>1, <2>2, <2>3
<1>26. SetCall(c, t)
  BY <1>12, <1>22
<1>. QED
  <2>1. \A m \in DOMAIN alerts' :
          alerts'[m].open /\ alerts'[m].resolvedBy = "grafana" =>
              m \in Own(t) \/ (m \notin Own(s) /\ alerts'[m] = alerts[m])
    <3>1. n \in Own(t)
      BY <1>23
    <3>. QED  BY ONLY <1>25, <3>1
  <2>. QED
    BY <1>1, <1>12, <1>13, <1>14, <1>15, <1>23, <1>24, <1>26, <2>1, WriteStep
-----------------------------------------------------------------------------
(***************************************************************************)
(* The other steps, and the invariant.                                     *)
(***************************************************************************)
LEMMA OperatorKeeps ==
    ASSUME Inv, NEW n \in DOMAIN alerts, OperatorResolves(n)
    PROVE  Inv'
<1>1. PICK row : row = [alerts[n] EXCEPT !.resolvedBy = "operator"]
  OBVIOUS
<1>2. alerts[n] \in Row /\ alerts \in Table(Nat, Row)
  BY TableIs DEF Inv, TypeOK
<1>3. row \in Row /\ row.fingerprint = alerts[n].fingerprint /\ row.resolvedBy = "operator"
  BY <1>1, <1>2 DEF Row
<1>4. alerts' = [alerts EXCEPT ![n] = row] /\ UNCHANGED <<events, call, lost, faults>>
  BY <1>1 DEF OperatorResolves
<1>5. /\ alerts' \in Table(Nat, Row) /\ DOMAIN alerts' = DOMAIN alerts
      /\ alerts'[n] = row /\ \A m \in DOMAIN alerts \ {n} : alerts'[m] = alerts[m]
  <2>1. PICK E \in SUBSET Nat : alerts \in [E -> Row]
    BY <1>2 DEF Table
  <2>2. alerts' \in [E -> Row]
    BY <1>3, <1>4, <2>1
  <2>3. alerts' \in Table(Nat, Row)
    BY <2>2 DEF Table
  <2>. QED  BY <1>4, <2>3
<1>6. \A m \in DOMAIN alerts : alerts'[m].fingerprint = alerts[m].fingerprint
  BY <1>3, <1>5
<1>7. TypeOK' /\ Exclusive' /\ TablesOK'
  BY <1>4, <1>5, <1>6 DEF Inv, TypeOK, Exclusive, TablesOK, Dense
<1>8. SilentOK'
  BY <1>3, <1>4, <1>5 DEF Inv, SilentOK, Closing
<1>9. ASSUME NEW d \in Calls PROVE SessionOK(d, call[d])'
  <2>1. PICK r : r = call[d]
    OBVIOUS
  <2>2. SessionOK(d, r)
    BY <2>1 DEF Inv
  <2>3. LocksOK(d, r)'
    BY <1>4, <1>5, <2>2 DEF SessionOK, LocksOK, Taken
  <2>4. NumbersOK(r)' /\ AnswerOK(d, r)'
    BY <1>4, <1>5, <2>2 DEF SessionOK, NumbersOK, AnswerOK
  <2>5. RowsOK(r)'
    <3>1. /\ DOMAIN All(r)' = DOMAIN All(r)
          /\ \A m \in Own(r) : All(r)'[m] = All(r)[m]
          /\ \A m \in DOMAIN alerts \ Own(r) : All(r)'[m] = alerts'[m]
      BY <1>5 DEF All, Own, Over
    <3>2. /\ DOMAIN All(r) = DOMAIN alerts \cup Own(r)
          /\ \A m \in DOMAIN alerts \ Own(r) : All(r)[m] = alerts[m]
      BY AllIs
    <3>3. \A m \in DOMAIN All(r) : All(r)'[m].fingerprint = All(r)[m].fingerprint
      BY <1>6, <3>1, <3>2
    <3>4. RowsKept(r)
      BY <2>2 DEF SessionOK, RowsOK
    <3>5. \A m \in DOMAIN alerts' : All(r)'[m].fingerprint = alerts'[m].fingerprint
      BY <1>5, <1>6, <3>2, <3>3, <3>4 DEF RowsKept
    <3>6. \A m \in Own(r) : All(r)'[m].open => All(r)'[m].resolvedBy = "nobody"
      BY <3>1, <3>4 DEF RowsKept
    <3>7. \A key \in DOMAIN r.events : /\ r.events[key] \in DOMAIN All(r)'
                                       /\ All(r)'[r.events[key]].fingerprint = key[1]
      BY <3>1, <3>3, <3>4 DEF RowsKept
    <3>8. \A m \in Own(r) \ DOMAIN alerts' : \E key \in DOMAIN r.events : r.events[key] = m
      BY <1>5, <3>4 DEF RowsKept
    <3>9. RowsKept(r)'
      BY <3>5, <3>6, <3>7, <3>8 DEF RowsKept
    <3>. QED  BY <2>2, <3>1, <3>9 DEF SessionOK, RowsOK
  <2>6. SessionOK(d, r)'
    BY <2>2, <2>3, <2>4, <2>5 DEF SessionOK
  <2>. QED  BY <1>4, <2>1, <2>6
<1>. QED  BY <1>7, <1>8, <1>9 DEF Inv

LEMMA StutterKeeps ==
    ASSUME Inv, UNCHANGED vars
    PROVE  Inv'
<1>1. UNCHANGED <<events, alerts, call, lost, faults>>
  BY DEF vars
<1>2. TypeOK' /\ Exclusive' /\ TablesOK' /\ SilentOK'
  BY <1>1 DEF Inv, TypeOK, Exclusive, TablesOK, Dense, SilentOK, Closing
<1>3. ASSUME NEW d \in Calls PROVE SessionOK(d, call[d])'
  <2>1. PICK r : r = call[d]
    OBVIOUS
  <2>2. SessionOK(d, r)
    BY <2>1 DEF Inv
  <2>3. All(r)' = All(r)
    BY <1>1 DEF All
  <2>4. LocksOK(d, r)' /\ NumbersOK(r)' /\ RowsOK(r)' /\ AnswerOK(d, r)'
    BY <1>1, <2>2, <2>3
       DEF SessionOK, LocksOK, Taken, NumbersOK, RowsOK, RowsKept, AnswerOK
  <2>. QED  BY <1>1, <2>1, <2>2, <2>4 DEF SessionOK
<1>. QED  BY <1>2, <1>3 DEF Inv

LEMMA Keeps == Inv /\ [Next]_vars => Inv'
<1> SUFFICES ASSUME Inv, [Next]_vars PROVE Inv'
  OBVIOUS
<1>1. ASSUME NEW c \in Calls, Post(c) PROVE Inv'
  BY <1>1, PostKeeps
<1>2. ASSUME NEW c \in Calls, Step(c) PROVE Inv'
  <2>1. CASE Acquire(c)
    BY <2>1, TakeKeeps DEF Acquire, First
  <2>2. CASE CheckKey(c)
    BY <2>2, CheckKeyKeeps
  <2>3. CASE InsertEvent(c)
    BY <2>3, InsertEventKeeps
  <2>4. CASE ReadAlert(c)
    BY <2>4, ReadAlertKeeps
  <2>5. CASE ReadMax(c)
    BY <2>5, ReadMaxKeeps
  <2>6. CASE InsertIncident(c)
    BY <2>6, InsertIncidentKeeps
  <2>7. CASE FindAlert(c)
    BY <2>7, FindAlertKeeps
  <2>8. CASE Resolve(c)
    BY <2>8, ResolveKeeps
  <2>9. CASE Commit(c)
    BY <2>9, CommitKeeps
  <2>. QED  BY <1>2, <2>1, <2>2, <2>3, <2>4, <2>5, <2>6, <2>7, <2>8, <2>9 DEF Step
<1>3. ASSUME NEW c \in Calls, AbortVictim(c) PROVE Inv'
  BY <1>3, FailKeeps DEF AbortVictim, Inv, TypeOK
<1>4. ASSUME NEW c \in Calls, Cut(c) PROVE Inv'
  <2>1. faults' \in Nat
    BY <1>4 DEF Cut, Inv, TypeOK
  <2>. QED  BY <1>4, <2>1, FailKeeps DEF Cut
<1>5. ASSUME NEW n \in DOMAIN alerts, OperatorResolves(n) PROVE Inv'
  BY <1>5, OperatorKeeps
<1>. QED  BY <1>1, <1>2, <1>3, <1>4, <1>5, StutterKeeps DEF Next

LEMMA Invariant == Spec => []Inv
BY Initially, Keeps, PTL DEF Spec

\* Every call, table and lock has its type.
THEOREM TypeCorrect == Spec => []TypeOK
BY Invariant, PTL DEF Inv

\* Whatever is committed half-way, repeated, aborted or cut off: the firing
\* alerts of an answered call are recorded, in alerts of their fingerprint, of
\* which none is without an event, and the numbers have no gap.
THEOREM BatchIsAccounted == Spec => []BatchAccounted
<1>1. Inv => BatchAccounted
  <2> SUFFICES ASSUME Inv PROVE BatchAccounted
    OBVIOUS
  <2>1. ASSUME NEW c \in Calls, call[c].pc = "done", NEW item \in Range(Items[c]),
               item.status = "firing"
        PROVE  KeyOf(item) \in DOMAIN events
    <3>1. PICK i \in DOMAIN Items[c] : Items[c][i] = item
      BY DEF Range
    <3>. QED  BY <2>1, <3>1 DEF Inv, SessionOK, AnswerOK
  <2>2. Range(events) = DOMAIN alerts
    BY DEF Inv, TablesOK, Range
  <2>3. PICK k \in Nat : DOMAIN alerts = 1 .. k
    BY DEF Inv, TablesOK, Dense
  <2>4. Cardinality(1 .. k) = k
    <3>1. IsFiniteSet(1 .. k)
      BY FS_Interval
    <3>. QED  BY <2>3, FS_Interval
  <2>5. DOMAIN alerts = 1 .. Cardinality(DOMAIN alerts)
    BY <2>3, <2>4
  <2>. QED  BY <2>1, <2>2, <2>5 DEF BatchAccounted, Inv, TablesOK
<1>. QED  BY <1>1, Invariant, PTL

\* An alert left open behind an incident Grafana resolved is always the trace
\* of a call at work or of one that failed after its first COMMIT.
THEOREM SilenceIsExplained == Spec => []SilentOnlyByFailure
<1>1. Inv => SilentOnlyByFailure
  BY DEF Inv, SilentOK, Closing, Own, SilentOnlyByFailure
<1>. QED  BY <1>1, Invariant, PTL
-----------------------------------------------------------------------------
(***************************************************************************)
(* Deadlocks: a call with one alert takes its locks in the order of ranks. *)
(***************************************************************************)
LEMMA RankIs ==
    ASSUME NEW lock \in Locks
    PROVE  /\ lock[1] \in {"event", "number", "alert", "incident", "integration"}
           /\ Rank[lock[1]] \in 1 .. 3
           /\ lock[1] # "integration" => Rank[lock[1]] < 3 /\ Mapper[lock[1]] < 4
           /\ lock[1] = "integration" => Rank[lock[1]] = 3 /\ Mapper[lock[1]] = 4
<1>1. lock[1] \in {"event", "number", "alert", "incident", "integration"}
  BY DEF Locks
<1>2. /\ Rank["event"] = 1 /\ Rank["incident"] = 1 /\ Rank["alert"] = 2
      /\ Rank["number"] = 2 /\ Rank["integration"] = 3
  BY DEF Rank
<1>3. /\ Mapper["event"] = 2 /\ Mapper["incident"] = 0 /\ Mapper["alert"] = 1
      /\ Mapper["number"] = 3 /\ Mapper["integration"] = 4
  BY DEF Mapper
<1>. QED  BY <1>1, <1>2, <1>3

LEMMA KindsAre ==
    /\ \A k : KeyLock(k)[1] = "event" /\ Rank[KeyLock(k)[1]] = 1
    /\ \A n : NumberLock(n)[1] = "number" /\ Rank[NumberLock(n)[1]] = 2
    /\ \A n : AlertLock(n)[1] = "alert" /\ Rank[AlertLock(n)[1]] = 2
    /\ \A n : IncidentLock(n)[1] = "incident" /\ Rank[IncidentLock(n)[1]] = 1
    /\ \A c : IntegrationLock(c)[1] = "integration" /\ Rank[IntegrationLock(c)[1]] = 3
    /\ Rank["event"] = 1
BY DEF KeyLock, NumberLock, AlertLock, IncidentLock, IntegrationLock, Rank

\* A session that holds nothing and wants nothing.
LEMMA EmptyInOrder ==
    ASSUME NEW t, t.held = {}, t.wanted = {}, t.dirty = {}
    PROVE  InOrder(t)
BY DEF InOrder

\* Behind the one alert of a call comes its COMMIT.
LEMMA OneItem ==
    ASSUME NEW c \in Calls, Single(c), NEW u \in Session, u.pos \in DOMAIN Items[c],
           NEW t, t = NextItem(c, u)
    PROVE  /\ t.pc = "commit" /\ t.held = u.held /\ t.wanted = u.dirty \ u.held
           /\ t.dirty = u.dirty
<1>1. u.pos = 1 /\ ~(2 \in DOMAIN Items[c])
  BY ItemsAre DEF Single
<1>. QED  BY <1>1, NextItemIs

LEMMA CommitInOrder ==
    ASSUME NEW t, t.pc = "commit",
           \A h \in t.held, w \in t.wanted : Rank[h[1]] < Rank[w[1]],
           \A v, w \in t.wanted : v # w => v[1] # w[1] /\ "integration" \in {v[1], w[1]}
    PROVE  InOrder(t)
BY DEF InOrder

LEMMA TakeInOrder ==
    ASSUME Inv, NEW c \in Calls, InOrder(call[c]), NEW lock \in First(c), Take(c, lock)
    PROVE  InOrder(call'[c])
<1>1. PICK s : s = call[c]
  OBVIOUS
<1>2. s \in Session /\ SessionOK(c, s) /\ InOrder(s)
  BY <1>1, CallIs DEF Inv
<1>3. /\ lock \in s.wanted
      /\ \A other \in s.wanted \ {lock} : FlushedBefore(lock, other)
  BY <1>1 DEF First
<1>4. CASE Fail(c)
  <2>1. PICK t : t = NewSession("failed")
    OBVIOUS
  <2>2. t.held = {} /\ t.wanted = {} /\ t.dirty = {}
    BY <2>1, FreshIsSession DEF Steps, Ended
  <2>3. call'[c] = t
    BY <1>4, <2>1 DEF Fail, SetCall, Inv, TypeOK
  <2>. QED  BY <2>2, <2>3, EmptyInOrder
<1>5. CASE SetCall(c, [call[c] EXCEPT !.held = @ \cup {lock}, !.wanted = @ \ {lock}])
  <2>1. PICK t : t = [s EXCEPT !.held = s.held \cup {lock}, !.wanted = s.wanted \ {lock}]
    OBVIOUS
  <2>2. /\ t.pc = s.pc /\ t.dirty = s.dirty
        /\ t.held = s.held \cup {lock} /\ t.wanted = s.wanted \ {lock}
    BY <1>2, <2>1 DEF Session
  <2>3. ASSUME NEW w \in t.wanted PROVE Rank[lock[1]] < Rank[w[1]]
    <3>1. w \in s.wanted /\ w # lock /\ w \in Locks /\ lock \in Locks
      BY <1>2, <1>3, <2>2, <2>3 DEF Session
    <3>2. lock[1] # w[1] /\ "integration" \in {lock[1], w[1]} /\ FlushedBefore(lock, w)
      BY <1>2, <1>3, <3>1 DEF InOrder
    <3>3. lock[1] # "integration"
      <4>1. w[1] # "integration" => Mapper[w[1]] \in 0 .. 3
        BY <3>1, RankIs DEF Mapper
      <4>2. lock[1] = "integration" => Mapper[lock[1]] = 4
        BY <3>1, RankIs
      <4>3. lock[1] = "integration" => w[1] # "integration"
        BY <3>2
      <4>4. Mapper[lock[1]] < Mapper[w[1]] \/ Mapper[lock[1]] = Mapper[w[1]]
        BY <3>2 DEF FlushedBefore
      <4>. QED  BY <4>1, <4>2, <4>3, <4>4
    <3>. QED  BY <3>1, <3>2, <3>3, RankIs
  <2>4. \A h \in t.held, w \in t.wanted : Rank[h[1]] < Rank[w[1]]
    BY <1>2, <2>2, <2>3 DEF InOrder
  <2>5. \A v, w \in t.wanted : v # w => v[1] # w[1] /\ "integration" \in {v[1], w[1]}
    BY <1>2, <2>2 DEF InOrder
  <2>6. t.pc \notin {"checkKey", "findAlert"}
    BY <1>2, <1>3, <2>2 DEF SessionOK, Shape
  <2>7. t.pc # "commit" => t.dirty = {}
    BY <1>2, <2>2 DEF InOrder
  <2>8. t.pc \in {"insertEvent", "readAlert", "readMax"} =>
          \A l \in t.held \cup t.wanted : l[1] = "event"
    BY <1>2, <1>3, <2>2 DEF InOrder
  <2>9. InOrder(t)
    BY <2>4, <2>5, <2>6, <2>7, <2>8 DEF InOrder
  <2>10. call'[c] = t
    BY <1>1, <1>5, <2>1 DEF SetCall, Inv, TypeOK
  <2>. QED  BY <2>9, <2>10
<1>. QED  BY <1>4, <1>5 DEF Take
\* The statements of a call with one alert.
LEMMA StatementInOrder ==
    ASSUME Inv, NEW c \in Calls, Single(c), InOrder(call[c]),
           \/ CheckKey(c) \/ InsertEvent(c) \/ ReadAlert(c) \/ ReadMax(c)
           \/ InsertIncident(c) \/ FindAlert(c)
    PROVE  InOrder(call'[c])
<1>1. PICK s : s = call[c]
  OBVIOUS
<1>2. /\ s.pc \in Firing \cup Resolved /\ s.wanted = {}
  BY <1>1 DEF CheckKey, InsertEvent, ReadAlert, ReadMax, InsertIncident, FindAlert,
              At, Firing, Resolved
<1>3. /\ s \in Session /\ SessionOK(c, s) /\ InOrder(s)
      /\ s.pos \in DOMAIN Items[c] /\ s.pos \in Nat
  BY <1>1, <1>2, AtIs
<1>4. s.dirty = {}
  BY <1>2, <1>3 DEF InOrder, Firing, Resolved
<1>5. ASSUME NEW t, SetCall(c, t) PROVE call'[c] = t
  BY <1>5 DEF SetCall, Inv, TypeOK
\* It goes on to its COMMIT, with nothing to flush.
<1>6. ASSUME NEW u \in Session, u.pos = s.pos, u.dirty = {}, SetCall(c, NextItem(c, u))
      PROVE  InOrder(call'[c])
  <2>1. PICK t : t = NextItem(c, u)
    OBVIOUS
  <2>2. t.pc = "commit" /\ t.wanted = {}
    BY <1>3, <1>6, <2>1, OneItem
  <2>. QED  BY <1>5, <1>6, <2>1, <2>2, CommitInOrder
<1>7. CASE CheckKey(c)
  <2>1. CASE SetCall(c, NextItem(c, s))
    BY <1>3, <1>4, <1>6, <2>1
  <2>2. ASSUME NEW locks, locks = {KeyLock(KeyOf(Item(c)))} \ s.held,
               SetCall(c, [s EXCEPT !.pc = "insertEvent", !.wanted = locks])
        PROVE  InOrder(call'[c])
    <3>1. PICK t : t = [s EXCEPT !.pc = "insertEvent", !.wanted = locks]
      OBVIOUS
    <3>2. /\ t.pc = "insertEvent" /\ t.wanted = locks /\ t.held = s.held /\ t.dirty = s.dirty
      BY <1>3, <3>1 DEF Session
    <3>3. s.held = {}
      BY <1>1, <1>3, <1>7 DEF CheckKey, At, InOrder
    <3>4. t.wanted = {KeyLock(KeyOf(Item(c)))}
      BY <2>2, <3>2, <3>3
    <3>5. InOrder(t)
      BY <1>4, <3>2, <3>3, <3>4, KindsAre DEF InOrder
    <3>. QED  BY <1>5, <2>2, <3>1, <3>5
  <2>3. s.dirty \cup {KeyLock(KeyOf(Item(c)))} = {KeyLock(KeyOf(Item(c)))}
    BY <1>4
  <2>. QED  BY <1>1, <1>7, <2>1, <2>2, <2>3 DEF CheckKey, FlushLocks
<1>8. CASE InsertEvent(c)
  <2>1. PICK t : t = [s EXCEPT !.pc = "readAlert", !.dirty = {}, !.unflushed = EmptyTable,
                               !.written = Over(s.unflushed, s.written)]
    OBVIOUS
  <2>2. t.pc = "readAlert" /\ t.wanted = {} /\ t.held = s.held /\ t.dirty = {}
    BY <1>2, <1>3, <2>1 DEF Session
  <2>3. s.pc = "insertEvent"
    BY <1>1, <1>8 DEF InsertEvent, At
  <2>4. InOrder(t)
    BY <1>3, <2>2, <2>3 DEF InOrder
  <2>. QED  BY <1>1, <1>5, <1>8, <2>1, <2>4 DEF InsertEvent
<1>9. CASE ReadAlert(c)
  <2>1. s.pc = "readAlert" /\ s.pc \in Firing
    BY <1>1, <1>9 DEF ReadAlert, At, Firing
  <2>2. \A lock \in s.held : lock[1] = "event"
    BY <1>3, <2>1 DEF InOrder
  <2>3. ASSUME NEW n \in OpenVisible(c),
               SetCall(c, NextItem(c, [Joins(c, n) EXCEPT
                             !.dirty = @ \cup {AlertLock(n), IntegrationLock(c)}]))
        PROVE  InOrder(call'[c])
    <3>1. n \in Nat
      <4>1. n \in DOMAIN All(s)
        BY <1>1 DEF OpenVisible, Visible, All, Over
      <4>. QED  BY <1>3, <4>1, AllIsTable, TableIs DEF Inv
    <3>2. PICK j : j = Joins(c, n)
      OBVIOUS
    <3>3. j \in Session /\ j.pos = s.pos /\ j.held = s.held /\ j.dirty = s.dirty
      BY <1>1, <2>1, <3>1, <3>2, JoinsIs
    <3>4. PICK locks : locks = {AlertLock(n), IntegrationLock(c)}
      OBVIOUS
    <3>5. PICK u : u = [j EXCEPT !.dirty = locks]
      OBVIOUS
    <3>6. locks \in SUBSET Locks
      BY <3>1, <3>4, LocksAre
    <3>7. u \in Session /\ u.pos = s.pos /\ u.held = s.held /\ u.dirty = locks
      BY <3>3, <3>5, <3>6 DEF Session
    <3>8. SetCall(c, NextItem(c, u))
      <4>1. j.dirty \cup {AlertLock(n), IntegrationLock(c)} = locks
        BY <1>4, <3>3, <3>4
      <4>. QED  BY <2>3, <3>2, <3>5, <4>1
    <3>9. PICK t : t = NextItem(c, u)
      OBVIOUS
    <3>10. t.pc = "commit" /\ t.held = s.held /\ t.wanted = locks \ s.held
      BY <1>3, <3>7, <3>9, OneItem
    <3>11. \A h \in t.held, w \in t.wanted : Rank[h[1]] < Rank[w[1]]
      <4>1. \A w \in locks : Rank[w[1]] \in {2, 3}
        BY <3>4, KindsAre
      <4>2. \A h \in t.held : Rank[h[1]] = 1
        BY <2>2, <3>10, KindsAre
      <4>. QED  BY <3>10, <4>1, <4>2
    <3>12. \A v, w \in t.wanted : v # w => v[1] # w[1] /\ "integration" \in {v[1], w[1]}
      BY <3>4, <3>10, KindsAre
    <3>13. InOrder(t)
      BY <3>10, <3>11, <3>12, CommitInOrder
    <3>. QED  BY <1>5, <3>8, <3>9, <3>13
  <2>4. CASE SetCall(c, [call[c] EXCEPT !.pc = "readMax"])
    <3>1. PICK t : t = [s EXCEPT !.pc = "readMax"]
      OBVIOUS
    <3>2. t.pc = "readMax" /\ t.wanted = {} /\ t.held = s.held /\ t.dirty = s.dirty
      BY <1>2, <1>3, <3>1 DEF Session
    <3>3. InOrder(t)
      BY <1>3, <1>4, <2>2, <3>2 DEF InOrder
    <3>. QED  BY <1>1, <1>5, <2>4, <3>1, <3>3
  <2>. QED  BY <1>9, <2>3, <2>4 DEF ReadAlert
<1>10. CASE ReadMax(c)
  <2>1. s.pc = "readMax"
    BY <1>1, <1>10 DEF ReadMax, At
  <2>2. PICK n : SetCall(c, [s EXCEPT !.pc = "insertIncident", !.found = n,
                               !.wanted = FlushLocks(s, {NumberLock(n), IntegrationLock(c)})])
    BY <1>1, <1>10 DEF ReadMax
  <2>3. PICK locks : locks = {NumberLock(n), IntegrationLock(c)} \ s.held
    OBVIOUS
  <2>4. PICK t : t = [s EXCEPT !.pc = "insertIncident", !.found = n, !.wanted = locks]
    OBVIOUS
  <2>5. t.pc = "insertIncident" /\ t.wanted = locks /\ t.held = s.held /\ t.dirty = {}
    BY <1>3, <1>4, <2>4 DEF Session
  <2>6. \A h \in t.held, w \in t.wanted : Rank[h[1]] < Rank[w[1]]
    <3>1. \A w \in locks : Rank[w[1]] \in {2, 3}
      BY <2>3, KindsAre
    <3>2. \A h \in t.held : Rank[h[1]] = 1
      BY <1>3, <2>1, <2>5, KindsAre DEF InOrder
    <3>. QED  BY <2>5, <3>1, <3>2
  <2>7. \A v, w \in t.wanted : v # w => v[1] # w[1] /\ "integration" \in {v[1], w[1]}
    BY <2>3, <2>5, KindsAre
  <2>8. InOrder(t)
    BY <2>5, <2>6, <2>7 DEF InOrder
  <2>9. SetCall(c, t)
    BY <2>2, <2>3, <2>4 DEF FlushLocks
  <2>. QED  BY <1>5, <2>8, <2>9
<1>11. CASE InsertIncident(c)
  <2>1. s.pc \in Firing /\ s.pc = "insertIncident"
    BY <1>1, <1>11 DEF InsertIncident, At, Firing
  <2>2. PICK n, new : /\ n = s.found
                      /\ new = [fingerprint |-> Item(c).fingerprint,
                                service |-> ServiceFor(c, Item(c)),
                                open |-> TRUE, resolvedBy |-> "nobody"]
    OBVIOUS
  <2>3. n \in Nat /\ new \in Row
    BY <1>1, <1>2, <1>3, <2>2, AtIs, ItemIs DEF Session, Row
  <2>4. PICK j : j = Joins(c, n)
    OBVIOUS
  <2>5. j \in Session /\ j.pos = s.pos /\ j.dirty = s.dirty
    BY <1>1, <2>1, <2>3, <2>4, JoinsIs
  <2>6. Only(n, new) \in Table(Nat, Row)
    BY <2>3, OnlyIsTable
  <2>7. PICK u : u = [j EXCEPT !.unflushed = Only(n, new)]
    OBVIOUS
  <2>8. u \in Session /\ u.pos = s.pos /\ u.dirty = {}
    BY <1>4, <2>5, <2>6, <2>7 DEF Session
  <2>9. SetCall(c, NextItem(c, u))
    BY <1>1, <1>11, <2>2, <2>4, <2>7 DEF InsertIncident
  <2>. QED  BY <1>6, <2>8, <2>9
<1>12. CASE FindAlert(c)
  <2>1. s.pc = "findAlert" /\ s.held = {}
    BY <1>1, <1>3, <1>12 DEF FindAlert, At, InOrder
  <2>2. CASE SetCall(c, NextItem(c, s))
    BY <1>3, <1>4, <1>6, <2>2
  <2>3. ASSUME NEW n, SetCall(c, [s EXCEPT !.pc = "resolve", !.found = n,
                               !.wanted = {IncidentLock(n)} \cup FlushLocks(s, s.dirty)])
        PROVE  InOrder(call'[c])
    <3>1. PICK locks : locks = {IncidentLock(n)} \cup (s.dirty \ s.held)
      OBVIOUS
    <3>2. PICK t : t = [s EXCEPT !.pc = "resolve", !.found = n, !.wanted = locks]
      OBVIOUS
    <3>3. t.pc = "resolve" /\ t.wanted = locks /\ t.held = {} /\ t.dirty = {}
      BY <1>3, <1>4, <2>1, <3>2 DEF Session
    <3>4. locks = {IncidentLock(n)}
      BY <1>4, <3>1
    <3>5. InOrder(t)
      BY <3>3, <3>4 DEF InOrder
    <3>6. SetCall(c, t)
      BY <2>3, <3>1, <3>2 DEF FlushLocks
    <3>. QED  BY <1>5, <3>5, <3>6
  <2>. QED  BY <1>1, <1>12, <2>2, <2>3 DEF FindAlert
<1>. QED  BY <1>7, <1>8, <1>9, <1>10, <1>11, <1>12
\* The COMMITs of a call with one alert.
LEMMA CommitsInOrder ==
    ASSUME Inv, NEW c \in Calls, Single(c), Resolve(c) \/ Commit(c)
    PROVE  InOrder(call'[c])
<1>1. ASSUME NEW t, SetCall(c, t) PROVE call'[c] = t
  BY <1>1 DEF SetCall, Inv, TypeOK
<1>2. CASE Commit(c)
  <2>1. PICK t : t = NewSession("done")
    OBVIOUS
  <2>2. t.held = {} /\ t.wanted = {} /\ t.dirty = {}
    BY <2>1, FreshIsSession DEF Steps, Ended
  <2>. QED  BY <1>1, <1>2, <2>1, <2>2, EmptyInOrder DEF Commit
<1>3. CASE Resolve(c)
  <2>1. PICK s : s = call[c]
    OBVIOUS
  <2>2. s.pc = "resolve" /\ s.pc \in Resolved
    BY <1>3, <2>1 DEF Resolve, At, Resolved
  <2>3. s \in Session /\ s.pos \in DOMAIN Items[c] /\ s.pos \in Nat /\ SessionOK(c, s)
    BY <2>1, <2>2, AtIs
  <2>4. PICK n, row, shut :
          /\ n = s.found
          /\ row = [All(s)[n] EXCEPT !.resolvedBy = IF @ = "nobody" THEN "grafana" ELSE @]
          /\ shut = [row EXCEPT !.open = FALSE]
    OBVIOUS
  <2>5. n \in Nat /\ All(s)[n] \in Row
    <3>1. n \in DOMAIN All(s) /\ All(s) \in Table(Nat, Row)
      BY <2>2, <2>3, <2>4, AllIsTable DEF SessionOK, RowsOK, Inv
    <3>. QED  BY <3>1, TableIs
  <2>6. row \in Row
    BY <2>4, <2>5 DEF Row
  <2>7. shut \in Row
    BY <2>4, <2>6 DEF Row
  <2>8. PICK e, locks : e = NewSession("resolve") /\ locks = {AlertLock(n)}
    OBVIOUS
  <2>9. e \in Session /\ e.held = {}
    BY <2>8, FreshIsSession DEF Steps, Resolved
  <2>10. locks \in SUBSET Locks /\ Only(n, shut) \in Table(Nat, Row)
    BY <2>5, <2>7, <2>8, LocksAre, OnlyIsTable
  <2>11. PICK u : u = [e EXCEPT !.pos = s.pos, !.dirty = locks, !.unflushed = Only(n, shut)]
    OBVIOUS
  <2>12. u \in Session /\ u.pos = s.pos /\ u.held = {} /\ u.dirty = locks
    BY <2>3, <2>9, <2>10, <2>11 DEF Session
  <2>13. SetCall(c, NextItem(c, u))
    BY <1>3, <2>1, <2>4, <2>8, <2>11 DEF Resolve, All, Closed
  <2>14. PICK t : t = NextItem(c, u)
    OBVIOUS
  <2>15. t.pc = "commit" /\ t.held = {} /\ t.wanted = {AlertLock(n)}
    BY <2>3, <2>8, <2>12, <2>14, OneItem
  <2>16. InOrder(t)
    BY <2>15, CommitInOrder
  <2>. QED  BY <1>1, <2>13, <2>14, <2>16
<1>. QED  BY <1>2, <1>3

LEMMA PostInOrder ==
    ASSUME Inv, NEW c \in Calls, Post(c)
    PROVE  InOrder(call'[c])
<1>1. PICK u : u = NewSession("idle")
  OBVIOUS
<1>2. u \in Session /\ u.held = {} /\ u.wanted = {} /\ u.dirty = {}
  BY <1>1, FreshIsSession DEF Steps, Ended
<1>3. PICK t : t = NextItem(c, u)
  OBVIOUS
<1>4. t.held = {} /\ t.wanted = {} /\ t.dirty = {}
  BY <1>2, <1>3, NextItemIs
<1>5. call'[c] = t
  BY <1>1, <1>3 DEF Post, SetCall, Inv, TypeOK
<1>. QED  BY <1>4, <1>5, EmptyInOrder

LEMMA FailInOrder ==
    ASSUME Inv, NEW c \in Calls, Fail(c)
    PROVE  InOrder(call'[c])
<1>1. PICK t : t = NewSession("failed")
  OBVIOUS
<1>2. t.held = {} /\ t.wanted = {} /\ t.dirty = {}
  BY <1>1, FreshIsSession DEF Steps, Ended
<1>3. call'[c] = t
  BY <1>1 DEF Fail, SetCall, Inv, TypeOK
<1>. QED  BY <1>2, <1>3, EmptyInOrder

\* A step changes one session, if any.
LEMMA OneSession ==
    ASSUME Inv, NEW c \in Calls, Post(c) \/ Step(c) \/ AbortVictim(c) \/ Cut(c),
           NEW d \in Calls, d # c
    PROVE  call'[d] = call[d]
<1>1. \E t : SetCall(c, t)
  <2>1. CASE Post(c)
    BY <2>1 DEF Post
  <2>2. CASE Acquire(c)
    BY <2>2 DEF Acquire, Take, Fail
  <2>3. CASE CheckKey(c)
    BY <2>3 DEF CheckKey
  <2>4. CASE InsertEvent(c)
    BY <2>4 DEF InsertEvent
  <2>5. CASE ReadAlert(c)
    BY <2>5 DEF ReadAlert
  <2>6. CASE ReadMax(c)
    BY <2>6 DEF ReadMax
  <2>7. CASE InsertIncident(c)
    BY <2>7 DEF InsertIncident
  <2>8. CASE FindAlert(c)
    BY <2>8 DEF FindAlert
  <2>9. CASE Resolve(c)
    BY <2>9 DEF Resolve
  <2>10. CASE Commit(c)
    BY <2>10 DEF Commit
  <2>11. CASE AbortVictim(c) \/ Cut(c)
    BY <2>11 DEF AbortVictim, Cut, Fail
  <2>. QED
    BY <2>1, <2>2, <2>3, <2>4, <2>5, <2>6, <2>7, <2>8, <2>9, <2>10, <2>11 DEF Step
<1>. QED  BY <1>1 DEF SetCall, Inv, TypeOK

LEMMA OrderKeeps == Inv /\ OrderInv /\ [Next]_vars => OrderInv'
<1> SUFFICES ASSUME Inv, OrderInv, [Next]_vars, NEW c \in Calls, Single(c)
             PROVE  InOrder(call'[c])
  BY DEF OrderInv, Single
<1>1. InOrder(call[c])
  BY DEF OrderInv
<1>2. CASE call'[c] = call[c]
  BY <1>1, <1>2
<1>3. CASE Post(c) \/ Step(c) \/ AbortVictim(c) \/ Cut(c)
  <2>1. CASE Post(c)
    BY <2>1, PostInOrder
  <2>2. CASE Acquire(c)
    BY <1>1, <2>2, TakeInOrder DEF Acquire
  <2>3. CASE \/ CheckKey(c) \/ InsertEvent(c) \/ ReadAlert(c) \/ ReadMax(c)
             \/ InsertIncident(c) \/ FindAlert(c)
    BY <1>1, <2>3, StatementInOrder
  <2>4. CASE Resolve(c) \/ Commit(c)
    BY <2>4, CommitsInOrder
  <2>5. CASE AbortVictim(c) \/ Cut(c)
    BY <2>5, FailInOrder DEF AbortVictim, Cut
  <2>. QED  BY <1>3, <2>1, <2>2, <2>3, <2>4, <2>5 DEF Step
<1>4. ASSUME NEW d \in Calls, d # c, Post(d) \/ Step(d) \/ AbortVictim(d) \/ Cut(d)
      PROVE  call'[c] = call[c]
  BY <1>4, OneSession
<1>5. ASSUME NEW n, OperatorResolves(n) PROVE call'[c] = call[c]
  BY <1>5 DEF OperatorResolves
<1>6. CASE UNCHANGED vars
  BY <1>2, <1>6 DEF vars
<1>. QED  BY <1>2, <1>3, <1>4, <1>5, <1>6 DEF Next

LEMMA OrderInvariant == Spec => [](Inv /\ OrderInv)
<1>1. Init => OrderInv
  <2> SUFFICES ASSUME Init, NEW c \in Calls PROVE InOrder(call[c])
    BY DEF OrderInv
  <2>1. PICK t : t = NewSession("idle")
    OBVIOUS
  <2>2. t.held = {} /\ t.wanted = {} /\ t.dirty = {}
    BY <2>1, FreshIsSession DEF Steps, Ended
  <2>. QED  BY <2>1, <2>2, EmptyInOrder DEF Init
<1>. QED  BY <1>1, Initially, Keeps, OrderKeeps, PTL DEF Spec

\* Calls with one alert each never wait for each other in a circle: whoever one
\* of them waits for waits for a lock of a higher rank, and there are three.
THEOREM DeadlocksNeedBatches == Spec => []DeadlockNeedsBatch
<1>1. Inv /\ OrderInv => DeadlockNeedsBatch
  <2> SUFFICES ASSUME Inv, OrderInv, NEW S \in SUBSET Calls, Deadlocked(S),
                      \A c \in S : Single(c)
               PROVE  FALSE
    BY ItemsAre DEF DeadlockNeedsBatch, Single
  <2>1. ASSUME NEW c \in S
        PROVE  \E d \in S : \E lock \in call[c].wanted :
                 lock \in call[d].held /\ Rank[lock[1]] \in 1 .. 3
    <3>1. PICK d \in Blockers(c) : TRUE
      BY DEF Deadlocked
    <3>2. d \in S
      BY <3>1 DEF Deadlocked
    <3>3. PICK lock \in First(c) : lock \in call[d].held
      BY <3>1 DEF Blockers, Holder
    <3>4. lock \in Locks
      BY <3>3, CallIs DEF First, Inv, Session
    <3>. QED  BY <3>2, <3>3, <3>4, RankIs DEF First
  <2>2. ASSUME NEW c \in S, NEW h \in call[c].held, NEW w \in call[c].wanted
        PROVE  Rank[h[1]] < Rank[w[1]]
    BY DEF OrderInv, InOrder
  <2>3. PICK c1 \in S : TRUE
    BY DEF Deadlocked
  <2>4. PICK c2 \in S : \E lock \in call[c1].wanted :
                          lock \in call[c2].held /\ Rank[lock[1]] \in 1 .. 3
    BY <2>1
  <2>5. PICK l1 \in call[c2].held : Rank[l1[1]] \in 1 .. 3
    BY <2>4
  <2>6. PICK c3 \in S : \E lock \in call[c2].wanted :
                          lock \in call[c3].held /\ Rank[lock[1]] \in 1 .. 3
    BY <2>1
  <2>7. PICK l2 \in call[c2].wanted : l2 \in call[c3].held /\ Rank[l2[1]] \in 1 .. 3
    BY <2>6
  <2>8. PICK c4 \in S : \E lock \in call[c3].wanted :
                          lock \in call[c4].held /\ Rank[lock[1]] \in 1 .. 3
    BY <2>1
  <2>9. PICK l3 \in call[c3].wanted : l3 \in call[c4].held /\ Rank[l3[1]] \in 1 .. 3
    BY <2>8
  <2>10. PICK l4 \in call[c4].wanted : Rank[l4[1]] \in 1 .. 3
    BY <2>1
  <2>11. Rank[l1[1]] < Rank[l2[1]] /\ Rank[l2[1]] < Rank[l3[1]] /\ Rank[l3[1]] < Rank[l4[1]]
    BY <2>2, <2>5, <2>7, <2>9, <2>10
  <2>. QED  BY <2>5, <2>7, <2>9, <2>10, <2>11
<1>. QED  BY <1>1, OrderInvariant, PTL
=============================================================================
