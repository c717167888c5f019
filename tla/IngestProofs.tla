---------------------------- MODULE IngestProofs ----------------------------
(***************************************************************************)
(* Proofs about Ingest, for any set of requests, keys and integrations,    *)
(* any interleaving of their statements and any number of faults.          *)
(***************************************************************************)
EXTENDS IngestSerial, FiniteSetTheorems, TLAPS

LEMMA GreatestOfInterval ==
    ASSUME NEW n \in Nat
    PROVE  Greatest(1 .. n) = n
<1>1. /\ n \in 1 .. n \cup {0}
      /\ \A m \in 1 .. n : m <= n
  OBVIOUS
<1>2. ASSUME NEW k \in 1 .. n \cup {0}, \A m \in 1 .. n : m <= k
      PROVE  k = n
  BY <1>1, <1>2
<1>. QED  BY <1>1, <1>2 DEF Greatest

LEMMA MaxIs ==
    ASSUME NEW n \in Nat, Numbers = 1 .. n
    PROVE  MaxNumber = n
BY GreatestOfInterval DEF MaxNumber

-----------------------------------------------------------------------------
(***************************************************************************)
(* Type correctness.                                                       *)
(***************************************************************************)
USE DEF Goto, Numbers

ViewType == [Requests -> [alert : Nat, count : Nat, max : Nat]]

\* A request that leaves the tables alone moves to another step, and what it
\* has read keeps its type.
LEMMA QuietStepType ==
    ASSUME TypeOK, UNCHANGED <<events, alerts>>,
           NEW r \in Requests, NEW step \in Steps, Goto(r, step),
           view' \in ViewType, faults' \in Nat
    PROVE  TypeOK'
BY DEF TypeOK, ViewType

LEMMA TypeInit == Init => TypeOK
BY IngestAssumption DEF Init, TypeOK, NoView, Steps

LEMMA SendType ==
    ASSUME TypeOK, NEW r \in Requests, Send(r)
    PROVE  TypeOK'
<1>1. view' \in ViewType
  BY DEF Send, NoView, TypeOK, ViewType
<1>2. "insertEvent" \in Steps /\ "checkKey" \in Steps
  BY DEF Steps
<1>. QED  BY <1>1, <1>2, QuietStepType DEF Send, TypeOK

LEMMA LocalStepType ==
    ASSUME TypeOK, NEW r \in Requests,
           \/ CheckKey(r) \/ InsertEvent(r) \/ InsertIncident(r) \/ Cut(r)
    PROVE  TypeOK'
<1>1. {"done", "insertEvent", "failed", "readAlert", "commit"} \subseteq Steps
  BY DEF Steps
<1>2. view' \in ViewType /\ faults' \in Nat
  BY DEF CheckKey, InsertEvent, InsertIncident, Cut, TypeOK, ViewType
<1>3. \E step \in Steps : Goto(r, step)
  BY <1>1 DEF CheckKey, InsertEvent, InsertIncident, Cut
<1>. QED  BY <1>2, <1>3, QuietStepType DEF CheckKey, InsertEvent, InsertIncident, Cut

LEMMA ReadAlertType ==
    ASSUME TypeOK, NEW r \in Requests, ReadAlert(r)
    PROVE  TypeOK'
<1>1. ASSUME NEW n \in Matches(r),
             view' = [view EXCEPT ![r].alert = n, ![r].count = alerts[n].count]
      PROVE  view' \in ViewType
  <2>1. n \in Nat /\ alerts[n].count \in Nat
    BY DEF TypeOK, Matches, OpenAlerts, AlertRow
  <2>. QED  BY <1>1, <2>1 DEF TypeOK, ViewType
<1>2. view' \in ViewType
  BY <1>1 DEF ReadAlert, TypeOK, ViewType
<1>3. "bump" \in Steps /\ "readMax" \in Steps
  BY DEF Steps
<1>. QED  BY <1>2, <1>3, QuietStepType DEF ReadAlert, TypeOK

LEMMA ReadMaxType ==
    ASSUME TypeOK, NumbersDense, NEW r \in Requests, ReadMax(r)
    PROVE  TypeOK'
<1>1. MaxNumber \in Nat
  <2>1. PICK n \in Numbers \cup {0} : Numbers = 1 .. n
    BY DEF NumbersDense
  <2>. QED  BY <2>1, MaxIs DEF TypeOK
<1>2. view' \in ViewType
  BY <1>1 DEF ReadMax, TypeOK, ViewType
<1>3. "insertIncident" \in Steps
  BY DEF Steps
<1>. QED  BY <1>2, <1>3, QuietStepType DEF ReadMax, TypeOK

\* A committed event row, and the tables after it.
LEMMA EventsType ==
    ASSUME TypeOK, NEW r \in Requests, NEW n \in Nat,
           events' = Put(events, KeyOf[r], [dedup |-> DedupOf[r], alert |-> n])
    PROVE  /\ DOMAIN events' = DOMAIN events \cup {KeyOf[r]}
           /\ DOMAIN events' \subseteq Keys
           /\ events'[KeyOf[r]] = [dedup |-> DedupOf[r], alert |-> n]
           /\ \A k \in DOMAIN events : k # KeyOf[r] => events'[k] = events[k]
           /\ \A k \in DOMAIN events' : events'[k] \in EventRow
           /\ events' = [k \in DOMAIN events' |-> events'[k]]
<1>1. KeyOf[r] \in Keys /\ [dedup |-> DedupOf[r], alert |-> n] \in EventRow
  BY IngestAssumption DEF EventRow
<1>2. /\ DOMAIN events \subseteq Keys
      /\ \A k \in DOMAIN events : events[k] \in EventRow
  BY DEF TypeOK
<1>3. /\ DOMAIN events' \subseteq Keys
      /\ \A k \in DOMAIN events' : events'[k] \in EventRow
  BY <1>1, <1>2 DEF Put
<1>4. /\ DOMAIN events' = DOMAIN events \cup {KeyOf[r]}
      /\ events'[KeyOf[r]] = [dedup |-> DedupOf[r], alert |-> n]
      /\ \A k \in DOMAIN events : k # KeyOf[r] => events'[k] = events[k]
  BY DEF Put
<1>5. events' = [k \in DOMAIN events' |-> events'[k]]
  BY DEF Put
<1>. QED  BY <1>3, <1>4, <1>5

LEMMA BumpType ==
    ASSUME TypeOK, NEW r \in Requests, Bump(r)
    PROVE  TypeOK'
<1>1. view[r].alert \in Nat /\ CountAfter(r) \in Nat
  BY DEF TypeOK, CountAfter
<1>2. /\ DOMAIN alerts' = Numbers
      /\ \A n \in Numbers : alerts'[n] \in AlertRow
      /\ alerts' = [n \in DOMAIN alerts' |-> alerts'[n]]
  BY <1>1 DEF Bump, TypeOK, AlertRow
<1>3. "done" \in Steps
  BY DEF Steps
<1>4. pc' \in [Requests -> Steps]
  BY <1>3 DEF Bump, TypeOK
<1>. QED  BY <1>1, <1>2, <1>4, EventsType DEF Bump, TypeOK

LEMMA CommitType ==
    ASSUME TypeOK, NEW r \in Requests, Commit(r)
    PROVE  TypeOK'
<1>1. NextNumber(r) \in Nat /\ NewAlert(r) \in AlertRow
  BY IngestAssumption DEF TypeOK, NextNumber, NewAlert, AlertRow
<1>2. alerts' = Put(alerts, NextNumber(r), NewAlert(r))
  BY DEF Commit
<1>5. Numbers \subseteq Nat /\ \A n \in Numbers : alerts[n] \in AlertRow
  BY DEF TypeOK
<1>7. /\ DOMAIN alerts' \subseteq Nat
      /\ \A n \in DOMAIN alerts' : alerts'[n] \in AlertRow
  BY <1>1, <1>2, <1>5 DEF Put
<1>6. alerts' = [n \in DOMAIN alerts' |-> alerts'[n]]
  BY <1>2 DEF Put
<1>3. "done" \in Steps
  BY DEF Steps
<1>4. pc' \in [Requests -> Steps]
  BY <1>3 DEF Commit, TypeOK
<1>. QED  BY <1>1, <1>4, <1>6, <1>7, EventsType DEF Commit, TypeOK

LEMMA CloseAlertType ==
    ASSUME TypeOK, NEW n \in Numbers, CloseAlert(n)
    PROVE  TypeOK'
<1>1. /\ DOMAIN alerts' = Numbers
      /\ \A m \in Numbers : alerts'[m] \in AlertRow
      /\ alerts' = [m \in DOMAIN alerts' |-> alerts'[m]]
  BY DEF CloseAlert, TypeOK, AlertRow
<1>. QED  BY <1>1 DEF CloseAlert, TypeOK

-----------------------------------------------------------------------------
(***************************************************************************)
(* Dense numbers.  A request about to commit its incident holds the number *)
(* after the largest committed one, and no two requests hold the same      *)
(* number: so at most one request is there, and while it is, the committed *)
(* numbers do not change.                                                  *)
(***************************************************************************)
HolderInv ==
    /\ \A r \in Requests :
         pc[r] \in {"insertIncident", "commit"} => view[r].max \in Numbers \cup {0}
    /\ \A r \in Requests : pc[r] = "commit" => Numbers = 1 .. view[r].max
    /\ \A r, s \in Requests : pc[r] = "commit" /\ pc[s] = "commit" => r = s

NumberInv == TypeOK /\ NumbersDense /\ HolderInv

LEMMA NumberInvInit == Init => NumberInv
<1> SUFFICES ASSUME Init PROVE NumberInv
  OBVIOUS
<1>1. Numbers = {} /\ {} = 1 .. 0
  BY DEF Init
<1>2. NumbersDense
  BY <1>1 DEF NumbersDense
<1>3. HolderInv
  BY DEF Init, HolderInv
<1>. QED  BY <1>2, <1>3, TypeInit DEF NumberInv

LEMMA NumbersInterval ==
    ASSUME NumberInv
    PROVE  \E n \in Nat : Numbers = 1 .. n /\ MaxNumber = n
<1>1. PICK n \in Numbers \cup {0} : Numbers = 1 .. n
  BY DEF NumberInv, NumbersDense
<1>. QED  BY <1>1, MaxIs DEF NumberInv, TypeOK

\* The steps that keep the set of numbers, and bring no request to the end.
LEMMA QuietStepNumber ==
    ASSUME NumberInv, DOMAIN alerts' = Numbers, NEW r \in Requests,
           UNCHANGED view, NEW step, Goto(r, step),
           step \notin {"insertIncident", "commit"}
    PROVE  NumbersDense' /\ HolderInv'
BY DEF NumberInv, NumbersDense, HolderInv, TypeOK

LEMMA LocalStepNumber ==
    ASSUME NumberInv, NEW r \in Requests,
           CheckKey(r) \/ InsertEvent(r) \/ Bump(r) \/ Cut(r)
    PROVE  NumbersDense' /\ HolderInv'
<1>1. \E step : Goto(r, step) /\ step \notin {"insertIncident", "commit"}
  BY DEF CheckKey, InsertEvent, Bump, Cut
<1>2. UNCHANGED view /\ DOMAIN alerts' = Numbers
  BY DEF CheckKey, InsertEvent, Bump, Cut, NumberInv, TypeOK
<1>. QED  BY <1>1, <1>2, QuietStepNumber

LEMMA SendNumber ==
    ASSUME NumberInv, NEW r \in Requests, Send(r)
    PROVE  NumbersDense' /\ HolderInv'
<1>1. /\ pc'[r] \notin {"insertIncident", "commit"}
      /\ \A s \in Requests \ {r} : pc'[s] = pc[s] /\ view'[s] = view[s]
      /\ alerts' = alerts
  BY DEF Send, NumberInv, TypeOK
<1>. QED  BY <1>1 DEF NumberInv, NumbersDense, HolderInv

LEMMA ReadAlertNumber ==
    ASSUME NumberInv, NEW r \in Requests, ReadAlert(r)
    PROVE  NumbersDense' /\ HolderInv'
<1>1. /\ pc'[r] \notin {"insertIncident", "commit"}
      /\ \A s \in Requests \ {r} : pc'[s] = pc[s] /\ view'[s] = view[s]
      /\ alerts' = alerts
  BY DEF ReadAlert, NumberInv, TypeOK
<1>. QED  BY <1>1 DEF NumberInv, NumbersDense, HolderInv

LEMMA ReadMaxNumber ==
    ASSUME NumberInv, NEW r \in Requests, ReadMax(r)
    PROVE  NumbersDense' /\ HolderInv'
<1>1. PICK n \in Nat : Numbers = 1 .. n /\ MaxNumber = n
  BY NumbersInterval
<1>2. /\ pc'[r] = "insertIncident" /\ view'[r].max = n
      /\ \A s \in Requests \ {r} : pc'[s] = pc[s] /\ view'[s] = view[s]
      /\ alerts' = alerts
  BY <1>1 DEF ReadMax, NumberInv, TypeOK
<1>3. n \in Numbers \cup {0}
  BY <1>1
<1>. QED  BY <1>2, <1>3 DEF NumberInv, NumbersDense, HolderInv

LEMMA InsertIncidentNumber ==
    ASSUME NumberInv, NEW r \in Requests, InsertIncident(r)
    PROVE  NumbersDense' /\ HolderInv'
<1>1. PICK n \in Nat : Numbers = 1 .. n /\ MaxNumber = n
  BY NumbersInterval
<1>2. /\ pc'[r] \in {"failed", "commit"}
      /\ \A s \in Requests \ {r} : pc'[s] = pc[s]
      /\ alerts' = alerts /\ view' = view
  BY DEF InsertIncident, NumberInv, TypeOK
<1>3. \A s \in Requests : view[s].max \in Nat
  BY DEF NumberInv, TypeOK
<1>4. pc'[r] = "commit" => view[r].max = n
  <2>1. pc'[r] = "commit" => view[r].max + 1 \notin 1 .. n
    BY <1>1 DEF InsertIncident, NumberTaken, NextNumber, NumberInv, TypeOK
  <2>2. view[r].max \in 1 .. n \cup {0}
    BY <1>1 DEF NumberInv, HolderInv, InsertIncident
  <2>. QED  BY <1>1, <2>1, <2>2
<1>5. \A s \in Requests : pc[s] = "commit" => view[s].max = n
  <2>1. \A s \in Requests : pc[s] = "commit" => 1 .. n = 1 .. view[s].max
    BY <1>1 DEF NumberInv, HolderInv
  <2>. QED  BY <1>1, <1>3, <2>1, GreatestOfInterval
<1>6. pc'[r] = "commit" => \A s \in Requests \ {r} : pc[s] # "commit"
  BY <1>3, <1>4, <1>5 DEF InsertIncident, NumberBusy, NextNumber
<1>. QED  BY <1>1, <1>2, <1>4, <1>6 DEF NumberInv, NumbersDense, HolderInv

LEMMA CommitNumber ==
    ASSUME NumberInv, NEW r \in Requests, Commit(r)
    PROVE  /\ NumbersDense' /\ HolderInv'
           /\ NextNumber(r) \notin Numbers
<1>1. view[r].max \in Nat /\ Numbers = 1 .. view[r].max
  BY DEF NumberInv, HolderInv, TypeOK, Commit
<1>2. DOMAIN alerts' = 1 .. NextNumber(r) /\ NextNumber(r) \notin Numbers
  BY <1>1 DEF Commit, Put, NextNumber
<1>3. NumbersDense'
  BY <1>1, <1>2 DEF NumbersDense, NextNumber
<1>4. /\ pc'[r] = "done" /\ view' = view
      /\ \A s \in Requests \ {r} : pc'[s] = pc[s] /\ pc[s] # "commit"
  BY DEF Commit, NumberInv, HolderInv, TypeOK
<1>5. Numbers \subseteq DOMAIN alerts'
  BY DEF Commit, Put
<1>. QED  BY <1>2, <1>3, <1>4, <1>5 DEF NumberInv, HolderInv

LEMMA NumberInvNext == NumberInv /\ [Next]_vars => NumberInv'
<1> SUFFICES ASSUME NumberInv, [Next]_vars PROVE NumberInv'
  OBVIOUS
<1>0. TypeOK /\ NumbersDense
  BY DEF NumberInv
<1>1. ASSUME NEW r \in Requests, Send(r) PROVE NumberInv'
  BY <1>0, <1>1, SendType, SendNumber DEF NumberInv
<1>2. ASSUME NEW r \in Requests, CheckKey(r) \/ InsertEvent(r) \/ Cut(r) PROVE NumberInv'
  BY <1>0, <1>2, LocalStepType, LocalStepNumber DEF NumberInv
<1>3. ASSUME NEW r \in Requests, ReadAlert(r) PROVE NumberInv'
  BY <1>0, <1>3, ReadAlertType, ReadAlertNumber DEF NumberInv
<1>4. ASSUME NEW r \in Requests, Bump(r) PROVE NumberInv'
  BY <1>0, <1>4, BumpType, LocalStepNumber DEF NumberInv
<1>5. ASSUME NEW r \in Requests, ReadMax(r) PROVE NumberInv'
  BY <1>0, <1>5, ReadMaxType, ReadMaxNumber DEF NumberInv
<1>6. ASSUME NEW r \in Requests, InsertIncident(r) PROVE NumberInv'
  BY <1>0, <1>6, LocalStepType, InsertIncidentNumber DEF NumberInv
<1>7. ASSUME NEW r \in Requests, Commit(r) PROVE NumberInv'
  BY <1>0, <1>7, CommitType, CommitNumber DEF NumberInv
<1>8. ASSUME NEW n \in Numbers, CloseAlert(n) PROVE NumberInv'
  <2>1. DOMAIN alerts' = Numbers /\ UNCHANGED <<pc, view>>
    BY <1>8 DEF CloseAlert
  <2>2. NumbersDense' /\ HolderInv'
    BY <2>1 DEF NumberInv, NumbersDense, HolderInv
  <2>. QED  BY <1>0, <1>8, <2>2, CloseAlertType DEF NumberInv
<1>9. CASE UNCHANGED vars
  BY <1>9 DEF NumberInv, TypeOK, NumbersDense, HolderInv, vars
<1>. QED
  BY <1>1, <1>2, <1>3, <1>4, <1>5, <1>6, <1>7, <1>8, <1>9 DEF Next, Step

LEMMA NumberInvariant == Spec => []NumberInv
<1>. QED  BY NumberInvInit, NumberInvNext, PTL DEF Spec

\* Every variable keeps its type, whatever the requests do.
THEOREM TypeCorrect == Spec => []TypeOK
<1>1. NumberInv => TypeOK
  BY DEF NumberInv
<1>. QED  BY <1>1, NumberInvariant, PTL

\* Incident numbers are 1, 2, 3, ... without gap or repetition: racing requests
\* and rollbacks of the MAX + 1 scheme lose requests, never numbers.
THEOREM NumbersAreDense == Spec => []NumbersDense
<1>1. NumberInv => NumbersDense
  BY DEF NumberInv
<1>. QED  BY <1>1, NumberInvariant, PTL

-----------------------------------------------------------------------------
(***************************************************************************)
(* Events are accounted for.  A request that holds an uncommitted event    *)
(* holds its key alone, and the key is not committed: so its COMMIT adds an*)
(* event and never replaces one.                                           *)
(***************************************************************************)
KeyInv ==
    /\ \A r \in Requests : pc[r] \in HasEvent => KeyOf[r] \notin DOMAIN events
    /\ \A r, s \in Requests :
         /\ pc[r] \in HasEvent /\ pc[s] \in HasEvent
         /\ KeyOf[r] = KeyOf[s]
         => r = s

TargetInv ==
    \A r \in Requests :
        pc[r] = "bump" =>
            view[r].alert \in Numbers /\ alerts[view[r].alert].dedup = DedupOf[r]

AccountInv ==
    NumberInv /\ KeyInv /\ TargetInv /\ EventsAccounted /\ AnsweredIsRecorded

AccountParts == KeyInv /\ TargetInv /\ EventsAccounted /\ AnsweredIsRecorded

LEMMA AccountInvInit == Init => AccountInv
<1> SUFFICES ASSUME Init PROVE AccountInv
  OBVIOUS
<1>1. KeyInv /\ TargetInv /\ AnsweredIsRecorded
  BY DEF Init, KeyInv, TargetInv, AnsweredIsRecorded, HasEvent
<1>2. EventsAccounted
  BY DEF Init, EventsAccounted
<1>. QED  BY <1>1, <1>2, NumberInvInit DEF AccountInv

\* A request that leaves the tables alone keeps the accounts, when it enters
\* the steps with an event, the deduplication and "done" only as it may.
LEMMA QuietStepAccount ==
    ASSUME AccountInv, UNCHANGED <<events, alerts>>, NEW r \in Requests,
           \A s \in Requests \ {r} : pc'[s] = pc[s] /\ view'[s] = view[s],
           pc'[r] \in HasEvent /\ pc[r] \notin HasEvent
               => KeyOf[r] \notin DOMAIN events /\ ~KeyBusy(r),
           pc'[r] = "bump" =>
               /\ view'[r].alert \in Numbers
               /\ alerts[view'[r].alert].dedup = DedupOf[r],
           pc'[r] = "done" => KeyOf[r] \in DOMAIN events
    PROVE  AccountParts'
<1>1. KeyInv'
  BY DEF AccountInv, KeyInv, KeyBusy
<1>2. TargetInv'
  BY DEF AccountInv, TargetInv
<1>3. EventsAccounted'
  BY DEF AccountInv, EventsAccounted
<1>4. AnsweredIsRecorded'
  BY DEF AccountInv, AnsweredIsRecorded
<1>. QED  BY <1>1, <1>2, <1>3, <1>4 DEF AccountParts

LEMMA LocalStepAccount ==
    ASSUME AccountInv, NEW r \in Requests,
           Send(r) \/ CheckKey(r) \/ ReadMax(r) \/ InsertIncident(r) \/ Cut(r)
    PROVE  AccountParts'
<1>1. \A s \in Requests \ {r} : pc'[s] = pc[s] /\ view'[s] = view[s]
  BY DEF Send, CheckKey, ReadMax, InsertIncident, Cut, AccountInv, NumberInv, TypeOK
<1>2. pc'[r] \in HasEvent => pc[r] \in HasEvent
  BY DEF Send, CheckKey, ReadMax, InsertIncident, Cut, AccountInv, NumberInv,
         TypeOK, HasEvent
<1>3. pc'[r] # "bump" /\ (pc'[r] = "done" => KeyOf[r] \in DOMAIN events)
  BY DEF Send, CheckKey, ReadMax, InsertIncident, Cut, AccountInv, NumberInv,
         TypeOK, KeyTaken
<1>4. UNCHANGED <<events, alerts>>
  BY DEF Send, CheckKey, ReadMax, InsertIncident, Cut
<1>. QED  BY <1>1, <1>2, <1>3, <1>4, QuietStepAccount

LEMMA InsertEventAccount ==
    ASSUME AccountInv, NEW r \in Requests, InsertEvent(r)
    PROVE  AccountParts'
<1>1. \A s \in Requests \ {r} : pc'[s] = pc[s] /\ view'[s] = view[s]
  BY DEF InsertEvent, AccountInv, NumberInv, TypeOK
<1>2. /\ pc'[r] \in {"failed", "readAlert"}
      /\ pc'[r] = "readAlert" => KeyOf[r] \notin DOMAIN events /\ ~KeyBusy(r)
      /\ UNCHANGED <<events, alerts>>
  BY DEF InsertEvent, AccountInv, NumberInv, TypeOK, KeyTaken
<1>3. "failed" \notin HasEvent
  BY DEF HasEvent
<1>. QED  BY <1>1, <1>2, <1>3, QuietStepAccount

LEMMA ReadAlertAccount ==
    ASSUME AccountInv, NEW r \in Requests, ReadAlert(r)
    PROVE  AccountParts'
<1>1. /\ \A s \in Requests \ {r} : pc'[s] = pc[s] /\ view'[s] = view[s]
      /\ pc'[r] # "done" /\ UNCHANGED <<events, alerts>>
      /\ pc[r] \in HasEvent
  BY DEF ReadAlert, AccountInv, NumberInv, TypeOK, HasEvent
<1>2. ASSUME pc'[r] = "bump"
      PROVE  view'[r].alert \in Matches(r)
  <2>1. r \in DOMAIN pc /\ view \in ViewType
    BY DEF AccountInv, NumberInv, TypeOK, ViewType
  <2>2. PICK n \in Matches(r) :
          view' = [view EXCEPT ![r].alert = n, ![r].count = alerts[n].count]
    <3>1. \/ \E n \in Matches(r) :
               view' = [view EXCEPT ![r].alert = n, ![r].count = alerts[n].count]
          \/ Goto(r, "readMax")
      BY DEF ReadAlert
    <3>2. ~Goto(r, "readMax")
      BY <1>2, <2>1
    <3>. QED  BY <3>1, <3>2
  <2>3. view'[r] = [view[r] EXCEPT !.alert = n, !.count = alerts[n].count]
    BY <2>1, <2>2 DEF ViewType
  <2>4. view'[r].alert = n
    BY <2>1, <2>3 DEF ViewType
  <2>. QED  BY <2>4
<1>3. pc'[r] = "bump" =>
        view'[r].alert \in Numbers /\ alerts[view'[r].alert].dedup = DedupOf[r]
  BY <1>2 DEF Matches, OpenAlerts
<1>. QED  BY <1>1, <1>3, QuietStepAccount

\* What one COMMIT does to events: it adds the request's event, in alert n.
LEMMA EventAdded ==
    ASSUME AccountInv, NEW r \in Requests, pc[r] \in HasEvent, NEW n,
           events' = Put(events, KeyOf[r], [dedup |-> DedupOf[r], alert |-> n])
    PROVE  /\ KeyOf[r] \notin DOMAIN events
           /\ DOMAIN events' = DOMAIN events \cup {KeyOf[r]}
           /\ events'[KeyOf[r]] = [dedup |-> DedupOf[r], alert |-> n]
           /\ \A k \in DOMAIN events : events'[k] = events[k]
<1>1. KeyOf[r] \notin DOMAIN events
  BY DEF AccountInv, KeyInv
<1>. QED  BY <1>1 DEF Put

LEMMA DoneKey ==
    ASSUME AccountInv, NEW r \in Requests, pc[r] \in HasEvent, Goto(r, "done"),
           DOMAIN events' = DOMAIN events \cup {KeyOf[r]}
    PROVE  KeyInv' /\ AnsweredIsRecorded'
<1>1. /\ pc'[r] = "done" /\ "done" \notin HasEvent
      /\ \A s \in Requests \ {r} : pc'[s] = pc[s]
  BY DEF AccountInv, NumberInv, TypeOK, HasEvent
<1>2. KeyInv'
  BY <1>1 DEF AccountInv, KeyInv
<1>3. AnsweredIsRecorded'
  BY <1>1 DEF AccountInv, AnsweredIsRecorded
<1>. QED  BY <1>2, <1>3

LEMMA BumpAccount ==
    ASSUME AccountInv, NEW r \in Requests, Bump(r)
    PROVE  AccountParts'
<1>1. pc[r] \in HasEvent
  BY DEF Bump, HasEvent
<1> DEFINE n == view[r].alert
<1>2. n \in Numbers /\ alerts[n].dedup = DedupOf[r]
  BY DEF Bump, AccountInv, TargetInv
<1>3. /\ DOMAIN alerts' = Numbers
      /\ \A m \in Numbers : /\ alerts'[m].dedup = alerts[m].dedup
                            /\ alerts'[m].first = alerts[m].first
  BY DEF Bump, AccountInv, NumberInv, TypeOK, AlertRow
<1>4. /\ KeyOf[r] \notin DOMAIN events
      /\ DOMAIN events' = DOMAIN events \cup {KeyOf[r]}
      /\ events'[KeyOf[r]] = [dedup |-> DedupOf[r], alert |-> n]
      /\ \A k \in DOMAIN events : events'[k] = events[k]
  BY <1>1, EventAdded DEF Bump
<1>5. KeyInv' /\ AnsweredIsRecorded'
  BY <1>1, <1>4, DoneKey DEF Bump
<1>6. TargetInv'
  BY <1>3 DEF Bump, AccountInv, NumberInv, TypeOK, TargetInv
<1>7. EventsAccounted'
  BY <1>2, <1>3, <1>4 DEF AccountInv, EventsAccounted
<1>. QED  BY <1>5, <1>6, <1>7 DEF AccountParts

LEMMA CommitAccount ==
    ASSUME AccountInv, NEW r \in Requests, Commit(r)
    PROVE  AccountParts'
<1>1. pc[r] \in HasEvent
  BY DEF Commit, HasEvent
<1> DEFINE n == NextNumber(r)
<1>2. n \notin Numbers
  BY CommitNumber DEF AccountInv
<1>3. /\ DOMAIN alerts' = Numbers \cup {n}
      /\ \A m \in Numbers : alerts'[m] = alerts[m]
      /\ alerts'[n] = NewAlert(r)
  BY <1>2 DEF Commit, Put
<1>4. /\ KeyOf[r] \notin DOMAIN events
      /\ DOMAIN events' = DOMAIN events \cup {KeyOf[r]}
      /\ events'[KeyOf[r]] = [dedup |-> DedupOf[r], alert |-> n]
      /\ \A k \in DOMAIN events : events'[k] = events[k]
  BY <1>1, EventAdded DEF Commit
<1>5. KeyInv' /\ AnsweredIsRecorded'
  BY <1>1, <1>4, DoneKey DEF Commit
<1>6. TargetInv'
  BY <1>3 DEF Commit, AccountInv, NumberInv, TypeOK, TargetInv
<1>7. EventsAccounted'
  BY <1>2, <1>3, <1>4 DEF AccountInv, EventsAccounted, NewAlert
<1>. QED  BY <1>5, <1>6, <1>7 DEF AccountParts

LEMMA CloseAlertAccount ==
    ASSUME AccountInv, NEW n \in Numbers, CloseAlert(n)
    PROVE  AccountParts'
<1>1. /\ DOMAIN alerts' = Numbers
      /\ \A m \in Numbers : /\ alerts'[m].dedup = alerts[m].dedup
                            /\ alerts'[m].first = alerts[m].first
      /\ UNCHANGED <<events, pc, view>>
  BY DEF CloseAlert, AccountInv, NumberInv, TypeOK, AlertRow
<1>2. KeyInv' /\ AnsweredIsRecorded'
  BY <1>1 DEF AccountInv, KeyInv, AnsweredIsRecorded
<1>3. TargetInv'
  BY <1>1 DEF AccountInv, TargetInv
<1>4. EventsAccounted'
  BY <1>1 DEF AccountInv, EventsAccounted
<1>. QED  BY <1>2, <1>3, <1>4 DEF AccountParts

LEMMA AccountInvNext == AccountInv /\ [Next]_vars => AccountInv'
<1> SUFFICES ASSUME AccountInv, [Next]_vars PROVE AccountParts'
  BY NumberInvNext DEF AccountInv, AccountParts
<1>1. ASSUME NEW r \in Requests,
             Send(r) \/ CheckKey(r) \/ ReadMax(r) \/ InsertIncident(r) \/ Cut(r)
      PROVE  AccountParts'
  BY <1>1, LocalStepAccount
<1>2. ASSUME NEW r \in Requests, InsertEvent(r) PROVE AccountParts'
  BY <1>2, InsertEventAccount
<1>3. ASSUME NEW r \in Requests, ReadAlert(r) PROVE AccountParts'
  BY <1>3, ReadAlertAccount
<1>4. ASSUME NEW r \in Requests, Bump(r) PROVE AccountParts'
  BY <1>4, BumpAccount
<1>5. ASSUME NEW r \in Requests, Commit(r) PROVE AccountParts'
  BY <1>5, CommitAccount
<1>6. ASSUME NEW n \in Numbers, CloseAlert(n) PROVE AccountParts'
  BY <1>6, CloseAlertAccount
<1>7. CASE UNCHANGED vars
  BY <1>7 DEF AccountInv, AccountParts, KeyInv, TargetInv, EventsAccounted,
              AnsweredIsRecorded, vars
<1>. QED
  BY <1>1, <1>2, <1>3, <1>4, <1>5, <1>6, <1>7 DEF Next, Step

LEMMA AccountInvariant == Spec => []AccountInv
<1>. QED  BY AccountInvInit, AccountInvNext, PTL DEF Spec

\* Every accepted event is in exactly one alert, of its own service and dedup
\* key, every alert was opened by a recorded event, and a request answered with
\* success has its event recorded.
THEOREM NothingIsLostOrStray == Spec => []NothingLostOrStray
<1>1. AccountInv => NothingLostOrStray
  BY DEF AccountInv, NothingLostOrStray
<1>. QED  BY <1>1, AccountInvariant, PTL

\* However often a request is sent again, a recorded event is never recorded
\* or counted a second time.
THEOREM IngestIsIdempotent == Spec => Idempotent
<1> DEFINE Kept == \A k \in DOMAIN events : k \in DOMAIN events' /\ events'[k] = events[k]
<1>1. ASSUME AccountInv, [Next]_vars PROVE Kept
  <2>1. ASSUME NEW r \in Requests, Bump(r) PROVE Kept
    <3>1. pc[r] \in HasEvent
      BY <2>1 DEF Bump, HasEvent
    <3>. QED  BY <1>1, <2>1, <3>1, EventAdded DEF Bump
  <2>2. ASSUME NEW r \in Requests, Commit(r) PROVE Kept
    <3>1. pc[r] \in HasEvent
      BY <2>2 DEF Commit, HasEvent
    <3>. QED  BY <1>1, <2>2, <3>1, EventAdded DEF Commit
  <2>3. CASE UNCHANGED events
    BY <2>3
  <2>. QED
    BY <1>1, <2>1, <2>2, <2>3 DEF Next, Step, Send, CheckKey, InsertEvent, ReadAlert,
       ReadMax, InsertIncident, Cut, CloseAlert, vars
<1>. QED  BY <1>1, AccountInvariant, PTL DEF Spec, Idempotent
-----------------------------------------------------------------------------
(***************************************************************************)
(* Counts.  What a request has read of an alert's event_count was true when*)
(* it was read, and an alert only ever takes in more events: so the count  *)
(* the request writes back, one more than it read, is at most what the     *)
(* alert holds once the request's own event is among them - which is new.  *)
(***************************************************************************)
Counted(n) == {k \in DOMAIN events : events[k].alert = n}

CountInv ==
    /\ IsFiniteSet(DOMAIN events)
    /\ \A n \in Numbers : alerts[n].count \in 1 .. Cardinality(Counted(n))
    /\ \A r \in Requests :
         pc[r] = "bump" => view[r].count \in 1 .. Cardinality(Counted(view[r].alert))

LEMMA CountInvInit == Init => CountInv
BY FS_EmptySet DEF Init, CountInv

LEMMA CountedSize ==
    ASSUME CountInv, NEW n
    PROVE  IsFiniteSet(Counted(n)) /\ Cardinality(Counted(n)) \in Nat
<1>1. IsFiniteSet(DOMAIN events) /\ Counted(n) \in SUBSET DOMAIN events
  BY DEF CountInv, Counted
<1>2. IsFiniteSet(Counted(n))
  BY <1>1, FS_Subset
<1>. QED  BY <1>2, FS_CardinalityType

\* The event of a COMMIT makes its alert hold one more, and no alert fewer.
LEMMA OneMore ==
    ASSUME AccountInv, CountInv, NEW r \in Requests, pc[r] \in HasEvent, NEW a,
           events' = Put(events, KeyOf[r], [dedup |-> DedupOf[r], alert |-> a])
    PROVE  /\ IsFiniteSet(DOMAIN events')
           /\ Cardinality(Counted(a)') = Cardinality(Counted(a)) + 1
           /\ \A n : n # a => Cardinality(Counted(n)') = Cardinality(Counted(n))
<1>1. /\ KeyOf[r] \notin DOMAIN events
      /\ DOMAIN events' = DOMAIN events \cup {KeyOf[r]}
      /\ events'[KeyOf[r]] = [dedup |-> DedupOf[r], alert |-> a]
      /\ \A k \in DOMAIN events : events'[k] = events[k]
  BY EventAdded
<1>2. IsFiniteSet(DOMAIN events)
  BY DEF CountInv
<1>3. IsFiniteSet(DOMAIN events')
  BY <1>1, <1>2, FS_AddElement
<1>4. Counted(a)' = Counted(a) \cup {KeyOf[r]} /\ KeyOf[r] \notin Counted(a)
  BY <1>1 DEF Counted
<1>5. IsFiniteSet(Counted(a))
  BY CountedSize
<1>6. Cardinality(Counted(a)') = Cardinality(Counted(a)) + 1
  BY <1>4, <1>5, FS_AddElement
<1>7. \A n : n # a => Counted(n)' = Counted(n)
  BY <1>1 DEF Counted
<1>. QED  BY <1>3, <1>6, <1>7

\* The steps that leave the tables alone and read no count.
LEMMA QuietStepCount ==
    ASSUME AccountInv, CountInv, UNCHANGED <<events, alerts>>, NEW r \in Requests,
           \A s \in Requests \ {r} : pc'[s] = pc[s] /\ view'[s] = view[s],
           pc'[r] = "bump" =>
               view'[r].count \in 1 .. Cardinality(Counted(view'[r].alert))
    PROVE  CountInv'
<1>1. \A n : Counted(n)' = Counted(n)
  BY DEF Counted
<1>2. ASSUME NEW s \in Requests, pc'[s] = "bump"
      PROVE  view'[s].count \in 1 .. Cardinality(Counted(view'[s].alert))
  BY <1>2 DEF CountInv
<1>3. ASSUME NEW s \in Requests, pc'[s] = "bump"
      PROVE  view'[s].count \in 1 .. Cardinality(Counted(view[s].alert)')
  BY <1>1, <1>2, <1>3 DEF Counted
<1>. QED  BY <1>1, <1>3 DEF CountInv

LEMMA LocalStepCount ==
    ASSUME AccountInv, CountInv, NEW r \in Requests,
           \/ Send(r) \/ CheckKey(r) \/ InsertEvent(r) \/ ReadMax(r)
           \/ InsertIncident(r) \/ Cut(r)
    PROVE  CountInv'
<1>1. \A s \in Requests \ {r} : pc'[s] = pc[s] /\ view'[s] = view[s]
  BY DEF Send, CheckKey, InsertEvent, ReadMax, InsertIncident, Cut, AccountInv,
         NumberInv, TypeOK
<1>2. pc'[r] # "bump"
  BY DEF Send, CheckKey, InsertEvent, ReadMax, InsertIncident, Cut, AccountInv,
         NumberInv, TypeOK
<1>3. UNCHANGED <<events, alerts>>
  BY DEF Send, CheckKey, InsertEvent, ReadMax, InsertIncident, Cut
<1>. QED  BY <1>1, <1>2, <1>3, QuietStepCount

LEMMA ReadAlertCount ==
    ASSUME AccountInv, CountInv, NEW r \in Requests, ReadAlert(r)
    PROVE  CountInv'
<1>1. /\ \A s \in Requests \ {r} : pc'[s] = pc[s] /\ view'[s] = view[s]
      /\ UNCHANGED <<events, alerts>>
  BY DEF ReadAlert, AccountInv, NumberInv, TypeOK
<1>2. ASSUME pc'[r] = "bump"
      PROVE  view'[r].count \in 1 .. Cardinality(Counted(view'[r].alert))
  <2>1. r \in DOMAIN pc /\ view \in ViewType
    BY DEF AccountInv, NumberInv, TypeOK, ViewType
  <2>2. PICK n \in Matches(r) :
          view' = [view EXCEPT ![r].alert = n, ![r].count = alerts[n].count]
    <3>1. \/ \E n \in Matches(r) :
               view' = [view EXCEPT ![r].alert = n, ![r].count = alerts[n].count]
          \/ Goto(r, "readMax")
      BY DEF ReadAlert
    <3>2. ~Goto(r, "readMax")
      BY <1>2, <2>1
    <3>. QED  BY <3>1, <3>2
  <2>3. view'[r].alert = n /\ view'[r].count = alerts[n].count
    BY <2>1, <2>2 DEF ViewType
  <2>4. n \in Numbers
    BY DEF Matches, OpenAlerts
  <2>. QED  BY <2>3, <2>4 DEF CountInv
<1>. QED  BY <1>1, <1>2, QuietStepCount

LEMMA BumpCount ==
    ASSUME AccountInv, CountInv, NEW r \in Requests, Bump(r)
    PROVE  CountInv'
<1>1. PICK a : a = view[r].alert
  OBVIOUS
<1>2. pc[r] \in HasEvent /\ pc[r] = "bump" /\ a \in Numbers
  BY <1>1 DEF Bump, HasEvent, AccountInv, TargetInv
<1>3. /\ IsFiniteSet(DOMAIN events')
      /\ Cardinality(Counted(a)') = Cardinality(Counted(a)) + 1
      /\ \A n : n # a => Cardinality(Counted(n)') = Cardinality(Counted(n))
  BY <1>1, <1>2, OneMore DEF Bump
<1>4. \A n : Cardinality(Counted(n)) \in Nat
  BY CountedSize
<1>5. \A n : Cardinality(Counted(n)) <= Cardinality(Counted(n)')
  BY <1>3, <1>4
<1>6. view[r].count \in 1 .. Cardinality(Counted(a))
  BY <1>1, <1>2 DEF CountInv
<1>7. /\ DOMAIN alerts' = Numbers
      /\ alerts'[a].count = view[r].count + 1
      /\ \A n \in Numbers : n # a => alerts'[n] = alerts[n]
  BY <1>1, <1>2 DEF Bump, CountAfter, AccountInv, NumberInv, TypeOK, AlertRow
<1>8. \A n \in Numbers : alerts'[n].count \in 1 .. Cardinality(Counted(n)')
  BY <1>3, <1>4, <1>6, <1>7 DEF CountInv
<1>9. ASSUME NEW s \in Requests, pc'[s] = "bump"
      PROVE  view'[s].count \in 1 .. Cardinality(Counted(view[s].alert)')
  <2>1. pc[s] = "bump" /\ view' = view
    BY <1>9 DEF Bump, AccountInv, NumberInv, TypeOK
  <2>2. PICK b : b = view[s].alert
    OBVIOUS
  <2>3. view[s].count \in 1 .. Cardinality(Counted(b))
    BY <2>1, <2>2 DEF CountInv
  <2>4. view[s].count \in 1 .. Cardinality(Counted(b)')
    BY <1>3, <1>4, <2>3
  <2>5. view'[s].alert = b
    BY <2>1, <2>2
  <2>6. Counted(view[s].alert)' = Counted(b)'
    BY <2>5 DEF Counted
  <2>. QED  BY <2>1, <2>4, <2>6
<1>. QED  BY <1>3, <1>7, <1>8, <1>9 DEF CountInv

LEMMA CommitCount ==
    ASSUME AccountInv, CountInv, NEW r \in Requests, Commit(r)
    PROVE  CountInv'
<1>1. PICK a : a = NextNumber(r)
  OBVIOUS
<1>2. pc[r] \in HasEvent /\ a \notin Numbers
  BY <1>1, CommitNumber DEF Commit, HasEvent, AccountInv
<1>3. /\ IsFiniteSet(DOMAIN events')
      /\ Cardinality(Counted(a)') = Cardinality(Counted(a)) + 1
      /\ \A n : n # a => Cardinality(Counted(n)') = Cardinality(Counted(n))
  BY <1>1, <1>2, OneMore DEF Commit
<1>4. \A n : Cardinality(Counted(n)) \in Nat
  BY CountedSize
<1>5. /\ DOMAIN alerts' = Numbers \cup {a}
      /\ alerts'[a] = NewAlert(r)
      /\ \A n \in Numbers : alerts'[n] = alerts[n]
  BY <1>1, <1>2 DEF Commit, Put
<1>6. \A n \in DOMAIN alerts' : alerts'[n].count \in 1 .. Cardinality(Counted(n)')
  BY <1>2, <1>3, <1>4, <1>5 DEF CountInv, NewAlert
<1>7. ASSUME NEW s \in Requests, pc'[s] = "bump"
      PROVE  view'[s].count \in 1 .. Cardinality(Counted(view[s].alert)')
  <2>1. pc[s] = "bump" /\ view' = view
    BY <1>7 DEF Commit, AccountInv, NumberInv, TypeOK
  <2>2. PICK b : b = view[s].alert
    OBVIOUS
  <2>3. view[s].count \in 1 .. Cardinality(Counted(b))
    BY <2>1, <2>2 DEF CountInv
  <2>4. view[s].count \in 1 .. Cardinality(Counted(b)')
    BY <1>3, <1>4, <2>3
  <2>5. view'[s].alert = b
    BY <2>1, <2>2
  <2>6. Counted(view[s].alert)' = Counted(b)'
    BY <2>5 DEF Counted
  <2>. QED  BY <2>1, <2>4, <2>6
<1>. QED  BY <1>3, <1>6, <1>7 DEF CountInv

LEMMA CloseAlertCount ==
    ASSUME AccountInv, CountInv, NEW n \in Numbers, CloseAlert(n)
    PROVE  CountInv'
<1>1. /\ DOMAIN alerts' = Numbers
      /\ \A m \in Numbers : alerts'[m].count = alerts[m].count
      /\ UNCHANGED <<events, pc, view>>
  BY DEF CloseAlert, AccountInv, NumberInv, TypeOK, AlertRow
<1>2. \A m : Counted(m)' = Counted(m)
  BY <1>1 DEF Counted
<1>. QED  BY <1>1, <1>2 DEF CountInv

LEMMA CountInvNext == AccountInv /\ CountInv /\ [Next]_vars => CountInv'
<1> SUFFICES ASSUME AccountInv, CountInv, [Next]_vars PROVE CountInv'
  OBVIOUS
<1>1. ASSUME NEW r \in Requests,
             \/ Send(r) \/ CheckKey(r) \/ InsertEvent(r) \/ ReadMax(r)
             \/ InsertIncident(r) \/ Cut(r)
      PROVE  CountInv'
  BY <1>1, LocalStepCount
<1>2. ASSUME NEW r \in Requests, ReadAlert(r) PROVE CountInv'
  BY <1>2, ReadAlertCount
<1>3. ASSUME NEW r \in Requests, Bump(r) PROVE CountInv'
  BY <1>3, BumpCount
<1>4. ASSUME NEW r \in Requests, Commit(r) PROVE CountInv'
  BY <1>4, CommitCount
<1>5. ASSUME NEW n \in Numbers, CloseAlert(n) PROVE CountInv'
  BY <1>5, CloseAlertCount
<1>6. CASE UNCHANGED vars
  BY <1>6 DEF CountInv, Counted, vars
<1>. QED
  BY <1>1, <1>2, <1>3, <1>4, <1>5, <1>6 DEF Next, Step

\* However requests race for an alert, its event_count is never more than the
\* events it took in, and at least 1.
THEOREM CountsAreNeverInflated == Spec => []CountNeverInflated
<1>1. AccountInv /\ CountInv => CountNeverInflated
  BY DEF CountInv, Counted, CountNeverInflated
<1>2. Spec => []CountInv
  BY AccountInvariant, CountInvInit, CountInvNext, PTL DEF Spec
<1>. QED  BY <1>1, <1>2, AccountInvariant, PTL
-----------------------------------------------------------------------------
(***************************************************************************)
(* Ingestion without overlap implements IngestContract.  Between its first *)
(* query and its COMMIT nothing happens but the request's own steps, so    *)
(* what it has read is still true when it writes: the alert it found is    *)
(* open and has the count it read, or there still is none.                 *)
(***************************************************************************)
ReadIsTrue ==
    \A r \in Requests :
        /\ pc[r] = "bump" => /\ view[r].alert \in Matches(r)
                             /\ view[r].count = alerts[view[r].alert].count
        /\ pc[r] \in {"readMax", "insertIncident", "commit"} => Matches(r) = {}

OneInFlight == \A r, s \in Requests : InFlight(r) /\ InFlight(s) => r = s

SerialInv == OneInFlight /\ ReadIsTrue

LEMMA SerialIsIngest == SerialNext => Next
BY DEF SerialNext, Next

LEMMA SerialInvInit == Init => SerialInv
BY DEF Init, SerialInv, OneInFlight, ReadIsTrue, InFlight, HasEvent

\* While a request acts alone the others are not in flight, and stay so.
LEMMA OthersAreIdle ==
    ASSUME SerialInv, NEW r \in Requests, Alone(r),
           \A s \in Requests \ {r} : pc'[s] = pc[s],
           /\ pc'[r] = "bump" => /\ view'[r].alert \in Matches(r)'
                                 /\ view'[r].count = alerts'[view'[r].alert].count
           /\ pc'[r] \in {"readMax", "insertIncident", "commit"} => Matches(r)' = {}
    PROVE  SerialInv'
<1>1. \A s \in Requests \ {r} : /\ ~InFlight(s)'
                                /\ pc'[s] \notin {"bump", "readMax", "insertIncident", "commit"}
  BY DEF Alone, InFlight, HasEvent
<1>2. OneInFlight'
  BY <1>1 DEF OneInFlight
<1>3. ASSUME NEW s \in Requests
      PROVE  /\ pc'[s] = "bump" => /\ view'[s].alert \in Matches(s)'
                                   /\ view'[s].count = alerts'[view'[s].alert].count
             /\ pc'[s] \in {"readMax", "insertIncident", "commit"} => Matches(s)' = {}
  BY <1>1
<1>4. ReadIsTrue'
  BY <1>3 DEF ReadIsTrue
<1>. QED  BY <1>2, <1>4 DEF SerialInv

LEMMA SerialInvNext == AccountInv /\ SerialInv /\ [SerialNext]_vars => SerialInv'
<1> SUFFICES ASSUME AccountInv, SerialInv, [SerialNext]_vars PROVE SerialInv'
  OBVIOUS
<1>1. ASSUME NEW r \in Requests, Alone(r),
             Send(r) \/ CheckKey(r) \/ InsertEvent(r) \/ Bump(r) \/ Commit(r) \/ Cut(r)
      PROVE  SerialInv'
  <2>1. /\ \A s \in Requests \ {r} : pc'[s] = pc[s]
        /\ pc'[r] \notin {"bump", "readMax", "insertIncident", "commit"}
    BY <1>1 DEF Send, CheckKey, InsertEvent, Bump, Commit, Cut, AccountInv, NumberInv, TypeOK
  <2>. QED  BY <1>1, <2>1, OthersAreIdle
<1>2. ASSUME NEW r \in Requests, Alone(r), ReadAlert(r)
      PROVE  SerialInv'
  <2>1. /\ \A s \in Requests \ {r} : pc'[s] = pc[s]
        /\ UNCHANGED alerts /\ pc'[r] \in {"bump", "readMax"}
        /\ r \in DOMAIN pc /\ view \in ViewType
    BY <1>2 DEF ReadAlert, AccountInv, NumberInv, TypeOK, ViewType
  <2>2. Matches(r)' = Matches(r)
    BY <2>1 DEF Matches, OpenAlerts
  <2>3. CASE Matches(r) = {} /\ Goto(r, "readMax")
    BY <1>2, <2>1, <2>2, <2>3, OthersAreIdle
  <2>4. ASSUME NEW n \in Matches(r), Goto(r, "bump"),
               view' = [view EXCEPT ![r].alert = n, ![r].count = alerts[n].count]
        PROVE  SerialInv'
    <3>1. pc'[r] = "bump" /\ view'[r].alert = n /\ view'[r].count = alerts[n].count
      BY <2>1, <2>4 DEF ViewType
    <3>. QED  BY <1>2, <2>1, <2>2, <3>1, OthersAreIdle
  <2>. QED  BY <1>2, <2>3, <2>4 DEF ReadAlert
<1>3. ASSUME NEW r \in Requests, Alone(r), ReadMax(r) \/ InsertIncident(r)
      PROVE  SerialInv'
  <2>1. /\ \A s \in Requests \ {r} : pc'[s] = pc[s]
        /\ UNCHANGED alerts /\ pc'[r] # "bump"
        /\ pc[r] \in {"readMax", "insertIncident"}
    BY <1>3 DEF ReadMax, InsertIncident, AccountInv, NumberInv, TypeOK
  <2>2. Matches(r)' = {}
    BY <2>1 DEF Matches, OpenAlerts, SerialInv, ReadIsTrue
  <2>. QED  BY <1>3, <2>1, <2>2, OthersAreIdle
<1>4. ASSUME \A r \in Requests : ~InFlight(r), NEW n \in Numbers, CloseAlert(n)
      PROVE  SerialInv'
  <2>1. /\ pc' = pc
        /\ \A r \in Requests :
             pc[r] \notin {"bump", "readMax", "insertIncident", "commit"}
    BY <1>4 DEF InFlight, HasEvent, CloseAlert
  <2>. QED  BY <2>1 DEF SerialInv, OneInFlight, ReadIsTrue, InFlight
<1>5. CASE UNCHANGED vars
  BY <1>5 DEF SerialInv, OneInFlight, ReadIsTrue, InFlight, Matches, OpenAlerts, vars
<1>. QED
  BY <1>1, <1>2, <1>3, <1>4, <1>5 DEF SerialNext, Step

\* One COMMIT is one operation of the contract, and nothing else shows.
LEMMA SerialStep ==
    ASSUME AccountInv, SerialInv, [SerialNext]_vars
    PROVE  [Contract!Next]_<<events, alerts>>
<1>1. ASSUME NEW r \in Requests, Bump(r)
      PROVE  Contract!Next
  <2>1. PICK n : n = view[r].alert
    OBVIOUS
  <2>2. /\ n \in Numbers /\ alerts[n].dedup = DedupOf[r] /\ alerts[n].open
        /\ view[r].count = alerts[n].count
    BY <1>1, <2>1 DEF Bump, SerialInv, ReadIsTrue, Matches, OpenAlerts
  <2>3. KeyOf[r] \in Keys /\ DedupOf[r] \in Dedups /\ KeyOf[r] \notin DOMAIN events
    BY <1>1, IngestAssumption DEF Bump, AccountInv, KeyInv, HasEvent
  <2>4. /\ alerts' = [alerts EXCEPT ![n].count = alerts[n].count + 1]
        /\ events' = Put(events, KeyOf[r], [dedup |-> DedupOf[r], alert |-> n])
    BY <1>1, <2>1, <2>2 DEF Bump, CountAfter
  <2>5. n \in Contract!Opened(DedupOf[r])
    BY <2>2 DEF Contract!Opened
  <2>6. events' = Contract!Add(events, KeyOf[r], [dedup |-> DedupOf[r], alert |-> n])
    BY <2>4 DEF Put, Contract!Add
  <2>7. Contract!Absorb(KeyOf[r], DedupOf[r], n)
    BY <2>3, <2>4, <2>5, <2>6 DEF Contract!Absorb
  <2>. QED  BY <2>2, <2>3, <2>7 DEF Contract!Next
<1>2. ASSUME NEW r \in Requests, Commit(r)
      PROVE  Contract!Next
  <2>1. PICK n : n = NextNumber(r)
    OBVIOUS
  <2>2. KeyOf[r] \in Keys /\ DedupOf[r] \in Dedups /\ KeyOf[r] \notin DOMAIN events
    BY <1>2, IngestAssumption DEF Commit, AccountInv, KeyInv, HasEvent
  <2>3. Contract!Opened(DedupOf[r]) = {}
    BY <1>2 DEF Commit, SerialInv, ReadIsTrue, Matches, OpenAlerts, Contract!Opened
  <2>4. Contract!NextFree(n)
    <3>1. Numbers = 1 .. view[r].max /\ view[r].max \in Nat
      BY <1>2 DEF Commit, AccountInv, NumberInv, HolderInv, TypeOK
    <3>2. n - 1 = view[r].max
      BY <2>1, <3>1 DEF NextNumber
    <3>. QED  BY <3>1, <3>2 DEF Contract!NextFree
  <2>5. /\ alerts' = Put(alerts, n, NewAlert(r))
        /\ events' = Put(events, KeyOf[r], [dedup |-> DedupOf[r], alert |-> n])
    BY <1>2, <2>1 DEF Commit
  <2>6. Contract!Open(KeyOf[r], DedupOf[r], n)
    BY <2>2, <2>3, <2>4, <2>5 DEF Contract!Open, Contract!Add, Put, NewAlert
  <2>7. n \in DOMAIN alerts'
    BY <2>5 DEF Put
  <2>. QED  BY <2>2, <2>6, <2>7 DEF Contract!Next
<1>3. ASSUME NEW n \in Numbers, CloseAlert(n)
      PROVE  Contract!Next
  <2>1. Contract!Close(n)
    BY <1>3 DEF CloseAlert, Contract!Close
  <2>. QED  BY <2>1 DEF Contract!Next
<1>4. CASE UNCHANGED <<events, alerts>>
  BY <1>4
<1>. QED
  BY <1>1, <1>2, <1>3, <1>4 DEF SerialNext, Step, Send, CheckKey, InsertEvent, ReadAlert,
     ReadMax, InsertIncident, Cut, vars

\* One request after the other, ingestion is the contract: every step is one
\* atomic operation of it, or invisible.
THEOREM SerialImplementsTheContract == SerialSpec => SerialIsAtomic
<1>1. Init => Contract!Init
  BY DEF Init, Contract!Init
<1>2. [SerialNext]_vars => [Next]_vars
  BY SerialIsIngest
<1>3. SerialSpec => [](AccountInv /\ SerialInv)
  BY <1>2, AccountInvInit, AccountInvNext, SerialInvInit, SerialInvNext, PTL DEF SerialSpec
<1>4. AccountInv /\ SerialInv /\ [SerialNext]_vars => [Contract!Next]_<<events, alerts>>
  BY SerialStep
<1>. QED  BY <1>1, <1>3, <1>4, PTL DEF SerialSpec, SerialIsAtomic, Contract!Spec
=============================================================================
